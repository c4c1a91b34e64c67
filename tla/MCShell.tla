------------------------------- MODULE MCShell --------------------------------
EXTENDS ShellProperties
Line(kinds, ops, out) ==
    [cmds |-> [i \in DOMAIN kinds |->
        [kind |-> kinds[i], op |-> IF i = Len(kinds) THEN "END" ELSE ops[i]]],
     out |-> out]
LinesOf(kinds, n, ops, outs) ==
    {Line(k, o, f) : k \in [1 .. n -> kinds], o \in [1 .. n - 1 -> ops], f \in outs}
\* Every line of one or two commands, and longer pipelines and lists.
LineCases ==
    UNION {LinesOf(Kinds, n, {"PIPE", "AND", "OR"}, Outs) : n \in 1 .. 2}
        \cup LinesOf({"plain", "source", "filter", "cd", "exit"}, 3, {"PIPE", "OR"}, {"stdout", "file"})
        \cup LinesOf({"source", "filter"}, 4, {"PIPE", "OR"}, {"stdout", "file"})
SecondPipeline == LinesOf({"plain", "filter"}, 4, {"PIPE", "AND"}, {"stdout", "file"})
=============================================================================
