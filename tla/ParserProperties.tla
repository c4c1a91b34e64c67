--------------------------- MODULE ParserProperties ---------------------------
(***************************************************************************)
(* What 2/solution.c relies on when it feeds what read() returned and      *)
(* executes the lines it gets.                                             *)
(***************************************************************************)
EXTENDS Parser

\* What pops return for bytes that are fed at once, until one returns nothing.
AllPopped(bytes) ==
    LET after[i \in 1 .. Len(bytes) + 1] ==
            LET g == Line(Rest(bytes, i - 1)) IN
            CASE g.phase = "ended" -> <<Returned(g)>> \o after[i + g.used]
              [] g.phase = "aborted" -> <<Returned(g)>>
              [] OTHER -> <<>>
    IN after[1]

\* The buffer holds the end of what was fed, and no word of a line is empty
\* (token_strdup, lines 36-37).
TypeOK ==
    /\ fed \in Seq(Alphabet) /\ Len(fed) <= MaxFed
    /\ IsSuffix(buffer, fed)
    /\ \A i \in DOMAIN popped :
         popped[i].line # <<>> =>
           \A j \in DOMAIN popped[i].line[1] : <<>> \notin Range(popped[i].line[1][j].words)

\* However the bytes are cut into chunks and whenever lines are popped, the
\* lines and errors are those of all the bytes fed at once: what was returned is
\* never taken back by a later byte, and what is left in the buffer is read as if
\* it came first (parse_token returns 0 at the end of the buffer, line 284).
ChunksDoNotMatter ==
    popped \o (IF Running THEN AllPopped(buffer) ELSE <<>>) = AllPopped(fed)

\* A line to execute is commands with one operator between any two of them:
\* execute_command_line takes line->head for a command and looks for a pipe right
\* after one (2/solution.c:101-102, 125); it has an exe and no argument without a
\* byte (TypeOK).
LinesAlternate == TypeOK /\
    \A i \in DOMAIN popped : popped[i].line # <<>> =>
        LET exprs == popped[i].line[1] IN
        /\ Len(exprs) % 2 = 1
        /\ \A j \in DOMAIN exprs : (exprs[j].type = "COMMAND") <=> (j % 2 = 1)

\* A pop takes one line from the buffer, be it right or wrong: of what it consumes
\* the last token, and no other one after a word or an operator, ends a line: an
\* error skips "the whole current line" (line 412) and not the next.  A redirect
\* with a bad argument (lines 379-382) is the exception, where the new line may be
\* the bad argument and the next line is skipped with it.
PopTakesOneLine ==
    [][ (popped' # popped /\ Last(popped').error \notin {"ABORT", "OUTOUT_REDIRECT_BAD_ARG"}) =>
        LET toks == Tokens(SubSeq(buffer, 1, Len(buffer) - Len(buffer')))
            Ends == {i \in DOMAIN toks : toks[i].type = "NEW_LINE"}
        IN  \A i \in DOMAIN toks : i \in Ends <=> (i = Len(toks) \/ 1 .. i \subseteq Ends) ]_vars
=============================================================================
