---------------------------- MODULE ShellProperties ----------------------------
(***************************************************************************)
(* What a line's commands may expect of the shell, and the shell of a      *)
(* line.  Where the code falls short of it, a named premise on the line    *)
(* says for which lines.                                                   *)
(***************************************************************************)
EXTENDS Shell

Op(i) == line.cmds[i].op
Kind(i) == line.cmds[i].kind
AfterPipe(i) == i > 1 /\ Op(i - 1) = "PIPE"
Builtin(i) == Kind(i) \in {"cd", "badcd"} \/ line.cmds[i] = [kind |-> "exit", op |-> "END"]

\* Every program can be executed: otherwise the child goes on as a shell, line 166.
AllFound == \A i \in DOMAIN line.cmds : Kind(i) # "missing"
\* What runs in the shell itself has no pipe: lines 109-134 neither close the ends
\* of a pipe to it nor hand on those of a pipe from it.
BuiltinsApart == \A i \in DOMAIN line.cmds : Builtin(i) => Op(i) # "PIPE" /\ ~AfterPipe(i)
\* No pipeline follows one that has ended: pipe_stdin keeps a descriptor that is
\* closed (line 170) and that the next pipe() returns again (line 103).
OnePipeline ==
    \A i, j \in DOMAIN line.cmds : AfterPipe(i) /\ Op(i) # "PIPE" /\ j > i => Op(j) # "PIPE"
\* No command is to be left out: programs fail here (their status is not 0) and a cd
\* succeeds.  The code runs those as well that && and || leave out (lines 182-185),
\* against 2/tests.txt:126, "$> false && echo 123", which prints nothing.
AllUsed ==
    \A i \in DOMAIN line.cmds :
        /\ Op(i) = "AND" => Kind(i) = "cd"
        /\ Op(i) = "OR" => Kind(i) # "cd"
Sound == AllFound /\ BuiltinsApart /\ OnePipeline

Ends(fd) == {end \in Range(fd) : end[1] \in {"read", "write"}}
\* The pipe between command i and the next is this one of the line's.
PipeOf(i) == Cardinality({j \in 1 .. i : Op(j) = "PIPE"})

-----------------------------------------------------------------------------

\* The types of the variables: every end of a pipe held is one of a pipe that was
\* made, and nobody's parent is a process that has exited.
TypeOK ==
    /\ line.cmds \in Seq(Commands) /\ pipes \in Nat
    /\ \A p \in Procs :
         /\ proc[p].at \in 0 .. Len(line.cmds) + 1
         /\ \A end \in Ends(proc[p].fd) : end[2] \in 1 .. pipes
         /\ proc[p].pc \in {"command", "child", "parent", "program"} => proc[p].at \in DOMAIN line.cmds
         /\ proc[p].parent \in Procs => proc[proc[p].parent].pc \notin {"free", "zombie", "program"}

Wired(x) ==
    LET i == x.at IN
    /\ x.fd[0] = IF AfterPipe(i) THEN ReadEnd(PipeOf(i - 1)) ELSE Terminal
    /\ x.fd[1] = IF Op(i) = "PIPE" THEN WriteEnd(PipeOf(i))
                  ELSE IF line.out = "file" THEN File ELSE Terminal

\* A program reads what the one before the pipe writes, the first of a pipeline
\* reads what the shell does, the last writes to the file, or to the terminal, also
\* when the file cannot be opened (lines 145-165); and it holds no other end of a
\* pipe, or a reader would wait for its own or a stranger's write end for ever.
ProgramsAreWired ==
    /\ TypeOK
    /\ Sound => \A p \in Procs : proc[p].pc = "program" =>
         /\ Wired(proc[p])
         /\ \A n \in Fds \ {0, 1} : proc[p].fd[n][1] \notin {"read", "write"}

\* When a line is over the shell has reaped every process it forked, in whatever
\* order they exited (lines 193-199), and keeps no end of a pipe (lines 169-176).
NothingIsLeft ==
    proc[Shell].pc = "returned" =>
        /\ Children(Shell) = {}
        /\ AllFound /\ BuiltinsApart => Ends(proc[Shell].fd) = {}

\* The status of a line all of whose commands are to be run is that of the last
\* one, whichever process was the last to exit (lines 195-198).
StatusIsOfLast ==
    proc[Shell].pc = "returned" /\ AllFound /\ AllUsed /\ Kind(Len(line.cmds)) # "cd" =>
        proc[Shell].last_status = Len(line.cmds)

\* The shell comes back from every sound line: each reader sees the end of its
\* input, each writer a reader or a broken pipe, and wait() each child.
LineEnds == Sound => <>(proc[Shell].pc \in {"returned", "zombie"})

\* 2/tests.txt:150: "$> echo 100 | grep 1 && echo 200 | grep 2".  The programs of a
\* second pipeline are connected as those of the first.  The code connects the
\* first program of the second pipeline to itself.
SecondPipelineIsWired ==
    AllFound /\ BuiltinsApart => \A p \in Procs : proc[p].pc = "program" => Wired(proc[p])
=============================================================================
