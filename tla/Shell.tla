--------------------------------- MODULE Shell ---------------------------------
(***************************************************************************)
(* 2/solution.c: execute_command_line for one line of commands, with the   *)
(* processes it forks and the pipes between them.                          *)
(*                                                                         *)
(* A forked child runs the same code as the shell until execvp replaces    *)
(* it, and goes on with that code when execvp fails: every process has all *)
(* the local variables of execute_command_line.  Pipes are told apart by   *)
(* number; of what flows through them only matters who still waits for it. *)
(*                                                                         *)
(* An operator that nothing uses, right before one with the same           *)
(* parameters, is a plausible mistake in that one.                         *)
(***************************************************************************)
EXTENDS Integers, Sequences, FiniteSets, SequencesExt, FiniteSetsExt

CONSTANTS Lines,      \* lines that may be executed
          MaxProcs,   \* bound on processes, for TLC: a line needs no more
          MaxFds,     \* descriptors a process may have
          CallsFail   \* whether pipe() and fork() may fail

(* A command is known by what its process does: "plain" neither reads nor   *)
(* fills a pipe, "source" writes more than a pipe holds, "filter" reads to  *)
(* the end, "missing" cannot be executed; "badcd" is a cd that chdir        *)
(* refuses for another reason than a missing directory.  op is the operator *)
(* that follows it, which for this code is a pipe or not.                   *)
Kinds == {"plain", "source", "filter", "missing", "cd", "badcd", "exit"}

(* Where the line's output goes: the file cannot be opened if it is "refused", *)
(* as one to append to is that does not exist (line 156).                      *)
Outs == {"stdout", "file", "refused"}
Commands == [kind : Kinds, op : {"PIPE", "AND", "OR", "END"}]
Procs == 1 .. MaxProcs
Shell == 1

ASSUME ShellAssumption ==
    /\ MaxProcs \in Nat \ {0} /\ MaxFds \in Nat \ 0 .. 2 /\ CallsFail \in BOOLEAN
    /\ \A l \in Lines :
         /\ l.cmds \in Seq(Commands) /\ l.cmds # <<>> /\ l.out \in Outs
         /\ \A i \in DOMAIN l.cmds : (l.cmds[i].op = "END") <=> (i = Len(l.cmds))

VARIABLES
    line,    \* the line under execution: cmds, and out for its out_type and file
    pipes,   \* pipes made so far
    proc     \* per process, its place in the code and its variables

vars == <<line, pipes, proc>>

(* File descriptors: standard error and what is not opened here is left out. *)
Fds == 0 .. MaxFds - 1
NoFd == MaxFds
Closed == <<"closed", 0>>
Terminal == <<"terminal", 0>>
File == <<"file", 0>>
ReadEnd(k) == <<"read", k>>
WriteEnd(k) == <<"write", k>>

\* pid and status of a process that has not forked or not waited are undefined.
Unset == -1
Garbage == -2

Free == [pc |-> "free", at |-> 0, fd |-> [n \in Fds |-> Closed], pipefd |-> <<0, 0>>,
         pipe_stdin |-> 0, pid |-> Unset, proc_wait |-> 0, last_status |-> 0, parent |-> 0]
Started == [Free EXCEPT !.pc = "expr", !.at = 1, !.proc_wait = 1,
                        !.fd = [n \in Fds |-> IF n < 2 THEN Terminal ELSE Closed]]

Init ==
    /\ line \in Lines
    /\ pipes = 0
    /\ proc = [p \in Procs |-> IF p = Shell THEN Started ELSE Free]

-----------------------------------------------------------------------------

AtEnd(p) == proc[p].at > Len(line.cmds)
Command(p) == line.cmds[proc[p].at]
Piped(p) == Command(p).op = "PIPE"                 \* e->next is a pipe
LastExit(p) == Command(p) = [kind |-> "exit", op |-> "END"]
Forked(p) == Command(p).kind \notin {"cd", "badcd"} /\ ~LastExit(p)

Children(p) == {q \in Procs : proc[q].parent = p /\ proc[q].pc # "free"}
Ended(p) == proc[p].pc = "zombie"
IsOpen(end) == \E p \in Procs : end \in Range(proc[p].fd)

LowestClosed(fd) == Min({n \in Fds : fd[n] = Closed} \cup {NoFd})
Close(fd, n) == [fd EXCEPT ![n] = Closed]
\* dup2 from a descriptor that is not open does nothing.
Dup(fd, from, to) ==
    IF from = NoFd \/ fd[from] = Closed THEN fd ELSE [fd EXCEPT ![to] = fd[from]]
\* What pipe() returns; it fails when the second one is NoFd.
PipeFds(fd) ==
    LET r == LowestClosed(fd) IN <<r, LowestClosed([fd EXCEPT ![r] = ReadEnd(0)])>>

Zombie(p, status) ==
    [Free EXCEPT !.pc = "zombie", !.last_status = status, !.parent = proc[p].parent]
\* The children of a process that exits are no more reaped by it.
Exit(p, status) ==
    proc' = [q \in Procs |->
        CASE q = p -> Zombie(p, status)
          [] q \in Children(p) -> [proc[q] EXCEPT !.parent = 0]
          [] OTHER -> proc[q]]

-----------------------------------------------------------------------------
(* The loop over the expressions, lines 100-191.                            *)

\* Lines 101-107.
NextCommand(p) ==
    LET new == PipeFds(proc[p].fd) IN
    /\ proc[p].pc = "expr" /\ ~AtEnd(p)
    /\ Piped(p) => new[2] # NoFd
    /\ pipes' = IF Piped(p) THEN pipes + 1 ELSE pipes
    /\ proc' = [proc EXCEPT ![p] =
           IF Piped(p)
           THEN [@ EXCEPT !.pc = "command", !.pipefd = new,
                    !.fd[new[1]] = ReadEnd(pipes + 1), !.fd[new[2]] = WriteEnd(pipes + 1)]
           ELSE [@ EXCEPT !.pc = "command"]]
    /\ UNCHANGED line

\* Lines 103-106 and 138-142.
CallFails(p) ==
    /\ \/ /\ proc[p].pc = "expr" /\ ~AtEnd(p) /\ Piped(p)
          /\ ~CallsFail => PipeFds(proc[p].fd)[2] = NoFd
       \/ CallsFail /\ proc[p].pc = "command" /\ Forked(p)
    /\ Exit(p, 1)
    /\ UNCHANGED <<line, pipes>>

\* Lines 132-134 with execute_cd; it may end the shell, lines 25-26.
Cd(p) ==
    /\ proc[p].pc = "command"
    /\ \/ /\ Command(p).kind = "cd"
          /\ proc' = [proc EXCEPT ![p].pc = "expr", ![p].at = @ + 1]
       \/ Command(p).kind = "badcd" /\ Exit(p, 1)
    /\ UNCHANGED <<line, pipes>>

\* Lines 109-116 and 193: from here on it only waits.
StopReading(p) ==
    /\ \/ proc[p].pc = "expr" /\ AtEnd(p)
       \/ proc[p].pc = "command" /\ LastExit(p)
    /\ proc' = [proc EXCEPT ![p].pc = "wait"]
    /\ UNCHANGED <<line, pipes>>

\* Line 137.
Fork(p) ==
    /\ proc[p].pc = "command" /\ Forked(p)
    /\ \E c \in Procs :
         /\ proc[c].pc = "free" /\ \A q \in Procs : q < c => proc[q].pc # "free"
         /\ proc' = [proc EXCEPT ![p].pc = "parent", ![p].pid = c,
                ![c] = [proc[p] EXCEPT !.pc = "child", !.pid = 0, !.parent = p]]
    /\ UNCHANGED <<line, pipes>>

\* Lines 145-149.
StdinFromPipe(x) ==
    IF x.pipe_stdin = 0 THEN x.fd ELSE Close(Dup(x.fd, x.pipe_stdin, 0), x.pipe_stdin)

\* Lines 151-165: the file is opened even if a pipe takes its place.  If open()
\* fails, dup2 and close of -1 do nothing.
KeepsReadEnd(p, fd) ==
    IF Piped(p) THEN Close(Dup(fd, proc[p].pipefd[2], 1), proc[p].pipefd[2])
    ELSE IF line.out = "file" THEN [fd EXCEPT ![1] = File] ELSE fd
StdoutToPipeOrFile(p, fd) ==
    LET n == LowestClosed(fd)
        opened == IF line.out = "file" THEN [fd EXCEPT ![n] = File] ELSE fd
        w == proc[p].pipefd[2]
    IN
    IF Piped(p) THEN Close(Dup(Close(opened, proc[p].pipefd[1]), w, 1), w)
    ELSE IF line.out = "file" THEN Close(Dup(opened, n, 1), n) ELSE fd

\* Lines 144-166 and execute_command.  Without a program the child goes on like
\* its parent.
Child(p) ==
    LET fd == StdoutToPipeOrFile(p, StdinFromPipe(proc[p])) IN
    /\ proc[p].pc = "child"
    /\ CASE Command(p).kind = "exit" -> Exit(p, proc[p].at)
         [] Command(p).kind = "missing" ->
                proc' = [proc EXCEPT ![p].pc = "parent", ![p].fd = fd, ![p].pipe_stdin = 0]
         [] OTHER -> proc' = [proc EXCEPT ![p].pc = "program", ![p].fd = fd]
    /\ UNCHANGED <<line, pipes>>

\* Lines 169-178 and 190.
KeepsWriteEnd(fd, x, piped) == IF x.pipe_stdin # 0 THEN Close(fd, x.pipe_stdin) ELSE fd
ParentCloses(fd, x, piped) ==
    LET rest == IF x.pipe_stdin # 0 THEN Close(fd, x.pipe_stdin) ELSE fd IN
    IF piped THEN Close(rest, x.pipefd[2]) ELSE rest
WaitsOnce(x) == x.proc_wait
WaitsOnceMore(x) == x.proc_wait + 1
Parent(p) ==
    /\ proc[p].pc = "parent"
    /\ LET x == proc[p] IN proc' = [proc EXCEPT ![p] =
           [x EXCEPT !.pc = "expr", !.at = x.at + 1, !.proc_wait = WaitsOnceMore(x),
                     !.fd = ParentCloses(x.fd, x, Piped(p)),
                     !.pipe_stdin = IF Piped(p) THEN x.pipefd[1] ELSE x.pipe_stdin]]
    /\ UNCHANGED <<line, pipes>>

-----------------------------------------------------------------------------
(* Waiting, lines 110-129 and 193-201, and the end of main.                 *)

StatusIsAnyones(p, c) == TRUE
StatusIsOurs(p, c) == proc[p].pid = c
Wait(p) ==
    /\ proc[p].pc = "wait" /\ proc[p].proc_wait > 0
    /\ \E c \in Children(p) :
         /\ Ended(c)
         /\ proc' = [proc EXCEPT ![c] = Free, ![p].proc_wait = @ - 1,
                ![p].last_status = IF StatusIsOurs(p, c) THEN proc[c].last_status ELSE @]
    /\ UNCHANGED <<line, pipes>>

\* wait() fails without children; a pid that was never set may be its result.
WaitFails(p) ==
    /\ proc[p].pc = "wait" /\ proc[p].proc_wait > 0
    /\ Children(p) = {}
    /\ \E s \in {proc[p].last_status} \cup (IF proc[p].pid = Unset THEN {Garbage} ELSE {}) :
         proc' = [proc EXCEPT ![p].proc_wait = @ - 1, ![p].last_status = s]
    /\ UNCHANGED <<line, pipes>>

\* Lines 118-129 and 201.
Return(p) ==
    /\ proc[p].pc = "wait" /\ proc[p].proc_wait = 0
    /\ IF AtEnd(p) THEN proc' = [proc EXCEPT ![p].pc = "returned"]
       ELSE IF proc[p].at = 1 THEN Exit(p, 1)
       ELSE proc' = [proc EXCEPT ![p].pc = "returned", ![p].last_status = proc[p].at]
    /\ UNCHANGED <<line, pipes>>

\* A forked process that returns runs main's loop until its input ends; the
\* shell itself would read the next line.
InputEnds(p) ==
    proc[p].fd[0][1] = "read" => ~IsOpen(WriteEnd(proc[p].fd[0][2]))
MainEnds(p) ==
    /\ proc[p].pc = "returned" /\ p # Shell
    /\ InputEnds(p)
    /\ Exit(p, proc[p].last_status)
    /\ UNCHANGED <<line, pipes>>

-----------------------------------------------------------------------------
(* Programs: they exit with the number of their command as status.          *)

\* A child without a program reads too, in the loop of main (line 214); that it
\* executes what it reads is left out.
IsRead(k) == \E p \in Procs :
    /\ proc[p].fd[0] = ReadEnd(k)
    /\ \/ proc[p].pc = "program" /\ Command(p).kind = "filter"
       \/ proc[p].pc = "returned" /\ p # Shell
OutputTaken(p) ==
    proc[p].fd[1][1] = "write" =>
        LET k == proc[p].fd[1][2] IN IsRead(k) \/ ~IsOpen(ReadEnd(k))

ProgramExits(p) ==
    /\ proc[p].pc = "program"
    /\ Command(p).kind = "filter" => InputEnds(p)
    /\ Command(p).kind = "source" => OutputTaken(p)
    /\ Exit(p, proc[p].at)
    /\ UNCHANGED <<line, pipes>>

Runs(p) ==
    \/ NextCommand(p) \/ Cd(p) \/ StopReading(p) \/ Fork(p) \/ Child(p) \/ Parent(p)
    \/ Wait(p) \/ WaitFails(p) \/ Return(p) \/ ProgramExits(p)

Next == \E p \in Procs : Runs(p) \/ CallFails(p) \/ MainEnds(p)

Spec == Init /\ [][Next]_vars

\* The system runs every process that can run; a program ends when its input has
\* ended and its output is taken.
FairSpec == Spec /\ \A p \in Procs : WF_vars(Runs(p))
=============================================================================
