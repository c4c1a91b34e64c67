------------------------------ MODULE ShellProofs ------------------------------
(***************************************************************************)
(* Proofs about a line of commands of module Shell, for any line and any   *)
(* number of processes and descriptors.  ShellInv is the inductive         *)
(* invariant.                                                              *)
(***************************************************************************)
EXTENDS ShellProperties, FiniteSetTheorems, NaturalsInduction,
        WellFoundedInduction, TLAPS

-----------------------------------------------------------------------------
(* The invariant *)

Pcs == {"free", "expr", "command", "child", "parent", "program", "wait", "returned", "zombie"}
Handles(k) ==
    {Closed, Terminal, File} \cup {ReadEnd(j) : j \in 1 .. k} \cup {WriteEnd(j) : j \in 1 .. k}
FdTables(k) == [Fds -> Handles(k)]
FdNumbers == 0 .. MaxFds
Processes(k) ==
    [pc : Pcs, at : Nat, fd : FdTables(k), pipefd : FdNumbers \X FdNumbers,
     pipe_stdin : FdNumbers, pid : Int, proc_wait : Int, last_status : Int,
     parent : Procs \cup {0}]

TypesHold ==
    /\ line \in Lines /\ pipes \in Nat
    /\ proc \in [Procs -> Processes(pipes)]

\* Where a process stands among the commands.
ExitCommand == [kind |-> "exit", op |-> "END"]
PlacedRight(x) ==
    /\ x.at <= Len(line.cmds) + 1
    /\ x.pc \in {"expr", "wait", "returned"} => x.at >= 1
    /\ x.pc \in {"command", "child", "parent", "program"} => x.at <= Len(line.cmds) /\ x.at >= 1
    /\ x.pc \in {"wait", "returned"} /\ x.at <= Len(line.cmds)
         => line.cmds[x.at] = ExitCommand
    /\ x.pc = "returned" /\ x.at <= Len(line.cmds) => x.last_status = x.at

PlacesHold == \A p \in Procs : PlacedRight(proc[p])

\* Who may be a parent: not a process that has ended or has only just begun.
ParentsLive ==
    \A p \in Procs :
        /\ proc[p].pc = "free" => proc[p] = Free
        /\ proc[p].parent # p
        /\ proc[p].parent \in Procs =>
             proc[proc[p].parent].pc \notin {"free", "zombie", "program", "child"}

\* The shell will call wait() at least as often as it has children.
CountedRight(x) ==
    /\ x.parent = 0
    /\ x.pc \notin {"free", "child", "program"}
    /\ x.pc = "returned" => x.proc_wait = 0
    /\ Cardinality(Children(Shell)) + (IF x.pc \in {"expr", "command"} THEN 1 ELSE 0)
         <= x.proc_wait

ChildrenAreCounted == CountedRight(proc[Shell])

\* A child of the shell that was forked for command i.
RunsCommand(c, i) ==
    /\ c \in Procs \ {Shell} /\ proc[c].parent = Shell
    /\ \/ proc[c].pc \in {"child", "program"} /\ proc[c].at = i
       \/ proc[c].pc = "zombie" /\ proc[c].last_status = i

\* The last command's child is the one whose number is in pid, or was.
LastIsKnown ==
    LET x == proc[Shell]
        last == Len(line.cmds) IN
    /\ \A p \in Procs \ {Shell} : proc[p].pc \in {"free", "child", "program", "zombie"}
    /\ x.pc = "parent" => RunsCommand(x.pid, x.at)
    /\ x.pc \in {"expr", "wait", "returned"} /\ AtEnd(Shell) =>
         \/ Kind(last) = "cd"
         \/ RunsCommand(x.pid, last)
         \/ x.pid \in Procs /\ proc[x.pid].pc = "free" /\ x.last_status = last

\* The shell's own input and output are left alone, and of pipes it has open at most the
\* one that leads to the command, and the new one if it is made already.
Tidy(x, made) ==
    /\ x.fd[0] = Terminal /\ x.fd[1] = Terminal
    /\ x.pipe_stdin # 1
    /\ \A n \in Fds \ {0, 1} : x.fd[n] # Closed =>
         \/ AfterPipe(x.at) /\ n = x.pipe_stdin
         \/ made /\ Op(x.at) = "PIPE" /\ n \in {x.pipefd[1], x.pipefd[2]}
    /\ made /\ Op(x.at) = "PIPE" => x.pipefd[1] \in Fds \ {0, 1} /\ x.pipefd[2] \in Fds \ {0, 1}

ShellIsTidyIn(f) ==
    f[Shell].pc # "zombie" => Tidy(f[Shell], f[Shell].pc \in {"command", "parent"})

ShellIsTidy == ShellIsTidyIn(proc)

\* The pipe that leads to a command is the one made for the command before.
InputIsWired(x) ==
    /\ AfterPipe(x.at) =>
         x.pipe_stdin \in Fds \ {0, 1} /\ x.fd[x.pipe_stdin] = ReadEnd(PipeOf(x.at - 1))
    /\ ~AfterPipe(x.at) /\ x.pipe_stdin # 0 =>
         \E k \in 1 .. x.at - 1 : AfterPipe(k) /\ Op(k) # "PIPE"

OutputIsWired(x) ==
    Op(x.at) = "PIPE" =>
        /\ x.fd[x.pipefd[1]] = ReadEnd(PipeOf(x.at))
        /\ x.fd[x.pipefd[2]] = WriteEnd(PipeOf(x.at))

ChildIsWired(x) == Tidy(x, TRUE) /\ InputIsWired(x) /\ OutputIsWired(x)

ProgramIsWired(x) ==
    Wired(x) /\ \A n \in Fds \ {0, 1} : x.fd[n][1] \notin {"read", "write"}

\* In these processes, when that many pipes were made.
ShellIsWiredIn(f, made) ==
    LET x == f[Shell] IN
    /\ x.pc = "expr" => InputIsWired(x) /\ made = PipeOf(x.at - 1)
    /\ x.pc \in {"command", "parent"} =>
         InputIsWired(x) /\ OutputIsWired(x) /\ made = PipeOf(x.at)

OthersAreWiredIn(f) ==
    \A p \in Procs :
        /\ f[p].pc = "child" => ChildIsWired(f[p])
        /\ f[p].pc = "program" => ProgramIsWired(f[p])

WiringHolds == ShellIsWiredIn(proc, pipes) /\ OthersAreWiredIn(proc)

Structure == TypesHold /\ PlacesHold /\ ParentsLive /\ ChildrenAreCounted

ShellInv ==
    /\ Structure
    /\ AllFound => LastIsKnown
    /\ AllFound /\ BuiltinsApart => ShellIsTidy
    /\ Sound => WiringHolds
-----------------------------------------------------------------------------
(* Lines, numbers and descriptors *)

\* What is known of a line.
LEMMA LineFacts ==
    ASSUME line \in Lines
    PROVE  /\ line.cmds \in Seq(Commands) /\ Len(line.cmds) \in Nat \ {0}
           /\ DOMAIN line.cmds = 1 .. Len(line.cmds)
           /\ line.out \in Outs
           /\ \A i \in DOMAIN line.cmds : line.cmds[i] \in Commands
           /\ \A i \in DOMAIN line.cmds : (line.cmds[i].op = "END") <=> (i = Len(line.cmds))
<1>1. /\ line.cmds \in Seq(Commands) /\ line.cmds # <<>> /\ line.out \in Outs
      /\ \A i \in DOMAIN line.cmds : (line.cmds[i].op = "END") <=> (i = Len(line.cmds))
  BY ShellAssumption
<1> QED
  BY <1>1

LEMMA Limits == Shell \in Procs /\ MaxFds \in Nat /\ MaxFds > 2 /\ IsFiniteSet(Procs)
<1>1. MaxProcs \in Nat \ {0} /\ MaxFds \in Nat /\ MaxFds > 2
  BY ShellAssumption
<1>2. IsFiniteSet(Procs)
  BY <1>1, FS_Interval DEF Procs
<1> QED
  BY <1>1, <1>2 DEF Procs, Shell

\* A nonempty set of numbers has a least one.
LEMMA LeastNumber ==
    ASSUME NEW S \in SUBSET Nat, S # {}
    PROVE  Min(S) \in S /\ \A n \in S : Min(S) <= n
<1>1. \E m \in S : \A n \in S : ~(<<n, m>> \in OpToRel(<, Nat))
  BY NatLessThanWellFounded, WFMin
<1>2. ASSUME NEW m \in S, NEW n \in S, ~(<<n, m>> \in OpToRel(<, Nat)) PROVE m <= n
  <2>1. ~(<<n, m>>[1] < <<n, m>>[2])
    BY <1>2 DEF OpToRel
  <2> QED
    BY <2>1
<1>3. \E m \in S : \A n \in S : m <= n
  BY <1>1, <1>2
<1> QED
  BY <1>3 DEF Min

\* What open() and pipe() return is closed before, and NoFd only if nothing is.
LEMMA LowestIsClosed ==
    ASSUME NEW fd
    PROVE  /\ LowestClosed(fd) \in FdNumbers
           /\ LowestClosed(fd) # NoFd => LowestClosed(fd) \in Fds /\ fd[LowestClosed(fd)] = Closed
           /\ \A n \in Fds : fd[n] = Closed => LowestClosed(fd) # NoFd
<1> DEFINE S == {n \in Fds : fd[n] = Closed} \cup {NoFd}
<1>1. S \in SUBSET Nat /\ S # {} /\ NoFd \in Nat /\ \A n \in Fds : n < NoFd
  BY Limits DEF Fds, NoFd
<1>2. Min(S) \in S /\ \A n \in S : Min(S) <= n
  BY <1>1, LeastNumber
<1>3. LowestClosed(fd) = Min(S)
  BY DEF LowestClosed
<1>4. LowestClosed(fd) \in FdNumbers
  BY <1>2, <1>3, Limits DEF Fds, NoFd, FdNumbers
<1>5. LowestClosed(fd) # NoFd => LowestClosed(fd) \in Fds /\ fd[LowestClosed(fd)] = Closed
  BY <1>2, <1>3
<1>6. ASSUME NEW n \in Fds, fd[n] = Closed PROVE LowestClosed(fd) # NoFd
  <2>1. n \in S
    BY <1>6
  <2>2. Min(S) <= n /\ Min(S) \in Nat /\ n \in Nat /\ n < NoFd
    BY <1>1, <1>2, <2>1
  <2> QED
    BY <2>2, <1>1, <1>3
<1> QED
  BY <1>4, <1>5, <1>6

LEMMA PipeEnds ==
    ASSUME NEW k \in Nat, NEW fd \in FdTables(k)
    PROVE  /\ PipeFds(fd) \in FdNumbers \X FdNumbers
           /\ PipeFds(fd)[2] # NoFd =>
                /\ PipeFds(fd)[1] \in Fds /\ PipeFds(fd)[2] \in Fds
                /\ fd[PipeFds(fd)[1]] = Closed /\ fd[PipeFds(fd)[2]] = Closed
                /\ PipeFds(fd)[1] # PipeFds(fd)[2]
<1> DEFINE r == LowestClosed(fd)
           fr == [fd EXCEPT ![r] = ReadEnd(0)]
           w == LowestClosed(fr)
<1>1. PipeFds(fd) = <<r, w>>
  BY DEF PipeFds
<1>2. r \in FdNumbers /\ w \in FdNumbers
  BY LowestIsClosed
<1>3. fd \in [Fds -> Handles(k)] /\ NoFd \notin Fds
  BY Limits DEF FdTables, Fds, NoFd
<1>4. ASSUME w # NoFd
      PROVE  r \in Fds /\ w \in Fds /\ fd[r] = Closed /\ fd[w] = Closed /\ r # w
  <2>1. w \in Fds /\ fr[w] = Closed
    BY <1>4, LowestIsClosed
  <2>2. r # NoFd
    <3>1. CASE r = NoFd
      <4>1. fd[w] = Closed
        BY <2>1, <1>3, <3>1
      <4>2. LowestClosed(fd) # NoFd
        BY <4>1, <2>1, LowestIsClosed
      <4> QED
        BY <4>2
    <3> QED
      BY <3>1
  <2>3. r \in Fds /\ fd[r] = Closed
    BY <2>2, LowestIsClosed
  <2>4. fr[r] = ReadEnd(0) /\ ReadEnd(0) # Closed
    BY <2>3, <1>3 DEF ReadEnd, Closed
  <2> HIDE DEF r, w
  <2>5. fr[w] = IF w = r THEN ReadEnd(0) ELSE fd[w]
    BY <2>1, <1>3
  <2> QED
    BY <2>1, <2>3, <2>4, <2>5
<1> HIDE DEF r, w
<1> QED
  BY <1>1, <1>2, <1>4

-----------------------------------------------------------------------------
(* What a change of one process, and the end of one, do to the rest *)

LEMMA TypesGrow ==
    ASSUME NEW k \in Nat
    PROVE  /\ Handles(k) \subseteq Handles(k + 1) /\ FdTables(k) \subseteq FdTables(k + 1)
           /\ Processes(k) \subseteq Processes(k + 1)
<1>1. 1 .. k \subseteq 1 .. k + 1
  OBVIOUS
<1>2. Handles(k) \subseteq Handles(k + 1)
  BY <1>1 DEF Handles
<1>3. FdTables(k) \subseteq FdTables(k + 1)
  BY <1>2 DEF FdTables
<1> QED
  BY <1>2, <1>3 DEF Processes

LEMMA ChildrenAreFinite ==
    ASSUME NEW p
    PROVE  IsFiniteSet(Children(p)) /\ Cardinality(Children(p)) \in Nat
<1>1. Children(p) \subseteq Procs
  BY DEF Children
<1> QED
  BY <1>1, Limits, FS_Subset, FS_CardinalityType

LEMMA OneMoreChild ==
    ASSUME NEW c
    PROVE  Cardinality(Children(Shell) \cup {c})
             \in {Cardinality(Children(Shell)), Cardinality(Children(Shell)) + 1}
<1>1. IsFiniteSet(Children(Shell))
  BY ChildrenAreFinite
<1> QED
  BY <1>1, FS_AddElement

LEMMA FreeIsTyped ==
    ASSUME NEW k \in Nat
    PROVE  Free \in Processes(k) /\ Free.pc = "free" /\ Free.parent = 0
<1>1. [n \in Fds |-> Closed] \in FdTables(k)
  BY DEF FdTables, Handles
<1>2. 0 \in FdNumbers
  BY Limits DEF FdNumbers
<1> QED
  BY <1>1, <1>2 DEF Free, Processes, Unset, Pcs

LEMMA OneChanges ==
    ASSUME Structure, NEW p \in Procs, NEW k \in {pipes, pipes + 1}, NEW x \in Processes(k),
           line' = line, pipes' = k, proc' = [proc EXCEPT ![p] = x],
           PlacedRight(x), proc[p].pc # "free", x.parent = proc[p].parent,
           x.pc \notin {"free", "zombie", "child"},
           x.pc = "program" => proc[p].pc = "child",
           p = Shell => CountedRight(x)
    PROVE  Structure' /\ Children(Shell)' = Children(Shell)
<1>1. pipes \in Nat /\ proc \in [Procs -> Processes(pipes)] /\ line \in Lines
  BY DEF Structure, TypesHold
<1>2. k \in Nat /\ proc \in [Procs -> Processes(k)]
  <2>1. Processes(pipes) \subseteq Processes(k)
    BY <1>1, TypesGrow
  <2> QED
    BY <1>1, <2>1
<1>3. /\ proc' \in [Procs -> Processes(k)] /\ proc'[p] = x
      /\ \A q \in Procs \ {p} : proc'[q] = proc[q]
  BY <1>2
<1>4. TypesHold'
  BY <1>1, <1>2, <1>3 DEF TypesHold
<1>5. PlacesHold'
  <2> SUFFICES ASSUME NEW q \in Procs PROVE PlacedRight(proc[q])'
    BY DEF PlacesHold
  <2>1. CASE q = p
    <3>1. PlacedRight(proc[q])' <=> PlacedRight(x)
      BY <1>3, <2>1 DEF PlacedRight
    <3> QED
      BY <3>1
  <2>2. CASE q # p
    <3>1. PlacedRight(proc[q])' <=> PlacedRight(proc[q])
      BY <1>3, <2>2 DEF PlacedRight
    <3> QED
      BY <3>1 DEF Structure, PlacesHold
  <2> QED
    BY <2>1, <2>2
<1>6. \A q \in Procs : proc'[q].parent = proc[q].parent
  BY <1>3
<1>7. \A q \in Procs : (proc'[q].pc = "free") <=> (proc[q].pc = "free")
  BY <1>3
<1>8. ParentsLive'
  <2> SUFFICES ASSUME NEW q \in Procs
               PROVE  /\ proc'[q].pc = "free" => proc'[q] = Free
                      /\ proc'[q].parent # q
                      /\ proc'[q].parent \in Procs =>
                           proc'[proc'[q].parent].pc \notin {"free", "zombie", "program", "child"}
    BY DEF ParentsLive
  <2>1. (proc'[q].pc = "free" => proc'[q] = Free) /\ proc'[q].parent # q
    BY <1>6, <1>3, <1>7 DEF Structure, ParentsLive
  <2>2. ASSUME NEW r \in Procs, proc[q].parent = r
        PROVE  proc'[r].pc \notin {"free", "zombie", "program", "child"}
    <3>1. proc[r].pc \notin {"free", "zombie", "program", "child"}
      BY <2>2 DEF Structure, ParentsLive
    <3> QED
      BY <3>1, <1>3
  <2> QED
    BY <2>1, <2>2, <1>6
<1>9. Children(Shell)' = Children(Shell)
  BY <1>6, <1>7 DEF Children
<1>10. ChildrenAreCounted'
  <2>1. CASE p = Shell
    <3>1. CountedRight(proc[Shell])' <=> CountedRight(x)
      BY <1>3, <1>9, <2>1 DEF CountedRight
    <3> QED
      BY <3>1, <2>1 DEF ChildrenAreCounted
  <2>2. CASE p # Shell
    <3>1. CountedRight(proc[Shell])' <=> CountedRight(proc[Shell])
      BY <1>3, <1>9, <2>2, Limits DEF CountedRight
    <3> QED
      BY <3>1 DEF Structure, ChildrenAreCounted
  <2> QED
    BY <2>1, <2>2
<1> QED
  BY <1>4, <1>5, <1>8, <1>9, <1>10 DEF Structure

\* A process that ends becomes a zombie, and nobody's parent.
LEMMA ExitEffect ==
    ASSUME TypesHold, ParentsLive, NEW p \in Procs, NEW s \in Int, proc[p].pc # "free", Exit(p, s)
    PROVE  /\ proc' \in [Procs -> Processes(pipes)]
           /\ proc'[p].pc = "zombie" /\ proc'[p].last_status = s /\ proc'[p].at = 0
           /\ proc'[p].proc_wait = 0 /\ proc'[p].parent = proc[p].parent
           /\ proc[p].parent # p
           /\ \A q \in Procs \ {p} :
                /\ proc[q].parent # p => proc'[q] = proc[q]
                /\ proc[q].parent = p => proc'[q] = [proc[q] EXCEPT !.parent = 0]
<1>1. pipes \in Nat /\ proc \in [Procs -> Processes(pipes)]
  BY DEF TypesHold
<1> PICK z : z = Zombie(p, s)
  OBVIOUS
<1>2. /\ z \in Processes(pipes) /\ z.pc = "zombie" /\ z.last_status = s /\ z.at = 0
      /\ z.proc_wait = 0 /\ z.parent = proc[p].parent
  <2>1. Free \in Processes(pipes) /\ Free.at = 0 /\ Free.proc_wait = 0
    BY <1>1, FreeIsTyped DEF Free
  <2>2. z = [Free EXCEPT !.pc = "zombie", !.last_status = s, !.parent = proc[p].parent]
    BY DEF Zombie
  <2>3. proc[p].parent \in Procs \cup {0}
    BY <1>1 DEF Processes
  <2> QED
    BY <2>1, <2>2, <2>3, ZenonT(60) DEF Processes, Pcs
<1>3. \A q \in Procs : q \in Children(p) <=> proc[q].parent = p
  <2>1. ASSUME NEW q \in Procs, proc[q].pc = "free" PROVE proc[q].parent # p
    <3>1. proc[q].parent = 0 /\ 0 \notin Procs
      BY <2>1, FreeIsTyped, <1>1 DEF ParentsLive, Procs
    <3> QED
      BY <3>1
  <2> QED
    BY <2>1 DEF Children
<1>4. proc' = [q \in Procs |-> CASE q = p -> z
                                 [] q \in Children(p) -> [proc[q] EXCEPT !.parent = 0]
                                 [] OTHER -> proc[q]]
  BY DEF Exit
<1>5. proc[p].parent # p
  BY DEF ParentsLive
<1>6. p \notin Children(p)
  BY <1>3, <1>5
<1>7. proc'[p] = z
  BY <1>4, <1>6
<1>8. ASSUME NEW q \in Procs \ {p}
      PROVE  /\ proc[q].parent # p => proc'[q] = proc[q]
             /\ proc[q].parent = p => proc'[q] = [proc[q] EXCEPT !.parent = 0]
  BY <1>3, <1>4
<1>9. proc' \in [Procs -> Processes(pipes)]
  <2>1. ASSUME NEW q \in Procs PROVE proc'[q] \in Processes(pipes)
    <3>1. proc[q] \in Processes(pipes)
      BY <1>1
    <3>2. [proc[q] EXCEPT !.parent = 0] \in Processes(pipes)
      BY <3>1 DEF Processes
    <3> QED
      BY <1>2, <1>7, <1>8, <3>1, <3>2
  <2>2. proc' = [q \in Procs |-> proc'[q]]
    BY <1>4
  <2> QED
    BY <2>1, <2>2
<1> QED
  BY <1>2, <1>5, <1>7, <1>8, <1>9

LEMMA ExitKeepsStructure ==
    ASSUME Structure, NEW p \in Procs, NEW s \in Int, proc[p].pc # "free", Exit(p, s),
           UNCHANGED <<line, pipes>>
    PROVE  /\ Structure'
           /\ p # Shell => proc'[Shell] = proc[Shell] /\ Children(Shell)' = Children(Shell)
<1>1. TypesHold /\ PlacesHold /\ ParentsLive /\ ChildrenAreCounted
  BY DEF Structure
<1>2. pipes \in Nat /\ proc \in [Procs -> Processes(pipes)] /\ line \in Lines
  BY <1>1 DEF TypesHold
<1>3. /\ proc' \in [Procs -> Processes(pipes)]
      /\ proc'[p].pc = "zombie" /\ proc'[p].last_status = s /\ proc'[p].at = 0
      /\ proc'[p].proc_wait = 0 /\ proc'[p].parent = proc[p].parent
      /\ proc[p].parent # p
      /\ \A q \in Procs \ {p} :
           /\ proc[q].parent # p => proc'[q] = proc[q]
           /\ proc[q].parent = p => proc'[q] = [proc[q] EXCEPT !.parent = 0]
  BY <1>1, ExitEffect
<1>4. \A q \in Procs \ {p} :
         /\ proc'[q].pc = proc[q].pc /\ proc'[q].at = proc[q].at
         /\ proc'[q].last_status = proc[q].last_status
         /\ proc'[q].parent = IF proc[q].parent = p THEN 0 ELSE proc[q].parent
  <2> SUFFICES ASSUME NEW q \in Procs \ {p}
               PROVE  /\ proc'[q].pc = proc[q].pc /\ proc'[q].at = proc[q].at
                      /\ proc'[q].last_status = proc[q].last_status
                      /\ proc'[q].parent = IF proc[q].parent = p THEN 0 ELSE proc[q].parent
    OBVIOUS
  <2>1. proc[q] \in Processes(pipes)
    BY <1>2
  <2> QED
    BY <2>1, <1>3 DEF Processes
<1>5. TypesHold'
  BY <1>2, <1>3 DEF TypesHold
<1>6. PlacesHold'
  <2> SUFFICES ASSUME NEW q \in Procs PROVE PlacedRight(proc[q])'
    BY DEF PlacesHold
  <2>1. CASE q = p
    <3>1. Len(line.cmds) \in Nat
      BY <1>2, LineFacts
    <3> QED
      BY <1>3, <2>1, <3>1 DEF PlacedRight
  <2>2. CASE q # p
    <3>1. PlacedRight(proc[q])' <=> PlacedRight(proc[q])
      BY <1>4, <2>2 DEF PlacedRight
    <3> QED
      BY <3>1, <1>1 DEF PlacesHold
  <2> QED
    BY <2>1, <2>2
<1>7. 0 \notin Procs
  BY DEF Procs
<1>8. ParentsLive'
  <2> SUFFICES ASSUME NEW q \in Procs
               PROVE  /\ proc'[q].pc = "free" => proc'[q] = Free
                      /\ proc'[q].parent # q
                      /\ proc'[q].parent \in Procs =>
                           proc'[proc'[q].parent].pc \notin {"free", "zombie", "program", "child"}
    BY DEF ParentsLive
  <2>1. proc'[q].pc = "free" => proc'[q] = Free
    <3>1. CASE q # p /\ proc[q].pc = "free"
      <4>1. proc[q] = Free /\ Free.parent = 0
        BY <3>1, <1>1, <1>2, FreeIsTyped DEF ParentsLive
      <4> QED
        BY <4>1, <3>1, <1>3, <1>7
    <3> QED
      BY <3>1, <1>3, <1>4
  <2>2. proc'[q].parent \in {0, proc[q].parent} /\ (proc'[q].parent = p => FALSE)
    BY <1>3, <1>4, <1>7
  <2>3. ASSUME NEW r \in Procs \ {p}, proc[q].parent = r
        PROVE  proc'[r].pc \notin {"free", "zombie", "program", "child"}
    <3>1. proc[r].pc \notin {"free", "zombie", "program", "child"}
      BY <2>3, <1>1 DEF ParentsLive
    <3> QED
      BY <3>1, <1>4
  <2>4. proc[q].parent # q
    BY <1>1 DEF ParentsLive
  <2> QED
    BY <2>1, <2>2, <2>3, <2>4, <1>7
<1>9. p # Shell => proc'[Shell] = proc[Shell] /\ Children(Shell)' = Children(Shell)
  <2> SUFFICES ASSUME p # Shell
               PROVE  proc'[Shell] = proc[Shell] /\ Children(Shell)' = Children(Shell)
    OBVIOUS
  <2>1. proc[Shell].parent = 0
    BY <1>1 DEF ChildrenAreCounted, CountedRight
  <2>2. proc'[Shell] = proc[Shell]
    BY <2>1, <1>3, <1>7, Limits
  <2>3. ASSUME NEW q \in Procs
        PROVE  (q \in Children(Shell))' <=> q \in Children(Shell)
    <3>1. (q \in Children(Shell))' <=> proc'[q].parent = Shell /\ proc'[q].pc # "free"
      BY DEF Children
    <3>2. (q \in Children(Shell)) <=> proc[q].parent = Shell /\ proc[q].pc # "free"
      BY DEF Children
    <3>3. CASE q = p
      BY <3>1, <3>2, <3>3, <1>3
    <3>4. CASE q # p
      BY <3>1, <3>2, <3>4, <1>4, <1>7, Limits
    <3> QED
      BY <3>3, <3>4
  <2>4. Children(Shell)' \subseteq Procs /\ Children(Shell) \subseteq Procs
    BY DEF Children
  <2> QED
    BY <2>2, <2>3, <2>4
<1>10. ChildrenAreCounted'
  <2>1. CASE p = Shell
    <3>1. proc[Shell].parent = 0
      BY <1>1 DEF ChildrenAreCounted, CountedRight
    <3>2. Children(Shell)' = {}
      BY <1>3, <1>4, <1>7, <2>1 DEF Children
    <3>3. Cardinality({}) = 0
      BY FS_EmptySet
    <3> QED
      BY <1>3, <2>1, <3>1, <3>2, <3>3 DEF ChildrenAreCounted, CountedRight
  <2>2. CASE p # Shell
    <3>1. CountedRight(proc[Shell])' <=> CountedRight(proc[Shell])
      BY <1>9, <2>2 DEF CountedRight
    <3> QED
      BY <3>1, <1>1 DEF ChildrenAreCounted
  <2> QED
    BY <2>1, <2>2
<1> QED
  BY <1>5, <1>6, <1>8, <1>9, <1>10 DEF Structure

-----------------------------------------------------------------------------
(* The types, the places and the number of children, step by step *)

LEMMA FdsAreTyped ==
    ASSUME NEW k \in Nat, NEW fd \in FdTables(k)
    PROVE  /\ \A n : Close(fd, n) \in FdTables(k)
           /\ \A from \in FdNumbers : \A to : Dup(fd, from, to) \in FdTables(k)
           /\ \A n : [fd EXCEPT ![n] = File] \in FdTables(k)
<1>1. fd \in [Fds -> Handles(k)] /\ Closed \in Handles(k) /\ File \in Handles(k)
  BY DEF FdTables, Handles
<1>2. ASSUME NEW n PROVE Close(fd, n) \in FdTables(k)
  BY <1>1 DEF Close, FdTables
<1>3. ASSUME NEW from \in FdNumbers, NEW to PROVE Dup(fd, from, to) \in FdTables(k)
  <2>1. from = NoFd \/ from \in Fds
    BY Limits DEF FdNumbers, Fds, NoFd
  <2>2. from # NoFd => fd[from] \in Handles(k)
    BY <2>1, <1>1
  <2> QED
    BY <2>2, <1>1 DEF Dup, FdTables
<1>4. ASSUME NEW n PROVE [fd EXCEPT ![n] = File] \in FdTables(k)
  BY <1>1 DEF FdTables
<1> QED
  BY <1>2, <1>3, <1>4

LEMMA ProcessFacts ==
    ASSUME Structure, NEW p \in Procs
    PROVE  /\ pipes \in Nat /\ line \in Lines /\ proc[p] \in Processes(pipes)
           /\ proc \in [Procs -> Processes(pipes)]
           /\ PlacedRight(proc[p]) /\ CountedRight(proc[Shell])
           /\ Len(line.cmds) \in Nat \ {0}
           /\ proc[p].at \in Nat /\ proc[p].proc_wait \in Int /\ proc[p].fd \in FdTables(pipes)
           /\ proc[p].pipefd[1] \in FdNumbers /\ proc[p].pipefd[2] \in FdNumbers
           /\ proc[p].pipe_stdin \in FdNumbers
<1>1. /\ pipes \in Nat /\ line \in Lines /\ proc[p] \in Processes(pipes)
      /\ proc \in [Procs -> Processes(pipes)]
      /\ PlacedRight(proc[p]) /\ CountedRight(proc[Shell])
  BY DEF Structure, TypesHold, PlacesHold, ChildrenAreCounted
<1> QED
  BY <1>1, LineFacts DEF Processes

LEMMA StartedIsTyped ==
    /\ Started \in Processes(0) /\ Started.pc = "expr" /\ Started.at = 1
    /\ Started.proc_wait = 1 /\ Started.parent = 0 /\ Started.pipe_stdin = 0
    /\ Started.fd = [n \in Fds |-> IF n < 2 THEN Terminal ELSE Closed]
<1>1. Free \in Processes(0) /\ Free.parent = 0 /\ Free.pipe_stdin = 0
  BY FreeIsTyped DEF Free
<1>2. [n \in Fds |-> IF n < 2 THEN Terminal ELSE Closed] \in FdTables(0)
  BY DEF FdTables, Handles
<1> PICK fd \in FdTables(0) : fd = [n \in Fds |-> IF n < 2 THEN Terminal ELSE Closed]
  BY <1>2
<1> PICK i \in Nat : i = 1
  OBVIOUS
<1> PICK n \in Int : n = 1
  OBVIOUS
<1> PICK x : x = [Free EXCEPT !.pc = "expr", !.at = i, !.proc_wait = n, !.fd = fd]
  OBVIOUS
<1>3. Started = x
  BY DEF Started
<1>4. /\ x \in Processes(0) /\ x.pc = "expr" /\ x.at = i /\ x.proc_wait = n /\ x.fd = fd
      /\ x.parent = Free.parent /\ x.pipe_stdin = Free.pipe_stdin
  BY <1>1, ZenonT(60) DEF Processes, Pcs
<1> QED
  BY <1>1, <1>3, <1>4

LEMMA InitHasStructure == Init => Structure
<1> SUFFICES ASSUME Init PROVE Structure
  OBVIOUS
<1>1. /\ line \in Lines /\ pipes = 0
      /\ proc = [p \in Procs |-> IF p = Shell THEN Started ELSE Free]
  BY DEF Init
<1>2. Len(line.cmds) \in Nat \ {0}
  BY <1>1, LineFacts
<1>3. Free \in Processes(0) /\ Free.at = 0 /\ Free.pc = "free" /\ Free.parent = 0
  BY FreeIsTyped DEF Free
<1>4. /\ Started \in Processes(0) /\ Started.pc = "expr" /\ Started.at = 1
      /\ Started.proc_wait = 1 /\ Started.parent = 0
  BY StartedIsTyped
<1>5. /\ proc[Shell] = Started /\ \A p \in Procs : proc[p] \in {Started, Free}
      /\ \A p \in Procs : proc[p].parent = 0 /\ proc[p].pc \in {"expr", "free"}
      /\ 0 \notin Procs
  BY <1>1, <1>3, <1>4, Limits DEF Procs
<1>6. TypesHold
  BY <1>1, <1>3, <1>4 DEF TypesHold
<1>7. PlacesHold
  <2>1. PlacedRight(Started)
    BY <1>2, <1>4 DEF PlacedRight
  <2>2. PlacedRight(Free)
    BY <1>2, <1>3 DEF PlacedRight
  <2> QED
    BY <2>1, <2>2, <1>5 DEF PlacesHold
<1>8. ParentsLive
  BY <1>5, <1>4 DEF ParentsLive
<1>9. ChildrenAreCounted
  <2>1. Children(Shell) = {}
    BY <1>5, Limits DEF Children
  <2> QED
    BY <2>1, <1>4, <1>5, FS_EmptySet DEF ChildrenAreCounted, CountedRight
<1> QED
  BY <1>6, <1>7, <1>8, <1>9 DEF Structure

LEMMA NextCommandStructure ==
    ASSUME Structure, NEW p \in Procs, NextCommand(p)
    PROVE  /\ Structure' /\ Children(Shell)' = Children(Shell)
<1>0. /\ pipes \in Nat /\ line \in Lines /\ proc[p] \in Processes(pipes)
      /\ PlacedRight(proc[p]) /\ CountedRight(proc[Shell]) /\ Len(line.cmds) \in Nat
      /\ proc[p].at \in Nat /\ proc[p].fd \in FdTables(pipes)
  BY ProcessFacts
<1>1. proc[p].pc = "expr" /\ ~AtEnd(p) /\ line' = line
  BY DEF NextCommand
<1>2. proc[p].at >= 1 /\ proc[p].at <= Len(line.cmds)
  BY <1>0, <1>1 DEF AtEnd, PlacedRight
<1>3. PipeFds(proc[p].fd) \in FdNumbers \X FdNumbers
  BY <1>0, PipeEnds
<1> PICK new : new = PipeFds(proc[p].fd)
  OBVIOUS
<1> PICK x : x = IF Piped(p)
                 THEN [proc[p] EXCEPT !.pc = "command", !.pipefd = new,
                        !.fd[new[1]] = ReadEnd(pipes + 1), !.fd[new[2]] = WriteEnd(pipes + 1)]
                 ELSE [proc[p] EXCEPT !.pc = "command"]
  OBVIOUS
<1>4. proc' = [proc EXCEPT ![p] = x]
  BY DEF NextCommand
<1>5. /\ x.pc = "command" /\ x.at = proc[p].at /\ x.parent = proc[p].parent
      /\ x.proc_wait = proc[p].proc_wait
  BY <1>0 DEF Processes
<1>6. PlacedRight(x)
  BY <1>2, <1>5, <1>0 DEF PlacedRight
<1>7. p = Shell => CountedRight(x)
  BY <1>0, <1>1, <1>5 DEF CountedRight
<1>8. CASE Piped(p)
  <2>1. pipes' = pipes + 1
    BY <1>8 DEF NextCommand
  <2>2. proc[p] \in Processes(pipes + 1)
    BY <1>0, TypesGrow
  <2>3. [proc[p].fd EXCEPT ![new[1]] = ReadEnd(pipes + 1), ![new[2]] = WriteEnd(pipes + 1)]
          \in FdTables(pipes + 1)
    <3>1. proc[p].fd \in [Fds -> Handles(pipes + 1)]
      BY <2>2 DEF Processes, FdTables
    <3>2. ReadEnd(pipes + 1) \in Handles(pipes + 1) /\ WriteEnd(pipes + 1) \in Handles(pipes + 1)
      <4>1. pipes + 1 \in 1 .. pipes + 1
        BY <1>0
      <4> QED
        BY <4>1 DEF Handles
    <3> QED
      BY <3>1, <3>2 DEF FdTables
  <2>4. x \in Processes(pipes + 1)
    BY <2>2, <2>3, <1>3, <1>8, ZenonT(60) DEF Processes, Pcs
  <2> QED
    BY <2>1, <2>4, <1>1, <1>4, <1>5, <1>6, <1>7, OneChanges
<1>9. CASE ~Piped(p)
  <2>1. pipes' = pipes
    BY <1>9 DEF NextCommand
  <2>2. x \in Processes(pipes)
    BY <1>0, <1>9 DEF Processes, Pcs
  <2> QED
    BY <2>1, <2>2, <1>1, <1>4, <1>5, <1>6, <1>7, OneChanges
<1> QED
  BY <1>8, <1>9

LEMMA CallFailsStructure ==
    ASSUME Structure, NEW p \in Procs, CallFails(p)
    PROVE  Structure'
<1>1. proc[p].pc # "free" /\ Exit(p, 1) /\ UNCHANGED <<line, pipes>>
  BY DEF CallFails
<1> QED
  BY <1>1, ExitKeepsStructure

LEMMA CdStructure ==
    ASSUME Structure, NEW p \in Procs, Cd(p)
    PROVE  Structure'
<1>0. /\ pipes \in Nat /\ line \in Lines /\ proc[p] \in Processes(pipes)
      /\ PlacedRight(proc[p]) /\ CountedRight(proc[Shell]) /\ Len(line.cmds) \in Nat
      /\ proc[p].at \in Nat
  BY ProcessFacts
<1>1. proc[p].pc = "command" /\ line' = line /\ pipes' = pipes
  BY DEF Cd
<1>2. CASE Command(p).kind = "badcd" /\ Exit(p, 1)
  BY <1>1, <1>2, ExitKeepsStructure
<1>3. CASE proc' = [proc EXCEPT ![p].pc = "expr", ![p].at = @ + 1]
  <2> PICK i \in Nat : i = proc[p].at + 1
    BY <1>0
  <2> PICK x : x = [proc[p] EXCEPT !.pc = "expr", !.at = i]
    OBVIOUS
  <2>1. proc' = [proc EXCEPT ![p] = x]
    BY <1>3
  <2>2. /\ x \in Processes(pipes) /\ x.pc = "expr" /\ x.at = proc[p].at + 1
        /\ x.parent = proc[p].parent /\ x.proc_wait = proc[p].proc_wait
    BY <1>0 DEF Processes, Pcs
  <2>3. PlacedRight(x)
    BY <1>0, <1>1, <2>2, SMTT(60) DEF PlacedRight
  <2>4. p = Shell => CountedRight(x)
    BY <1>0, <1>1, <2>2 DEF CountedRight
  <2> QED
    BY <1>1, <2>1, <2>2, <2>3, <2>4, OneChanges
<1> QED
  BY <1>2, <1>3 DEF Cd

LEMMA StopReadingStructure ==
    ASSUME Structure, NEW p \in Procs, StopReading(p)
    PROVE  Structure' /\ Children(Shell)' = Children(Shell)
<1>0. /\ pipes \in Nat /\ line \in Lines /\ proc[p] \in Processes(pipes)
      /\ PlacedRight(proc[p]) /\ CountedRight(proc[Shell]) /\ Len(line.cmds) \in Nat
      /\ proc[p].at \in Nat /\ Cardinality(Children(Shell)) \in Nat /\ proc[p].proc_wait \in Int
  BY ProcessFacts, ChildrenAreFinite
<1>1. proc[p].pc \in {"expr", "command"} /\ line' = line /\ pipes' = pipes
  BY DEF StopReading
<1> PICK x : x = [proc[p] EXCEPT !.pc = "wait"]
  OBVIOUS
<1>2. proc' = [proc EXCEPT ![p] = x]
  BY DEF StopReading
<1>3. /\ x \in Processes(pipes) /\ x.pc = "wait" /\ x.at = proc[p].at
      /\ x.parent = proc[p].parent /\ x.proc_wait = proc[p].proc_wait
  BY <1>0 DEF Processes, Pcs
<1>4. x.at > Len(line.cmds) \/ line.cmds[x.at] = ExitCommand
  BY <1>3 DEF StopReading, AtEnd, LastExit, Command, ExitCommand
<1>5. PlacedRight(x)
  BY <1>0, <1>1, <1>3, <1>4 DEF PlacedRight
<1>6. p = Shell => CountedRight(x)
  BY <1>0, <1>1, <1>3 DEF CountedRight
<1> QED
  BY <1>1, <1>2, <1>3, <1>5, <1>6, OneChanges

LEMMA ParentStructure ==
    ASSUME Structure, NEW p \in Procs, Parent(p)
    PROVE  Structure' /\ Children(Shell)' = Children(Shell)
<1>0. /\ pipes \in Nat /\ line \in Lines /\ proc[p] \in Processes(pipes)
      /\ PlacedRight(proc[p]) /\ CountedRight(proc[Shell]) /\ Len(line.cmds) \in Nat
      /\ proc[p].at \in Nat /\ proc[p].fd \in FdTables(pipes) /\ proc[p].pipefd[1] \in FdNumbers
      /\ Cardinality(Children(Shell)) \in Nat /\ proc[p].proc_wait \in Int
  BY ProcessFacts, ChildrenAreFinite
<1>1. proc[p].pc = "parent" /\ line' = line /\ pipes' = pipes
  BY DEF Parent
<1> PICK closed : closed = ParentCloses(proc[p].fd, proc[p], Piped(p))
  OBVIOUS
<1>2. closed \in FdTables(pipes)
  BY <1>0, FdsAreTyped DEF ParentCloses
<1> PICK i \in Nat : i = proc[p].at + 1
  BY <1>0
<1> PICK n \in Int : n = proc[p].proc_wait + 1
  BY <1>0
<1> PICK s \in FdNumbers : s = IF Piped(p) THEN proc[p].pipefd[1] ELSE proc[p].pipe_stdin
  BY ProcessFacts
<1> PICK x : x = [proc[p] EXCEPT !.pc = "expr", !.at = i, !.proc_wait = n,
                     !.fd = closed, !.pipe_stdin = s]
  OBVIOUS
<1>3. proc' = [proc EXCEPT ![p] = x]
  BY DEF Parent, WaitsOnceMore
<1>4. /\ x \in Processes(pipes) /\ x.pc = "expr" /\ x.at = proc[p].at + 1
      /\ x.parent = proc[p].parent /\ x.proc_wait = proc[p].proc_wait + 1
  BY <1>0, <1>2, ZenonT(120) DEF Processes, Pcs
<1>5. PlacedRight(x)
  BY <1>0, <1>1, <1>4, SMTT(60) DEF PlacedRight
<1>6. p = Shell => CountedRight(x)
  BY <1>0, <1>1, <1>4 DEF CountedRight
<1> QED
  BY <1>1, <1>3, <1>4, <1>5, <1>6, OneChanges

LEMMA StdioIsTyped ==
    ASSUME Structure, NEW p \in Procs
    PROVE  /\ StdinFromPipe(proc[p]) \in FdTables(pipes)
           /\ \A fd \in FdTables(pipes) : StdoutToPipeOrFile(p, fd) \in FdTables(pipes)
<1>0. /\ pipes \in Nat /\ proc[p].fd \in FdTables(pipes)
      /\ proc[p].pipefd[1] \in FdNumbers /\ proc[p].pipefd[2] \in FdNumbers
      /\ proc[p].pipe_stdin \in FdNumbers
  BY ProcessFacts
<1>1. StdinFromPipe(proc[p]) \in FdTables(pipes)
  BY <1>0, FdsAreTyped DEF StdinFromPipe
<1>2. ASSUME NEW fd \in FdTables(pipes) PROVE StdoutToPipeOrFile(p, fd) \in FdTables(pipes)
  <2> DEFINE n == LowestClosed(fd)
             opened == IF line.out = "file" THEN [fd EXCEPT ![n] = File] ELSE fd
             w == proc[p].pipefd[2]
  <2>1. n \in FdNumbers
    BY LowestIsClosed
  <2>2. opened \in FdTables(pipes)
    BY <1>0, FdsAreTyped
  <2>3. StdoutToPipeOrFile(p, fd) =
          IF Piped(p) THEN Close(Dup(Close(opened, proc[p].pipefd[1]), w, 1), w)
          ELSE IF line.out = "file" THEN Close(Dup(opened, n, 1), n) ELSE fd
    BY DEF StdoutToPipeOrFile
  <2> HIDE DEF n, opened
  <2>4. Close(Dup(Close(opened, proc[p].pipefd[1]), w, 1), w) \in FdTables(pipes)
    BY <1>0, <2>2, FdsAreTyped
  <2>5. Close(Dup(opened, n, 1), n) \in FdTables(pipes)
    BY <1>0, <2>1, <2>2, FdsAreTyped
  <2> QED
    BY <2>3, <2>4, <2>5
<1> QED
  BY <1>1, <1>2

LEMMA ChildStructure ==
    ASSUME Structure, NEW p \in Procs, Child(p)
    PROVE  Structure'
<1>0. /\ pipes \in Nat /\ line \in Lines /\ proc[p] \in Processes(pipes)
      /\ PlacedRight(proc[p]) /\ CountedRight(proc[Shell]) /\ Len(line.cmds) \in Nat
      /\ proc[p].at \in Nat
  BY ProcessFacts
<1>1. proc[p].pc = "child" /\ line' = line /\ pipes' = pipes
  BY DEF Child
<1>2. p # Shell
  BY <1>0, <1>1 DEF CountedRight
<1> PICK fd : fd = StdoutToPipeOrFile(p, StdinFromPipe(proc[p]))
  OBVIOUS
<1>3. fd \in FdTables(pipes)
  BY StdioIsTyped
<1>4. CASE Command(p).kind = "exit"
  <2>1. Exit(p, proc[p].at)
    BY <1>4 DEF Child
  <2> QED
    BY <2>1, <1>0, <1>1, ExitKeepsStructure
<1>5. CASE Command(p).kind = "missing"
  <2> PICK x : x = [proc[p] EXCEPT !.pc = "parent", !.fd = fd, !.pipe_stdin = 0]
    OBVIOUS
  <2>1. proc' = [proc EXCEPT ![p] = x]
    BY <1>5 DEF Child
  <2>2. 0 \in FdNumbers
    BY Limits DEF FdNumbers
  <2>3. x \in Processes(pipes) /\ x.pc = "parent" /\ x.at = proc[p].at /\ x.parent = proc[p].parent
    BY <1>0, <1>3, <2>2 DEF Processes, Pcs
  <2>4. PlacedRight(x)
    BY <1>0, <1>1, <2>3 DEF PlacedRight
  <2> QED
    BY <1>1, <1>2, <2>1, <2>3, <2>4, OneChanges
<1>6. CASE Command(p).kind \notin {"exit", "missing"}
  <2> PICK x : x = [proc[p] EXCEPT !.pc = "program", !.fd = fd]
    OBVIOUS
  <2>1. proc' = [proc EXCEPT ![p] = x]
    BY <1>6 DEF Child
  <2>2. x \in Processes(pipes) /\ x.pc = "program" /\ x.at = proc[p].at /\ x.parent = proc[p].parent
    BY <1>0, <1>3 DEF Processes, Pcs
  <2>3. PlacedRight(x)
    BY <1>0, <1>1, <2>2 DEF PlacedRight
  <2> QED
    BY <1>1, <1>2, <2>1, <2>2, <2>3, OneChanges
<1> QED
  BY <1>4, <1>5, <1>6

LEMMA ProgramExitsStructure ==
    ASSUME Structure, NEW p \in Procs, ProgramExits(p)
    PROVE  Structure'
<1>1. /\ proc[p].pc # "free" /\ Exit(p, proc[p].at) /\ UNCHANGED <<line, pipes>>
      /\ proc[p].at \in Int
  BY ProcessFacts DEF ProgramExits
<1> QED
  BY <1>1, ExitKeepsStructure

LEMMA MainEndsStructure ==
    ASSUME Structure, NEW p \in Procs, MainEnds(p)
    PROVE  Structure'
<1>1. /\ proc[p].pc # "free" /\ Exit(p, proc[p].last_status) /\ UNCHANGED <<line, pipes>>
  BY DEF MainEnds
<1>2. proc[p].last_status \in Int
  BY ProcessFacts DEF Processes
<1> QED
  BY <1>1, <1>2, ExitKeepsStructure

LEMMA WaitFailsStructure ==
    ASSUME Structure, NEW p \in Procs, WaitFails(p)
    PROVE  Structure'
<1>0. /\ pipes \in Nat /\ line \in Lines /\ proc[p] \in Processes(pipes)
      /\ PlacedRight(proc[p]) /\ CountedRight(proc[Shell]) /\ Len(line.cmds) \in Nat
      /\ proc[p].at \in Nat /\ proc[p].proc_wait \in Int /\ proc[p].last_status \in Int
  BY ProcessFacts DEF Processes
<1>1. /\ proc[p].pc = "wait" /\ proc[p].proc_wait > 0 /\ line' = line /\ pipes' = pipes
      /\ Children(p) = {}
  BY DEF WaitFails
<1> PICK s : /\ s \in {proc[p].last_status} \cup (IF proc[p].pid = Unset THEN {Garbage} ELSE {})
             /\ proc' = [proc EXCEPT ![p].proc_wait = @ - 1, ![p].last_status = s]
  BY DEF WaitFails
<1>2. s \in Int
  BY <1>0 DEF Garbage
<1> PICK n \in Int : n = proc[p].proc_wait - 1
  BY <1>0
<1>9. n >= 0
  BY <1>0, <1>1
<1> PICK x : x = [proc[p] EXCEPT !.proc_wait = n, !.last_status = s]
  OBVIOUS
<1>3. proc' = [proc EXCEPT ![p] = x]
  OBVIOUS
<1>4. /\ x \in Processes(pipes) /\ x.pc = "wait" /\ x.at = proc[p].at
      /\ x.parent = proc[p].parent /\ x.proc_wait = n
  BY <1>0, <1>1, <1>2 DEF Processes
<1>5. PlacedRight(x)
  BY <1>0, <1>1, <1>4 DEF PlacedRight
<1>6. ASSUME p = Shell PROVE CountedRight(x)
  <2>1. Cardinality(Children(Shell)) = 0
    BY <1>1, <1>6, FS_EmptySet
  <2>2. proc[p].parent = 0
    BY <1>0, <1>6 DEF CountedRight
  <2> QED
    BY <1>4, <1>9, <2>1, <2>2 DEF CountedRight
<1> QED
  BY <1>1, <1>3, <1>4, <1>5, <1>6, OneChanges

LEMMA ReturnStructure ==
    ASSUME Structure, NEW p \in Procs, Return(p)
    PROVE  Structure'
<1>0. /\ pipes \in Nat /\ line \in Lines /\ proc[p] \in Processes(pipes)
      /\ PlacedRight(proc[p]) /\ CountedRight(proc[Shell]) /\ Len(line.cmds) \in Nat
      /\ proc[p].at \in Nat
  BY ProcessFacts
<1>1. proc[p].pc = "wait" /\ proc[p].proc_wait = 0 /\ line' = line /\ pipes' = pipes
  BY DEF Return
<1>2. CASE AtEnd(p)
  <2> PICK x : x = [proc[p] EXCEPT !.pc = "returned"]
    OBVIOUS
  <2>1. proc' = [proc EXCEPT ![p] = x]
    BY <1>2 DEF Return
  <2>2. /\ x \in Processes(pipes) /\ x.pc = "returned" /\ x.at = proc[p].at
        /\ x.parent = proc[p].parent /\ x.proc_wait = 0
    BY <1>0, <1>1 DEF Processes, Pcs
  <2>3. PlacedRight(x)
    BY <1>0, <1>1, <1>2, <2>2 DEF PlacedRight, AtEnd
  <2>4. p = Shell => CountedRight(x)
    BY <1>0, <1>1, <2>2 DEF CountedRight
  <2> QED
    BY <1>1, <2>1, <2>2, <2>3, <2>4, OneChanges
<1>3. CASE ~AtEnd(p) /\ proc[p].at = 1
  <2>1. Exit(p, 1)
    BY <1>3 DEF Return
  <2> QED
    BY <2>1, <1>1, ExitKeepsStructure
<1>4. CASE ~AtEnd(p) /\ proc[p].at # 1
  <2> PICK s \in Int : s = proc[p].at
    BY <1>0
  <2> PICK x : x = [proc[p] EXCEPT !.pc = "returned", !.last_status = s]
    OBVIOUS
  <2>1. proc' = [proc EXCEPT ![p] = x]
    BY <1>4 DEF Return
  <2>2. /\ x \in Processes(pipes) /\ x.pc = "returned" /\ x.at = proc[p].at
        /\ x.parent = proc[p].parent /\ x.proc_wait = 0 /\ x.last_status = x.at
    BY <1>0, <1>1, ZenonT(60) DEF Processes, Pcs
  <2>3. PlacedRight(x)
    BY <1>0, <1>1, <2>2 DEF PlacedRight
  <2>4. p = Shell => CountedRight(x)
    BY <1>0, <1>1, <2>2 DEF CountedRight
  <2> QED
    BY <1>1, <2>1, <2>2, <2>3, <2>4, OneChanges
<1> QED
  BY <1>2, <1>3, <1>4

\* What fork() does to the two processes.
LEMMA ForkEffect ==
    ASSUME Structure, NEW p \in Procs, Fork(p)
    PROVE  \E c \in Procs \ {p}, x \in Processes(pipes), y \in Processes(pipes) :
             /\ proc[c].pc = "free"
             /\ x.pc = "parent" /\ x.pid = c /\ y.pc = "child" /\ y.parent = p
             /\ x.parent = proc[p].parent /\ x.proc_wait = proc[p].proc_wait
             /\ \A z \in {x, y} :
                  /\ z.at = proc[p].at /\ z.fd = proc[p].fd
                  /\ z.pipefd = proc[p].pipefd /\ z.pipe_stdin = proc[p].pipe_stdin
             /\ proc' = [q \in Procs |-> IF q = p THEN x ELSE IF q = c THEN y ELSE proc[q]]
             /\ proc'[p] = x /\ proc'[c] = y
             /\ \A q \in Procs \ {p, c} : proc'[q] = proc[q]
<1>0. /\ pipes \in Nat /\ proc[p] \in Processes(pipes) /\ proc \in [Procs -> Processes(pipes)]
  BY ProcessFacts
<1>1. proc[p].pc = "command"
  BY DEF Fork
<1> PICK c \in Procs :
         /\ proc[c].pc = "free"
         /\ proc' = [proc EXCEPT ![p].pc = "parent", ![p].pid = c,
                ![c] = [proc[p] EXCEPT !.pc = "child", !.pid = 0, !.parent = p]]
  BY DEF Fork
<1>2. c # p
  BY <1>1
<1>3. p \in Int /\ c \in Int
  BY DEF Procs
<1> PICK x : x = [proc[p] EXCEPT !.pc = "parent", !.pid = c]
  OBVIOUS
<1> PICK zero \in Int : zero = 0
  OBVIOUS
<1> PICK y : y = [proc[p] EXCEPT !.pc = "child", !.pid = zero, !.parent = p]
  OBVIOUS
<1>4. x \in Processes(pipes)
  BY <1>0, <1>3 DEF Processes, Pcs
<1>5. y \in Processes(pipes)
  BY <1>0, <1>3 DEF Processes, Pcs
<1>6. proc' = [q \in Procs |-> IF q = p THEN x ELSE IF q = c THEN y ELSE proc[q]]
  BY <1>0, <1>2
<1>7. proc'[p] = x /\ proc'[c] = y /\ \A q \in Procs \ {p, c} : proc'[q] = proc[q]
  BY <1>2, <1>6
<1>8. /\ x.pc = "parent" /\ x.pid = c /\ x.at = proc[p].at /\ x.fd = proc[p].fd
      /\ x.pipefd = proc[p].pipefd /\ x.pipe_stdin = proc[p].pipe_stdin
      /\ x.parent = proc[p].parent /\ x.proc_wait = proc[p].proc_wait
  BY <1>0 DEF Processes
<1>9. /\ y.pc = "child" /\ y.parent = p /\ y.at = proc[p].at /\ y.fd = proc[p].fd
      /\ y.pipefd = proc[p].pipefd /\ y.pipe_stdin = proc[p].pipe_stdin
  BY <1>0 DEF Processes
<1>10. /\ proc[c].pc = "free"
       /\ x.pc = "parent" /\ x.pid = c /\ y.pc = "child" /\ y.parent = p
       /\ x.parent = proc[p].parent /\ x.proc_wait = proc[p].proc_wait
       /\ \A z \in {x, y} :
            /\ z.at = proc[p].at /\ z.fd = proc[p].fd
            /\ z.pipefd = proc[p].pipefd /\ z.pipe_stdin = proc[p].pipe_stdin
       /\ proc' = [q \in Procs |-> IF q = p THEN x ELSE IF q = c THEN y ELSE proc[q]]
       /\ proc'[p] = x /\ proc'[c] = y
       /\ \A q \in Procs \ {p, c} : proc'[q] = proc[q]
  BY <1>6, <1>7, <1>8, <1>9, ZenonT(60)
<1>11. c \in Procs \ {p}
  BY <1>2
<1> QED
  BY <1>4, <1>5, <1>10, <1>11, Zenon

LEMMA ForkStructure ==
    ASSUME Structure, NEW p \in Procs, Fork(p)
    PROVE  Structure'
<1>0. /\ pipes \in Nat /\ line \in Lines /\ proc[p] \in Processes(pipes)
      /\ proc \in [Procs -> Processes(pipes)]
      /\ PlacedRight(proc[p]) /\ CountedRight(proc[Shell]) /\ Len(line.cmds) \in Nat
      /\ proc[p].at \in Nat /\ proc[Shell].proc_wait \in Int /\ Cardinality(Children(Shell)) \in Nat
  BY ProcessFacts, Limits, ChildrenAreFinite
<1>1. proc[p].pc = "command" /\ line' = line /\ pipes' = pipes
  BY DEF Fork
<1> PICK c \in Procs \ {p}, x \in Processes(pipes), y \in Processes(pipes) :
             /\ proc[c].pc = "free"
             /\ x.pc = "parent" /\ x.pid = c /\ y.pc = "child" /\ y.parent = p
             /\ x.parent = proc[p].parent /\ x.proc_wait = proc[p].proc_wait
             /\ \A z \in {x, y} :
                  /\ z.at = proc[p].at /\ z.fd = proc[p].fd
                  /\ z.pipefd = proc[p].pipefd /\ z.pipe_stdin = proc[p].pipe_stdin
             /\ proc' = [q \in Procs |-> IF q = p THEN x ELSE IF q = c THEN y ELSE proc[q]]
             /\ proc'[p] = x /\ proc'[c] = y
             /\ \A q \in Procs \ {p, c} : proc'[q] = proc[q]
  BY ForkEffect
<1>2. /\ x.pc = "parent" /\ x.at = proc[p].at /\ x.parent = proc[p].parent
      /\ x.proc_wait = proc[p].proc_wait
      /\ y.pc = "child" /\ y.at = proc[p].at /\ y.parent = p
  OBVIOUS
<1>3. TypesHold'
  <2>1. \A q \in Procs : (IF q = p THEN x ELSE IF q = c THEN y ELSE proc[q]) \in Processes(pipes)
    BY <1>0
  <2>2. proc' \in [Procs -> Processes(pipes)]
    BY <2>1
  <2> QED
    BY <1>0, <1>1, <2>2 DEF TypesHold
<1>4. PlacesHold'
  <2> SUFFICES ASSUME NEW q \in Procs PROVE PlacedRight(proc[q])'
    BY DEF PlacesHold
  <2>1. CASE q \in {p, c}
    <3>1. proc'[q].pc \in {"parent", "child"} /\ proc'[q].at = proc[p].at
      BY <1>2, <2>1
    <3> QED
      BY <3>1, <1>0, <1>1 DEF PlacedRight
  <2>2. CASE q \notin {p, c}
    <3>1. PlacedRight(proc[q])' <=> PlacedRight(proc[q])
      BY <1>1, <2>2 DEF PlacedRight
    <3> QED
      BY <3>1 DEF Structure, PlacesHold
  <2> QED
    BY <2>1, <2>2
<1>5. \A q \in Procs :
         /\ proc[q].parent # c /\ proc[q].parent # q
         /\ proc[q].pc = "free" => proc[q] = Free
         /\ proc[q].parent \in Procs =>
              proc[proc[q].parent].pc \notin {"free", "zombie", "program", "child"}
  BY DEF Structure, ParentsLive
<1>6. ParentsLive'
  <2> SUFFICES ASSUME NEW q \in Procs
               PROVE  /\ proc'[q].pc = "free" => proc'[q] = Free
                      /\ proc'[q].parent # q
                      /\ proc'[q].parent \in Procs =>
                           proc'[proc'[q].parent].pc \notin {"free", "zombie", "program", "child"}
    BY DEF ParentsLive
  <2>1. (proc'[q].pc = "free" => proc'[q] = Free) /\ proc'[q].parent # q
    BY <1>2, <1>5
  <2>2. IF q = c THEN proc'[q].parent = p ELSE proc'[q].parent = proc[q].parent
    BY <1>2
  <2>3. CASE q = c
    BY <2>2, <2>3, <1>2
  <2>4. ASSUME q # c, NEW r \in Procs, proc[q].parent = r
        PROVE  proc'[r].pc \notin {"free", "zombie", "program", "child"}
    <3>1. proc[r].pc \notin {"free", "zombie", "program", "child"} /\ r # c
      BY <2>4, <1>5
    <3> QED
      BY <3>1, <1>2
  <2> QED
    BY <2>1, <2>2, <2>3, <2>4
<1>7. ChildrenAreCounted'
  <2>1. proc[c].parent = 0 /\ 0 \notin Procs
    BY <1>0, <1>5, FreeIsTyped DEF Procs
  <2>2. ASSUME NEW q \in Procs \ {c} PROVE (q \in Children(Shell))' <=> q \in Children(Shell)
    BY <1>1, <1>2 DEF Children
  <2>3. CASE p = Shell
    <3>1. Children(Shell)' = Children(Shell) \cup {c}
      <4>1. (c \in Children(Shell))' /\ c \notin Children(Shell)
        BY <1>2, <2>1, <2>3 DEF Children
      <4>2. Children(Shell)' \subseteq Procs /\ Children(Shell) \subseteq Procs
        BY DEF Children
      <4> QED
        BY <4>1, <4>2, <2>2
    <3>2. Cardinality(Children(Shell) \cup {c}) \in {Cardinality(Children(Shell)), Cardinality(Children(Shell)) + 1}
      BY OneMoreChild
    <3>3. Cardinality(Children(Shell)) + 1 <= proc[Shell].proc_wait /\ proc[Shell].parent = 0
      BY <1>0, <1>1, <2>3 DEF CountedRight
    <3>4. Cardinality(Children(Shell))' <= proc[Shell].proc_wait
      BY <1>0, <3>1, <3>2, <3>3
    <3>5. /\ proc'[Shell].pc = "parent" /\ proc'[Shell].parent = 0
          /\ proc'[Shell].proc_wait = proc[Shell].proc_wait
      BY <1>2, <2>3, <3>3
    <3>6. Cardinality(Children(Shell))' \in Nat
      BY <3>1, <3>2, <1>0
    <3> QED
      BY <3>4, <3>5, <3>6, <1>0, SMTT(60) DEF ChildrenAreCounted, CountedRight
  <2>4. CASE p # Shell
    <3>1. proc[Shell].pc # "free"
      BY <1>0 DEF CountedRight
    <3>2. proc'[Shell] = proc[Shell]
      BY <3>1, <2>4, Limits
    <3>3. Children(Shell)' = Children(Shell)
      <4>1. (c \notin Children(Shell))' /\ c \notin Children(Shell)
        BY <1>2, <2>1, <2>4, Limits DEF Children
      <4>2. Children(Shell)' \subseteq Procs /\ Children(Shell) \subseteq Procs
        BY DEF Children
      <4> QED
        BY <4>1, <4>2, <2>2
    <3> QED
      BY <1>0, <3>2, <3>3 DEF ChildrenAreCounted, CountedRight
  <2> QED
    BY <2>3, <2>4
<1> QED
  BY <1>3, <1>4, <1>6, <1>7 DEF Structure

\* What wait() does to the two processes.
LEMMA WaitEffect ==
    ASSUME Structure, NEW p \in Procs, Wait(p)
    PROVE  \E c \in Children(p) \ {p}, x \in Processes(pipes) :
             /\ proc[c].pc = "zombie"
             /\ x.pc = "wait" /\ x.at = proc[p].at /\ x.parent = proc[p].parent
             /\ x.pid = proc[p].pid /\ x.fd = proc[p].fd /\ x.pipe_stdin = proc[p].pipe_stdin
             /\ x.pipefd = proc[p].pipefd
             /\ x.proc_wait = proc[p].proc_wait - 1
             /\ x.last_status = IF proc[p].pid = c THEN proc[c].last_status ELSE proc[p].last_status
             /\ proc' = [q \in Procs |-> IF q = p THEN x ELSE IF q = c THEN Free ELSE proc[q]]
             /\ proc'[p] = x /\ proc'[c] = Free
             /\ \A q \in Procs \ {p, c} : proc'[q] = proc[q]
<1>0. /\ pipes \in Nat /\ proc[p] \in Processes(pipes) /\ proc \in [Procs -> Processes(pipes)]
      /\ proc[p].proc_wait \in Int
  BY ProcessFacts
<1>1. proc[p].pc = "wait"
  BY DEF Wait
<1> PICK c \in Children(p) :
         /\ Ended(c)
         /\ proc' = [proc EXCEPT ![c] = Free, ![p].proc_wait = @ - 1,
                ![p].last_status = IF StatusIsOurs(p, c) THEN proc[c].last_status ELSE @]
  BY DEF Wait
<1>2. c \in Procs /\ c # p /\ proc[c].pc = "zombie"
  BY <1>1 DEF Ended, Children
<1>3. proc[p].last_status \in Int /\ proc[c].last_status \in Int
  <2>1. proc[c] \in Processes(pipes)
    BY <1>0, <1>2
  <2> QED
    BY <1>0, <2>1 DEF Processes
<1> PICK n \in Int : n = proc[p].proc_wait - 1
  BY <1>0
<1> PICK s \in Int : s = IF proc[p].pid = c THEN proc[c].last_status ELSE proc[p].last_status
  BY <1>3
<1> PICK x : x = [proc[p] EXCEPT !.proc_wait = n, !.last_status = s]
  OBVIOUS
<1>4. x \in Processes(pipes)
  BY <1>0, ZenonT(60) DEF Processes
<1>5. /\ x.pc = "wait" /\ x.at = proc[p].at /\ x.parent = proc[p].parent
      /\ x.pid = proc[p].pid /\ x.fd = proc[p].fd /\ x.pipe_stdin = proc[p].pipe_stdin
      /\ x.pipefd = proc[p].pipefd /\ x.proc_wait = n /\ x.last_status = s
  BY <1>0, <1>1 DEF Processes
<1>6. proc' = [q \in Procs |-> IF q = p THEN x ELSE IF q = c THEN Free ELSE proc[q]]
  BY <1>0, <1>2 DEF StatusIsOurs
<1>7. proc'[p] = x /\ proc'[c] = Free /\ \A q \in Procs \ {p, c} : proc'[q] = proc[q]
  BY <1>2, <1>6
<1> QED
  BY <1>2, <1>4, <1>5, <1>6, <1>7

LEMMA WaitStructure ==
    ASSUME Structure, NEW p \in Procs, Wait(p)
    PROVE  Structure'
<1>0. /\ pipes \in Nat /\ line \in Lines /\ proc[p] \in Processes(pipes)
      /\ proc \in [Procs -> Processes(pipes)]
      /\ PlacedRight(proc[p]) /\ CountedRight(proc[Shell]) /\ Len(line.cmds) \in Nat
      /\ proc[p].at \in Nat /\ proc[p].proc_wait \in Int /\ Cardinality(Children(Shell)) \in Nat
  BY ProcessFacts, ChildrenAreFinite
<1>1. proc[p].pc = "wait" /\ proc[p].proc_wait > 0 /\ line' = line /\ pipes' = pipes
  BY DEF Wait
<1> PICK c \in Children(p) \ {p}, x \in Processes(pipes) :
             /\ proc[c].pc = "zombie"
             /\ x.pc = "wait" /\ x.at = proc[p].at /\ x.parent = proc[p].parent
             /\ x.proc_wait = proc[p].proc_wait - 1
             /\ proc' = [q \in Procs |-> IF q = p THEN x ELSE IF q = c THEN Free ELSE proc[q]]
             /\ proc'[p] = x /\ proc'[c] = Free
             /\ \A q \in Procs \ {p, c} : proc'[q] = proc[q]
  BY WaitEffect
<1>2. /\ c \in Procs /\ proc[c].parent = p
      /\ Free \in Processes(pipes) /\ Free.pc = "free" /\ Free.parent = 0 /\ Free.at = 0
      /\ 0 \notin Procs
  BY <1>0, FreeIsTyped, SMTT(60) DEF Children, Procs, Free
<1>3. TypesHold'
  <2>1. \A q \in Procs : (IF q = p THEN x ELSE IF q = c THEN Free ELSE proc[q]) \in Processes(pipes)
    BY <1>0, <1>2
  <2>2. proc' \in [Procs -> Processes(pipes)]
    BY <2>1
  <2> QED
    BY <1>0, <1>1, <2>2 DEF TypesHold
<1>4. PlacesHold'
  <2> SUFFICES ASSUME NEW q \in Procs PROVE PlacedRight(proc[q])'
    BY DEF PlacesHold
  <2>1. CASE q = p
    BY <1>0, <1>1, <2>1 DEF PlacedRight
  <2>2. CASE q = c
    BY <1>0, <1>1, <1>2, <2>2, SMTT(60) DEF PlacedRight
  <2>3. CASE q \notin {p, c}
    <3>1. PlacedRight(proc[q])' <=> PlacedRight(proc[q])
      BY <1>1, <2>3 DEF PlacedRight
    <3> QED
      BY <3>1 DEF Structure, PlacesHold
  <2> QED
    BY <2>1, <2>2, <2>3
<1>5. \A q \in Procs :
         /\ proc[q].parent # c /\ proc[q].parent # q
         /\ proc[q].pc = "free" => proc[q] = Free
         /\ proc[q].parent \in Procs =>
              proc[proc[q].parent].pc \notin {"free", "zombie", "program", "child"}
  BY <1>2 DEF Structure, ParentsLive
<1>6. ParentsLive'
  <2> SUFFICES ASSUME NEW q \in Procs
               PROVE  /\ proc'[q].pc = "free" => proc'[q] = Free
                      /\ proc'[q].parent # q
                      /\ proc'[q].parent \in Procs =>
                           proc'[proc'[q].parent].pc \notin {"free", "zombie", "program", "child"}
    BY DEF ParentsLive
  <2>1. (proc'[q].pc = "free" => proc'[q] = Free) /\ proc'[q].parent # q
    BY <1>2, <1>5
  <2>2. IF q = c THEN proc'[q].parent = 0 ELSE proc'[q].parent = proc[q].parent
    BY <1>2
  <2>3. ASSUME q # c, NEW r \in Procs, proc[q].parent = r
        PROVE  proc'[r].pc \notin {"free", "zombie", "program", "child"}
    <3>1. proc[r].pc \notin {"free", "zombie", "program", "child"} /\ r # c
      BY <2>3, <1>5
    <3> QED
      BY <3>1, <1>1
  <2> QED
    BY <2>1, <2>2, <2>3, <1>2
<1>7. ChildrenAreCounted'
  <2>1. Children(Shell)' = Children(Shell) \ {c}
    <3>1. ASSUME NEW q \in Procs \ {c} PROVE (q \in Children(Shell))' <=> q \in Children(Shell)
      BY <1>1, <1>2 DEF Children
    <3>2. (c \notin Children(Shell))'
      BY <1>2, Limits DEF Children
    <3>3. Children(Shell)' \subseteq Procs /\ Children(Shell) \subseteq Procs
      BY DEF Children
    <3> QED
      BY <3>1, <3>2, <3>3
  <2>2. CASE p = Shell
    <3>1. Cardinality(Children(Shell) \ {c}) = Cardinality(Children(Shell)) - 1
      <4>1. IsFiniteSet(Children(Shell)) /\ c \in Children(Shell)
        BY ChildrenAreFinite, <2>2
      <4> QED
        BY <4>1, FS_RemoveElement
    <3>2. Cardinality(Children(Shell)) <= proc[p].proc_wait /\ proc[p].parent = 0
      BY <1>0, <1>1, <2>2 DEF CountedRight
    <3>3. /\ proc'[Shell].pc = "wait" /\ proc'[Shell].parent = 0
          /\ proc'[Shell].proc_wait = proc[p].proc_wait - 1
          /\ Cardinality(Children(Shell))' = Cardinality(Children(Shell)) - 1
      BY <2>1, <2>2, <3>1, <3>2
    <3> QED
      BY <1>0, <3>2, <3>3, SMTT(60) DEF ChildrenAreCounted, CountedRight
  <2>3. CASE p # Shell
    <3>1. proc'[Shell] = proc[Shell] /\ c # Shell
      BY <1>0, <1>2, <2>3, Limits DEF CountedRight
    <3>2. Children(Shell)' = Children(Shell)
      BY <1>2, <2>1, <2>3 DEF Children
    <3> QED
      BY <1>0, <3>1, <3>2 DEF ChildrenAreCounted, CountedRight
  <2> QED
    BY <2>2, <2>3
<1> QED
  BY <1>3, <1>4, <1>6, <1>7 DEF Structure

LEMMA StepKeepsStructure == Structure /\ [Next]_vars => Structure'
<1> SUFFICES ASSUME Structure, [Next]_vars PROVE Structure'
  OBVIOUS
<1>1. ASSUME NEW p \in Procs, Runs(p) \/ CallFails(p) \/ MainEnds(p) PROVE Structure'
  BY <1>1, NextCommandStructure, CallFailsStructure, CdStructure, StopReadingStructure,
     ForkStructure, ChildStructure, ParentStructure, WaitStructure, WaitFailsStructure,
     ReturnStructure, ProgramExitsStructure, MainEndsStructure DEF Runs
<1>2. CASE UNCHANGED vars
  <2>1. line' = line /\ pipes' = pipes /\ proc' = proc
    BY <1>2 DEF vars
  <2>2. Children(Shell)' = Children(Shell)
    BY <2>1 DEF Children
  <2>3. TypesHold' /\ PlacesHold' /\ ParentsLive'
    BY <2>1 DEF Structure, TypesHold, PlacesHold, ParentsLive, PlacedRight
  <2>4. ChildrenAreCounted'
    BY <2>1, <2>2 DEF Structure, ChildrenAreCounted, CountedRight
  <2> QED
    BY <2>3, <2>4 DEF Structure
<1> QED
  BY <1>1, <1>2 DEF Next

-----------------------------------------------------------------------------
(* The status of the last command, if every program is found *)

\* What a step of another process than the shell is, if no child goes on as a shell.
LEMMA OthersStep ==
    ASSUME Structure, AllFound, LastIsKnown, NEW p \in Procs \ {Shell},
           Runs(p) \/ CallFails(p) \/ MainEnds(p)
    PROVE  /\ line' = line /\ pipes' = pipes
           /\ proc[p].pc \in {"child", "program"} /\ proc'[p].parent = proc[p].parent
           /\ \A q \in Procs \ {p} : proc'[q] = proc[q]
           /\ \/ proc'[p].pc = "zombie" /\ proc'[p].last_status = proc[p].at
              \/ /\ proc[p].pc = "child" /\ proc'[p].pc = "program" /\ proc'[p].at = proc[p].at
                 /\ proc'[p].fd = StdoutToPipeOrFile(p, StdinFromPipe(proc[p]))
<1>1. proc[p].pc \in {"free", "child", "program", "zombie"}
  BY DEF LastIsKnown
<1>2. Child(p) \/ ProgramExits(p)
  BY <1>1 DEF Runs, NextCommand, CallFails, Cd, StopReading, Fork, Parent, Wait, WaitFails,
              Return, MainEnds
<1>3. /\ proc[p].pc \in {"child", "program"} /\ line' = line /\ pipes' = pipes
      /\ proc[p] \in Processes(pipes) /\ proc \in [Procs -> Processes(pipes)]
      /\ PlacedRight(proc[p]) /\ proc[p].at \in Nat
  BY <1>2, ProcessFacts DEF Child, ProgramExits
<1>4. CASE Exit(p, proc[p].at)
  <2>1. TypesHold /\ ParentsLive
    BY DEF Structure
  <2>2. \A q \in Procs : proc[q].parent # p
    BY <1>3, <2>1 DEF ParentsLive
  <2>3. /\ proc'[p].pc = "zombie" /\ proc'[p].last_status = proc[p].at
        /\ proc'[p].parent = proc[p].parent
        /\ \A q \in Procs \ {p} : proc[q].parent # p => proc'[q] = proc[q]
    <3>1. Exit(p, proc[p].at) /\ proc[p].pc # "free" /\ proc[p].at \in Int /\ p \in Procs
      BY <1>3, <1>4
    <3>2. /\ proc' \in [Procs -> Processes(pipes)]
          /\ proc'[p].pc = "zombie" /\ proc'[p].last_status = proc[p].at /\ proc'[p].at = 0
          /\ proc'[p].proc_wait = 0 /\ proc'[p].parent = proc[p].parent
          /\ proc[p].parent # p
          /\ \A q \in Procs \ {p} :
               /\ proc[q].parent # p => proc'[q] = proc[q]
               /\ proc[q].parent = p => proc'[q] = [proc[q] EXCEPT !.parent = 0]
      BY <3>1, <2>1, ExitEffect
    <3> QED
      BY <3>2
  <2> QED
    BY <2>2, <2>3, <1>3
<1>5. CASE Child(p) /\ Command(p).kind # "exit"
  <2>1. Command(p).kind # "missing"
    <3>1. proc[p].at \in DOMAIN line.cmds
      BY <1>3, <1>5, ProcessFacts, LineFacts DEF Child, PlacedRight
    <3> QED
      BY <3>1 DEF AllFound, Kind, Command
  <2> PICK fd : fd = StdoutToPipeOrFile(p, StdinFromPipe(proc[p]))
    OBVIOUS
  <2>2. proc' = [proc EXCEPT ![p].pc = "program", ![p].fd = fd]
    BY <1>5, <2>1 DEF Child
  <2>3. proc[p].pc = "child"
    BY <1>5 DEF Child
  <2>4. /\ proc'[p].parent = proc[p].parent /\ proc'[p].pc = "program"
        /\ proc'[p].at = proc[p].at /\ proc'[p].fd = fd
        /\ \A q \in Procs \ {p} : proc'[q] = proc[q]
    BY <2>2, <1>3 DEF Processes
  <2> QED
    BY <2>3, <2>4, <1>3
<1> QED
  BY <1>2, <1>4, <1>5 DEF Child, ProgramExits

\* The last command's status stays known while other processes go on.
LEMMA OthersKeepLast ==
    ASSUME Structure, AllFound, LastIsKnown, NEW p \in Procs \ {Shell},
           Runs(p) \/ CallFails(p) \/ MainEnds(p)
    PROVE  LastIsKnown'
<1>1. /\ line' = line
      /\ proc[p].pc \in {"child", "program"} /\ proc'[p].parent = proc[p].parent
      /\ \A q \in Procs \ {p} : proc'[q] = proc[q]
      /\ \/ proc'[p].pc = "zombie" /\ proc'[p].last_status = proc[p].at
         \/ proc[p].pc = "child" /\ proc'[p].pc = "program" /\ proc'[p].at = proc[p].at
  BY OthersStep
<1>2. proc'[Shell] = proc[Shell] /\ Shell \in Procs
  BY <1>1, Limits
<1>3. ASSUME NEW c, NEW i, RunsCommand(c, i) PROVE RunsCommand(c, i)'
  BY <1>1, <1>3 DEF RunsCommand
<1>4. \A q \in Procs : proc[q].pc = "free" => proc'[q] = proc[q]
  BY <1>1
<1>5. \A q \in Procs \ {Shell} : proc'[q].pc \in {"free", "child", "program", "zombie"}
  BY <1>1 DEF LastIsKnown
<1> PICK x : x = proc[Shell]
  OBVIOUS
<1> PICK n : n = Len(line.cmds)
  OBVIOUS
<1>6. x.pc = "parent" => RunsCommand(x.pid, x.at)'
  BY <1>3 DEF LastIsKnown
<1>7. x.pc \in {"expr", "wait", "returned"} /\ x.at > n =>
         \/ Kind(n) = "cd"
         \/ RunsCommand(x.pid, n)'
         \/ x.pid \in Procs /\ proc'[x.pid].pc = "free" /\ x.last_status = n
  <2>1. x.pc \in {"expr", "wait", "returned"} /\ x.at > n =>
         \/ Kind(n) = "cd"
         \/ RunsCommand(x.pid, n)
         \/ x.pid \in Procs /\ proc[x.pid].pc = "free" /\ x.last_status = n
    BY DEF LastIsKnown, AtEnd
  <2>2. RunsCommand(x.pid, n) => RunsCommand(x.pid, n)'
    BY <1>3
  <2> QED
    BY <2>1, <2>2, <1>4
<1> QED
  BY <1>1, <1>2, <1>5, <1>6, <1>7 DEF LastIsKnown, AtEnd, RunsCommand, Kind

LEMMA LastOfShell ==
    ASSUME Structure, AllFound, LastIsKnown,
           Runs(Shell) \/ CallFails(Shell) \/ MainEnds(Shell)
    PROVE  LastIsKnown'
<1>0. /\ pipes \in Nat /\ line \in Lines /\ proc[Shell] \in Processes(pipes)
      /\ proc \in [Procs -> Processes(pipes)] /\ Shell \in Procs
      /\ PlacedRight(proc[Shell]) /\ CountedRight(proc[Shell]) /\ Len(line.cmds) \in Nat \ {0}
      /\ proc[Shell].at \in Nat
  BY ProcessFacts, Limits
<1>1. \A q \in Procs \ {Shell} : proc[q].pc \in {"free", "child", "program", "zombie"}
  BY DEF LastIsKnown
<1>2. ~Child(Shell) /\ ~ProgramExits(Shell) /\ ~MainEnds(Shell)
  BY <1>0 DEF CountedRight, Child, ProgramExits, MainEnds
<1>3. ASSUME NEW s, Exit(Shell, s), s \in Int, proc[Shell].pc # "free", line' = line PROVE LastIsKnown'
  <2>1. /\ proc'[Shell].pc = "zombie"
        /\ \A q \in Procs \ {Shell} :
             /\ proc[q].parent # Shell => proc'[q] = proc[q]
             /\ proc[q].parent = Shell => proc'[q] = [proc[q] EXCEPT !.parent = 0]
    BY <1>0, <1>3, ExitEffect DEF Structure
  <2>2. \A q \in Procs \ {Shell} : proc'[q].pc = proc[q].pc
    <3>1. ASSUME NEW q \in Procs \ {Shell} PROVE proc'[q].pc = proc[q].pc
      <4>1. proc[q] \in Processes(pipes)
        BY <1>0
      <4> QED
        BY <4>1, <2>1 DEF Processes
    <3> QED
      BY <3>1
  <2> QED
    BY <2>1, <2>2, <1>1 DEF LastIsKnown
<1>4. CASE NextCommand(Shell)
  <2>1. /\ proc'[Shell].pc = "command" /\ line' = line
        /\ \A q \in Procs \ {Shell} : proc'[q] = proc[q]
    BY <1>0, <1>4 DEF NextCommand, Processes
  <2> QED
    BY <2>1, <1>1 DEF LastIsKnown
<1>5. CASE CallFails(Shell)
  <2>1. Exit(Shell, 1) /\ line' = line /\ proc[Shell].pc # "free"
    BY <1>5 DEF CallFails
  <2> QED
    BY <2>1, <1>3
<1>6. CASE Cd(Shell)
  <2>1. line' = line /\ proc[Shell].pc = "command"
    BY <1>6 DEF Cd
  <2>2. CASE Exit(Shell, 1)
    BY <2>1, <2>2, <1>3
  <2>3. CASE /\ Command(Shell).kind = "cd"
             /\ proc' = [proc EXCEPT ![Shell].pc = "expr", ![Shell].at = @ + 1]
    <3>1. /\ proc'[Shell].pc = "expr" /\ proc'[Shell].at = proc[Shell].at + 1
          /\ \A q \in Procs \ {Shell} : proc'[q] = proc[q]
      BY <2>3, <1>0 DEF Processes
    <3>2. proc'[Shell].at > Len(line.cmds) => Kind(Len(line.cmds)) = "cd"
      BY <1>0, <2>1, <2>3, <3>1 DEF PlacedRight, Kind, Command
    <3> QED
      BY <3>1, <3>2, <2>1, <1>1 DEF LastIsKnown, AtEnd, Kind
  <2> QED
    BY <1>6, <2>2, <2>3 DEF Cd
<1>7. CASE StopReading(Shell)
  <2>1. /\ proc'[Shell].pc = "wait" /\ proc'[Shell].at = proc[Shell].at /\ line' = line
        /\ proc'[Shell].pid = proc[Shell].pid
        /\ proc'[Shell].last_status = proc[Shell].last_status
        /\ \A q \in Procs \ {Shell} : proc'[q] = proc[q]
    BY <1>0, <1>7 DEF StopReading, Processes
  <2>2. proc[Shell].at > Len(line.cmds) => proc[Shell].pc = "expr"
    BY <1>0, <1>7 DEF StopReading, PlacedRight
  <2>3. \A c, i : RunsCommand(c, i) => RunsCommand(c, i)'
    BY <2>1 DEF RunsCommand
  <2> PICK x : x = proc[Shell]
    OBVIOUS
  <2>4. x.at > Len(line.cmds) =>
         \/ Kind(Len(line.cmds)) = "cd"
         \/ RunsCommand(x.pid, Len(line.cmds))'
         \/ x.pid \in Procs /\ proc'[x.pid].pc = "free" /\ x.last_status = Len(line.cmds)
    BY <1>0, <2>1, <2>2, <2>3 DEF LastIsKnown, AtEnd, CountedRight
  <2> QED
    BY <2>1, <2>4, <1>1 DEF LastIsKnown, AtEnd, Kind, RunsCommand
<1>8. CASE Fork(Shell)
  <2>1. line' = line
    BY <1>8 DEF Fork
  <2> PICK c \in Procs \ {Shell}, x \in Processes(pipes), y \in Processes(pipes) :
               /\ proc[c].pc = "free"
               /\ x.pc = "parent" /\ x.pid = c /\ y.pc = "child" /\ y.parent = Shell
               /\ x.parent = proc[Shell].parent /\ x.proc_wait = proc[Shell].proc_wait
               /\ \A z \in {x, y} :
                    /\ z.at = proc[Shell].at /\ z.fd = proc[Shell].fd
                    /\ z.pipefd = proc[Shell].pipefd /\ z.pipe_stdin = proc[Shell].pipe_stdin
               /\ proc' = [q \in Procs |-> IF q = Shell THEN x ELSE IF q = c THEN y ELSE proc[q]]
               /\ proc'[Shell] = x /\ proc'[c] = y
               /\ \A q \in Procs \ {Shell, c} : proc'[q] = proc[q]
    BY <1>0, <1>8, ForkEffect
  <2>2. x.pc = "parent" /\ x.pid = c /\ x.at = proc[Shell].at
    OBVIOUS
  <2>3. y.pc = "child" /\ y.parent = Shell /\ y.at = proc[Shell].at
    OBVIOUS
  <2>4. RunsCommand(c, proc[Shell].at)'
    BY <2>2, <2>3 DEF RunsCommand
  <2>5. \A p \in Procs \ {Shell} : proc'[p].pc \in {"free", "child", "program", "zombie"}
    <3>1. \A p \in Procs \ {Shell} : proc[p].pc \in {"free", "child", "program", "zombie"}
      BY <1>1 DEF LastIsKnown
    <3> QED
      BY <2>1, <2>3, <3>1
  <2>6. proc'[Shell].pc = "parent" /\ proc'[Shell].pid = c /\ proc'[Shell].at = proc[Shell].at
    BY <2>1, <2>2
  <2> QED
    BY ONLY <2>4, <2>5, <2>6 DEF LastIsKnown, RunsCommand
<1>9. CASE Parent(Shell)
  <2>1. /\ proc'[Shell].pc = "expr" /\ proc'[Shell].at = proc[Shell].at + 1 /\ line' = line
        /\ proc'[Shell].pid = proc[Shell].pid /\ proc[Shell].pc = "parent"
        /\ \A q \in Procs \ {Shell} : proc'[q] = proc[q]
    BY <1>0, <1>9 DEF Parent, Processes
  <2>2. RunsCommand(proc[Shell].pid, proc[Shell].at)
    BY <2>1 DEF LastIsKnown
  <2>3. proc'[Shell].at > Len(line.cmds) => proc[Shell].at = Len(line.cmds)
    BY <1>0, <2>1 DEF PlacedRight
  <2>4. \A c, i : RunsCommand(c, i) => RunsCommand(c, i)'
    BY <2>1 DEF RunsCommand
  <2> PICK x : x = proc[Shell]
    OBVIOUS
  <2>5. x.at + 1 > Len(line.cmds) => RunsCommand(x.pid, Len(line.cmds))'
    BY <2>1, <2>2, <2>3, <2>4
  <2> QED
    BY <2>1, <2>5, <1>1 DEF LastIsKnown, AtEnd, Kind, RunsCommand
<1>10. CASE Wait(Shell)
  <2>1. line' = line /\ proc[Shell].pc = "wait"
    BY <1>10 DEF Wait
  <2> PICK c \in Children(Shell) \ {Shell}, x \in Processes(pipes) :
             /\ proc[c].pc = "zombie"
             /\ x.pc = "wait" /\ x.at = proc[Shell].at /\ x.pid = proc[Shell].pid
             /\ x.last_status = IF proc[Shell].pid = c THEN proc[c].last_status ELSE proc[Shell].last_status
             /\ proc'[Shell] = x /\ proc'[c] = Free
             /\ \A q \in Procs \ {Shell, c} : proc'[q] = proc[q]
    BY <1>0, <1>10, WaitEffect, Limits
  <2>2. Free.pc = "free" /\ c \in Procs /\ c # Shell
    BY <1>0, FreeIsTyped DEF Children
  <2>3. \A q \in Procs \ {Shell} : proc'[q].pc \in {"free", "child", "program", "zombie"}
    BY <1>1, <2>2
  <2> PICK n \in Nat : n = Len(line.cmds)
    BY <1>0
  <2> PICK d : d = proc[Shell].pid
    OBVIOUS
  <2>4. x.at > n =>
         \/ Kind(n) = "cd"
         \/ RunsCommand(d, n)
         \/ d \in Procs /\ proc[d].pc = "free" /\ proc[Shell].last_status = n
    BY <2>1 DEF LastIsKnown, AtEnd
  <2>5. ASSUME RunsCommand(d, n), d # c PROVE RunsCommand(d, n)'
    BY <2>5 DEF RunsCommand
  <2>6. ASSUME RunsCommand(d, n), d = c PROVE d \in Procs /\ proc'[d].pc = "free" /\ x.last_status = n
    BY <2>2, <2>6 DEF RunsCommand
  <2>7. ASSUME d \in Procs, proc[d].pc = "free", proc[Shell].last_status = n
        PROVE  d \in Procs /\ proc'[d].pc = "free" /\ x.last_status = n
    BY <2>1, <2>7
  <2>8. x.at > n =>
         \/ Kind(n) = "cd"
         \/ RunsCommand(d, n)'
         \/ d \in Procs /\ proc'[d].pc = "free" /\ x.last_status = n
    BY <2>4, <2>5, <2>6, <2>7
  <2> QED
    BY <2>1, <2>3, <2>8 DEF LastIsKnown, AtEnd, Kind, RunsCommand
<1>11. CASE WaitFails(Shell)
  <2>1. /\ line' = line /\ Children(Shell) = {} /\ proc[Shell].pc = "wait"
    BY <1>11 DEF WaitFails
  <2> PICK s : /\ s \in {proc[Shell].last_status}
                     \cup (IF proc[Shell].pid = Unset THEN {Garbage} ELSE {})
               /\ proc' = [proc EXCEPT ![Shell].proc_wait = @ - 1, ![Shell].last_status = s]
    BY <1>11 DEF WaitFails
  <2>2. /\ proc'[Shell].pc = "wait" /\ proc'[Shell].at = proc[Shell].at
        /\ proc'[Shell].pid = proc[Shell].pid /\ proc'[Shell].last_status = s
        /\ \A q \in Procs \ {Shell} : proc'[q] = proc[q]
    BY <1>0, <2>1 DEF Processes
  <2>3. \A c, i : ~RunsCommand(c, i)
    BY <2>1 DEF RunsCommand, Children
  <2>4. proc[Shell].pid \in Procs => s = proc[Shell].last_status
    <3>1. Unset \notin Procs
      BY DEF Unset, Procs
    <3> QED
      BY <3>1
  <2> PICK x : x = proc[Shell]
    OBVIOUS
  <2>5. x.at > Len(line.cmds) =>
         \/ Kind(Len(line.cmds)) = "cd"
         \/ x.pid \in Procs /\ proc'[x.pid].pc = "free" /\ s = Len(line.cmds)
    BY <2>1, <2>2, <2>3, <2>4, ZenonT(60) DEF LastIsKnown, AtEnd
  <2> QED
    BY <2>1, <2>2, <2>5, <1>1, ZenonT(120) DEF LastIsKnown, AtEnd, Kind, RunsCommand
<1>12. CASE Return(Shell)
  <2>1. /\ line' = line /\ proc[Shell].pc = "wait"
    BY <1>12 DEF Return
  <2>2. CASE AtEnd(Shell)
    <3>1. /\ proc'[Shell].pc = "returned" /\ proc'[Shell].at = proc[Shell].at
          /\ proc'[Shell].pid = proc[Shell].pid
          /\ proc'[Shell].last_status = proc[Shell].last_status
          /\ \A q \in Procs \ {Shell} : proc'[q] = proc[q]
      BY <1>0, <1>12, <2>2 DEF Return, Processes
    <3>2. \A c, i : RunsCommand(c, i) => RunsCommand(c, i)'
      BY <3>1 DEF RunsCommand
    <3> PICK x : x = proc[Shell]
      OBVIOUS
    <3>3. \/ Kind(Len(line.cmds)) = "cd"
          \/ RunsCommand(x.pid, Len(line.cmds))'
          \/ x.pid \in Procs /\ proc'[x.pid].pc = "free" /\ x.last_status = Len(line.cmds)
      BY <2>1, <2>2, <3>1, <3>2 DEF LastIsKnown
    <3> QED
      BY <2>1, <3>1, <3>3, <1>1 DEF LastIsKnown, AtEnd, Kind, RunsCommand
  <2>3. CASE Exit(Shell, 1)
    BY <2>1, <2>3, <1>3
  <2>4. CASE ~AtEnd(Shell) /\ proc' = [proc EXCEPT ![Shell].pc = "returned", ![Shell].last_status = proc[Shell].at]
    <3>1. /\ proc'[Shell].pc = "returned" /\ proc'[Shell].at = proc[Shell].at
          /\ \A q \in Procs \ {Shell} : proc'[q] = proc[q]
      BY <1>0, <2>4 DEF Processes
    <3> QED
      BY <2>1, <2>4, <3>1, <1>1 DEF LastIsKnown, AtEnd
  <2> QED
    BY <1>12, <2>2, <2>3, <2>4 DEF Return
<1> QED
  BY <1>2, <1>4, <1>5, <1>6, <1>7, <1>8, <1>9, <1>10, <1>11, <1>12 DEF Runs

-----------------------------------------------------------------------------
(* The shell keeps no end of a pipe longer than it has to *)

\* What the line means stays what it is while the line is executed.
LEMMA SameLine ==
    ASSUME line' = line
    PROVE  /\ AllFound' <=> AllFound
           /\ BuiltinsApart' <=> BuiltinsApart
           /\ OnePipeline' <=> OnePipeline
           /\ Sound' <=> Sound
<1>1. AllFound' <=> AllFound
  BY DEF AllFound, Kind
<1>2. BuiltinsApart' <=> BuiltinsApart
  BY DEF BuiltinsApart, Builtin, Kind, Op, AfterPipe
<1>3. OnePipeline' <=> OnePipeline
  BY DEF OnePipeline, Op, AfterPipe
<1> QED
  BY <1>1, <1>2, <1>3 DEF Sound

LEMMA TidyAfterwards ==
    ASSUME line' = line, NEW y, y = proc'[Shell],
           y.pc # "zombie" => Tidy(y, y.pc \in {"command", "parent"})
    PROVE  ShellIsTidy'
BY DEF ShellIsTidy, ShellIsTidyIn, Tidy, AfterPipe, Op

\* The shell's variables for descriptors are left alone.
SameFds(x, y) ==
    y.at = x.at /\ y.fd = x.fd /\ y.pipefd = x.pipefd /\ y.pipe_stdin = x.pipe_stdin

LEMMA TidyAsBefore ==
    ASSUME NEW x, NEW y, SameFds(x, y), NEW b, Tidy(x, b)
    PROVE  Tidy(y, b) /\ (Op(x.at) # "PIPE" => Tidy(y, ~b))
BY DEF SameFds, Tidy

\* What a command that runs in the shell has to do with pipes.
LEMMA BuiltinHasNoPipe ==
    ASSUME BuiltinsApart, line \in Lines, NEW i \in 1 .. Len(line.cmds), Builtin(i)
    PROVE  Op(i) # "PIPE" /\ ~AfterPipe(i) /\ ~AfterPipe(i + 1)
<1>1. Op(i) # "PIPE" /\ ~AfterPipe(i)
  BY LineFacts DEF BuiltinsApart
<1> QED
  BY <1>1 DEF AfterPipe

\* What the steps of the shell do to its variables.
LEMMA ShellSteps ==
    ASSUME Structure, AllFound, LastIsKnown,
           Runs(Shell) \/ CallFails(Shell) \/ MainEnds(Shell)
    PROVE  /\ line' = line
           /\ \/ NextCommand(Shell) \/ Fork(Shell) \/ Parent(Shell)
              \/ /\ pipes' = pipes /\ proc'[Shell].pc = "zombie"
                 /\ \A q \in Procs \ {Shell} :
                      proc'[q].pc = proc[q].pc /\ SameFds(proc[q], proc'[q])
              \/ /\ pipes' = pipes /\ proc[Shell].pc = "command" /\ proc'[Shell].pc = "expr"
                 /\ Builtin(proc[Shell].at) /\ proc'[Shell].at = proc[Shell].at + 1
                 /\ proc'[Shell].fd = proc[Shell].fd
                 /\ proc'[Shell].pipe_stdin = proc[Shell].pipe_stdin
                 /\ \A q \in Procs \ {Shell} : proc'[q] = proc[q]
              \/ /\ pipes' = pipes /\ proc'[Shell].pc \in {"wait", "returned"}
                 /\ proc[Shell].pc = "command" => Builtin(proc[Shell].at)
                 /\ proc[Shell].pc \in {"expr", "command", "wait"}
                 /\ SameFds(proc[Shell], proc'[Shell])
                 /\ \A q \in Procs \ {Shell} : proc'[q] = proc[q] \/ proc'[q].pc = "free"
<1>0. /\ pipes \in Nat /\ line \in Lines /\ proc[Shell] \in Processes(pipes)
      /\ proc \in [Procs -> Processes(pipes)] /\ Shell \in Procs
      /\ PlacedRight(proc[Shell]) /\ CountedRight(proc[Shell]) /\ Len(line.cmds) \in Nat \ {0}
      /\ proc[Shell].at \in Nat
  BY ProcessFacts, Limits
<1>1. ~Child(Shell) /\ ~ProgramExits(Shell) /\ ~MainEnds(Shell)
  BY <1>0 DEF CountedRight, Child, ProgramExits, MainEnds
<1>2. ASSUME NEW s \in Int, Exit(Shell, s), proc[Shell].pc # "free"
      PROVE  /\ proc'[Shell].pc = "zombie"
             /\ \A q \in Procs \ {Shell} :
                  proc'[q].pc = proc[q].pc /\ SameFds(proc[q], proc'[q])
  <2>1. /\ proc'[Shell].pc = "zombie"
        /\ \A q \in Procs \ {Shell} :
             /\ proc[q].parent # Shell => proc'[q] = proc[q]
             /\ proc[q].parent = Shell => proc'[q] = [proc[q] EXCEPT !.parent = 0]
    BY <1>0, <1>2, ExitEffect DEF Structure
  <2>2. ASSUME NEW q \in Procs \ {Shell}
        PROVE  proc'[q].pc = proc[q].pc /\ SameFds(proc[q], proc'[q])
    <3>1. proc[q] \in Processes(pipes)
      BY <1>0
    <3> QED
      BY <3>1, <2>1, ZenonT(60) DEF Processes, SameFds
  <2> QED
    BY <2>1, <2>2
<1>3. CASE CallFails(Shell)
  <2>1. /\ Exit(Shell, 1) /\ proc[Shell].pc # "free" /\ UNCHANGED <<line, pipes>>
    BY <1>3 DEF CallFails
  <2> QED
    BY <2>1, <1>2
<1>4. CASE Cd(Shell)
  <2>1. proc[Shell].pc = "command" /\ line' = line /\ pipes' = pipes
    BY <1>4 DEF Cd
  <2>2. CASE Exit(Shell, 1)
    BY <2>1, <2>2, <1>2
  <2>3. CASE /\ Command(Shell).kind = "cd"
             /\ proc' = [proc EXCEPT ![Shell].pc = "expr", ![Shell].at = @ + 1]
    <3>1. /\ proc'[Shell].pc = "expr" /\ proc'[Shell].at = proc[Shell].at + 1
          /\ proc'[Shell].fd = proc[Shell].fd
          /\ proc'[Shell].pipe_stdin = proc[Shell].pipe_stdin
          /\ \A q \in Procs \ {Shell} : proc'[q] = proc[q]
      BY <2>3, <1>0 DEF Processes
    <3>2. Builtin(proc[Shell].at)
      BY <2>3 DEF Builtin, Kind, Command
    <3> QED
      BY <2>1, <3>1, <3>2
  <2> QED
    BY <1>4, <2>2, <2>3 DEF Cd
<1>5. CASE StopReading(Shell)
  <2>1. /\ proc'[Shell].pc = "wait" /\ SameFds(proc[Shell], proc'[Shell])
        /\ proc[Shell].pc \in {"expr", "command"}
        /\ line' = line /\ pipes' = pipes
        /\ \A q \in Procs \ {Shell} : proc'[q] = proc[q]
    BY <1>0, <1>5 DEF StopReading, Processes, SameFds
  <2>2. proc[Shell].pc = "command" => Builtin(proc[Shell].at)
    BY <1>5 DEF StopReading, LastExit, Builtin, Command
  <2> QED
    BY <2>1, <2>2
<1>6. CASE Wait(Shell)
  <2>1. line' = line /\ pipes' = pipes /\ proc[Shell].pc = "wait"
    BY <1>6 DEF Wait
  <2>2. PICK c \in Children(Shell) \ {Shell}, x \in Processes(pipes) :
             /\ x.pc = "wait" /\ x.at = proc[Shell].at /\ x.fd = proc[Shell].fd
             /\ x.pipe_stdin = proc[Shell].pipe_stdin /\ x.pipefd = proc[Shell].pipefd
             /\ proc'[Shell] = x /\ proc'[c] = Free
             /\ \A q \in Procs \ {Shell, c} : proc'[q] = proc[q]
    BY <1>0, <1>6, WaitEffect
  <2>3. Free.pc = "free"
    BY <1>0, FreeIsTyped
  <2>4. \A q \in Procs \ {Shell} : proc'[q] = proc[q] \/ proc'[q].pc = "free"
    BY <2>2, <2>3
  <2>5. SameFds(proc[Shell], proc'[Shell]) /\ proc'[Shell].pc = "wait"
    BY <2>2 DEF SameFds
  <2> QED
    BY <2>1, <2>4, <2>5
<1>7. CASE WaitFails(Shell)
  <2>1. /\ line' = line /\ pipes' = pipes /\ proc[Shell].pc = "wait"
    BY <1>7 DEF WaitFails
  <2>2. PICK s : proc' = [proc EXCEPT ![Shell].proc_wait = @ - 1, ![Shell].last_status = s]
    BY <1>7 DEF WaitFails
  <2>3. /\ proc'[Shell].pc = "wait" /\ SameFds(proc[Shell], proc'[Shell])
        /\ \A q \in Procs \ {Shell} : proc'[q] = proc[q]
    BY <1>0, <2>1, <2>2 DEF Processes, SameFds
  <2> QED
    BY <2>1, <2>3
<1>8. CASE Return(Shell)
  <2>1. /\ line' = line /\ pipes' = pipes /\ proc[Shell].pc = "wait"
    BY <1>8 DEF Return
  <2>2. CASE Exit(Shell, 1)
    BY <2>1, <2>2, <1>2
  <2>3. CASE proc' = [proc EXCEPT ![Shell].pc = "returned"]
    <3>1. /\ proc'[Shell].pc = "returned" /\ SameFds(proc[Shell], proc'[Shell])
          /\ \A q \in Procs \ {Shell} : proc'[q] = proc[q]
      BY <1>0, <2>3 DEF Processes, SameFds
    <3> QED
      BY <2>1, <3>1
  <2>4. CASE proc' = [proc EXCEPT ![Shell].pc = "returned", ![Shell].last_status = proc[Shell].at]
    <3>1. /\ proc'[Shell].pc = "returned" /\ SameFds(proc[Shell], proc'[Shell])
          /\ \A q \in Procs \ {Shell} : proc'[q] = proc[q]
      BY <1>0, <2>4 DEF Processes, SameFds
    <3> QED
      BY <2>1, <3>1
  <2> QED
    BY <1>8, <2>2, <2>3, <2>4 DEF Return
<1>9. CASE NextCommand(Shell) \/ Fork(Shell) \/ Parent(Shell)
  BY <1>9 DEF NextCommand, Fork, Parent
<1> QED
  BY <1>1, <1>3, <1>4, <1>5, <1>6, <1>7, <1>8, <1>9 DEF Runs

\* What the three steps between two commands do to the shell's descriptors.
LEMMA NextCommandEffect ==
    ASSUME Structure, NextCommand(Shell)
    PROVE  LET x == proc[Shell]
               y == proc'[Shell] IN
           /\ x.pc = "expr" /\ y.pc = "command" /\ y.at = x.at /\ y.pipe_stdin = x.pipe_stdin
           /\ x.at \in 1 .. Len(line.cmds)
           /\ \A q \in Procs \ {Shell} : proc'[q] = proc[q]
           /\ Op(x.at) # "PIPE" => pipes' = pipes /\ y.fd = x.fd
           /\ Op(x.at) = "PIPE" =>
                \E r, w \in Fds :
                  /\ x.fd[r] = Closed /\ x.fd[w] = Closed /\ r # w
                  /\ pipes' = pipes + 1 /\ y.pipefd = <<r, w>>
                  /\ y.fd = [x.fd EXCEPT ![r] = ReadEnd(pipes + 1), ![w] = WriteEnd(pipes + 1)]
<1>0. /\ pipes \in Nat /\ line \in Lines /\ proc[Shell] \in Processes(pipes)
      /\ proc \in [Procs -> Processes(pipes)] /\ Shell \in Procs
      /\ PlacedRight(proc[Shell]) /\ Len(line.cmds) \in Nat \ {0}
      /\ proc[Shell].at \in Nat /\ proc[Shell].fd \in FdTables(pipes)
  BY ProcessFacts, Limits
<1>1. proc[Shell].pc = "expr" /\ proc[Shell].at \in 1 .. Len(line.cmds)
  BY <1>0 DEF NextCommand, AtEnd, PlacedRight
<1>2. Piped(Shell) <=> Op(proc[Shell].at) = "PIPE"
  BY DEF Piped, Command, Op
<1>3. CASE ~Piped(Shell)
  <2>1. /\ proc' = [proc EXCEPT ![Shell] = [proc[Shell] EXCEPT !.pc = "command"]]
        /\ pipes' = pipes
    BY <1>3 DEF NextCommand
  <2>2. /\ proc'[Shell].pc = "command" /\ proc'[Shell].at = proc[Shell].at
        /\ proc'[Shell].pipe_stdin = proc[Shell].pipe_stdin /\ proc'[Shell].fd = proc[Shell].fd
        /\ \A q \in Procs \ {Shell} : proc'[q] = proc[q]
    BY <1>0, <2>1 DEF Processes
  <2> QED
    BY <1>1, <1>2, <1>3, <2>1, <2>2
<1>4. CASE Piped(Shell)
  <2> PICK fd \in FdTables(pipes) : fd = proc[Shell].fd
    BY <1>0
  <2> PICK new : new = PipeFds(fd)
    OBVIOUS
  <2>1. /\ new \in FdNumbers \X FdNumbers /\ new[2] # NoFd
        /\ new[1] \in Fds /\ new[2] \in Fds /\ new[1] # new[2]
        /\ fd[new[1]] = Closed /\ fd[new[2]] = Closed
    BY <1>0, <1>4, PipeEnds DEF NextCommand
  <2> PICK g : g = [fd EXCEPT ![new[1]] = ReadEnd(pipes + 1), ![new[2]] = WriteEnd(pipes + 1)]
    OBVIOUS
  <2>2. /\ proc' = [proc EXCEPT ![Shell] =
                      [proc[Shell] EXCEPT !.pc = "command", !.pipefd = new, !.fd = g]]
        /\ pipes' = pipes + 1
    BY <1>0, <1>4, ZenonT(60) DEF NextCommand, Processes
  <2>3. /\ proc'[Shell].pc = "command" /\ proc'[Shell].at = proc[Shell].at
        /\ proc'[Shell].pipe_stdin = proc[Shell].pipe_stdin /\ proc'[Shell].fd = g
        /\ proc'[Shell].pipefd = new
        /\ \A q \in Procs \ {Shell} : proc'[q] = proc[q]
    BY <1>0, <2>2 DEF Processes
  <2>4. new = <<new[1], new[2]>>
    BY <2>1
  <2>5. \E r, w \in Fds :
          /\ fd[r] = Closed /\ fd[w] = Closed /\ r # w
          /\ pipes' = pipes + 1 /\ proc'[Shell].pipefd = <<r, w>>
          /\ proc'[Shell].fd = [fd EXCEPT ![r] = ReadEnd(pipes + 1), ![w] = WriteEnd(pipes + 1)]
    <3>1. /\ fd[new[1]] = Closed /\ fd[new[2]] = Closed /\ new[1] # new[2]
          /\ pipes' = pipes + 1 /\ proc'[Shell].pipefd = <<new[1], new[2]>>
          /\ proc'[Shell].fd = [fd EXCEPT ![new[1]] = ReadEnd(pipes + 1), ![new[2]] = WriteEnd(pipes + 1)]
      BY <2>1, <2>2, <2>3, <2>4
    <3>2. new[1] \in Fds /\ new[2] \in Fds
      BY <2>1
    <3> QED
      BY <3>1, <3>2, ZenonT(60)
  <2> QED
    BY <1>1, <1>2, <1>4, <2>3, <2>5, ZenonT(60)
<1> QED
  BY <1>3, <1>4

LEMMA ForkAndParentEffect ==
    ASSUME Structure
    PROVE  LET x == proc[Shell]
               y == proc'[Shell] IN
           /\ Fork(Shell) =>
                /\ x.pc = "command" /\ y.pc = "parent" /\ pipes' = pipes /\ SameFds(x, y)
                /\ \A q \in Procs \ {Shell} :
                     \/ proc'[q] = proc[q]
                     \/ proc'[q].pc = "child" /\ SameFds(x, proc'[q])
           /\ Parent(Shell) =>
                /\ x.pc = "parent" /\ y.pc = "expr" /\ pipes' = pipes /\ y.at = x.at + 1
                /\ y.fd = ParentCloses(x.fd, x, Op(x.at) = "PIPE")
                /\ y.pipe_stdin = IF Op(x.at) = "PIPE" THEN x.pipefd[1] ELSE x.pipe_stdin
                /\ \A q \in Procs \ {Shell} : proc'[q] = proc[q]
<1>0. /\ proc[Shell] \in Processes(pipes)
      /\ proc \in [Procs -> Processes(pipes)] /\ Shell \in Procs
  BY ProcessFacts, Limits
<1>1. ASSUME Fork(Shell)
      PROVE  /\ proc[Shell].pc = "command" /\ proc'[Shell].pc = "parent" /\ pipes' = pipes
             /\ SameFds(proc[Shell], proc'[Shell])
             /\ \A q \in Procs \ {Shell} :
                     \/ proc'[q] = proc[q]
                     \/ proc'[q].pc = "child" /\ SameFds(proc[Shell], proc'[q])
  <2>1. proc[Shell].pc = "command" /\ pipes' = pipes
    BY <1>1 DEF Fork
  <2>2. PICK c \in Procs \ {Shell}, x \in Processes(pipes), y \in Processes(pipes) :
             /\ x.pc = "parent" /\ y.pc = "child"
             /\ \A z \in {x, y} :
                  /\ z.at = proc[Shell].at /\ z.fd = proc[Shell].fd
                  /\ z.pipefd = proc[Shell].pipefd /\ z.pipe_stdin = proc[Shell].pipe_stdin
             /\ proc'[Shell] = x /\ proc'[c] = y
             /\ \A q \in Procs \ {Shell, c} : proc'[q] = proc[q]
    BY <1>0, <1>1, ForkEffect
  <2>3. SameFds(proc[Shell], x) /\ SameFds(proc[Shell], y)
    BY <2>2 DEF SameFds
  <2> QED
    BY <2>1, <2>2, <2>3
<1>2. ASSUME Parent(Shell)
      PROVE  /\ proc[Shell].pc = "parent" /\ proc'[Shell].pc = "expr" /\ pipes' = pipes
             /\ proc'[Shell].at = proc[Shell].at + 1
             /\ proc'[Shell].fd = ParentCloses(proc[Shell].fd, proc[Shell], Op(proc[Shell].at) = "PIPE")
             /\ proc'[Shell].pipe_stdin = IF Op(proc[Shell].at) = "PIPE" THEN proc[Shell].pipefd[1]
                                          ELSE proc[Shell].pipe_stdin
             /\ \A q \in Procs \ {Shell} : proc'[q] = proc[q]
  <2>1. Piped(Shell) = (Op(proc[Shell].at) = "PIPE")
    BY DEF Piped, Command, Op
  <2> PICK g : g = ParentCloses(proc[Shell].fd, proc[Shell], Op(proc[Shell].at) = "PIPE")
    OBVIOUS
  <2>2. proc' = [proc EXCEPT ![Shell] = [proc[Shell] EXCEPT !.pc = "expr",
                   !.at = proc[Shell].at + 1, !.proc_wait = WaitsOnceMore(proc[Shell]), !.fd = g,
                   !.pipe_stdin = IF Op(proc[Shell].at) = "PIPE" THEN proc[Shell].pipefd[1]
                                  ELSE proc[Shell].pipe_stdin]]
    BY <1>2, <2>1 DEF Parent
  <2>3. proc[Shell].pc = "parent" /\ pipes' = pipes
    BY <1>2 DEF Parent
  <2> QED
    BY <1>0, <2>2, <2>3 DEF Processes
<1> QED
  BY <1>1, <1>2

LEMMA FdFacts ==
    /\ 0 \in Fds /\ 1 \in Fds /\ 2 \in Fds /\ NoFd \notin Fds /\ Fds \subseteq Int
    /\ Closed # Terminal /\ Closed # File
    /\ \A k : /\ ReadEnd(k) \notin {Closed, Terminal, File}
              /\ WriteEnd(k) \notin {Closed, Terminal, File}
              /\ \A j : ReadEnd(k) # WriteEnd(j)
BY Limits DEF Fds, NoFd, Closed, Terminal, File, ReadEnd, WriteEnd

LEMMA TidyOfShell ==
    ASSUME Structure, AllFound, BuiltinsApart, LastIsKnown, ShellIsTidy,
           Runs(Shell) \/ CallFails(Shell) \/ MainEnds(Shell)
    PROVE  ShellIsTidy'
<1>0. /\ pipes \in Nat /\ line \in Lines /\ proc[Shell] \in Processes(pipes)
      /\ PlacedRight(proc[Shell]) /\ CountedRight(proc[Shell]) /\ Len(line.cmds) \in Nat \ {0}
      /\ proc[Shell].at \in Nat /\ proc[Shell].fd \in FdTables(pipes)
  BY ProcessFacts, Limits
<1>1. line' = line
  BY ShellSteps
<1> PICK x : x = proc[Shell]
  OBVIOUS
<1> PICK y : y = proc'[Shell]
  OBVIOUS
<1>2. SUFFICES y.pc # "zombie" => Tidy(y, y.pc \in {"command", "parent"})
  BY <1>1, TidyAfterwards
<1>3. x.pc # "zombie" => Tidy(x, x.pc \in {"command", "parent"})
  BY DEF ShellIsTidy, ShellIsTidyIn
<1>4. x.fd \in [Fds -> Handles(pipes)]
  BY <1>0 DEF FdTables
<1>5. x.pc \in {"command", "parent"} => x.at \in 1 .. Len(line.cmds)
  BY <1>0 DEF PlacedRight
<1>6. CASE NextCommand(Shell)
  <2>1. /\ x.pc = "expr" /\ y.pc = "command" /\ y.at = x.at /\ y.pipe_stdin = x.pipe_stdin
        /\ Op(x.at) # "PIPE" => y.fd = x.fd
        /\ Op(x.at) = "PIPE" =>
             \E r, w \in Fds :
                /\ x.fd[r] = Closed /\ x.fd[w] = Closed /\ r # w /\ y.pipefd = <<r, w>>
                /\ y.fd = [x.fd EXCEPT ![r] = ReadEnd(pipes + 1), ![w] = WriteEnd(pipes + 1)]
    BY <1>6, NextCommandEffect
  <2>2. Tidy(x, FALSE)
    BY <1>3, <2>1 DEF Tidy
  <2>3. CASE Op(x.at) # "PIPE"
    BY <2>1, <2>2, <2>3 DEF Tidy
  <2>4. CASE Op(x.at) = "PIPE"
    <3> PICK r \in Fds, w \in Fds :
                /\ x.fd[r] = Closed /\ x.fd[w] = Closed /\ r # w /\ y.pipefd = <<r, w>>
                /\ y.fd = [x.fd EXCEPT ![r] = ReadEnd(pipes + 1), ![w] = WriteEnd(pipes + 1)]
      BY <2>1, <2>4
    <3>1. r \notin {0, 1} /\ w \notin {0, 1}
      BY <2>2, FdFacts DEF Tidy
    <3>2. \A n \in Fds \ {r, w} : y.fd[n] = x.fd[n]
      BY <1>4
    <3>3. y.fd[0] = Terminal /\ y.fd[1] = Terminal
      BY <2>2, <3>1, <3>2, FdFacts DEF Tidy
    <3>4. ASSUME NEW n \in Fds \ {0, 1}, y.fd[n] # Closed
          PROVE  (AfterPipe(y.at) /\ n = y.pipe_stdin) \/ n \in {r, w}
      BY <2>1, <2>2, <3>2, <3>4 DEF Tidy
    <3>5. y.pipe_stdin # 1
      BY <2>1, <2>2 DEF Tidy
    <3> QED
      BY <2>1, <2>4, <3>1, <3>3, <3>4, <3>5 DEF Tidy
  <2> QED
    BY <2>3, <2>4
<1>7. CASE Fork(Shell)
  <2>1. x.pc = "command" /\ y.pc = "parent" /\ SameFds(x, y)
    BY <1>7, ForkAndParentEffect
  <2> QED
    BY <1>3, <2>1, TidyAsBefore
<1>8. CASE Parent(Shell)
  <2>1. /\ x.pc = "parent" /\ y.pc = "expr" /\ y.at = x.at + 1
        /\ y.fd = ParentCloses(x.fd, x, Op(x.at) = "PIPE")
        /\ y.pipe_stdin = IF Op(x.at) = "PIPE" THEN x.pipefd[1] ELSE x.pipe_stdin
    BY <1>8, ForkAndParentEffect
  <2>2. Tidy(x, TRUE)
    BY <1>3, <2>1
  <2>3. AfterPipe(y.at) <=> Op(x.at) = "PIPE"
    <3>1. x.at \in Nat /\ x.at >= 1
      BY <1>0, <1>5, <2>1
    <3>2. x.at + 1 > 1 /\ (x.at + 1) - 1 = x.at
      BY <3>1
    <3> QED
      BY <2>1, <3>2 DEF AfterPipe
  <2>4. /\ \A n \in Fds : y.fd[n] \in {x.fd[n], Closed}
        /\ x.pipe_stdin # 0 /\ x.pipe_stdin \in Fds => y.fd[x.pipe_stdin] = Closed
        /\ Op(x.at) = "PIPE" /\ x.pipefd[2] \in Fds => y.fd[x.pipefd[2]] = Closed
        /\ \A n \in Fds : /\ x.pipe_stdin = 0 \/ n # x.pipe_stdin
                          /\ Op(x.at) = "PIPE" => n # x.pipefd[2]
                          => y.fd[n] = x.fd[n]
    BY <1>4, <2>1 DEF ParentCloses, Close
  <2>5. y.fd[0] = Terminal /\ y.fd[1] = Terminal
    BY <2>2, <2>4, FdFacts DEF Tidy
  <2>6. y.pipe_stdin # 1
    BY <2>1, <2>2 DEF Tidy
  <2>7. ASSUME NEW n \in Fds \ {0, 1}, y.fd[n] # Closed
        PROVE  AfterPipe(y.at) /\ n = y.pipe_stdin
    <3>1. x.fd[n] # Closed
      BY <2>4, <2>7
    <3>2. \/ n = x.pipe_stdin
          \/ Op(x.at) = "PIPE" /\ n \in {x.pipefd[1], x.pipefd[2]}
      BY <2>2, <3>1 DEF Tidy
    <3>3. Op(x.at) = "PIPE" /\ n = x.pipefd[1]
      BY <2>4, <2>7, <3>2
    <3> QED
      BY <2>1, <2>3, <3>3
  <2> QED
    BY <2>1, <2>5, <2>6, <2>7 DEF Tidy
<1>9. CASE y.pc = "zombie"
  BY <1>9
<1>10. CASE /\ x.pc = "command" /\ y.pc = "expr" /\ Builtin(x.at) /\ y.at = x.at + 1
            /\ y.fd = x.fd /\ y.pipe_stdin = x.pipe_stdin
  <2>1. Tidy(x, TRUE) /\ Op(x.at) # "PIPE" /\ ~AfterPipe(x.at)
    BY <1>0, <1>3, <1>5, <1>10, BuiltinHasNoPipe
  <2> QED
    BY <1>10, <2>1 DEF Tidy
<1>11. CASE /\ y.pc \in {"wait", "returned"}
            /\ x.pc = "command" => Builtin(x.at)
            /\ x.pc \in {"expr", "command", "wait"}
            /\ SameFds(x, y)
  <2>1. CASE x.pc = "command"
    <3>1. Tidy(x, TRUE) /\ Op(x.at) # "PIPE"
      BY <1>0, <1>3, <1>5, <1>11, <2>1, BuiltinHasNoPipe
    <3>2. Tidy(y, FALSE)
      BY <1>11, <3>1 DEF Tidy, SameFds
    <3> QED
      BY <1>11, <3>2 DEF Tidy
  <2>2. CASE x.pc # "command"
    BY <1>3, <1>11, <2>2 DEF Tidy, SameFds
  <2> QED
    BY <2>1, <2>2
<1> QED
  BY <1>6, <1>7, <1>8, <1>9, <1>10, <1>11, ShellSteps

-----------------------------------------------------------------------------
(* Programs are connected as the line says *)

LEMMA PipesAreCounted ==
    ASSUME line \in Lines, NEW i \in 1 .. Len(line.cmds)
    PROVE  /\ PipeOf(i - 1) \in Nat /\ PipeOf(i) \in Nat
           /\ PipeOf(i) = IF Op(i) = "PIPE" THEN PipeOf(i - 1) + 1 ELSE PipeOf(i - 1)
<1>0. Len(line.cmds) \in Nat
  BY LineFacts
<1> DEFINE S(k) == {j \in 1 .. k : Op(j) = "PIPE"}
<1>1. \A k : PipeOf(k) = Cardinality(S(k))
  BY DEF PipeOf
<1>2. IsFiniteSet(S(i - 1)) /\ IsFiniteSet(S(i))
  <2>1. IsFiniteSet(1 .. i - 1) /\ IsFiniteSet(1 .. i)
    BY <1>0, FS_Interval
  <2> QED
    BY <2>1, FS_Subset
<1>3. Cardinality(S(i - 1)) \in Nat /\ Cardinality(S(i)) \in Nat
  BY <1>2, FS_CardinalityType
<1>4. CASE Op(i) = "PIPE"
  <2>1. S(i) = S(i - 1) \cup {i} /\ i \notin S(i - 1)
    BY <1>0, <1>4
  <2>2. Cardinality(S(i - 1) \cup {i}) = Cardinality(S(i - 1)) + 1
    BY <1>2, <2>1, FS_AddElement
  <2> QED
    BY <1>1, <1>3, <1>4, <2>1, <2>2
<1>5. CASE Op(i) # "PIPE"
  <2>1. S(i) = S(i - 1)
    BY <1>0, <1>5
  <2> QED
    BY <1>1, <1>3, <1>5, <2>1
<1> QED
  BY <1>4, <1>5

LEMMA WiringAfterwards ==
    ASSUME line' = line, NEW f, f = proc', NEW k, k = pipes',
           ShellIsWiredIn(f, k), OthersAreWiredIn(f)
    PROVE  WiringHolds'
<1>1. ShellIsWiredIn(proc, pipes)'
  BY DEF ShellIsWiredIn, InputIsWired, OutputIsWired, AfterPipe, Op, PipeOf
<1>2. ASSUME NEW p \in Procs, NEW x, x = f[p]
      PROVE  /\ ChildIsWired(x) => ChildIsWired(proc[p])'
             /\ ProgramIsWired(x) => ProgramIsWired(proc[p])'
  <2>1. Tidy(x, TRUE) => Tidy(proc[p], TRUE)'
    BY <1>2 DEF Tidy, AfterPipe, Op
  <2>2. InputIsWired(x) => InputIsWired(proc[p])'
    BY <1>2 DEF InputIsWired, AfterPipe, Op, PipeOf
  <2>3. OutputIsWired(x) => OutputIsWired(proc[p])'
    BY <1>2 DEF OutputIsWired, Op, PipeOf
  <2>4. Wired(x) => Wired(proc[p])'
    BY <1>2 DEF Wired, AfterPipe, Op, PipeOf
  <2> QED
    BY <1>2, <2>1, <2>2, <2>3, <2>4 DEF ChildIsWired, ProgramIsWired
<1>3. OthersAreWiredIn(proc)'
  <2>1. ASSUME NEW p \in Procs
        PROVE  (proc[p].pc = "child" => ChildIsWired(proc[p]))'
               /\ (proc[p].pc = "program" => ProgramIsWired(proc[p]))'
    BY <1>2 DEF OthersAreWiredIn
  <2> QED
    BY <2>1 DEF OthersAreWiredIn
<1> QED
  BY <1>1, <1>3 DEF WiringHolds

\* In a pipeline that has ended, no command is followed by a pipe.
LEMMA NoPipelineFollows ==
    ASSUME OnePipeline, line \in Lines, NEW i \in 1 .. Len(line.cmds),
           NEW k \in 1 .. i - 1, AfterPipe(k), Op(k) # "PIPE"
    PROVE  Op(i) # "PIPE"
<1>1. DOMAIN line.cmds = 1 .. Len(line.cmds) /\ Len(line.cmds) \in Nat
  BY LineFacts
<1>2. k \in DOMAIN line.cmds /\ i \in DOMAIN line.cmds /\ i > k
  BY <1>1
<1> QED
  BY <1>2 DEF OnePipeline

\* Lines 145-149 with the descriptors of a child.
LEMMA StdinIsWired ==
    ASSUME Structure, Sound, NEW p \in Procs, NEW x, x = proc[p], ChildIsWired(x),
           x.at \in 1 .. Len(line.cmds), NEW g, g = StdinFromPipe(x)
    PROVE  /\ g[0] = IF AfterPipe(x.at) THEN ReadEnd(PipeOf(x.at - 1)) ELSE Terminal
           /\ g[1] = Terminal
           /\ \A n \in Fds \ {0, 1} : g[n] # Closed =>
                Op(x.at) = "PIPE" /\ n \in {x.pipefd[1], x.pipefd[2]}
           /\ Op(x.at) = "PIPE" =>
                g[x.pipefd[1]] = ReadEnd(PipeOf(x.at)) /\ g[x.pipefd[2]] = WriteEnd(PipeOf(x.at))
<1>0. /\ x.fd \in [Fds -> Handles(pipes)] /\ line \in Lines /\ x.pipe_stdin \in FdNumbers
      /\ OnePipeline
  BY ProcessFacts DEF FdTables, Sound
<1>1. Tidy(x, TRUE) /\ InputIsWired(x) /\ OutputIsWired(x)
  BY DEF ChildIsWired
<1> PICK i \in 1 .. Len(line.cmds) : i = x.at
  OBVIOUS
<1> PICK s \in FdNumbers : s = x.pipe_stdin
  BY <1>0
<1>2. x.fd[0] = Terminal /\ x.fd[1] = Terminal /\ s # 1
  BY <1>1 DEF Tidy
<1>3. CASE s = 0
  <2>1. g = x.fd
    BY <1>3 DEF StdinFromPipe
  <2>2. ~AfterPipe(i)
    BY <1>1, <1>3 DEF InputIsWired
  <2> QED
    BY <1>1, <1>2, <2>1, <2>2 DEF Tidy, OutputIsWired
<1>4. CASE s # 0 /\ AfterPipe(i)
  <2>1. s \in Fds \ {0, 1} /\ x.fd[s] = ReadEnd(PipeOf(i - 1))
    BY <1>1, <1>4 DEF InputIsWired
  <2>2. x.fd[s] # Closed /\ s # NoFd
    BY <2>1, FdFacts
  <2>3. g = [[x.fd EXCEPT ![0] = x.fd[s]] EXCEPT ![s] = Closed]
    BY <1>4, <2>2 DEF StdinFromPipe, Dup, Close
  <2>4. /\ g[0] = x.fd[s] /\ g[1] = x.fd[1] /\ g[s] = Closed
        /\ \A n \in Fds \ {0, 1, s} : g[n] = x.fd[n]
    BY <1>0, <2>1, <2>3, FdFacts
  <2>5. ASSUME NEW n \in Fds \ {0, 1}, g[n] # Closed
        PROVE  Op(i) = "PIPE" /\ n \in {x.pipefd[1], x.pipefd[2]}
    <3>1. n # s /\ x.fd[n] # Closed
      BY <2>4, <2>5
    <3> QED
      BY <1>1, <3>1 DEF Tidy
  <2>6. ASSUME Op(i) = "PIPE"
        PROVE  g[x.pipefd[1]] = ReadEnd(PipeOf(i)) /\ g[x.pipefd[2]] = WriteEnd(PipeOf(i))
    <3>1. /\ x.pipefd[1] \in Fds \ {0, 1} /\ x.pipefd[2] \in Fds \ {0, 1}
          /\ x.fd[x.pipefd[1]] = ReadEnd(PipeOf(i)) /\ x.fd[x.pipefd[2]] = WriteEnd(PipeOf(i))
      BY <1>1, <2>6 DEF Tidy, OutputIsWired
    <3>2. PipeOf(i) # PipeOf(i - 1)
      BY <1>0, <2>6, PipesAreCounted
    <3>3. ReadEnd(PipeOf(i)) # ReadEnd(PipeOf(i - 1))
      BY <3>2 DEF ReadEnd
    <3>4. x.pipefd[1] # s /\ x.pipefd[2] # s
      BY <2>1, <3>1, <3>3, FdFacts
    <3> QED
      BY <2>4, <3>1, <3>4
  <2> QED
    BY <1>2, <1>4, <2>1, <2>4, <2>5, <2>6
<1>5. CASE s # 0 /\ ~AfterPipe(i)
  <2>1. Op(i) # "PIPE"
    <3>1. \E k \in 1 .. i - 1 : AfterPipe(k) /\ Op(k) # "PIPE"
      BY <1>1, <1>5 DEF InputIsWired
    <3> QED
      BY <1>0, <3>1, NoPipelineFollows
  <2>2. \A n \in Fds \ {0, 1} : x.fd[n] = Closed
    BY <1>1, <1>5, <2>1 DEF Tidy
  <2>3. s = NoFd \/ s \in Fds \ {0, 1}
    BY <1>2, <1>5, Limits DEF FdNumbers, Fds, NoFd
  <2>4. g = [x.fd EXCEPT ![s] = Closed]
    BY <1>5, <2>2, <2>3 DEF StdinFromPipe, Dup, Close
  <2>5. g[0] = x.fd[0] /\ g[1] = x.fd[1] /\ \A n \in Fds \ {0, 1} : g[n] = Closed
    BY <1>0, <1>2, <1>5, <2>2, <2>4, FdFacts
  <2> QED
    BY <1>2, <1>5, <2>1, <2>5
<1> QED
  BY <1>3, <1>4, <1>5

\* Lines 151-165: the program that replaces a child has its input and its output.
LEMMA ProgramGetsWired ==
    ASSUME Structure, Sound, NEW p \in Procs, proc[p].pc = "child", ChildIsWired(proc[p]),
           NEW y, y.at = proc[p].at, y.fd = StdoutToPipeOrFile(p, StdinFromPipe(proc[p]))
    PROVE  ProgramIsWired(y)
<1> PICK x : x = proc[p]
  OBVIOUS
<1> PICK g : g = StdinFromPipe(x)
  OBVIOUS
<1>0. /\ pipes \in Nat /\ line \in Lines /\ PlacedRight(x) /\ x.at \in Nat
      /\ g \in [Fds -> Handles(pipes)] /\ line.out \in Outs
  BY ProcessFacts, StdioIsTyped, LineFacts DEF FdTables
<1> PICK i \in 1 .. Len(line.cmds) : i = x.at
  BY <1>0 DEF PlacedRight
<1>1. /\ g[0] = IF AfterPipe(i) THEN ReadEnd(PipeOf(i - 1)) ELSE Terminal
      /\ g[1] = Terminal
      /\ \A n \in Fds \ {0, 1} : g[n] # Closed => Op(i) = "PIPE" /\ n \in {x.pipefd[1], x.pipefd[2]}
      /\ Op(i) = "PIPE" =>
           g[x.pipefd[1]] = ReadEnd(PipeOf(i)) /\ g[x.pipefd[2]] = WriteEnd(PipeOf(i))
  BY StdinIsWired
<1>2. Piped(p) <=> Op(i) = "PIPE"
  BY DEF Piped, Command, Op
<1> PICK n : n = LowestClosed(g)
  OBVIOUS
<1>3. /\ n \in FdNumbers
      /\ n # NoFd => n \in Fds /\ g[n] = Closed
      /\ \A m \in Fds : g[m] = Closed => n # NoFd
  BY LowestIsClosed
<1>4. n \notin {0, 1}
  <2>1. g[0] # Closed /\ g[1] # Closed
    BY <1>1, FdFacts
  <2>2. NoFd \notin {0, 1}
    BY FdFacts
  <2> QED
    BY <1>3, <2>1, <2>2
<1> PICK opened : opened = IF line.out = "file" THEN [g EXCEPT ![n] = File] ELSE g
  OBVIOUS
<1>5. y.fd = IF Piped(p) THEN Close(Dup(Close(opened, x.pipefd[1]), x.pipefd[2], 1), x.pipefd[2])
             ELSE IF line.out = "file" THEN Close(Dup(opened, n, 1), n) ELSE g
  BY DEF StdoutToPipeOrFile
<1>6. SUFFICES /\ y.fd[0] = g[0]
               /\ y.fd[1] = IF Op(i) = "PIPE" THEN WriteEnd(PipeOf(i))
                            ELSE IF line.out = "file" THEN File ELSE Terminal
               /\ \A m \in Fds \ {0, 1} : y.fd[m] \in {Closed, File}
  <2>1. Closed[1] \notin {"read", "write"} /\ File[1] \notin {"read", "write"}
    BY DEF Closed, File
  <2> QED
    BY <1>1, <1>6, <2>1 DEF ProgramIsWired, Wired
<1>7. CASE Op(i) = "PIPE"
  <2> PICK r : r = x.pipefd[1]
    OBVIOUS
  <2> PICK w : w = x.pipefd[2]
    OBVIOUS
  <2>1. r \in Fds \ {0, 1} /\ w \in Fds \ {0, 1}
    BY <1>7 DEF ChildIsWired, Tidy
  <2>2. g[r] = ReadEnd(PipeOf(i)) /\ g[w] = WriteEnd(PipeOf(i))
    BY <1>1, <1>7
  <2>3. r # w /\ g[r] # Closed /\ g[w] # Closed /\ w # NoFd
    BY <2>1, <2>2, FdFacts
  <2>4. n # r /\ n # w
    BY <1>3, <2>1, <2>3, FdFacts
  <2>5. /\ opened \in [Fds -> Handles(pipes) \cup {File}]
        /\ \A m \in Fds \ {n} : opened[m] = g[m]
        /\ \A m \in Fds : opened[m] \in {g[m], File}
    BY <1>0
  <2>6. opened[0] = g[0] /\ opened[w] = g[w] /\ \A m \in Fds \ {0, 1, r, w} : opened[m] \in {Closed, File}
    <3>1. opened[0] = g[0] /\ opened[w] = g[w]
      BY <1>4, <2>1, <2>4, <2>5, FdFacts
    <3>2. ASSUME NEW m \in Fds \ {0, 1, r, w} PROVE opened[m] \in {Closed, File}
      <4>1. g[m] = Closed
        BY <1>1, <3>2
      <4> QED
        BY <2>5, <4>1
    <3> QED
      BY <3>1, <3>2
  <2> PICK h : h = [opened EXCEPT ![r] = Closed]
    OBVIOUS
  <2>7. /\ h \in [Fds -> Handles(pipes) \cup {File, Closed}]
        /\ h[r] = Closed /\ \A m \in Fds \ {r} : h[m] = opened[m]
    BY <2>1, <2>5
  <2>8. h[w] # Closed
    BY <2>1, <2>3, <2>6, <2>7
  <2>9. y.fd = [[h EXCEPT ![1] = h[w]] EXCEPT ![w] = Closed]
    BY <1>2, <1>5, <1>7, <2>3, <2>8, SMTT(60), ZenonT(120) DEF Close, Dup
  <2>10. /\ y.fd[0] = h[0] /\ y.fd[1] = h[w] /\ y.fd[w] = Closed
         /\ \A m \in Fds \ {0, 1, w} : y.fd[m] = h[m]
    <3>1. {0, 1, w} \subseteq Fds /\ w # 0 /\ w # 1
      BY <2>1, FdFacts
    <3> PICK k : k = [h EXCEPT ![1] = h[w]]
      OBVIOUS
    <3>2. DOMAIN k = Fds /\ k[1] = h[w] /\ \A m \in Fds \ {1} : k[m] = h[m]
      BY ONLY <2>7, <3>1, k = [h EXCEPT ![1] = h[w]]
    <3>3. y.fd = [k EXCEPT ![w] = Closed]
      BY ONLY <2>9, k = [h EXCEPT ![1] = h[w]], Zenon
    <3>4. y.fd[w] = Closed /\ \A m \in Fds \ {w} : y.fd[m] = k[m]
      BY ONLY <3>1, <3>2, <3>3
    <3> QED
      BY ONLY <3>1, <3>2, <3>4
  <2>11. y.fd[0] = g[0] /\ y.fd[1] = g[w]
    BY <2>1, <2>3, <2>6, <2>7, <2>10, FdFacts, SMTT(60)
  <2>12. ASSUME NEW m \in Fds \ {0, 1} PROVE y.fd[m] \in {Closed, File}
    <3>1. CASE m = w
      BY <2>10, <3>1
    <3>2. CASE m = r
      BY <2>3, <2>7, <2>10, <2>12, <3>2
    <3>3. CASE m \notin {r, w}
      BY <2>6, <2>7, <2>10, <2>12, <3>3
    <3> QED
      BY <3>1, <3>2, <3>3
  <2> QED
    BY <1>7, <2>2, <2>11, <2>12
<1>8. CASE Op(i) # "PIPE" /\ line.out = "file"
  <2>1. \A m \in Fds \ {0, 1} : g[m] = Closed
    BY <1>1, <1>8
  <2>2. n \in Fds \ {0, 1} /\ n # NoFd
    BY <1>3, <1>4, <2>1, FdFacts
  <2>3. opened = [g EXCEPT ![n] = File] /\ opened[n] = File /\ File # Closed
    BY <1>0, <1>8, <2>2, FdFacts
  <2>4. y.fd = [[opened EXCEPT ![1] = opened[n]] EXCEPT ![n] = Closed]
    BY <1>2, <1>5, <1>8, <2>2, <2>3 DEF Close, Dup
  <2>5. /\ opened \in [Fds -> Handles(pipes) \cup {File}]
        /\ \A m \in Fds \ {n} : opened[m] = g[m]
    BY <1>0, <2>3
  <2>6. /\ y.fd[0] = opened[0] /\ y.fd[1] = File /\ y.fd[n] = Closed
        /\ \A m \in Fds \ {0, 1, n} : y.fd[m] = opened[m]
    BY <2>2, <2>3, <2>4, <2>5, FdFacts
  <2>7. y.fd[0] = g[0]
    BY <2>2, <2>5, <2>6, FdFacts
  <2>8. \A m \in Fds \ {0, 1} : y.fd[m] = Closed
    BY <2>1, <2>5, <2>6
  <2> QED
    BY <1>8, <2>6, <2>7, <2>8
<1>9. CASE Op(i) # "PIPE" /\ line.out # "file"
  BY <1>1, <1>2, <1>5, <1>9
<1> QED
  BY <1>7, <1>8, <1>9

LEMMA OthersKeepWiring ==
    ASSUME Structure, Sound, LastIsKnown, WiringHolds, NEW p \in Procs \ {Shell},
           Runs(p) \/ CallFails(p) \/ MainEnds(p)
    PROVE  WiringHolds'
<1>1. /\ line' = line /\ pipes' = pipes
      /\ \A q \in Procs \ {p} : proc'[q] = proc[q]
      /\ \/ proc'[p].pc = "zombie"
         \/ /\ proc[p].pc = "child" /\ proc'[p].pc = "program" /\ proc'[p].at = proc[p].at
            /\ proc'[p].fd = StdoutToPipeOrFile(p, StdinFromPipe(proc[p]))
  BY OthersStep DEF Sound
<1> PICK f : f = proc'
  OBVIOUS
<1>2. f[Shell] = proc[Shell]
  BY <1>1, Limits
<1>3. ShellIsWiredIn(f, pipes)
  BY <1>2 DEF WiringHolds, ShellIsWiredIn
<1>4. OthersAreWiredIn(f)
  <2> SUFFICES ASSUME NEW q \in Procs
               PROVE  /\ f[q].pc = "child" => ChildIsWired(f[q])
                      /\ f[q].pc = "program" => ProgramIsWired(f[q])
    BY DEF OthersAreWiredIn
  <2>1. CASE q # p
    <3>1. f[q] = proc[q]
      BY <1>1, <2>1
    <3> QED
      BY <3>1 DEF WiringHolds, OthersAreWiredIn
  <2>2. CASE q = p /\ f[p].pc = "zombie"
    BY <2>2
  <2>3. CASE q = p /\ f[p].pc # "zombie"
    <3>1. /\ proc[p].pc = "child" /\ f[p].pc = "program" /\ f[p].at = proc[p].at
          /\ f[p].fd = StdoutToPipeOrFile(p, StdinFromPipe(proc[p]))
      BY <1>1, <2>3
    <3>2. ChildIsWired(proc[p])
      BY <3>1 DEF WiringHolds, OthersAreWiredIn
    <3>3. ProgramIsWired(f[p])
      BY <3>1, <3>2, ProgramGetsWired
    <3> QED
      BY <2>3, <3>1, <3>3
  <2> QED
    BY <2>1, <2>2, <2>3
<1> QED
  BY <1>1, <1>3, <1>4, WiringAfterwards

\* Of the processes other than the shell only those matter that have new descriptors.
LEMMA OthersAfterwards ==
    ASSUME OthersAreWiredIn(proc), Shell \in Procs, NEW f,
           f[Shell].pc \notin {"child", "program"},
           \A q \in Procs \ {Shell} :
              \/ f[q] = proc[q] \/ f[q].pc = "free"
              \/ f[q].pc = proc[q].pc /\ SameFds(proc[q], f[q])
              \/ f[q].pc = "child" /\ ChildIsWired(f[q])
    PROVE  OthersAreWiredIn(f)
<1> SUFFICES ASSUME NEW q \in Procs \ {Shell}
             PROVE  /\ f[q].pc = "child" => ChildIsWired(f[q])
                    /\ f[q].pc = "program" => ProgramIsWired(f[q])
  BY DEF OthersAreWiredIn
<1>1. /\ proc[q].pc = "child" => ChildIsWired(proc[q])
      /\ proc[q].pc = "program" => ProgramIsWired(proc[q])
  BY DEF OthersAreWiredIn
<1>2. CASE f[q].pc = proc[q].pc /\ SameFds(proc[q], f[q])
  <2>1. ChildIsWired(proc[q]) => ChildIsWired(f[q])
    BY <1>2 DEF ChildIsWired, Tidy, InputIsWired, OutputIsWired, SameFds
  <2>2. ProgramIsWired(proc[q]) => ProgramIsWired(f[q])
    BY <1>2 DEF ProgramIsWired, Wired, SameFds
  <2> QED
    BY <1>1, <1>2, <2>1, <2>2
<1>3. CASE f[q] = proc[q]
  BY <1>1, <1>3
<1>4. CASE f[q].pc = "free"
  BY <1>4
<1>5. CASE f[q].pc = "child" /\ ChildIsWired(f[q])
  BY <1>5
<1> QED
  BY <1>2, <1>3, <1>4, <1>5

\* Line 103 makes the pipe that the command and the next one share.
LEMMA NextCommandWires ==
    ASSUME Structure, NextCommand(Shell), ShellIsWiredIn(proc, pipes),
           NEW f, f = proc', NEW made, made = pipes'
    PROVE  ShellIsWiredIn(f, made)
<1> PICK x : x = proc[Shell]
  OBVIOUS
<1> PICK y : y = f[Shell]
  OBVIOUS
<1>1. /\ x.pc = "expr" /\ y.pc = "command" /\ y.at = x.at /\ y.pipe_stdin = x.pipe_stdin
      /\ x.at \in 1 .. Len(line.cmds)
      /\ Op(x.at) # "PIPE" => pipes' = pipes /\ y.fd = x.fd
      /\ Op(x.at) = "PIPE" =>
           \E r, w \in Fds :
              /\ x.fd[r] = Closed /\ x.fd[w] = Closed /\ r # w
              /\ pipes' = pipes + 1 /\ y.pipefd = <<r, w>>
              /\ y.fd = [x.fd EXCEPT ![r] = ReadEnd(pipes + 1), ![w] = WriteEnd(pipes + 1)]
  BY NextCommandEffect
<1>2. InputIsWired(x) /\ pipes = PipeOf(x.at - 1)
  BY <1>1 DEF ShellIsWiredIn
<1>3. line \in Lines /\ pipes \in Nat /\ x.fd \in [Fds -> Handles(pipes)]
  BY ProcessFacts, Limits DEF FdTables
<1> PICK i \in 1 .. Len(line.cmds) : i = x.at
  BY <1>1
<1>4. PipeOf(i) = IF Op(i) = "PIPE" THEN pipes + 1 ELSE pipes
  BY <1>2, <1>3, PipesAreCounted
<1>5. SUFFICES InputIsWired(y) /\ OutputIsWired(y) /\ made = PipeOf(i)
  BY <1>1, <1>5 DEF ShellIsWiredIn
<1>6. CASE Op(i) # "PIPE"
  BY <1>1, <1>2, <1>4, <1>6 DEF InputIsWired, OutputIsWired
<1>7. CASE Op(i) = "PIPE"
  <2> PICK r \in Fds, w \in Fds :
              /\ x.fd[r] = Closed /\ x.fd[w] = Closed /\ r # w
              /\ pipes' = pipes + 1 /\ y.pipefd = <<r, w>>
              /\ y.fd = [x.fd EXCEPT ![r] = ReadEnd(pipes + 1), ![w] = WriteEnd(pipes + 1)]
    BY <1>1, <1>7
  <2>1. y.fd[r] = ReadEnd(pipes + 1) /\ y.fd[w] = WriteEnd(pipes + 1)
    BY <1>3
  <2>2. \A n \in Fds : x.fd[n] # Closed => y.fd[n] = x.fd[n]
    BY <1>3
  <2>3. OutputIsWired(y)
    BY <1>1, <1>4, <1>7, <2>1 DEF OutputIsWired
  <2>4. InputIsWired(y)
    <3>1. ASSUME AfterPipe(i)
          PROVE  y.pipe_stdin \in Fds \ {0, 1} /\ y.fd[y.pipe_stdin] = ReadEnd(PipeOf(i - 1))
      <4>1. /\ x.pipe_stdin \in Fds \ {0, 1}
            /\ x.fd[x.pipe_stdin] = ReadEnd(PipeOf(i - 1))
        BY <1>2, <3>1 DEF InputIsWired
      <4>2. x.fd[x.pipe_stdin] # Closed
        BY <4>1, FdFacts
      <4> QED
        BY <1>1, <2>2, <4>1, <4>2
    <3> QED
      BY <1>1, <1>2, <3>1 DEF InputIsWired
  <2> QED
    BY <1>4, <1>7, <2>3, <2>4
<1> QED
  BY <1>6, <1>7

\* Lines 169-176 hand the read end of the new pipe on to the next command.
LEMMA ParentWires ==
    ASSUME Structure, Sound, Parent(Shell), ShellIsTidy, ShellIsWiredIn(proc, pipes),
           NEW f, f = proc'
    PROVE  ShellIsWiredIn(f, pipes)
<1> PICK x : x = proc[Shell]
  OBVIOUS
<1> PICK y : y = f[Shell]
  OBVIOUS
<1>1. /\ x.pc = "parent" /\ y.pc = "expr" /\ y.at = x.at + 1
      /\ y.fd = ParentCloses(x.fd, x, Op(x.at) = "PIPE")
      /\ y.pipe_stdin = IF Op(x.at) = "PIPE" THEN x.pipefd[1] ELSE x.pipe_stdin
  BY ForkAndParentEffect
<1>2. InputIsWired(x) /\ OutputIsWired(x) /\ pipes = PipeOf(x.at) /\ Tidy(x, TRUE)
  BY <1>1 DEF ShellIsWiredIn, ShellIsTidy, ShellIsTidyIn
<1>3. /\ line \in Lines /\ pipes \in Nat /\ x.fd \in [Fds -> Handles(pipes)]
      /\ PlacedRight(x) /\ x.at \in Nat /\ OnePipeline /\ Len(line.cmds) \in Nat
  BY ProcessFacts, Limits DEF FdTables, Sound
<1> PICK i \in 1 .. Len(line.cmds) : i = x.at
  BY <1>1, <1>3 DEF PlacedRight
<1> PICK j \in Nat : j = i + 1 /\ j - 1 = i
  OBVIOUS
<1>4. y.at = j /\ (AfterPipe(j) <=> Op(i) = "PIPE")
  BY <1>1 DEF AfterPipe
<1>5. SUFFICES InputIsWired(y)
  BY <1>1, <1>2, <1>4, <1>5 DEF ShellIsWiredIn
<1>6. CASE Op(i) = "PIPE"
  <2> PICK r : r = x.pipefd[1]
    OBVIOUS
  <2> PICK w : w = x.pipefd[2]
    OBVIOUS
  <2>1. /\ r \in Fds \ {0, 1} /\ w \in Fds \ {0, 1}
        /\ x.fd[r] = ReadEnd(PipeOf(i)) /\ x.fd[w] = WriteEnd(PipeOf(i))
    BY <1>2, <1>6 DEF Tidy, OutputIsWired
  <2>2. r # w
    BY <2>1, FdFacts
  <2>3. x.pipe_stdin = 0 \/ r # x.pipe_stdin
    <3>1. CASE AfterPipe(i)
      <4>1. x.fd[x.pipe_stdin] = ReadEnd(PipeOf(i - 1))
        BY <1>2, <3>1 DEF InputIsWired
      <4>2. PipeOf(i) # PipeOf(i - 1)
        BY <1>3, <1>6, PipesAreCounted, SMTT(60)
      <4>3. ReadEnd(PipeOf(i)) # ReadEnd(PipeOf(i - 1))
        BY <4>2 DEF ReadEnd
      <4> QED
        BY <2>1, <4>1, <4>3
    <3>2. CASE ~AfterPipe(i)
      <4>1. x.pipe_stdin # 0 => \E k \in 1 .. i - 1 : AfterPipe(k) /\ Op(k) # "PIPE"
        BY <1>2, <3>2 DEF InputIsWired
      <4>2. x.pipe_stdin # 0 => Op(i) # "PIPE"
        BY <1>3, <4>1, NoPipelineFollows
      <4> QED
        BY <1>6, <4>2
    <3> QED
      BY <3>1, <3>2
  <2>4. y.fd[r] = x.fd[r]
    BY <1>1, <1>3, <1>6, <2>1, <2>2, <2>3, SMTT(60) DEF ParentCloses, Close
  <2>5. y.pipe_stdin = r /\ AfterPipe(y.at) /\ y.fd[r] = ReadEnd(PipeOf(y.at - 1))
    BY <1>1, <1>4, <1>6, <2>1, <2>4
  <2> QED
    BY <2>1, <2>5 DEF InputIsWired
<1>7. CASE Op(i) # "PIPE"
  <2>1. y.pipe_stdin = x.pipe_stdin /\ ~AfterPipe(y.at)
    BY <1>1, <1>4, <1>7
  <2>2. ASSUME x.pipe_stdin # 0
        PROVE  \E k \in 1 .. j - 1 : AfterPipe(k) /\ Op(k) # "PIPE"
    <3>1. CASE AfterPipe(i)
      <4>1. i \in 1 .. j - 1
        OBVIOUS
      <4> QED
        BY <1>7, <3>1, <4>1
    <3>2. CASE ~AfterPipe(i)
      <4>1. \E k \in 1 .. i - 1 : AfterPipe(k) /\ Op(k) # "PIPE"
        BY <1>2, <2>2, <3>2 DEF InputIsWired
      <4>2. 1 .. i - 1 \subseteq 1 .. j - 1
        OBVIOUS
      <4> QED
        BY <4>1, <4>2
    <3> QED
      BY <3>1, <3>2
  <2> QED
    BY <1>4, <2>1, <2>2 DEF InputIsWired
<1> QED
  BY <1>6, <1>7

LEMMA WiringOfShell ==
    ASSUME Structure, Sound, LastIsKnown, ShellIsTidy, WiringHolds,
           Runs(Shell) \/ CallFails(Shell) \/ MainEnds(Shell)
    PROVE  WiringHolds'
<1>0. /\ line \in Lines /\ Shell \in Procs /\ AllFound /\ BuiltinsApart /\ line' = line
      /\ PlacedRight(proc[Shell]) /\ proc[Shell].at \in Nat /\ Len(line.cmds) \in Nat
  BY ProcessFacts, Limits, ShellSteps DEF Sound
<1> PICK f : f = proc'
  OBVIOUS
<1> PICK made : made = pipes'
  OBVIOUS
<1> PICK x : x = proc[Shell]
  OBVIOUS
<1> PICK y : y = f[Shell]
  OBVIOUS
<1>1. ShellIsWiredIn(proc, pipes) /\ OthersAreWiredIn(proc)
  BY DEF WiringHolds
<1>2. SUFFICES ShellIsWiredIn(f, made) /\ OthersAreWiredIn(f)
  BY <1>0, <1>2, WiringAfterwards
<1>3. CASE NextCommand(Shell)
  <2>1. f[Shell].pc = "command" /\ \A q \in Procs \ {Shell} : f[q] = proc[q]
    BY <1>3, NextCommandEffect
  <2>2. OthersAreWiredIn(f)
    BY <1>0, <1>1, <2>1, OthersAfterwards
  <2>3. ShellIsWiredIn(f, made)
    BY <1>1, <1>3, NextCommandWires
  <2> QED
    BY <2>2, <2>3
<1>4. CASE Fork(Shell)
  <2>1. /\ x.pc = "command" /\ y.pc = "parent" /\ made = pipes /\ SameFds(x, y)
        /\ \A q \in Procs \ {Shell} :
             f[q] = proc[q] \/ (f[q].pc = "child" /\ SameFds(x, f[q]))
    <3>1. x.pc = "command" /\ y.pc = "parent" /\ made = pipes /\ SameFds(x, y)
      BY <1>4, ForkAndParentEffect
    <3>2. ASSUME NEW q \in Procs \ {Shell}
          PROVE  f[q] = proc[q] \/ (f[q].pc = "child" /\ SameFds(x, f[q]))
      BY <1>4, ForkAndParentEffect
    <3> QED
      BY <3>1, <3>2
  <2>2. InputIsWired(x) /\ OutputIsWired(x) /\ pipes = PipeOf(x.at) /\ Tidy(x, TRUE)
    BY <1>1, <2>1 DEF ShellIsWiredIn, ShellIsTidy, ShellIsTidyIn
  <2>3. ASSUME NEW z, SameFds(x, z) PROVE ChildIsWired(z)
    BY <2>2, <2>3 DEF ChildIsWired, Tidy, InputIsWired, OutputIsWired, SameFds
  <2>4. OthersAreWiredIn(f)
    BY <1>0, <1>1, <2>1, <2>3, OthersAfterwards
  <2>5. InputIsWired(y) /\ OutputIsWired(y) /\ made = PipeOf(y.at)
    BY <2>1, <2>2 DEF InputIsWired, OutputIsWired, SameFds
  <2> QED
    BY <2>1, <2>4, <2>5 DEF ShellIsWiredIn
<1>5. CASE Parent(Shell)
  <2>1. f[Shell].pc = "expr" /\ made = pipes /\ \A q \in Procs \ {Shell} : f[q] = proc[q]
    BY <1>5, ForkAndParentEffect
  <2>2. OthersAreWiredIn(f)
    BY <1>0, <1>1, <2>1, OthersAfterwards
  <2>3. ShellIsWiredIn(f, made)
    BY <1>1, <1>5, <2>1, ParentWires
  <2> QED
    BY <2>2, <2>3
<1>6. CASE /\ f[Shell].pc = "zombie"
           /\ \A q \in Procs \ {Shell} : f[q].pc = proc[q].pc /\ SameFds(proc[q], f[q])
  <2>1. OthersAreWiredIn(f)
    BY <1>0, <1>1, <1>6, OthersAfterwards
  <2> QED
    BY <1>6, <2>1 DEF ShellIsWiredIn
<1>7. CASE /\ made = pipes /\ x.pc = "command" /\ y.pc = "expr" /\ Builtin(x.at)
           /\ y.at = x.at + 1 /\ y.fd = x.fd /\ y.pipe_stdin = x.pipe_stdin
           /\ \A q \in Procs \ {Shell} : f[q] = proc[q]
  <2>1. OthersAreWiredIn(f)
    BY <1>0, <1>1, <1>7, OthersAfterwards
  <2> PICK i \in 1 .. Len(line.cmds) : i = x.at
    BY <1>0, <1>7 DEF PlacedRight
  <2> PICK j \in Nat : j = i + 1 /\ j - 1 = i
    OBVIOUS
  <2>2. ~AfterPipe(i) /\ ~AfterPipe(j)
    BY <1>0, <1>7, BuiltinHasNoPipe
  <2>3. InputIsWired(x) /\ pipes = PipeOf(i)
    BY <1>1, <1>7 DEF ShellIsWiredIn
  <2>4. ASSUME x.pipe_stdin # 0 PROVE \E k \in 1 .. j - 1 : AfterPipe(k) /\ Op(k) # "PIPE"
    <3>1. \E k \in 1 .. i - 1 : AfterPipe(k) /\ Op(k) # "PIPE"
      BY <2>2, <2>3, <2>4 DEF InputIsWired
    <3>2. 1 .. i - 1 \subseteq 1 .. j - 1
      OBVIOUS
    <3> QED
      BY <3>1, <3>2
  <2>5. y.at = j
    BY <1>7
  <2>6. InputIsWired(y)
    BY <1>7, <2>2, <2>4, <2>5 DEF InputIsWired
  <2> QED
    BY <1>7, <2>1, <2>3, <2>5, <2>6 DEF ShellIsWiredIn
<1>8. CASE /\ y.pc \in {"wait", "returned"}
           /\ \A q \in Procs \ {Shell} : f[q] = proc[q] \/ f[q].pc = "free"
  <2>1. OthersAreWiredIn(f)
    BY <1>0, <1>1, <1>8, OthersAfterwards
  <2> QED
    BY <1>8, <2>1 DEF ShellIsWiredIn
<1> QED
  BY <1>0, <1>3, <1>4, <1>5, <1>6, <1>7, <1>8, ShellSteps

-----------------------------------------------------------------------------
(* The theorems *)

LEMMA InitIsWired == Init => LastIsKnown /\ ShellIsTidy /\ WiringHolds
<1> SUFFICES ASSUME Init PROVE LastIsKnown /\ ShellIsTidy /\ WiringHolds
  OBVIOUS
<1>1. /\ line \in Lines /\ pipes = 0
      /\ proc = [p \in Procs |-> IF p = Shell THEN Started ELSE Free]
  BY DEF Init
<1>2. Len(line.cmds) \in Nat \ {0} /\ Free.pc = "free"
  BY <1>1, LineFacts, FreeIsTyped
<1> PICK x : x = Started
  OBVIOUS
<1>3. /\ x.pc = "expr" /\ x.at = 1 /\ x.pipe_stdin = 0
      /\ x.fd = [n \in Fds |-> IF n < 2 THEN Terminal ELSE Closed]
  BY StartedIsTyped
<1>4. /\ proc[Shell] = x
      /\ \A p \in Procs \ {Shell} : proc[p].pc = "free"
      /\ \A p \in Procs : proc[p].pc \in {"expr", "free"}
  BY <1>1, <1>2, <1>3, Limits
<1>5. LastIsKnown
  <2>1. ~AtEnd(Shell)
    BY <1>2, <1>3, <1>4 DEF AtEnd
  <2> QED
    BY <1>3, <1>4, <2>1 DEF LastIsKnown
<1>6. ~AfterPipe(1)
  BY DEF AfterPipe
<1>7. ShellIsTidy
  <2>1. x.fd[0] = Terminal /\ x.fd[1] = Terminal /\ \A n \in Fds \ {0, 1} : x.fd[n] = Closed
    <3>1. \A n \in Fds \ {0, 1} : ~(n < 2)
      BY Limits DEF Fds
    <3> QED
      BY <1>3, <3>1, FdFacts
  <2>2. Tidy(x, x.pc \in {"command", "parent"})
    BY <1>3, <2>1 DEF Tidy
  <2> QED
    BY <1>4, <2>2 DEF ShellIsTidy, ShellIsTidyIn
<1>8. WiringHolds
  <2>1. PipeOf(0) = 0
    <3>1. {j \in 1 .. 0 : Op(j) = "PIPE"} = {}
      OBVIOUS
    <3> QED
      BY <3>1, FS_EmptySet DEF PipeOf
  <2>2. InputIsWired(x)
    BY <1>3, <1>6 DEF InputIsWired
  <2>3. x.at - 1 = 0
    BY <1>3
  <2>4. ShellIsWiredIn(proc, pipes)
    BY <1>1, <1>3, <1>4, <2>1, <2>2, <2>3 DEF ShellIsWiredIn
  <2>5. OthersAreWiredIn(proc)
    BY <1>4 DEF OthersAreWiredIn
  <2> QED
    BY <2>4, <2>5 DEF WiringHolds
<1> QED
  BY <1>5, <1>7, <1>8

LEMMA LineIsKept == [Next]_vars => line' = line
BY ZenonT(60) DEF Next, vars, Runs, NextCommand, CallFails, Cd, StopReading, Fork, Child, Parent, Wait,
       WaitFails, Return, MainEnds, ProgramExits

LEMMA StutteringKeeps ==
    ASSUME UNCHANGED vars
    PROVE  /\ LastIsKnown => LastIsKnown'
           /\ ShellIsTidy => ShellIsTidy'
           /\ WiringHolds => WiringHolds'
<1>1. line' = line /\ pipes' = pipes /\ proc' = proc
  BY DEF vars
<1>2. LastIsKnown => LastIsKnown'
  BY <1>1 DEF LastIsKnown, RunsCommand, AtEnd, Kind
<1>3. ShellIsTidy => ShellIsTidy'
  BY <1>1, TidyAfterwards DEF ShellIsTidy, ShellIsTidyIn
<1>4. WiringHolds => WiringHolds'
  BY <1>1, WiringAfterwards DEF WiringHolds
<1> QED
  BY <1>2, <1>3, <1>4

LEMMA OthersKeepTidy ==
    ASSUME Structure, AllFound, LastIsKnown, ShellIsTidy, NEW p \in Procs \ {Shell},
           Runs(p) \/ CallFails(p) \/ MainEnds(p)
    PROVE  ShellIsTidy'
<1>1. line' = line /\ proc'[Shell] = proc[Shell]
  BY OthersStep, Limits
<1> QED
  BY <1>1, TidyAfterwards DEF ShellIsTidy, ShellIsTidyIn

LEMMA StepKeepsShellInv == ShellInv /\ [Next]_vars => ShellInv'
<1> SUFFICES ASSUME ShellInv, [Next]_vars PROVE ShellInv'
  OBVIOUS
<1>1. Structure /\ Structure'
  BY StepKeepsStructure DEF ShellInv
<1>2. /\ AllFound' <=> AllFound
      /\ BuiltinsApart' <=> BuiltinsApart
      /\ Sound' <=> Sound
  BY LineIsKept, SameLine
<1>3. ASSUME AllFound PROVE LastIsKnown'
  <2>1. LastIsKnown
    BY <1>3 DEF ShellInv
  <2> QED
    BY <1>1, <1>3, <2>1, OthersKeepLast, LastOfShell, StutteringKeeps DEF Next
<1>4. ASSUME AllFound, BuiltinsApart PROVE ShellIsTidy'
  <2>1. LastIsKnown /\ ShellIsTidy
    BY <1>4 DEF ShellInv
  <2> QED
    BY <1>1, <1>4, <2>1, OthersKeepTidy, TidyOfShell, StutteringKeeps DEF Next
<1>5. ASSUME Sound PROVE WiringHolds'
  <2>1. LastIsKnown /\ ShellIsTidy /\ WiringHolds
    BY <1>5 DEF ShellInv, Sound
  <2> QED
    BY <1>1, <1>5, <2>1, OthersKeepWiring, WiringOfShell, StutteringKeeps DEF Next
<1> QED
  BY <1>1, <1>2, <1>3, <1>4, <1>5 DEF ShellInv

\* The invariant that the other theorems rest on: where each process of
\* execute_command_line stands among the commands, how often the shell still has to
\* call wait() (lines 100 and 190), whose number is in pid (line 195), and which ends of
\* which pipes are open, for every line.
THEOREM ShellInvariance == Spec => []ShellInv
<1>1. Init => ShellInv
  BY InitHasStructure, InitIsWired DEF ShellInv
<1> QED
  BY <1>1, StepKeepsShellInv, PTL DEF Spec

LEMMA TypesAreRight ==
    ASSUME Structure
    PROVE  TypeOK
<1>0. pipes \in Nat /\ line \in Lines /\ line.cmds \in Seq(Commands) /\ Len(line.cmds) \in Nat
      /\ DOMAIN line.cmds = 1 .. Len(line.cmds)
  BY ProcessFacts, Limits, LineFacts
<1>1. ASSUME NEW p \in Procs
      PROVE  /\ proc[p].at \in 0 .. Len(line.cmds) + 1
             /\ proc[p].pc \in {"command", "child", "parent", "program"}
                  => proc[p].at \in DOMAIN line.cmds
  BY <1>0, ProcessFacts DEF PlacedRight
<1>2. ASSUME NEW p \in Procs, NEW end \in Ends(proc[p].fd) PROVE end[2] \in 1 .. pipes
  <2>1. proc[p].fd \in [Fds -> Handles(pipes)]
    BY ProcessFacts DEF FdTables
  <2>2. end \in Handles(pipes) /\ end[1] \in {"read", "write"}
    BY <2>1 DEF Ends, Range
  <2>3. end \notin {Closed, Terminal, File}
    BY <2>2 DEF Closed, Terminal, File
  <2>4. PICK j \in 1 .. pipes : end = ReadEnd(j) \/ end = WriteEnd(j)
    BY <2>2, <2>3 DEF Handles
  <2> QED
    BY <2>4 DEF ReadEnd, WriteEnd
<1>3. ASSUME NEW p \in Procs, proc[p].parent \in Procs
      PROVE  proc[proc[p].parent].pc \notin {"free", "zombie", "program"}
  BY <1>3 DEF Structure, ParentsLive
<1> QED
  BY <1>0, <1>1, <1>2, <1>3 DEF TypeOK

\* Lines 145-165: whatever the line, if it is sound then every program that a child becomes
\* reads from the pipe of the command before or the terminal, writes to the pipe of its own
\* command, the file or the terminal, and has no other end of a pipe open.
THEOREM ProgramsStayWired == Spec => []ProgramsAreWired
<1>1. ShellInv => ProgramsAreWired
  <2> SUFFICES ASSUME ShellInv PROVE ProgramsAreWired
    OBVIOUS
  <2>1. TypeOK
    BY TypesAreRight DEF ShellInv
  <2>2. ASSUME Sound, NEW p \in Procs, proc[p].pc = "program" PROVE ProgramIsWired(proc[p])
    BY <2>2 DEF ShellInv, WiringHolds, OthersAreWiredIn
  <2> QED
    BY <2>1, <2>2 DEF ProgramsAreWired, ProgramIsWired
<1> QED
  BY <1>1, ShellInvariance, PTL

LEMMA NoChildrenAtReturn ==
    ASSUME Structure, proc[Shell].pc = "returned"
    PROVE  Children(Shell) = {}
<1>1. IsFiniteSet(Children(Shell))
  BY Limits, FS_Subset DEF Children
<1>2. Cardinality(Children(Shell)) \in Nat
  BY <1>1, FS_CardinalityType
<1>3. CountedRight(proc[Shell])
  BY DEF Structure, ChildrenAreCounted
<1>4. Cardinality(Children(Shell)) = 0
  BY <1>2, <1>3 DEF CountedRight
<1> QED
  BY <1>1, <1>4, FS_EmptySet

\* Lines 169-199: whatever the line, a shell that returns from execute_command_line has reaped
\* every process it forked, and, if the commands it runs itself are in no pipeline and every
\* program is found, has closed every end of every pipe.
THEOREM NothingRemains == Spec => []NothingIsLeft
<1>1. ShellInv => NothingIsLeft
  <2> SUFFICES ASSUME ShellInv, proc[Shell].pc = "returned"
               PROVE  /\ Children(Shell) = {}
                      /\ AllFound /\ BuiltinsApart => Ends(proc[Shell].fd) = {}
    BY DEF NothingIsLeft
  <2> PICK x : x = proc[Shell]
    OBVIOUS
  <2>1. Children(Shell) = {}
    BY NoChildrenAtReturn DEF ShellInv
  <2>2. /\ line \in Lines /\ PlacedRight(x) /\ x.at \in Nat /\ Len(line.cmds) \in Nat \ {0}
        /\ x.fd \in [Fds -> Handles(pipes)]
    BY ProcessFacts, Limits DEF ShellInv, FdTables
  <2>3. ASSUME AllFound, BuiltinsApart PROVE Ends(x.fd) = {}
    <3>1. Tidy(x, FALSE)
      BY <2>3 DEF ShellInv, ShellIsTidy, ShellIsTidyIn, Tidy
    <3>2. ~AfterPipe(x.at)
      <4>1. CASE x.at <= Len(line.cmds)
        <5>1. Builtin(x.at) /\ x.at \in 1 .. Len(line.cmds)
          BY <2>2, <4>1 DEF PlacedRight, ExitCommand, Builtin
        <5> QED
          BY <2>2, <2>3, <5>1, BuiltinHasNoPipe
      <4>2. CASE x.at > Len(line.cmds)
        <5>1. x.at - 1 = Len(line.cmds)
          BY <2>2, <4>2 DEF PlacedRight
        <5>2. Op(Len(line.cmds)) = "END"
          BY <2>2, LineFacts DEF Op
        <5> QED
          BY <5>1, <5>2 DEF AfterPipe
      <4> QED
        BY <2>2, <4>1, <4>2
    <3>3. \A n \in Fds : x.fd[n] \in {Closed, Terminal}
      BY <3>1, <3>2 DEF Tidy
    <3>4. Closed[1] \notin {"read", "write"} /\ Terminal[1] \notin {"read", "write"}
      BY DEF Closed, Terminal
    <3> QED
      BY <2>2, <3>3, <3>4 DEF Ends, Range
  <2> QED
    BY <2>1, <2>3
<1> QED
  BY <1>1, ShellInvariance, PTL

\* Lines 193-201: of a line whose programs are all found, whose commands are all to be run and
\* that does not end in a cd, a shell that returns has the status of the last command, in
\* whatever order the processes exit.
THEOREM LastStatusIsRight == Spec => []StatusIsOfLast
<1>1. ShellInv => StatusIsOfLast
  <2> SUFFICES ASSUME ShellInv, proc[Shell].pc = "returned", AllFound,
                      Kind(Len(line.cmds)) # "cd"
               PROVE  proc[Shell].last_status = Len(line.cmds)
    BY DEF StatusIsOfLast
  <2> PICK x : x = proc[Shell]
    OBVIOUS
  <2>1. Children(Shell) = {}
    BY NoChildrenAtReturn DEF ShellInv
  <2>2. /\ line \in Lines /\ PlacedRight(x) /\ x.at \in Nat /\ Len(line.cmds) \in Nat \ {0}
    BY ProcessFacts, Limits DEF ShellInv
  <2>3. CASE x.at > Len(line.cmds)
    <3>1. \A c, i : ~RunsCommand(c, i)
      BY <2>1 DEF RunsCommand, Children
    <3>2. LastIsKnown
      BY DEF ShellInv
    <3> QED
      BY <2>3, <3>1, <3>2 DEF LastIsKnown, AtEnd
  <2>4. CASE x.at <= Len(line.cmds)
    <3>1. line.cmds[x.at] = ExitCommand /\ x.last_status = x.at /\ x.at >= 1
      BY <2>2, <2>4 DEF PlacedRight
    <3>2. line.cmds[x.at].op = "END" /\ x.at \in DOMAIN line.cmds
      BY <2>2, <2>4, <3>1, LineFacts DEF ExitCommand
    <3>3. x.at = Len(line.cmds)
      BY <2>2, <3>2, LineFacts
    <3> QED
      BY <3>1, <3>3
  <2> QED
    BY <2>2, <2>3, <2>4
<1> QED
  BY <1>1, ShellInvariance, PTL

=============================================================================
