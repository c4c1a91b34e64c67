------------------------------ MODULE HeapTracer ------------------------------
(***************************************************************************)
(* utils/heap_help/heap_help.c: the replacements of malloc, free, realloc  *)
(* and their relatives, which keep a table of the blocks a program holds   *)
(* and report at exit the ones it never freed.                             *)
(*                                                                         *)
(* Any number of threads call them.  A thread's pc says what it does next; *)
(* a step ends where another thread can see or change what it read, so a   *)
(* section under allocs_lock is one step and that lock is no variable.     *)
(* init_lock is one, because it is held across calls of dlsym.  malloc,    *)
(* calloc, strdup and getaddrinfo are the operation "alloc" ("strdup" the  *)
(* one with an assertion of its own), free and freeaddrinfo are "free",    *)
(* realloc of a block and getline into one are "realloc".                  *)
(*                                                                         *)
(* A traced block is told by where it was allocated: in a function of the  *)
(* library whose leaks are suppressed, or in the user's code.              *)
(***************************************************************************)
EXTENDS Integers, Sequences, FiniteSets, SequencesExt

CONSTANTS
    Threads,
    Addrs,          \* the addresses the system's allocator can return
    None, Failed    \* no address; the result of a realloc that failed

ASSUME HeapAssumption ==
    /\ IsFiniteSet(Threads) /\ Threads # {} /\ IsFiniteSet(Addrs)
    /\ None \notin Threads \cup Addrs /\ Failed \notin Addrs \cup {None}

Sites == {"user", "internal"}

\* The argument and the result of a call, and where the block was allocated.
NoCall == [op |-> "none", ptr |-> None, res |-> None, site |-> "user"]

VARIABLES
    is_init_done,
    init_lock,          \* the thread whose init_lock_count is not zero, or None
    default_heap,       \* where default_malloc, _free and _calloc point to
    is_exit_done,
    allocs,             \* the linked list, from its first record
    alloc_count,
    alloc_pool,         \* the number of records in the pool
    alloc_batch,        \* the number of records cut from batches
    heap,               \* external: the addresses allocated in the system's heap
    live,               \* the blocks the program holds, and where it got them
    hidden,             \* the blocks a library function holds for itself
    pc,                 \* what each thread does next
    call,               \* its call: which, of what, with which result, from where
    report,             \* the leaks counted by heaph_atexit
    aborted,            \* which assertion has ended the program, or "no"
    raced,              \* history: a thread initialised what was initialised
    lost,               \* history: a realloc failed
    reused,             \* history: an address was given out again before its record was removed
    held                \* history: the user's blocks at exit, if nobody else was in a call

initVars == <<is_init_done, init_lock, default_heap>>
tableVars == <<allocs, alloc_count, alloc_pool, alloc_batch>>
exitVars == <<is_exit_done, report, held>>
blockVars == <<heap, live, hidden>>
vars == <<initVars, tableVars, exitVars, blockVars, pc, call, aborted, raced, lost, reused>>

Init ==
    /\ is_init_done = FALSE /\ init_lock = None
    /\ default_heap = "none"
    /\ is_exit_done = FALSE /\ report = None /\ held = None
    /\ allocs = <<>> /\ alloc_count = 0 /\ alloc_pool = 0 /\ alloc_batch = 0
    /\ heap = {} /\ hidden = {}
    /\ live = [a \in {} |-> "user"]
    /\ pc = [t \in Threads |-> "idle"]
    /\ call = [t \in Threads |-> NoCall]
    /\ aborted = "no" /\ raced = FALSE /\ lost = FALSE /\ reused = FALSE

\* The program has not been ended by an assertion, nor by exit.
Running == aborted = "no" /\ report = None
At(t, here) == Running /\ pc[t] = here
Goes(t, there) == pc' = [pc EXCEPT ![t] = there]
Ends(t) == Goes(t, "idle") /\ call' = [call EXCEPT ![t] = NoCall]
Aborts(why) == aborted' = why

-----------------------------------------------------------------------------
(* The table *)

Record(a, s) == [mem |-> a, site |-> s]

\* alloc_trace_new, lines 179-194: a record from the pool, else a fresh one.
NeverReuses == FALSE
Reuses == alloc_pool > 0
RecordTaken ==
    IF Reuses
    THEN alloc_pool' = alloc_pool - 1 /\ UNCHANGED alloc_batch
    ELSE alloc_batch' = alloc_batch + 1 /\ UNCHANGED alloc_pool

\* Lines 205-210.
Linked(a, s) ==
    /\ allocs' = <<Record(a, s)>> \o allocs
    /\ alloc_count' = alloc_count + 1

\* alloc_free, lines 224-242: the first record of the address, the newest one.
IsTraced(a) == \E i \in DOMAIN allocs : allocs[i].mem = a
Unlinked(a) ==
    /\ allocs' = RemoveAt(allocs, SelectInSeq(allocs, LAMBDA r : r.mem = a))
    /\ alloc_count' = alloc_count - 1
    /\ alloc_pool' = alloc_pool + 1
    /\ UNCHANGED alloc_batch

\* Lines 172 and 218: calls made inside of calls are not traced.
TracedAtAnyDepth(depth) == depth > 0
TracedAt(depth) == depth <= 1

-----------------------------------------------------------------------------
(* Initialisation *)

\* heaph_touch, lines 501-504, outside of dlsym.
Touched == IF is_init_done THEN "enter" ELSE "lock"

\* The program calls malloc or a relative, with a block it holds for free and
\* realloc.  What it passes it no longer uses.
Call(t, o, a, s) ==
    /\ At(t, "idle")
    /\ IF o \in {"free", "realloc"} THEN a \in DOMAIN live ELSE a = None
    /\ live' = [b \in DOMAIN live \ {a} |-> live[b]]
    /\ call' = [call EXCEPT ![t] = [op |-> o, ptr |-> a, res |-> None,
                                    site |-> IF a = None THEN s ELSE live[a]]]
    /\ Goes(t, Touched)
    /\ UNCHANGED <<initVars, tableVars, exitVars, heap, hidden, aborted, raced, lost, reused>>

\* heaph_lock, and the first lines of heaph_init: from now on malloc is the
\* static allocator, whatever it was.
LockIgnored == TRUE
LockFree == init_lock = None

InitBegins(t) ==
    /\ At(t, "lock")
    /\ LockFree
    /\ init_lock' = t
    /\ default_heap' = "static"
    /\ raced' = (raced \/ is_init_done)
    /\ Goes(t, "dlsym")
    /\ UNCHANGED <<is_init_done, tableVars, exitVars, blockVars, call,
                   aborted, lost, reused>>

\* A malloc or calloc made by dlsym: heaph_touch returns at line 502 or 504, and
\* static_malloc asserts that nothing is initialised yet.  If so, the block comes
\* from static_buf, which nothing here is about.
InitNested(t) ==
    /\ At(t, "dlsym")
    /\ is_init_done
    /\ Aborts("static")
    /\ UNCHANGED <<initVars, tableVars, exitVars, blockVars, pc, call, raced, lost, reused>>

\* heaph_init, lines 469-495.
InitResolves(t) ==
    /\ At(t, "dlsym")
    /\ default_heap' = "system"
    /\ Goes(t, "resolved")
    /\ UNCHANGED <<is_init_done, init_lock, tableVars, exitVars, blockVars,
                   call, aborted, raced, lost, reused>>

\* Lines 508-510: the exchange, the unlock and the assertion.
LockKept(t) == t
LockReleased(t) == None

InitEnds(t) ==
    /\ At(t, "resolved")
    /\ is_init_done' = TRUE
    /\ init_lock' = LockReleased(t)
    /\ IF is_init_done
       THEN Aborts("initialised twice") /\ UNCHANGED pc
       ELSE Goes(t, "enter") /\ UNCHANGED aborted
    /\ UNCHANGED <<default_heap, tableVars, exitVars, blockVars, call,
                   raced, lost, reused>>

-----------------------------------------------------------------------------
(* malloc, calloc, strdup, getaddrinfo *)

Enters(t, ops) == At(t, "enter") /\ call[t].op \in ops

\* default_malloc, _free and _calloc are static_malloc, _free and _calloc again
\* while a second thread initialises; those assert that nothing is initialised.  A
\* thread at "link" may get there from backtrace(), one in strdup by a malloc inside.
StaticAgain(t) ==
    /\ Enters(t, {"alloc", "strdup"}) \/ At(t, "default_free") \/ At(t, "link")
    /\ default_heap = "static"
    /\ Aborts("static")
    /\ UNCHANGED <<initVars, tableVars, exitVars, blockVars, pc, call, raced, lost, reused>>

\* strdup, line 539.
StrdupAtExit(t) ==
    /\ Enters(t, {"strdup"})
    /\ is_exit_done
    /\ Aborts("strdup at exit")
    /\ UNCHANGED <<initVars, tableVars, exitVars, blockVars, pc, call, raced, lost, reused>>

\* Another thread has moved the block at this address and not yet removed its record.
RecordPending(t, a) ==
    \E u \in Threads \ {t} : pc[u] = "unlink_old" /\ call[u].ptr = a /\ call[u].res # Failed

\* The system's allocator returns a block, or nothing when there is none.
Allocate(t) ==
    /\ Enters(t, {"alloc", "strdup"})
    /\ call[t].op = "strdup" => ~is_exit_done
    /\ call[t].op = "alloc" => default_heap = "system"
    /\ \/ \E a \in Addrs \ heap :
            /\ heap' = heap \cup {a}
            /\ call' = [call EXCEPT ![t].res = a]
            /\ reused' = (reused \/ RecordPending(t, a))
            /\ Goes(t, "take")
       \/ /\ heap = Addrs
          /\ Ends(t)
          /\ UNCHANGED <<heap, reused>>
    /\ UNCHANGED <<initVars, tableVars, exitVars, live, hidden, aborted, raced, lost>>

\* The call is over; the program holds its result from where it was allocated.
Returns(t, a, s) ==
    /\ live' = [b \in DOMAIN live \cup {a} |-> IF b = a THEN s ELSE live[b]]
    /\ Ends(t)

\* alloc_trace_new: after the exit nothing is traced (line 176); otherwise the
\* record is taken in one section and linked in another.
Take(t) ==
    /\ At(t, "take")
    /\ ~is_exit_done
    /\ RecordTaken
    /\ Goes(t, "link")
    /\ UNCHANGED <<initVars, allocs, alloc_count, exitVars, blockVars, call,
                   aborted, raced, lost, reused>>

TakeNothing(t) ==
    /\ At(t, "take")
    /\ is_exit_done
    /\ Returns(t, call[t].res, call[t].site)
    /\ UNCHANGED <<initVars, tableVars, exitVars, heap, hidden, aborted, raced, lost, reused>>

Link(t) ==
    /\ At(t, "link")
    /\ Linked(call[t].res, call[t].site)
    /\ Returns(t, call[t].res, call[t].site)
    /\ UNCHANGED <<initVars, alloc_pool, alloc_batch, exitVars, heap, hidden,
                   aborted, raced, lost, reused>>

\* Between the two sections backtrace() runs, and may allocate for itself, now
\* or until a later call: malloc at a depth of two, and free.
Nested(t) ==
    /\ At(t, "link")
    /\ default_heap = "system"
    /\ \/ \E a \in Addrs \ heap :
            /\ heap' = heap \cup {a}
            /\ hidden' = hidden \cup {a}
            /\ reused' = (reused \/ RecordPending(t, a))
            /\ IF TracedAt(2)
               THEN Linked(a, "internal") /\ alloc_batch' = alloc_batch + 1 /\ UNCHANGED alloc_pool
               ELSE UNCHANGED tableVars
       \/ \E a \in hidden :
            /\ heap' = heap \ {a}
            /\ hidden' = hidden \ {a}
            /\ UNCHANGED <<tableVars, reused>>
    /\ UNCHANGED <<initVars, exitVars, live, pc, call, aborted, raced, lost>>

-----------------------------------------------------------------------------
(* free, freeaddrinfo *)

\* alloc_free of ptr, and what the thread does next.
Untrace(t) ==
    IF is_exit_done THEN UNCHANGED <<tableVars, aborted>>
    ELSE IF IsTraced(call[t].ptr) THEN Unlinked(call[t].ptr) /\ UNCHANGED aborted
    ELSE Aborts("freeing bad memory") /\ UNCHANGED tableVars

Untraced(t) ==
    /\ Enters(t, {"free"})
    /\ Untrace(t)
    /\ Goes(t, "default_free")
    /\ UNCHANGED <<initVars, exitVars, blockVars, call, raced, lost, reused>>

DefaultFree(t) ==
    /\ At(t, "default_free")
    /\ default_heap = "system"
    /\ heap' = heap \ {call[t].ptr}
    /\ Ends(t)
    /\ UNCHANGED <<initVars, tableVars, exitVars, live, hidden, aborted, raced, lost, reused>>

-----------------------------------------------------------------------------
(* realloc, getline *)

\* The system's realloc leaves the block where it is: no branch of lines 584 to
\* 592 is taken, and the record stays as it is.
ReallocInPlace(t) ==
    /\ Enters(t, {"realloc"})
    /\ Returns(t, call[t].ptr, call[t].site)
    /\ UNCHANGED <<initVars, tableVars, exitVars, heap, hidden, aborted, raced, lost, reused>>

\* It frees the block and returns another one, or none because the new size is
\* zero, or it fails and leaves the block alone.
ReallocMoves(t) ==
    /\ Enters(t, {"realloc"})
    /\ \E a \in Addrs \ heap, s \in Sites :
         /\ heap' = (heap \ {call[t].ptr}) \cup {a}
         /\ call' = [call EXCEPT ![t].res = a, ![t].site = s]
         /\ reused' = (reused \/ RecordPending(t, a))
    /\ Goes(t, "unlink_old")
    /\ UNCHANGED <<initVars, tableVars, exitVars, live, hidden, aborted, raced, lost>>

ReallocFrees(t) ==
    /\ Enters(t, {"realloc"})
    /\ heap' = heap \ {call[t].ptr}
    /\ Goes(t, "unlink_old")
    /\ UNCHANGED <<initVars, tableVars, exitVars, live, hidden, call, aborted, raced, lost, reused>>

ReallocFails(t) ==
    /\ Enters(t, {"realloc"})
    /\ call' = [call EXCEPT ![t].res = Failed]
    /\ lost' = TRUE
    /\ Goes(t, "unlink_old")
    /\ UNCHANGED <<initVars, tableVars, exitVars, blockVars, aborted, raced, reused>>

\* Lines 588-592, and 526-527 of getline: only now the old record goes.  A realloc
\* that failed has returned NULL too, and the block is still the program's.
UnlinkOld(t) ==
    /\ At(t, "unlink_old")
    /\ Untrace(t)
    /\ CASE call[t].res = None -> Ends(t) /\ UNCHANGED live
         [] call[t].res = Failed -> Returns(t, call[t].ptr, call[t].site)
         [] OTHER -> Goes(t, "take") /\ UNCHANGED <<live, call>>
    /\ UNCHANGED <<initVars, exitVars, heap, hidden, raced, lost, reused>>

-----------------------------------------------------------------------------
(* exit *)

UserBlocks == {a \in DOMAIN live : live[a] = "user"}

\* heaph_atexit, registered by heaph_init, in the thread that calls exit; a second
\* exit has nothing to do (lines 377-378).
Exit(t) ==
    /\ At(t, "idle")
    /\ is_init_done
    /\ ~is_exit_done
    /\ is_exit_done' = TRUE
    /\ held' = IF \A u \in Threads : pc[u] = "idle" THEN Cardinality(UserBlocks) ELSE None
    /\ Goes(t, "exiting")
    /\ UNCHANGED <<initVars, tableVars, report, blockVars, call, aborted, raced, lost, reused>>

\* Lines 381-424: of what is counted, the records with a suppressed trace are
\* taken off.
AllCounted == alloc_count
UserCounted ==
    alloc_count - Cardinality({i \in DOMAIN allocs : allocs[i].site = "internal"})

Report(t) ==
    /\ At(t, "exiting")
    /\ report' = UserCounted
    /\ Goes(t, "gone")
    /\ UNCHANGED <<initVars, tableVars, is_exit_done, held, blockVars, call,
                   aborted, raced, lost, reused>>

-----------------------------------------------------------------------------
\* What a thread does once it is inside of a call.
Step(t) ==
    \/ InitBegins(t) \/ InitResolves(t) \/ InitEnds(t)
    \/ StaticAgain(t) \/ StrdupAtExit(t) \/ Allocate(t)
    \/ Take(t) \/ TakeNothing(t) \/ Link(t)
    \/ Untraced(t) \/ DefaultFree(t)
    \/ ReallocInPlace(t) \/ ReallocMoves(t) \/ ReallocFrees(t) \/ ReallocFails(t)
    \/ UnlinkOld(t) \/ Report(t)

Next ==
    \E t \in Threads :
        \/ \E o \in {"alloc", "strdup", "free", "realloc"}, a \in Addrs \cup {None}, s \in Sites :
             Call(t, o, a, s)
        \/ Step(t) \/ InitNested(t) \/ Nested(t) \/ Exit(t)

Spec == Init /\ [][Next]_vars

\* A thread inside of a call goes on.  The spinlock needs no more than that: it is
\* taken at most once by each thread that finds nothing initialised.
FairSpec == Spec /\ \A t \in Threads : WF_vars(Step(t))
=============================================================================
