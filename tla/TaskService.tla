----------------------------- MODULE TaskService ------------------------------
(***************************************************************************)
(* What 4/thread_pool.h promises of a task, whatever the pool does inside: *)
(* a pushed task is run exactly once by one of a bounded number of         *)
(* threads, then waits to be joined and may be pushed again; a detached    *)
(* task is freed when it has run.  The order in which queued tasks start   *)
(* is left open.                                                           *)
(***************************************************************************)
EXTENDS Integers, FiniteSets

CONSTANTS Tasks, MaxRunning, MaxQueued

VARIABLES phase, detached

serviceVars == <<phase, detached>>

Phases == {"none", "idle", "queued", "running", "done", "gone"}

In(p) == {t \in Tasks : phase[t] = p}
Moves(t, from, to) == phase[t] = from /\ phase' = [phase EXCEPT ![t] = to]

Init == phase = [t \in Tasks |-> "none"] /\ detached = {}

Create(t) == Moves(t, "none", "idle") /\ UNCHANGED detached

Push(t) ==
    /\ Cardinality(In("queued")) < MaxQueued
    /\ Moves(t, "idle", "queued")
    /\ UNCHANGED detached

Start(t) ==
    /\ Cardinality(In("running")) < MaxRunning
    /\ Moves(t, "queued", "running")
    /\ UNCHANGED detached

Finish(t) == t \notin detached /\ Moves(t, "running", "done") /\ UNCHANGED detached

Join(t) == Moves(t, "done", "idle") /\ UNCHANGED detached

Detach(t) ==
    /\ phase[t] \in {"queued", "running"} /\ t \notin detached
    /\ detached' = detached \cup {t}
    /\ UNCHANGED phase

\* The pool frees a detached task when it has run.
Reap(t) == t \in detached /\ Moves(t, "running", "gone") /\ detached' = detached \ {t}

\* The owner deletes a task, or detaches one that is done already.
Free(t) == (Moves(t, "idle", "gone") \/ Moves(t, "done", "gone")) /\ UNCHANGED detached

Next == \E t \in Tasks :
    \/ Create(t) \/ Push(t) \/ Start(t) \/ Finish(t)
    \/ Join(t) \/ Detach(t) \/ Reap(t) \/ Free(t)

Spec == Init /\ [][Next]_serviceVars
=============================================================================
