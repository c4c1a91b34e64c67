------------------------- MODULE ThreadPoolProperties -------------------------
(***************************************************************************)
(* What must hold of the thread pool of module ThreadPool.                 *)
(*                                                                         *)
(* Most of it is promised only as long as the pool's mutex is whole: a     *)
(* second unlock after a failed pthread_create (line 189) may release the  *)
(* mutex under another thread, and then a task can be lost or run twice    *)
(* (README, section 4).                                                    *)
(***************************************************************************)
EXTENDS ThreadPool, Sequences

MutexWhole == ~torn

InCritical(w) == wpc[w] \in {"wait", "check", "pop", "take", "read", "count"}
Pushes(c) == cpc[c] \in {"push_store", "push_mark", "push_spawn", "push_create"}
InPool == {"count", "start", "run", "publish"}
Held(t, pcs) == \E w \in Workers : Holds(w, t, pcs)

\* No pthread_create has failed: the slots counted are the threads that exist.
AllThreadsStarted == \A w \in Workers : w <= threads_count => wpc[w] # "absent"

\* The array without what is under way: a task that a worker is about to read
\* (line 131) is still in it, one that a push has not marked (line 181) not yet.
QueueLen ==
    IF \E w \in Workers : wpc[w] = "read" THEN tasks_count + 1
    ELSE IF \E c \in Clients : cpc[c] \in {"push_store", "push_mark"} THEN tasks_count - 1
    ELSE tasks_count
Queued(t) == \E i \in 0 .. QueueLen - 1 : tasks[i] = t

PoolTypeOK ==
    /\ pool_mutex \in Workers \cup Clients \cup {None} /\ torn \in BOOLEAN
    /\ tasks \in [Slots -> Tasks \cup {None}]
    /\ tasks_count \in Int
    /\ threads_count \in 0 .. MaxThreads
    /\ tasks_in_progress_count \in Int

LifeTypeOK == is_deleted \in BOOLEAN /\ pool_alive \in BOOLEAN

TaskTypeOK ==
    /\ status \in [Tasks -> Statuses]
    /\ result \in [Tasks -> {"unset", "fresh", "stale"}]
    /\ alive \subseteq Tasks /\ owned \subseteq Tasks

WorkerTypeOK ==
    /\ wpc \in [Workers -> WorkerPcs]
    /\ wtask \in [Workers -> Tasks \cup {None}]
    /\ \A w \in Workers :
         /\ w > threads_count => wpc[w] = "absent"
         /\ wpc[w] \in (InPool \ {"count"}) \cup {"free", "signal"} => wtask[w] \in Tasks

ClientTypeOK ==
    /\ cpc \in [Clients -> ClientPcs]
    /\ ctask \in [Clients -> Tasks \cup {None}]
    /\ cslot \in [Clients -> Int]
    /\ \A c \in Clients :
         cpc[c] \in PushPcs \cup JoinPcs \cup DetachPcs => ctask[c] \in Tasks

\* The types of the variables; threads_count stays within max_threads_count
\* (line 183) and the slots from there on hold no thread; a call on a task has one.
TypeOK == PoolTypeOK /\ LifeTypeOK /\ TaskTypeOK /\ WorkerTypeOK /\ ClientTypeOK

-----------------------------------------------------------------------------
(* The queue and its mutex *)

LockHeld ==
    /\ \A w \in Workers : InCritical(w) => pool_mutex = w
    /\ \A c \in Clients : Pushes(c) => pool_mutex = c

\* While pthread_create has not failed the mutex is whole, and while it is, every
\* thread between lock and unlock of pool->mutex is the one that holds it
\* (lines 117-135, 178-189).
MutualExclusion ==
    /\ AllThreadsStarted => MutexWhole
    /\ MutexWhole => LockHeld

TestsHold ==
    \A w \in Workers :
        /\ wpc[w] = "wait" => tasks_count = 0
        /\ wpc[w] \in {"check", "pop"} => tasks_count > 0 \/ is_deleted
        /\ wpc[w] = "take" => tasks_count > 0
        /\ wpc[w] = "read" => tasks_count \in Slots /\ tasks[tasks_count] \in Tasks

\* The mutex excludes, and so a worker falls asleep on an empty array and takes from
\* one with a task: what the tests of lines 119 and 129 saw still holds at lines 120
\* and 130, and the slot read at line 131 holds a task.
TestStillHolds == MutualExclusion /\ (MutexWhole => TestsHold)

Awake(w) == wpc[w] \notin {"absent", "asleep", "exited"}

Attended ==
    tasks_count > 0 => \/ \E w \in Workers : Awake(w)
                       \/ \E c \in Clients : Pushes(c) \/ cpc[c] = "push_signal"

\* No push is lost on sleeping workers: while tasks are queued, a thread is
\* awake that will look at the array again, or a push is about to start or to
\* signal one (lines 119-120, 183-190).
QueueIsAttended == AllThreadsStarted => Attended

Pushing == {c \in Clients : cpc[c] = "push_lock"}

\* The check of line 174 is made outside the mutex, so each of the clients can
\* be past it when the array fills up: the excess is one task per other client.
QueueBound == tasks_count + Cardinality(Pushing) <= MaxTasks + Cardinality(Clients) - 1

InProgress == {w \in Workers : wpc[w] \in {"start", "run"}}

\* tasks_in_progress_count, moved at line 132 under the pool mutex and at line
\* 148 under a task mutex, counts the workers from there to there; the choice
\* to start a thread and the check of thread_pool_delete read it.
InProgressExact == MutexWhole => tasks_in_progress_count = Cardinality(InProgress)

-----------------------------------------------------------------------------
(* Tasks *)

\* One index of the array or one worker, not two.
OnePlace ==
    \A t \in Tasks :
        Cardinality({i \in 0 .. QueueLen - 1 : tasks[i] = t})
          + Cardinality({w \in Workers : Holds(w, t, InPool \cup {"free"})}) <= 1

StatusFits ==
    \A t \in Tasks :
        /\ status[t] = "WAITING" => Queued(t) \/ Held(t, {"count", "start"})
        /\ status[t] = "RUNNING" => Held(t, {"run", "publish"})
        /\ status[t] = "DETACHED" => Queued(t) \/ Held(t, InPool)
        /\ status[t] \in {"ABSENT", "CREATED", "FINISHED", "JOINED"}
             => ~Queued(t) /\ ~Held(t, InPool)

\* A task is in at most one place of the pool, so that its function is not run
\* twice for one push.  The status, all that join, detach and delete look at,
\* tells where the task is: one that is waited for or detached is still to be
\* published by a worker, and one the owner may free or push again has left the
\* pool.
StatusTellsPlace == MutexWhole => OnePlace /\ StatusFits

OnlyLiveTasks ==
    /\ \A t \in Tasks : Queued(t) \/ t \in owned => t \in alive
    /\ \A w \in Workers : wpc[w] \in InPool \cup {"free"} => wtask[w] \in alive
    /\ \A c \in Clients :
         cpc[c] \in {"push_lock", "push_store", "push_mark"} \cup JoinPcs \cup DetachPcs
           => ctask[c] \in alive

\* No thread touches the memory of a task that was freed.  The signal of line 159
\* is left out: a joined task may be gone when it is made.
NoUseOfFreedTask == MutexWhole => OnlyLiveTasks

\* What a join hands out is the result of the last push, not the one a task
\* pushed again still carries from before (lines 147, 240, 285).
JoinSeesResult ==
    MutexWhole =>
        \A t \in owned : status[t] \in {"FINISHED", "JOINED"} => result[t] = "fresh"

SleepersAttended ==
    \A c \in Clients : cpc[c] \in {"join_asleep", "timed_asleep"} =>
        \/ Queued(ctask[c])
        \/ Held(ctask[c], InPool \cup {"signal"})

\* A client asleep on a task's condition has a worker that will signal it, now
\* or after the queue was worked off (lines 235, 276, 159).
JoinerIsAttended == MutexWhole => SleepersAttended

-----------------------------------------------------------------------------
(* Deleting the pool *)

\* When thread_pool_delete has freed the pool, no task that was pushed is left:
\* the reads of line 86 see those in the array, and a task that a worker took in
\* between, when it is in neither count, is run to its end before that worker
\* comes to line 125 and is joined.
DeleteLosesNothing ==
    MutexWhole /\ ~pool_alive =>
        \A t \in Tasks : status[t] \notin {"WAITING", "RUNNING", "DETACHED"}

\* The pool's memory is freed when no thread will use it again (lines 93-102).
PoolOutlivesUsers ==
    ~pool_alive => /\ \A w \in Workers : wpc[w] \in {"absent", "exited"}
                   /\ \A c \in Clients : cpc[c] \notin PushPcs

-----------------------------------------------------------------------------
(* The pool implements TaskService *)

Phase(t) ==
    IF status[t] = "ABSENT" THEN "none"
    ELSE IF t \notin alive THEN "gone"
    ELSE IF Queued(t) THEN "queued"
    ELSE IF Held(t, InPool \cup {"free"}) THEN "running"
    ELSE IF status[t] = "FINISHED"
              \/ \E c \in Clients : cpc[c] = "detach_free" /\ ctask[c] = t THEN "done"
    ELSE "idle"

PhaseMap == [t \in Tasks |-> Phase(t)]

\* The worker that frees a task marks it "JOINED" before.
DetachedTasks == {t \in alive : status[t] = "DETACHED" \/ Held(t, {"free"})}

Service == INSTANCE TaskService WITH
    MaxRunning <- MaxThreads,
    MaxQueued <- MaxTasks + Cardinality(Clients) - 1,
    phase <- PhaseMap,
    detached <- DetachedTasks

\* Every step of the pool is a step of the service or leaves it alone: a task
\* is run once per push, joined when it is done, and freed once.  Where
\* pthread_create does not fail, this is Service!Spec.
ImplementsService ==
    /\ Service!Init
    /\ [][torn' \/ UNCHANGED <<PhaseMap, DetachedTasks>> \/ Service!Next]_vars

-----------------------------------------------------------------------------
(* Liveness, for behaviours in which the clients stop pushing *)

Calm == <>[][tasks_count' <= tasks_count]_vars

\* No timed join is in the endless loop of lines 275-277, which a huge timeout leads
\* to, against thread_pool.h:145-146, unless the task has finished.
NoneLoops == [](\A c \in Clients : cpc[c] # "huge_loop")

\* Every task in the array is taken by a worker.
QueueDrains == Calm => \A t \in Tasks : Queued(t) ~> ~Queued(t)

\* Every detached task is freed.
DetachedFreed == Calm => \A t \in Tasks : status[t] = "DETACHED" ~> t \notin alive

\* What was pushed is run to its end, whether somebody waits for it or nobody: a push
\* that neither starts nor signals a thread (line 190) is still found, and a task
\* detached at any point of its way (lines 139, 150, 326) is given back once run.
TasksAreServed == NoneLoops => QueueDrains /\ DetachedFreed

\* Every join, timed or not, returns.
JoinReturns == Calm /\ NoneLoops => \A c \in Clients : cpc[c] \in JoinPcs ~> cpc[c] = "idle"

\* thread_pool_delete returns when no worker stood between its test of
\* is_deleted and its sleep while line 90 was executed.
DeleteReturnsUnraced ==
    NoneLoops => \A c \in Clients :
        cpc[c] = "del_broadcast" /\ (\A w \in Workers : wpc[w] # "wait") ~> ~pool_alive

-----------------------------------------------------------------------------
(* What a test says and the code does not do *)

\* thread_pool_delete of a pool without tasks returns (test.c:157).
DeleteReturns == \A c \in Clients : cpc[c] \in DeletePcs ~> cpc[c] = "idle"
=============================================================================
