------------------------------ MODULE ThreadPool ------------------------------
(***************************************************************************)
(* The thread pool of 4/thread_pool.c: one pool, its worker threads, and   *)
(* client threads that create, push, join, detach and delete tasks and in  *)
(* the end delete the pool.                                                *)
(*                                                                         *)
(* A step is one access to the atomics, or to the array, of the pool: the  *)
(* pool's mutex does not always make more than one of them indivisible, as *)
(* some are made outside of it and as line 189 may release it under the    *)
(* thread that holds it.  A critical section of a task is one step.  The   *)
(* name of a program-counter value says what the thread does NEXT.         *)
(*                                                                         *)
(* Both condition variables are modelled by who sleeps on them (a thread   *)
(* whose pc is "asleep" or "join_asleep"), a task mutex by the two places  *)
(* that keep it over several steps: a worker between lines 146 and 158 and *)
(* a client in the loop of lines 275-277.                                  *)
(*                                                                         *)
(* An operator nothing uses, defined right before one with the same        *)
(* parameters, is a plausible mistake in that one: a mutant.               *)
(***************************************************************************)
EXTENDS Integers, FiniteSets

CONSTANTS
    Clients,        \* threads of the program that uses the pool
    Tasks,          \* thread_task objects; each one is allocated once
    Owner,          \* Owner[t]: the client that creates, joins and frees t
    MaxThreads,     \* max_threads_count, the argument of thread_pool_new
    MaxTasks,       \* TPOOL_MAX_TASKS
    CreateMayFail,  \* TRUE: pthread_create may return an error
    Spurious,       \* TRUE: a condition wait may wake up without a signal
    HugeTimeouts,   \* TRUE: clients pass infinity to a timed join
    None            \* no thread, no task

Workers == 1 .. MaxThreads      \* worker w is pool->threads[w - 1]

\* What the pool uses of its array: no more than line 174 lets in.  Line 54 takes
\* room for more, as it multiplies with the size of the struct, not of a pointer.
Slots == 0 .. MaxTasks + Cardinality(Clients) - 1

ASSUME ConstantsAssumption ==
    /\ MaxThreads \in Nat \ {0}
    /\ MaxTasks \in Nat \ {0}
    /\ IsFiniteSet(Clients)
    /\ Owner \in [Tasks -> Clients]
    /\ Clients \cap Workers = {}
    /\ None \notin Clients \cup Workers \cup Tasks
    /\ {CreateMayFail, Spurious, HugeTimeouts} \subseteq BOOLEAN

VARIABLES
    pool_mutex,     \* the thread that holds pool->mutex, or None
    torn,           \* history: line 189 has released the mutex of another thread
    tasks,          \* pool->tasks: None in a slot never used, as a block that large
                    \* comes from fresh, zeroed memory
    tasks_count,
    threads_count,
    tasks_in_progress_count,
    is_deleted,
    pool_alive,     \* FALSE once thread_pool_delete has freed the pool
    status,         \* task->status; "ABSENT" before thread_task_new
    result,         \* task->result: "unset", "fresh", or "stale" (of an earlier push)
    alive,          \* the tasks allocated and not yet freed
    owned,          \* the tasks their owner may still name in a call
    wpc, wtask,     \* each worker's position and its local variable task
    cpc, ctask,     \* each client's position and the task of its call
    cslot           \* the index a pushing client got from tasks_count++

mutexVars == <<pool_mutex, torn>>
queueVars == <<tasks, tasks_count, cslot>>
countVars == <<threads_count, tasks_in_progress_count>>
lifeVars == <<is_deleted, pool_alive>>
poolVars == <<queueVars, countVars, lifeVars>>
taskVars == <<status, result, alive, owned>>
workerVars == <<wpc, wtask>>
clientVars == <<cpc, ctask>>
vars == <<mutexVars, poolVars, taskVars, workerVars, clientVars>>

Statuses == {"ABSENT", "CREATED", "WAITING", "RUNNING", "FINISHED", "JOINED", "DETACHED"}
WorkerPcs == {"absent", "lock", "wait", "asleep", "check", "pop", "take", "read",
              "count", "start", "run", "publish", "free", "signal", "exited"}
PushPcs == {"push_lock", "push_store", "push_mark", "push_spawn", "push_create",
            "push_unlock", "push_signal"}
JoinPcs == {"join_lock", "join_asleep", "join_take", "timed_lock", "timed_asleep",
            "timed_out", "huge_lock", "huge_loop", "poll_lock"}
DetachPcs == {"detach_lock", "detach_free"}
DeletePcs == {"del_tasks", "del_store", "del_broadcast", "del_join"}
ClientPcs == {"idle"} \cup PushPcs \cup JoinPcs \cup DetachPcs \cup DeletePcs

Holds(w, t, pcs) == wtask[w] = t /\ wpc[w] \in pcs

\* task->mutex is held over more than one step in lines 146-158, and for ever by
\* a client in lines 275-277 when the timeout is no valid time.
TaskLocked(t) ==
    \/ \E w \in Workers : Holds(w, t, {"publish"})
    \/ \E c \in Clients : ctask[c] = t /\ cpc[c] = "huge_loop"

Init ==
    /\ pool_mutex = None
    /\ torn = FALSE
    /\ tasks = [i \in Slots |-> None]
    /\ tasks_count = 0
    /\ threads_count = 0
    /\ tasks_in_progress_count = 0
    /\ is_deleted = FALSE
    /\ pool_alive = TRUE
    /\ status = [t \in Tasks |-> "ABSENT"]
    /\ result = [t \in Tasks |-> "unset"]
    /\ alive = {}
    /\ owned = {}
    /\ wpc = [w \in Workers |-> "absent"]
    /\ wtask = [w \in Workers |-> None]
    /\ cpc = [c \in Clients |-> "idle"]
    /\ ctask = [c \in Clients |-> None]
    /\ cslot = [c \in Clients |-> 0]

WorkerGoto(w, from, to) == wpc[w] = from /\ wpc' = [wpc EXCEPT ![w] = to]
ClientGoto(c, from, to) == cpc[c] = from /\ cpc' = [cpc EXCEPT ![c] = to]
ClientCalls(c, t, to) ==
    /\ ClientGoto(c, "idle", to)
    /\ ctask' = [ctask EXCEPT ![c] = t]
ClientReturns(c, from) ==
    /\ ClientGoto(c, from, "idle")
    /\ ctask' = [ctask EXCEPT ![c] = None]

\* pthread_mutex_lock(&pool->mutex) returns once nobody holds the mutex.
MutexIgnored == TRUE
MutexFree == pool_mutex = None
PoolUnlock == pool_mutex' = None /\ UNCHANGED torn

-----------------------------------------------------------------------------
(* pool_worker *)

\* Lines 117 and 119: take the mutex, on entry or when a wait returns, and
\* test the loop condition.
WorkerTest(w) ==
    /\ MutexFree
    /\ pool_mutex' = w
    /\ WorkerGoto(w, "lock", IF tasks_count = 0 /\ ~is_deleted THEN "wait" ELSE "check")
    /\ UNCHANGED <<torn, poolVars, taskVars, wtask, clientVars>>

\* Line 120: release the mutex and fall asleep, in one step as POSIX promises.
\* A broadcast since WorkerTest has passed this worker by.
WorkerWait(w) ==
    /\ WorkerGoto(w, "wait", "asleep")
    /\ PoolUnlock
    /\ UNCHANGED <<poolVars, taskVars, wtask, clientVars>>

\* Lines 123-126.
WorkerCheck(w) ==
    /\ WorkerGoto(w, "check", IF is_deleted THEN "exited" ELSE "pop")
    /\ IF is_deleted THEN PoolUnlock ELSE UNCHANGED mutexVars
    /\ UNCHANGED <<poolVars, taskVars, wtask, clientVars>>

\* Line 129, and lines 135 and 137 when another thread has emptied the array.
WorkerPop(w) ==
    /\ WorkerGoto(w, "pop", IF tasks_count > 0 THEN "take" ELSE "lock")
    /\ IF tasks_count > 0 THEN UNCHANGED mutexVars ELSE PoolUnlock
    /\ UNCHANGED <<poolVars, taskVars, wtask, clientVars>>

\* Line 130.
WorkerTake(w) ==
    /\ WorkerGoto(w, "take", "read")
    /\ tasks_count' = tasks_count - 1
    /\ UNCHANGED <<mutexVars, tasks, cslot, countVars, lifeVars, taskVars, wtask, clientVars>>

\* Line 131: the task pushed LAST.  A read before the array is undefined: no
\* behaviour goes on from there.
FirstPushed == tasks[0]
LastPushed == tasks[tasks_count]

WorkerRead(w) ==
    /\ tasks_count \in Slots
    /\ WorkerGoto(w, "read", "count")
    /\ wtask' = [wtask EXCEPT ![w] = LastPushed]
    /\ UNCHANGED <<mutexVars, poolVars, taskVars, clientVars>>

\* Lines 132 and 135: both counts are read unlocked, so in between a task is in
\* none of them.  A slot that was never used is taken for NULL (line 137).
CountedNot == tasks_in_progress_count
Counted == tasks_in_progress_count + 1

WorkerCount(w) ==
    /\ WorkerGoto(w, "count", IF wtask[w] = None THEN "lock" ELSE "start")
    /\ tasks_in_progress_count' = Counted
    /\ PoolUnlock
    /\ UNCHANGED <<queueVars, threads_count, lifeVars, taskVars, wtask, clientVars>>

\* Lines 138-142, one critical section of the task mutex.
StartForgetsDetach(s) == "RUNNING"
StartedStatus(s) == IF s # "DETACHED" THEN "RUNNING" ELSE s

WorkerStart(w) ==
    /\ ~TaskLocked(wtask[w])
    /\ WorkerGoto(w, "start", "run")
    /\ status' = [status EXCEPT ![wtask[w]] = StartedStatus(@)]
    /\ UNCHANGED <<mutexVars, poolVars, result, alive, owned, wtask, clientVars>>

\* Lines 144-148: the function returns; its result and the count are written
\* under the task mutex, the count without the pool mutex.
WorkerComplete(w) ==
    /\ ~TaskLocked(wtask[w])
    /\ WorkerGoto(w, "run", "publish")
    /\ result' = [result EXCEPT ![wtask[w]] = "fresh"]
    /\ tasks_in_progress_count' = tasks_in_progress_count - 1
    /\ UNCHANGED <<mutexVars, queueVars, threads_count, lifeVars, status, alive, owned,
                   wtask, clientVars>>

\* Lines 150-158, up to the unlock of the task mutex on either path.
Detached(t) == status[t] = "DETACHED"

WorkerPublish(w) ==
    LET t == wtask[w] IN
    /\ WorkerGoto(w, "publish", IF Detached(t) THEN "free" ELSE "signal")
    /\ status' = [status EXCEPT ![t] = IF Detached(t) THEN "JOINED" ELSE "FINISHED"]
    /\ UNCHANGED <<mutexVars, poolVars, result, alive, owned, wtask, clientVars>>

\* thread_task_delete, lines 298-306: refused for a task in the pool.
DeletableUnlessRunning(t) == status[t] # "RUNNING"
Deletable(t) == status[t] \in {"CREATED", "JOINED"}
FreeTask(t) == alive' = IF Deletable(t) THEN alive \ {t} ELSE alive

\* Lines 153-154.
WorkerFree(w) ==
    /\ WorkerGoto(w, "free", "lock")
    /\ FreeTask(wtask[w])
    /\ wtask' = [wtask EXCEPT ![w] = None]
    /\ UNCHANGED <<mutexVars, poolVars, status, result, owned, clientVars>>

\* A signal on task->completed wakes one of the clients asleep on t, if any.
NoTaskSleepers(t) == {}
TaskSleepers(t) ==
    {c \in Clients : ctask[c] = t /\ cpc[c] \in {"join_asleep", "timed_asleep"}}
Woken(c) == IF cpc[c] = "join_asleep" THEN "join_lock" ELSE "timed_lock"

\* Line 159, after the task mutex was released at line 158.
WorkerSignal(w) ==
    LET Sleepers == TaskSleepers(wtask[w]) IN
    /\ WorkerGoto(w, "signal", "lock")
    /\ wtask' = [wtask EXCEPT ![w] = None]
    /\ IF Sleepers = {} THEN cpc' = cpc
       ELSE \E c \in Sleepers : cpc' = [cpc EXCEPT ![c] = Woken(c)]
    /\ UNCHANGED <<mutexVars, poolVars, taskVars, ctask>>

WorkerStep(w) ==
    \/ WorkerTest(w) \/ WorkerWait(w) \/ WorkerCheck(w) \/ WorkerPop(w)
    \/ WorkerTake(w) \/ WorkerRead(w) \/ WorkerCount(w) \/ WorkerStart(w)
    \/ WorkerComplete(w) \/ WorkerPublish(w) \/ WorkerFree(w) \/ WorkerSignal(w)

-----------------------------------------------------------------------------
(* thread_task_new and thread_task_delete *)

TaskNew(c, t) ==
    /\ cpc[c] = "idle" /\ Owner[t] = c
    /\ status[t] = "ABSENT"
    /\ status' = [status EXCEPT ![t] = "CREATED"]
    /\ alive' = alive \cup {t}
    /\ owned' = owned \cup {t}
    /\ UNCHANGED <<mutexVars, poolVars, result, workerVars, clientVars>>

\* TPOOL_ERR_TASK_IN_POOL changes nothing and leaves the task with its owner.
TaskDelete(c, t) ==
    /\ cpc[c] = "idle" /\ Owner[t] = c
    /\ t \in owned
    /\ FreeTask(t)
    /\ owned' = IF Deletable(t) THEN owned \ {t} ELSE owned
    /\ UNCHANGED <<mutexVars, poolVars, status, result, workerVars, clientVars>>

-----------------------------------------------------------------------------
(* thread_pool_push_task.  Clients push a task that is not in the pool, and *)
(* do not push while a thread_pool_delete is under way or after it.         *)

Deleting == \E c \in Clients : cpc[c] \in DeletePcs
QueueOverFull == tasks_count > MaxTasks
QueueFull == tasks_count >= MaxTasks

\* Lines 174-176, outside the mutex; TPOOL_ERR_TOO_MANY_TASKS changes nothing.
PushCheck(c, t) ==
    /\ pool_alive /\ ~Deleting
    /\ Owner[t] = c /\ t \in owned
    /\ status[t] \in {"CREATED", "JOINED"}
    /\ ~QueueFull
    /\ ClientCalls(c, t, "push_lock")
    /\ UNCHANGED <<mutexVars, poolVars, taskVars, workerVars>>

\* Lines 178 and 180: tasks_count++ gives the index.
PushCount(c) ==
    /\ MutexFree
    /\ pool_mutex' = c
    /\ ClientGoto(c, "push_lock", "push_store")
    /\ tasks_count' = tasks_count + 1
    /\ cslot' = [cslot EXCEPT ![c] = tasks_count]
    /\ UNCHANGED <<torn, tasks, countVars, lifeVars, taskVars, workerVars, ctask>>

\* Line 180: store there.  Before the array this is undefined, as in WorkerRead.
PushStore(c) ==
    /\ cslot[c] \in Slots
    /\ ClientGoto(c, "push_store", "push_mark")
    /\ tasks' = [tasks EXCEPT ![cslot[c]] = ctask[c]]
    /\ cslot' = [cslot EXCEPT ![c] = 0]
    /\ UNCHANGED <<mutexVars, tasks_count, countVars, lifeVars, taskVars, workerVars, ctask>>

\* Line 181.
PushMark(c) ==
    LET t == ctask[c] IN
    /\ ClientGoto(c, "push_mark", "push_spawn")
    /\ status' = [status EXCEPT ![t] = "WAITING"]
    /\ result' = [result EXCEPT ![t] = IF @ = "fresh" THEN "stale" ELSE @]
    /\ UNCHANGED <<mutexVars, poolVars, alive, owned, workerVars, ctask>>

\* Line 183: a thread is started when every thread is counted in progress.
NeedThreadPerPush == TRUE
NeedThreadOneLess ==
    MaxThreads > threads_count /\ tasks_in_progress_count > threads_count
NeedThread ==
    MaxThreads > threads_count /\ tasks_in_progress_count = threads_count

\* Line 183, and line 189 when no thread is needed.
PushSpawn(c) ==
    /\ ClientGoto(c, "push_spawn", IF NeedThread THEN "push_create" ELSE "push_signal")
    /\ IF NeedThread THEN UNCHANGED mutexVars ELSE PoolUnlock
    /\ UNCHANGED <<poolVars, taskVars, workerVars, ctask>>

\* Lines 184 and 189.  With the mutex torn, line 183 does not make room for the
\* thread; no behaviour goes on from a thread past pool->threads.
PushCreate(c) ==
    LET w == threads_count + 1 IN
    /\ torn => w \in Workers
    /\ ClientGoto(c, "push_create", "push_signal")
    /\ threads_count' = w
    /\ wpc' = [wpc EXCEPT ![w] = "lock"]
    /\ PoolUnlock
    /\ UNCHANGED <<queueVars, tasks_in_progress_count, lifeVars, taskVars, wtask, ctask>>

\* Lines 184-186 when pthread_create fails: the thread is counted all the
\* same, and the mutex is released here and once more in PushUnlock.
PushCreateFails(c) ==
    /\ CreateMayFail
    /\ torn => threads_count + 1 \in Workers
    /\ ClientGoto(c, "push_create", "push_unlock")
    /\ threads_count' = threads_count + 1
    /\ PoolUnlock
    /\ UNCHANGED <<queueVars, tasks_in_progress_count, lifeVars, taskVars, workerVars, ctask>>

\* Line 189 after line 185: whoever holds the mutex by now loses it.
PushUnlock(c) ==
    /\ ClientGoto(c, "push_unlock", "push_signal")
    /\ pool_mutex' = None
    /\ torn' = (torn \/ pool_mutex # None)
    /\ UNCHANGED <<poolVars, taskVars, workerVars, ctask>>

\* Line 190: wake one of the workers asleep on pool->available, if any.
PushSignal(c) ==
    LET Sleepers == {w \in Workers : wpc[w] = "asleep"} IN
    /\ ClientReturns(c, "push_signal")
    /\ IF Sleepers = {} THEN wpc' = wpc
       ELSE \E w \in Sleepers : wpc' = [wpc EXCEPT ![w] = "lock"]
    /\ UNCHANGED <<mutexVars, poolVars, taskVars, wtask>>

-----------------------------------------------------------------------------
(* thread_task_join and thread_task_timed_join.  The first test, a read of  *)
(* TASK_CREATED before the mutex, is part of the call: only the owner moves *)
(* a task out of that status.  TPOOL_ERR_TASK_NOT_PUSHED changes nothing.   *)
(* Clients do not join or detach a task again that they have joined.        *)

Joinable(c, t) ==
    /\ Owner[t] = c /\ t \in owned
    /\ status[t] \notin {"CREATED", "JOINED"}

\* A call of thread_task_join (228), or of thread_task_timed_join (252) with a
\* timeout below 1e-9, with one that time_t can hold, or with infinity.
JoinCalls == {"join_lock", "poll_lock", "timed_lock"}
                 \cup (IF HugeTimeouts THEN {"huge_lock"} ELSE {})

JoinCall(c, t) ==
    /\ Joinable(c, t)
    /\ \E pc \in JoinCalls : ClientCalls(c, t, pc)
    /\ UNCHANGED <<mutexVars, poolVars, taskVars, workerVars>>

\* thread_task_is_finished, and the same test of thread_task_timed_join.
NoLongerQueued(t) == status[t] \notin {"CREATED", "WAITING"}
Finished(t) == status[t] = "FINISHED"

\* Lines 232-238: sleep until the task is finished.
JoinTest(c) ==
    LET t == ctask[c] IN
    /\ ~TaskLocked(t)
    /\ ClientGoto(c, "join_lock",
                  IF Finished(t) THEN "join_take" ELSE "join_asleep")
    /\ UNCHANGED <<mutexVars, poolVars, taskVars, workerVars, ctask>>

\* Lines 240-241, after the mutex was released.
JoinTake(c) ==
    /\ ClientReturns(c, "join_take")
    /\ status' = [status EXCEPT ![ctask[c]] = "JOINED"]
    /\ UNCHANGED <<mutexVars, poolVars, result, alive, owned, workerVars>>

\* Lines 285-287: a finished task is taken under its mutex; another one is waited
\* for, line 276, which releases the mutex.
TakeOr(c, from, to) ==
    LET t == ctask[c] IN
    /\ cpc[c] = from /\ ~TaskLocked(t)
    /\ IF Finished(t)
       THEN /\ ClientReturns(c, from)
            /\ status' = [status EXCEPT ![t] = "JOINED"]
       ELSE /\ ClientGoto(c, from, to)
            /\ UNCHANGED <<status, ctask>>
    /\ UNCHANGED <<mutexVars, poolVars, result, alive, owned, workerVars>>

TimedTest(c) == TakeOr(c, "timed_lock", "timed_asleep")

\* Lines 264-277 with a timeout too large for time_t, as infinity and DBL_MAX
\* are: on x86-64 lines 266 and 267 convert it to the least integer, the wait
\* returns EINVAL for the negative tv_nsec and keeps the mutex.  The loop of
\* line 275 leaves on ETIMEDOUT only, and nobody can finish the task.
HugeTest(c) == TakeOr(c, "huge_lock", "huge_loop")

\* Line 276: the wait ends with ETIMEDOUT; at once, when line 266 overflows tv_sec.
TimedExpire(c) ==
    /\ ClientGoto(c, "timed_asleep", "timed_out")
    /\ UNCHANGED <<mutexVars, poolVars, taskVars, workerVars, ctask>>

\* Lines 279-282, with the mutex back: TPOOL_ERR_TIMEOUT even if the task has
\* finished in between.
TimedGiveUp(c) ==
    /\ ~TaskLocked(ctask[c])
    /\ ClientReturns(c, "timed_out")
    /\ UNCHANGED <<mutexVars, poolVars, taskVars, workerVars>>

\* Lines 256-262 and 285-287: take a finished task, or give up at once.
PollTest(c) ==
    LET t == ctask[c] IN
    /\ ~TaskLocked(t)
    /\ ClientReturns(c, "poll_lock")
    /\ status' = [status EXCEPT ![t] = IF Finished(t) THEN "JOINED" ELSE @]
    /\ UNCHANGED <<mutexVars, poolVars, result, alive, owned, workerVars>>

-----------------------------------------------------------------------------
(* thread_task_detach: the owner gives the task up. *)

DetachCall(c, t) ==
    /\ Joinable(c, t)
    /\ ClientCalls(c, t, "detach_lock")
    /\ owned' = owned \ {t}
    /\ UNCHANGED <<mutexVars, poolVars, status, result, alive, workerVars>>

\* Lines 321-325 and 331-332.
DetachedEvenIfFinished(s) == "DETACHED"
DetachedAs(s) == IF s = "FINISHED" THEN "JOINED" ELSE "DETACHED"

DetachMark(c) ==
    LET t == ctask[c] IN
    /\ cpc[c] = "detach_lock" /\ ~TaskLocked(t)
    /\ status' = [status EXCEPT ![t] = DetachedAs(@)]
    /\ IF Finished(t)
       THEN ClientGoto(c, "detach_lock", "detach_free") /\ UNCHANGED ctask
       ELSE ClientReturns(c, "detach_lock")
    /\ UNCHANGED <<mutexVars, poolVars, result, alive, owned, workerVars>>

\* Lines 326-328.
DetachFree(c) ==
    /\ ClientReturns(c, "detach_free")
    /\ FreeTask(ctask[c])
    /\ UNCHANGED <<mutexVars, poolVars, status, result, owned, workerVars>>

-----------------------------------------------------------------------------
(* thread_pool_delete.  No push is under way, as the pool is going away. *)

\* Line 86, first operand; TPOOL_ERR_HAS_TASKS changes nothing.
DeleteCall(c) ==
    /\ pool_alive /\ ~Deleting
    /\ \A d \in Clients : cpc[d] \notin PushPcs
    /\ ~(tasks_in_progress_count > 0)
    /\ ClientGoto(c, "idle", "del_tasks")
    /\ UNCHANGED <<mutexVars, poolVars, taskVars, workerVars, ctask>>

\* Line 86, second operand: a read of its own.
QueueNotLookedAt == TRUE
QueueLooksEmpty == ~(tasks_count > 0)

DeleteCheck(c) ==
    /\ ClientGoto(c, "del_tasks", IF QueueLooksEmpty THEN "del_store" ELSE "idle")
    /\ UNCHANGED <<mutexVars, poolVars, taskVars, workerVars, ctask>>

\* Line 90, without the mutex.
DeleteStore(c) ==
    /\ ClientGoto(c, "del_store", "del_broadcast")
    /\ is_deleted' = TRUE
    /\ UNCHANGED <<mutexVars, queueVars, countVars, pool_alive, taskVars, workerVars, ctask>>

\* Line 91: wake the workers that are asleep by now.
FirstWoken == [w \in Workers |->
    IF wpc[w] = "asleep" /\ (\A v \in 1 .. (w - 1) : wpc[v] # "asleep")
    THEN "lock" ELSE wpc[w]]
AllWoken == [w \in Workers |-> IF wpc[w] = "asleep" THEN "lock" ELSE wpc[w]]

DeleteBroadcast(c) ==
    /\ ClientGoto(c, "del_broadcast", "del_join")
    /\ wpc' = AllWoken
    /\ UNCHANGED <<mutexVars, poolVars, taskVars, wtask, ctask>>

\* Lines 93-104.  A slot whose pthread_create failed holds no thread; a
\* pthread_join of it is taken to return (where it crashes instead, the
\* behaviour stops here).
FirstThreadExited == threads_count > 0 => wpc[1] \in {"absent", "exited"}
ThreadsExited == \A w \in 1 .. threads_count : wpc[w] \in {"absent", "exited"}

DeleteJoin(c) ==
    /\ ClientGoto(c, "del_join", "idle")
    /\ ThreadsExited
    /\ pool_alive' = FALSE
    /\ UNCHANGED <<mutexVars, queueVars, countVars, is_deleted, taskVars, workerVars, ctask>>

-----------------------------------------------------------------------------
(* POSIX lets a condition wait return without a signal. *)

WorkerWakesUp(w) ==
    /\ Spurious
    /\ WorkerGoto(w, "asleep", "lock")
    /\ UNCHANGED <<mutexVars, poolVars, taskVars, wtask, clientVars>>

ClientWakesUp(c) ==
    /\ Spurious
    /\ cpc[c] \in {"join_asleep", "timed_asleep"}
    /\ cpc' = [cpc EXCEPT ![c] = Woken(c)]
    /\ UNCHANGED <<mutexVars, poolVars, taskVars, workerVars, ctask>>

-----------------------------------------------------------------------------
ClientCall(c) ==
    \/ \E t \in Tasks :
         \/ TaskNew(c, t) \/ TaskDelete(c, t) \/ PushCheck(c, t)
         \/ JoinCall(c, t) \/ DetachCall(c, t)
    \/ DeleteCall(c)

ClientStep(c) ==
    \/ PushCount(c) \/ PushStore(c) \/ PushMark(c) \/ PushSpawn(c) \/ PushCreate(c)
    \/ PushUnlock(c) \/ PushSignal(c)
    \/ JoinTest(c) \/ JoinTake(c) \/ TimedTest(c) \/ TimedGiveUp(c) \/ HugeTest(c)
    \/ PollTest(c)
    \/ DetachMark(c) \/ DetachFree(c)
    \/ DeleteCheck(c) \/ DeleteStore(c) \/ DeleteBroadcast(c) \/ DeleteJoin(c)

Environment ==
    \/ \E c \in Clients : PushCreateFails(c) \/ TimedExpire(c) \/ ClientWakesUp(c)
    \/ \E w \in Workers : WorkerWakesUp(w)

Next ==
    \/ \E w \in Workers : WorkerStep(w)
    \/ \E c \in Clients : ClientCall(c) \/ ClientStep(c)
    \/ Environment

Spec == Init /\ [][Next]_vars

\* The scheduler runs every thread that can run, and every task's function
\* returns.  No client has to make a call, and nothing makes a timeout or a
\* spurious wake-up happen.
Fairness ==
    /\ \A w \in Workers : WF_vars(WorkerStep(w))
    /\ \A c \in Clients : WF_vars(ClientStep(c))

FairSpec == Spec /\ Fairness
=============================================================================
