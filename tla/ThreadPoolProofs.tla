--------------------------- MODULE ThreadPoolProofs ---------------------------
(***************************************************************************)
(* Proofs about the pool, for every number of clients, tasks and threads,  *)
(* whether or not pthread_create fails, waits wake up by themselves and    *)
(* timeouts are infinite.                                                  *)
(*                                                                         *)
(* There are two inductive invariants.  PoolInv is about the pool's mutex, *)
(* its array and its deletion, TaskInv about the tasks: where a task is,   *)
(* what its status says of it, when it may be freed and what a join        *)
(* returns.  From both follows that the pool implements TaskService.       *)
(*                                                                         *)
(* The limit of the array and the order in which the pool is freed hold in *)
(* every behaviour.  What rests on the pool's mutex is claimed while the   *)
(* mutex is whole: WholeInv, the part of PoolInv premised on that, and all *)
(* of TaskInv.  It is whole as long as no pthread_create has failed.       *)
(***************************************************************************)
EXTENDS ThreadPoolProperties, FiniteSetTheorems, TLAPS

NoPendingUnlock == \A c \in Clients : cpc[c] # "push_unlock"

StartedInv == AllThreadsStarted => MutexWhole /\ NoPendingUnlock /\ Attended

\* thread_pool_delete, its caller's promise not to push meanwhile, and what the
\* workers do about is_deleted.
DeleteProtocol ==
    /\ \A c, d \in Clients : cpc[c] \in DeletePcs /\ cpc[d] \in DeletePcs => c = d
    /\ \A c \in Clients : cpc[c] \in DeletePcs =>
         pool_alive /\ \A d \in Clients : cpc[d] \notin PushPcs
    /\ \A c \in Clients : /\ cpc[c] \in {"del_tasks", "del_store"} => ~is_deleted
                          /\ cpc[c] \in {"del_broadcast", "del_join"} => is_deleted
    /\ is_deleted => \/ ~pool_alive
                     \/ \E c \in Clients : cpc[c] \in {"del_broadcast", "del_join"}
    /\ ~pool_alive => /\ is_deleted
                      /\ \A c \in Clients : cpc[c] \notin PushPcs
                      /\ \A w \in Workers : wpc[w] \in {"absent", "exited"}
    /\ \A w \in Workers : wpc[w] = "exited" => is_deleted

\* A push that is about to signal finds at least one thread.
SignalHasThread ==
    /\ threads_count = 0 => tasks_in_progress_count = 0
    /\ \A c \in Clients : cpc[c] \in {"push_unlock", "push_signal"} => threads_count > 0

\* The array: its used part holds tasks, a push stores behind it and a read takes
\* from its end.
ArrayInv ==
    /\ tasks_count \in Nat
    /\ \A i \in 0 .. QueueLen - 1 : tasks[i] \in Tasks
    /\ \A c \in Clients :
         /\ cpc[c] \in {"push_store", "push_mark"} => tasks_count > 0
         /\ cpc[c] = "push_store" => cslot[c] = tasks_count - 1
         /\ cpc[c] = "push_mark" => tasks[tasks_count - 1] = ctask[c]
    /\ \A w \in Workers : wpc[w] = "count" => wtask[w] \in Tasks

DeletedIsEmpty ==
    is_deleted \/ (\E c \in Clients : cpc[c] = "del_store") => tasks_count = 0

\* Line 183 has made room for the thread that line 184 starts.
ThreadFits == \A c \in Clients : cpc[c] = "push_create" => threads_count < MaxThreads

\* What the pool's mutex guards.
WholeInv == LockHeld /\ ThreadFits /\ TestsHold /\ ArrayInv /\ DeletedIsEmpty

PoolInv ==
    /\ TypeOK /\ DeleteProtocol /\ SignalHasThread /\ QueueBound
    /\ StartedInv
    /\ MutexWhole => WholeInv
    /\ InProgressExact

\* How one step changes the set of workers in progress and the counter, and the
\* set of pushing clients and the array.
ProgressMoves ==
    \/ InProgress' = InProgress /\ tasks_in_progress_count' = tasks_in_progress_count
    \/ \E w \in Workers :
         \/ /\ w \notin InProgress /\ InProgress' = InProgress \cup {w}
            /\ tasks_in_progress_count' = tasks_in_progress_count + 1
         \/ /\ w \in InProgress /\ InProgress' = InProgress \ {w}
            /\ tasks_in_progress_count' = tasks_in_progress_count - 1

PushingMoves ==
    \/ Pushing' = Pushing /\ tasks_count' <= tasks_count
    \/ tasks_count < MaxTasks /\ tasks_count' = tasks_count
    \/ \E c \in Pushing : Pushing' = Pushing \ {c} /\ tasks_count' = tasks_count + 1

\* A step of a worker that runs a task, or of a client in a call on a task.
RestPcs == {"lock", "asleep", "start", "run", "publish", "free", "signal"}
TaskPcs == {"idle"} \cup JoinPcs \cup DetachPcs

PoolUntouched ==
    /\ UNCHANGED <<mutexVars, poolVars>>
    /\ \A w \in Workers :
         \/ wpc'[w] = wpc[w] /\ wtask'[w] = wtask[w]
         \/ /\ wpc[w] \in RestPcs /\ wpc'[w] \in RestPcs \ {"asleep"}
            /\ wpc'[w] \in {"start", "run"} <=> wpc[w] \in {"start", "run"}
    /\ \A c \in Clients :
         \/ cpc'[c] = cpc[c] /\ ctask'[c] = ctask[c]
         \/ cpc[c] \in TaskPcs /\ cpc'[c] \in TaskPcs

\* Abbreviations only: positions and groups of variables.
USE DEF WorkerGoto, ClientGoto, ClientCalls, ClientReturns, PoolUnlock,
        vars, mutexVars, queueVars, poolVars, countVars, lifeVars, taskVars,
        workerVars, clientVars, MutexWhole

-----------------------------------------------------------------------------
(* Types *)

\* thread_pool_new leaves every variable in its type.
LEMMA TypeOKInit == Init => TypeOK
<1> SUFFICES ASSUME Init PROVE TypeOK
  OBVIOUS
<1> USE ConstantsAssumption DEF ConstantsAssumption, Init
<1>1. PoolTypeOK
  <2>1. tasks \in [Slots -> Tasks \cup {None}]
    OBVIOUS
  <2>2. torn \in BOOLEAN /\ pool_mutex \in Workers \cup Clients \cup {None}
    OBVIOUS
  <2>3. threads_count \in 0 .. MaxThreads /\ {tasks_count, tasks_in_progress_count} \subseteq Int
    OBVIOUS
  <2> QED
    BY ONLY <2>1, <2>2, <2>3 DEF PoolTypeOK
<1>2. LifeTypeOK
  BY DEF LifeTypeOK
<1>3. TaskTypeOK
  BY DEF TaskTypeOK, Statuses
<1>4. WorkerTypeOK
  BY DEF WorkerTypeOK, WorkerPcs, InPool
<1>5. ClientTypeOK
  BY DEF ClientTypeOK, ClientPcs, PushPcs, JoinPcs, DetachPcs
<1> HIDE DEF Init
<1> QED
  BY <1>1, <1>2, <1>3, <1>4, <1>5 DEF TypeOK

\* Every step of a worker or a client keeps every variable in its type.
LEMMA TypeOKNext == TypeOK /\ (MutexWhole => ThreadFits) /\ [Next]_vars => TypeOK'
<1> SUFFICES ASSUME TypeOK, MutexWhole => ThreadFits, [Next]_vars PROVE TypeOK'
  OBVIOUS
<1> USE ConstantsAssumption DEF ConstantsAssumption, TypeOK, PoolTypeOK, WorkerTypeOK,
        ClientTypeOK, LifeTypeOK, TaskTypeOK, WorkerPcs, ClientPcs, PushPcs, JoinPcs,
        DetachPcs, DeletePcs, Statuses, InPool
<1>1. ASSUME NEW w \in Workers, WorkerTest(w) PROVE TypeOK'
  BY <1>1 DEF WorkerTest, MutexFree
<1>2. ASSUME NEW w \in Workers, WorkerWait(w) PROVE TypeOK'
  BY <1>2 DEF WorkerWait
<1>3. ASSUME NEW w \in Workers, WorkerCheck(w) PROVE TypeOK'
  BY <1>3 DEF WorkerCheck
<1>4. ASSUME NEW w \in Workers, WorkerPop(w) PROVE TypeOK'
  BY <1>4 DEF WorkerPop
<1>5. ASSUME NEW w \in Workers, WorkerTake(w) PROVE TypeOK'
  BY <1>5 DEF WorkerTake
<1>6. ASSUME NEW w \in Workers, WorkerRead(w) PROVE TypeOK'
  BY <1>6 DEF WorkerRead, LastPushed
<1>7. ASSUME NEW w \in Workers, WorkerCount(w) PROVE TypeOK'
  BY <1>7 DEF WorkerCount, Counted
<1>8. ASSUME NEW w \in Workers, WorkerStart(w) PROVE TypeOK'
  BY <1>8 DEF WorkerStart, StartedStatus
<1>9. ASSUME NEW w \in Workers, WorkerComplete(w) PROVE TypeOK'
  BY <1>9 DEF WorkerComplete
<1>10. ASSUME NEW w \in Workers, WorkerPublish(w) PROVE TypeOK'
  BY <1>10 DEF WorkerPublish
<1>11. ASSUME NEW w \in Workers, WorkerFree(w) PROVE TypeOK'
  BY <1>11 DEF WorkerFree, FreeTask
<1>12. ASSUME NEW w \in Workers, WorkerSignal(w) PROVE TypeOK'
  BY <1>12, ZenonT(120) DEF WorkerSignal, TaskSleepers, Woken
<1>13. ASSUME NEW w \in Workers, WorkerWakesUp(w) PROVE TypeOK'
  BY <1>13 DEF WorkerWakesUp
<1>14. ASSUME NEW c \in Clients, NEW t \in Tasks, TaskNew(c, t) PROVE TypeOK'
  BY <1>14 DEF TaskNew
<1>15. ASSUME NEW c \in Clients, NEW t \in Tasks, TaskDelete(c, t) PROVE TypeOK'
  BY <1>15 DEF TaskDelete, FreeTask
<1>16. ASSUME NEW c \in Clients, NEW t \in Tasks, PushCheck(c, t) PROVE TypeOK'
  BY <1>16 DEF PushCheck, Deleting, QueueFull
<1>17. ASSUME NEW c \in Clients, NEW t \in Tasks, JoinCall(c, t) PROVE TypeOK'
  BY <1>17 DEF JoinCall, Joinable, JoinCalls
<1>18. ASSUME NEW c \in Clients, NEW t \in Tasks, DetachCall(c, t) PROVE TypeOK'
  BY <1>18 DEF DetachCall, Joinable
<1>19. ASSUME NEW c \in Clients, PushCount(c) PROVE TypeOK'
  BY <1>19 DEF PushCount, MutexFree
<1>20. ASSUME NEW c \in Clients, PushStore(c) PROVE TypeOK'
  BY <1>20 DEF PushStore
<1>21. ASSUME NEW c \in Clients, PushMark(c) PROVE TypeOK'
  BY <1>21 DEF PushMark
<1>22. ASSUME NEW c \in Clients, PushSpawn(c) PROVE TypeOK'
  BY <1>22 DEF PushSpawn
<1>23. ASSUME NEW c \in Clients, PushCreate(c) PROVE TypeOK'
  <2>1. threads_count + 1 \in Workers
    BY <1>23 DEF PushCreate, ThreadFits, Workers
  <2> QED
    BY <1>23, <2>1 DEF PushCreate, Workers
<1>24. ASSUME NEW c \in Clients, PushCreateFails(c) PROVE TypeOK'
  <2>1. threads_count + 1 \in Workers
    BY <1>24 DEF PushCreateFails, ThreadFits, Workers
  <2> QED
    BY <1>24, <2>1 DEF PushCreateFails, Workers
<1>25. ASSUME NEW c \in Clients, PushUnlock(c) PROVE TypeOK'
  BY <1>25 DEF PushUnlock
<1>26. ASSUME NEW c \in Clients, PushSignal(c) PROVE TypeOK'
  BY <1>26, ZenonT(120) DEF PushSignal
<1>27. ASSUME NEW c \in Clients, JoinTest(c) PROVE TypeOK'
  BY <1>27 DEF JoinTest
<1>28. ASSUME NEW c \in Clients, JoinTake(c) PROVE TypeOK'
  BY <1>28, ZenonT(60) DEF JoinTake
<1>29. ASSUME NEW c \in Clients, TimedTest(c) \/ HugeTest(c) PROVE TypeOK'
  <2>1. UNCHANGED <<mutexVars, poolVars, result, alive, owned, workerVars>>
    BY <1>29 DEF TimedTest, HugeTest, TakeOr
  <2>2. status' \in [Tasks -> Statuses]
    <3>1. status' = status \/ status' = [status EXCEPT ![ctask[c]] = "JOINED"]
      BY <1>29 DEF TimedTest, HugeTest, TakeOr
    <3> QED
      BY <3>1
  <2>3. ClientTypeOK'
    <3>1. \/ /\ cpc' = [cpc EXCEPT ![c] = "idle"]
             /\ ctask' = [ctask EXCEPT ![c] = None]
          \/ /\ cpc[c] \in JoinPcs /\ ctask' = ctask
             /\ \E pc \in {"timed_asleep", "huge_loop"} : cpc' = [cpc EXCEPT ![c] = pc]
      BY <1>29 DEF TimedTest, HugeTest, TakeOr
    <3> QED
      BY <2>1, <3>1
  <2> QED
    BY ONLY TypeOK, <2>1, <2>2, <2>3
    DEF TypeOK, PoolTypeOK, LifeTypeOK, TaskTypeOK, WorkerTypeOK
<1>30. ASSUME NEW c \in Clients, TimedExpire(c) PROVE TypeOK'
  BY <1>30 DEF TimedExpire
<1>31. ASSUME NEW c \in Clients, TimedGiveUp(c) PROVE TypeOK'
  BY <1>31 DEF TimedGiveUp
<1>32. ASSUME NEW c \in Clients, PollTest(c) PROVE TypeOK'
  BY <1>32, ZenonT(60) DEF PollTest
<1>33. ASSUME NEW c \in Clients, DetachMark(c) PROVE TypeOK'
  <2>1. /\ UNCHANGED <<mutexVars, poolVars, result, alive, owned, workerVars>>
        /\ status' = [status EXCEPT ![ctask[c]] = DetachedAs(@)]
        /\ \/ /\ cpc' = [cpc EXCEPT ![c] = "detach_free"]
              /\ cpc[c] = "detach_lock" /\ ctask' = ctask
           \/ /\ cpc' = [cpc EXCEPT ![c] = "idle"]
              /\ ctask' = [ctask EXCEPT ![c] = None]
    BY <1>33 DEF DetachMark
  <2>2. status' \in [Tasks -> Statuses]
    BY <2>1 DEF DetachedAs
  <2>3. ClientTypeOK'
    BY <2>1
  <2> QED
    BY ONLY TypeOK, <2>1, <2>2, <2>3
    DEF TypeOK, PoolTypeOK, LifeTypeOK, TaskTypeOK, WorkerTypeOK
<1>34. ASSUME NEW c \in Clients, DetachFree(c) PROVE TypeOK'
  BY <1>34 DEF DetachFree, FreeTask
<1>35. ASSUME NEW c \in Clients, DeleteCall(c) PROVE TypeOK'
  BY <1>35 DEF DeleteCall, Deleting
<1>36. ASSUME NEW c \in Clients, DeleteCheck(c) PROVE TypeOK'
  BY <1>36 DEF DeleteCheck, QueueLooksEmpty
<1>37. ASSUME NEW c \in Clients, DeleteStore(c) PROVE TypeOK'
  BY <1>37 DEF DeleteStore
<1>38. ASSUME NEW c \in Clients, DeleteBroadcast(c) PROVE TypeOK'
  BY <1>38 DEF DeleteBroadcast, AllWoken
<1>39. ASSUME NEW c \in Clients, DeleteJoin(c) PROVE TypeOK'
  BY <1>39, SMT, ZenonT(60) DEF DeleteJoin, ThreadsExited
<1>40. ASSUME NEW c \in Clients, ClientWakesUp(c) PROVE TypeOK'
  BY <1>40 DEF ClientWakesUp, Woken
<1>41. CASE UNCHANGED vars
  BY <1>41
<1> QED
  BY <1>1, <1>2, <1>3, <1>4, <1>5, <1>6, <1>7, <1>8, <1>9, <1>10, <1>11, <1>12, <1>13,
     <1>14, <1>15, <1>16, <1>17, <1>18, <1>19, <1>20, <1>21, <1>22, <1>23, <1>24, <1>25,
     <1>26, <1>27, <1>28, <1>29, <1>30, <1>31, <1>32, <1>33, <1>34, <1>35, <1>36,
     <1>37, <1>38, <1>39, <1>40, <1>41, ZenonT(60) DEF Next, WorkerStep, ClientCall,
     ClientStep, Environment

-----------------------------------------------------------------------------
(* The steps *)

\* The steps of the pool itself: a worker on its way to a task, a push and the
\* deletion.  Every other step is about tasks.
LEMMA PoolSteps ==
    ASSUME TypeOK, [Next]_vars
    PROVE  \/ PoolUntouched
           \/ \E w \in Workers :
                \/ WorkerTest(w) \/ WorkerWait(w) \/ WorkerCheck(w) \/ WorkerPop(w)
                \/ WorkerTake(w) \/ WorkerRead(w) \/ WorkerCount(w) \/ WorkerComplete(w)
           \/ \E c \in Clients :
                \/ \E t \in Tasks : PushCheck(c, t)
                \/ PushCount(c) \/ PushStore(c) \/ PushMark(c) \/ PushSpawn(c)
                \/ PushCreate(c) \/ PushCreateFails(c) \/ PushUnlock(c) \/ PushSignal(c)
                \/ DeleteCall(c) \/ DeleteCheck(c) \/ DeleteStore(c)
                \/ DeleteBroadcast(c) \/ DeleteJoin(c)
<1> USE ConstantsAssumption DEF ConstantsAssumption, TypeOK, WorkerTypeOK, ClientTypeOK,
        PoolUntouched, RestPcs, TaskPcs, JoinPcs, DetachPcs
<1>1. ASSUME NEW w \in Workers,
             \/ WorkerStart(w) \/ WorkerPublish(w) \/ WorkerFree(w) \/ WorkerWakesUp(w)
      PROVE  PoolUntouched
  BY <1>1 DEF WorkerStart, WorkerPublish, WorkerFree, WorkerWakesUp
<1>2. ASSUME NEW w \in Workers, WorkerSignal(w) PROVE PoolUntouched
  BY <1>2 DEF WorkerSignal, TaskSleepers, Woken
<1>3. ASSUME NEW c \in Clients, NEW t \in Tasks,
             TaskNew(c, t) \/ TaskDelete(c, t) \/ JoinCall(c, t) \/ DetachCall(c, t)
      PROVE  PoolUntouched
  BY <1>3 DEF TaskNew, TaskDelete, JoinCall, JoinCalls, DetachCall
<1>4. ASSUME NEW c \in Clients,
             \/ JoinTest(c) \/ JoinTake(c) \/ TimedTest(c) \/ HugeTest(c)
             \/ TimedExpire(c) \/ TimedGiveUp(c) \/ PollTest(c) \/ DetachMark(c)
             \/ DetachFree(c) \/ ClientWakesUp(c)
      PROVE  PoolUntouched
  BY <1>4 DEF JoinTest, JoinTake, TimedTest, HugeTest, TakeOr, TimedExpire,
     TimedGiveUp, PollTest, DetachMark, DetachFree, ClientWakesUp, Woken
<1>5. CASE UNCHANGED vars
  BY <1>5
<1> QED
  BY <1>1, <1>2, <1>3, <1>4, <1>5 DEF Next, WorkerStep, ClientCall, ClientStep, Environment

-----------------------------------------------------------------------------
(* thread_pool_delete *)

\* Pushes and deletes exclude each other, and workers leave only after line 90.
LEMMA DeleteProtocolNext ==
    ASSUME TypeOK, DeleteProtocol, [Next]_vars
    PROVE  DeleteProtocol'
<1> USE ConstantsAssumption DEF ConstantsAssumption, TypeOK, PoolTypeOK, WorkerTypeOK,
        ClientTypeOK, DeleteProtocol, DeletePcs, PushPcs
<1>1. ASSUME NEW w \in Workers, WorkerCheck(w) PROVE DeleteProtocol'
  BY <1>1 DEF WorkerCheck
<1>2. ASSUME NEW w \in Workers,
             \/ WorkerTest(w) \/ WorkerWait(w) \/ WorkerPop(w) \/ WorkerTake(w)
             \/ WorkerRead(w) \/ WorkerCount(w) \/ WorkerComplete(w)
      PROVE  DeleteProtocol'
  BY <1>2 DEF WorkerTest, MutexFree, WorkerWait, WorkerPop, WorkerTake, WorkerRead,
     LastPushed, WorkerCount, Counted, WorkerComplete
<1>3. ASSUME NEW c \in Clients, NEW t \in Tasks, PushCheck(c, t) PROVE DeleteProtocol'
  BY <1>3 DEF PushCheck, Deleting, QueueFull
<1>4. ASSUME NEW c \in Clients, PushCount(c) PROVE DeleteProtocol'
  BY <1>4 DEF PushCount, MutexFree
<1>5. ASSUME NEW c \in Clients, PushSignal(c) PROVE DeleteProtocol'
  BY <1>5 DEF PushSignal
<1>6. ASSUME NEW c \in Clients, DeleteCall(c) PROVE DeleteProtocol'
  BY <1>6 DEF DeleteCall, Deleting
<1>7. ASSUME NEW c \in Clients, DeleteCheck(c) PROVE DeleteProtocol'
  BY <1>7 DEF DeleteCheck, QueueLooksEmpty
<1>8. ASSUME NEW c \in Clients, DeleteStore(c) PROVE DeleteProtocol'
  BY <1>8 DEF DeleteStore
<1>9. ASSUME NEW c \in Clients, DeleteBroadcast(c) PROVE DeleteProtocol'
  BY <1>9 DEF DeleteBroadcast, AllWoken
<1>10. ASSUME NEW c \in Clients, DeleteJoin(c) PROVE DeleteProtocol'
  <2>1. \A w \in Workers : wpc[w] \in {"absent", "exited"}
    BY <1>10 DEF DeleteJoin, ThreadsExited, Workers
  <2>2. is_deleted /\ is_deleted' = is_deleted /\ pool_alive' = FALSE /\ wpc' = wpc
    BY <1>10 DEF DeleteJoin
  <2>3. \A d \in Clients : cpc'[d] \notin PushPcs \cup DeletePcs
    BY <1>10 DEF DeleteJoin
  <2> QED
    BY <2>1, <2>2, <2>3
<1>11. ASSUME NEW c \in Clients,
             \/ PushStore(c) \/ PushMark(c) \/ PushSpawn(c) \/ PushCreate(c)
             \/ PushCreateFails(c) \/ PushUnlock(c)
      PROVE  DeleteProtocol'
  <2>1. /\ UNCHANGED <<is_deleted, pool_alive>>
        /\ cpc[c] \in PushPcs /\ cpc'[c] \in PushPcs
        /\ \A d \in Clients : d # c => cpc'[d] = cpc[d]
    BY <1>11 DEF PushStore, PushMark, PushSpawn, PushCreate, PushCreateFails, PushUnlock
  <2>2. \A w \in Workers : wpc'[w] = "exited" => wpc[w] = "exited"
    BY <1>11 DEF PushStore, PushMark, PushSpawn, PushCreate, PushCreateFails, PushUnlock
  <2>3. pool_alive /\ \A d \in Clients : cpc[d] \notin DeletePcs
    BY <2>1
  <2>4. \A d \in Clients : cpc'[d] \notin DeletePcs
    BY <2>1, <2>3
  <2> QED
    BY <2>1, <2>2, <2>3, <2>4
<1>12. CASE PoolUntouched
  <2>1. /\ UNCHANGED <<is_deleted, pool_alive>>
        /\ \A d \in Clients : \/ cpc'[d] = cpc[d]
                               \/ /\ cpc[d] \notin DeletePcs \cup PushPcs
                                  /\ cpc'[d] \notin DeletePcs \cup PushPcs
    BY <1>12 DEF PoolUntouched, JoinPcs, DetachPcs, TaskPcs
  <2>2. \A w \in Workers : wpc'[w] = wpc[w] \/ (wpc[w] \in RestPcs /\ wpc'[w] \in RestPcs)
    BY <1>12 DEF PoolUntouched
  <2>3. \A w \in Workers : /\ wpc'[w] = "exited" => wpc[w] = "exited"
                           /\ wpc[w] \in {"absent", "exited"} => wpc'[w] \in {"absent", "exited"}
    BY ONLY <2>2 DEF RestPcs
  <2> HIDE DEF TypeOK, PoolTypeOK, WorkerTypeOK, ClientTypeOK
  <2> QED
    BY <2>1, <2>3
<1> QED
  BY PoolSteps, <1>1, <1>2, <1>3, <1>4, <1>5, <1>6, <1>7, <1>8, <1>9, <1>10, <1>11,
     <1>12

-----------------------------------------------------------------------------
(* The mutex *)

\* Only a failed pthread_create leads to the second unlock of line 189.
LEMMA UnlockStays ==
    ASSUME TypeOK, MutexWhole, NoPendingUnlock, [Next]_vars
    PROVE  \/ \E c \in Clients : PushCreateFails(c)
           \/ MutexWhole' /\ NoPendingUnlock'
<1> USE ConstantsAssumption DEF ConstantsAssumption, TypeOK, PoolTypeOK, WorkerTypeOK,
        ClientTypeOK, NoPendingUnlock
<1>1. ASSUME NEW w \in Workers, WorkerTest(w) PROVE MutexWhole' /\ NoPendingUnlock'
  BY <1>1 DEF WorkerTest, MutexFree
<1>2. ASSUME NEW w \in Workers,
             \/ WorkerWait(w) \/ WorkerCheck(w) \/ WorkerPop(w) \/ WorkerTake(w)
             \/ WorkerRead(w) \/ WorkerCount(w) \/ WorkerComplete(w)
      PROVE  MutexWhole' /\ NoPendingUnlock'
  BY <1>2 DEF WorkerWait, WorkerCheck, WorkerPop, WorkerTake, WorkerRead, LastPushed,
     WorkerCount, Counted, WorkerComplete
<1>3. ASSUME NEW c \in Clients, NEW t \in Tasks,
             PushCheck(c, t)
      PROVE  MutexWhole' /\ NoPendingUnlock'
  BY <1>3 DEF PushCheck, Deleting, QueueFull
<1>4. ASSUME NEW c \in Clients, PushUnlock(c) PROVE MutexWhole' /\ NoPendingUnlock'
  BY <1>4 DEF PushUnlock
<1>5. ASSUME NEW c \in Clients, PushSignal(c) PROVE MutexWhole' /\ NoPendingUnlock'
  BY <1>5 DEF PushSignal
<1>6. ASSUME NEW c \in Clients, DeleteBroadcast(c) PROVE MutexWhole' /\ NoPendingUnlock'
  BY <1>6 DEF DeleteBroadcast, AllWoken
<1>7. ASSUME NEW c \in Clients,
             \/ PushCount(c) \/ PushStore(c) \/ PushMark(c) \/ PushSpawn(c)
             \/ PushCreate(c) \/ DeleteCall(c) \/ DeleteCheck(c)
             \/ DeleteStore(c) \/ DeleteJoin(c)
      PROVE  MutexWhole' /\ NoPendingUnlock'
  BY <1>7 DEF PushCount, MutexFree, PushStore, PushMark, PushSpawn, NeedThread,
     PushCreate, Workers, DeleteCall, Deleting, DeleteCheck,
     QueueLooksEmpty, DeleteStore, DeleteJoin, ThreadsExited
<1>8. CASE PoolUntouched
  BY <1>8 DEF PoolUntouched, RestPcs, JoinPcs, DetachPcs, TaskPcs
<1> QED
  BY PoolSteps, <1>1, <1>2, <1>3, <1>4, <1>5, <1>6, <1>7, <1>8

\* A mutex that was released under its holder stays so.
LEMMA WholeBefore ==
    ASSUME TypeOK, [Next]_vars, MutexWhole' PROVE MutexWhole
<1> USE ConstantsAssumption DEF ConstantsAssumption, TypeOK
<1>1. ASSUME NEW w \in Workers,
             \/ WorkerTest(w) \/ WorkerWait(w) \/ WorkerCheck(w) \/ WorkerPop(w)
             \/ WorkerTake(w) \/ WorkerRead(w) \/ WorkerCount(w) \/ WorkerComplete(w)
      PROVE  MutexWhole
  BY <1>1 DEF WorkerTest, MutexFree, WorkerWait, WorkerCheck, WorkerPop, WorkerTake,
     WorkerRead, LastPushed, WorkerCount, Counted, WorkerComplete
<1>2. ASSUME NEW c \in Clients, NEW t \in Tasks, PushCheck(c, t) PROVE MutexWhole
  BY <1>2 DEF PushCheck, Deleting, QueueFull
<1>3. ASSUME NEW c \in Clients,
             \/ PushCount(c) \/ PushStore(c) \/ PushMark(c) \/ PushSpawn(c)
             \/ PushCreate(c) \/ PushCreateFails(c) \/ PushUnlock(c) \/ PushSignal(c)
             \/ DeleteCall(c) \/ DeleteCheck(c) \/ DeleteStore(c)
             \/ DeleteBroadcast(c) \/ DeleteJoin(c)
      PROVE  MutexWhole
  BY <1>3 DEF PushCount, MutexFree, PushStore, PushMark, PushSpawn, NeedThread,
     PushCreate, Workers, PushCreateFails, PushUnlock, PushSignal, DeleteCall, Deleting,
     DeleteCheck, QueueLooksEmpty, DeleteStore, DeleteBroadcast, AllWoken, DeleteJoin,
     ThreadsExited
<1>4. CASE PoolUntouched
  BY <1>4 DEF PoolUntouched, RestPcs, JoinPcs, DetachPcs
<1> QED
  BY PoolSteps, <1>1, <1>2, <1>3, <1>4

\* The threads in a critical section of pool->mutex exclude each other.  Line 189 may
\* release the mutex of another thread, and then it is not whole any more.
LEMMA LockHeldNext ==
    ASSUME TypeOK, LockHeld, [Next]_vars, MutexWhole'
    PROVE  LockHeld'
<1> USE ConstantsAssumption DEF ConstantsAssumption, TypeOK, PoolTypeOK, WorkerTypeOK,
        ClientTypeOK, LockHeld, InCritical, Pushes
<1>1. ASSUME NEW w \in Workers, WorkerTest(w) PROVE LockHeld'
  BY <1>1 DEF WorkerTest, MutexFree
<1>2. ASSUME NEW w \in Workers, WorkerWait(w) PROVE LockHeld'
  BY <1>2 DEF WorkerWait
<1>3. ASSUME NEW w \in Workers, WorkerCheck(w) PROVE LockHeld'
  BY <1>3 DEF WorkerCheck
<1>4. ASSUME NEW w \in Workers, WorkerPop(w) PROVE LockHeld'
  BY <1>4 DEF WorkerPop
<1>5. ASSUME NEW w \in Workers, WorkerTake(w) PROVE LockHeld'
  BY <1>5 DEF WorkerTake
<1>6. ASSUME NEW w \in Workers, WorkerRead(w) PROVE LockHeld'
  BY <1>6 DEF WorkerRead, LastPushed
<1>7. ASSUME NEW w \in Workers, WorkerCount(w) PROVE LockHeld'
  BY <1>7 DEF WorkerCount, Counted
<1>8. ASSUME NEW w \in Workers, WorkerComplete(w) PROVE LockHeld'
  BY <1>8 DEF WorkerComplete
<1>9. ASSUME NEW c \in Clients, NEW t \in Tasks, PushCheck(c, t) PROVE LockHeld'
  BY <1>9 DEF PushCheck, Deleting, QueueFull
<1>10. ASSUME NEW c \in Clients, PushCount(c) PROVE LockHeld'
  BY <1>10 DEF PushCount, MutexFree
<1>11. ASSUME NEW c \in Clients, PushStore(c) PROVE LockHeld'
  BY <1>11 DEF PushStore
<1>12. ASSUME NEW c \in Clients, PushMark(c) PROVE LockHeld'
  BY <1>12 DEF PushMark
<1>13. ASSUME NEW c \in Clients, PushSpawn(c) PROVE LockHeld'
  BY <1>13 DEF PushSpawn, NeedThread
<1>14. ASSUME NEW c \in Clients, PushCreate(c) PROVE LockHeld'
  BY <1>14, SMT, ZenonT(60) DEF PushCreate, Workers
<1>15. ASSUME NEW c \in Clients, PushCreateFails(c) PROVE LockHeld'
  BY <1>15, SMT, ZenonT(60) DEF PushCreateFails, Workers
<1>16. ASSUME NEW c \in Clients, PushUnlock(c) PROVE LockHeld'
  BY <1>16 DEF PushUnlock
<1>17. ASSUME NEW c \in Clients, PushSignal(c) PROVE LockHeld'
  BY <1>17 DEF PushSignal
<1>18. ASSUME NEW c \in Clients, DeleteCall(c) PROVE LockHeld'
  BY <1>18 DEF DeleteCall, Deleting
<1>19. ASSUME NEW c \in Clients, DeleteCheck(c) PROVE LockHeld'
  BY <1>19 DEF DeleteCheck, QueueLooksEmpty
<1>20. ASSUME NEW c \in Clients, DeleteStore(c) PROVE LockHeld'
  BY <1>20 DEF DeleteStore
<1>21. ASSUME NEW c \in Clients, DeleteBroadcast(c) PROVE LockHeld'
  BY <1>21 DEF DeleteBroadcast, AllWoken
<1>22. ASSUME NEW c \in Clients, DeleteJoin(c) PROVE LockHeld'
  BY <1>22 DEF DeleteJoin, ThreadsExited
<1>23. CASE PoolUntouched
  BY <1>23 DEF PoolUntouched, RestPcs, JoinPcs, DetachPcs, TaskPcs
<1> QED
  BY PoolSteps, <1>1, <1>2, <1>3, <1>4, <1>5, <1>6, <1>7, <1>8, <1>9, <1>10, <1>11,
     <1>12, <1>13, <1>14, <1>15, <1>16, <1>17, <1>18, <1>19, <1>20, <1>21, <1>22, <1>23

-----------------------------------------------------------------------------
(* The array.  The pool's mutex makes each of its steps a step of one thread: *)
(* at most one task is on its way out of the array, or into it.               *)

StorePcs == {"push_store", "push_mark"}

\* A step that leaves the array alone.
QueueUntouched ==
    /\ UNCHANGED <<tasks, tasks_count>>
    /\ \A w \in Workers : wpc'[w] = "read" <=> wpc[w] = "read"
    /\ \A c \in Clients : cpc'[c] \in StorePcs <=> cpc[c] \in StorePcs

LEMMA QueueStays ==
    ASSUME QueueUntouched
    PROVE  QueueLen' = QueueLen /\ \A t : Queued(t)' <=> Queued(t)
<1>1. QueueLen' = QueueLen
  BY DEF QueueUntouched, StorePcs, QueueLen
<1> QED
  BY <1>1 DEF QueueUntouched, Queued

\* The number of tasks in the array, by what its user is about to do.
LEMMA LenIs ==
    ASSUME TypeOK, LockHeld
    PROVE  /\ \A w \in Workers : wpc[w] = "read" => QueueLen = tasks_count + 1
           /\ \A c \in Clients : cpc[c] \in StorePcs => QueueLen = tasks_count - 1
           /\ (\A w \in Workers : wpc[w] # "read") /\ (\A c \in Clients : cpc[c] \notin StorePcs)
                => QueueLen = tasks_count
<1> USE ConstantsAssumption
        DEF ConstantsAssumption, LockHeld, InCritical, Pushes, StorePcs, QueueLen
<1>1. \A w \in Workers, c \in Clients : ~(wpc[w] = "read" /\ cpc[c] \in StorePcs)
  OBVIOUS
<1> QED
  BY <1>1

\* Line 130 leaves the task in the array that line 131 reads.
LEMMA TakeKeepsQueue ==
    ASSUME TypeOK, LockHeld, NEW w \in Workers, WorkerTake(w)
    PROVE  QueueLen' = QueueLen /\ QueueLen = tasks_count /\ tasks' = tasks
<1> USE ConstantsAssumption DEF ConstantsAssumption, TypeOK, PoolTypeOK, WorkerTypeOK, WorkerTake
<1>1. QueueLen = tasks_count
  <2>1. /\ \A v \in Workers : wpc[v] # "read"
        /\ \A c \in Clients : cpc[c] \notin StorePcs
    BY DEF LockHeld, InCritical, Pushes, StorePcs
  <2> QED
    BY <2>1, LenIs
<1>2. wpc'[w] = "read" /\ tasks_count' = tasks_count - 1
  OBVIOUS
<1>3. QueueLen' = tasks_count' + 1
  BY <1>2 DEF QueueLen
<1> QED
  BY <1>1, <1>2, <1>3

\* Line 131 takes the last task.
LEMMA ReadPopsQueue ==
    ASSUME TypeOK, LockHeld, NEW w \in Workers, WorkerRead(w)
    PROVE  /\ QueueLen' = QueueLen - 1 /\ QueueLen = tasks_count + 1 /\ tasks' = tasks
           /\ wtask'[w] = tasks[QueueLen - 1]
<1> USE ConstantsAssumption
        DEF ConstantsAssumption, TypeOK, PoolTypeOK, WorkerTypeOK, WorkerRead, LastPushed
<1>1. QueueLen = tasks_count + 1
  BY LenIs
<1>2. /\ \A v \in Workers : wpc'[v] # "read"
      /\ \A c \in Clients : cpc'[c] \notin StorePcs
  BY DEF LockHeld, InCritical, Pushes, StorePcs
<1>3. QueueLen' = tasks_count'
  BY <1>2 DEF QueueLen, StorePcs
<1>4. wtask'[w] = tasks[tasks_count] /\ tasks_count' = tasks_count /\ tasks' = tasks
  OBVIOUS
<1>5. QueueLen - 1 = tasks_count
  BY <1>1
<1> QED
  BY <1>1, <1>3, <1>4, <1>5

\* Line 180 makes room behind the tasks of the array.
LEMMA CountKeepsQueue ==
    ASSUME TypeOK, LockHeld, NEW c \in Clients, PushCount(c)
    PROVE  /\ QueueLen' = QueueLen /\ QueueLen = tasks_count
           /\ tasks' = tasks /\ tasks_count' = tasks_count + 1
<1> USE ConstantsAssumption
        DEF ConstantsAssumption, TypeOK, PoolTypeOK, WorkerTypeOK, ClientTypeOK, PushCount,
            MutexFree
<1>1. /\ \A v \in Workers : wpc[v] # "read"
      /\ \A d \in Clients : cpc[d] \notin StorePcs
  BY DEF LockHeld, InCritical, Pushes, StorePcs
<1>2. QueueLen = tasks_count
  BY <1>1, LenIs
<1>3. /\ tasks_count' = tasks_count + 1 /\ tasks' = tasks
      /\ wpc' = wpc /\ cpc'[c] = "push_store"
  OBVIOUS
<1>4. QueueLen' = tasks_count' - 1
  BY <1>1, <1>3 DEF QueueLen
<1> QED
  BY <1>2, <1>3, <1>4

\* Line 180 stores there.
LEMMA StoreKeepsQueue ==
    ASSUME TypeOK, LockHeld, ArrayInv, NEW c \in Clients, PushStore(c)
    PROVE  /\ QueueLen' = QueueLen /\ QueueLen = tasks_count - 1 /\ tasks_count' = tasks_count
           /\ \A i \in 0 .. QueueLen - 1 : tasks'[i] = tasks[i]
           /\ tasks'[QueueLen] = ctask[c]
<1> USE ConstantsAssumption
        DEF ConstantsAssumption, TypeOK, PoolTypeOK, WorkerTypeOK, ClientTypeOK, PushStore
<1>1. QueueLen = tasks_count - 1
  BY LenIs DEF StorePcs
<1>2. QueueUntouched \/ QueueLen' = QueueLen
  <2>1. /\ \A v \in Workers : wpc'[v] # "read"
        /\ cpc'[c] = "push_mark" /\ tasks_count' = tasks_count
    BY DEF LockHeld, InCritical, Pushes
  <2> QED
    BY <1>1, <2>1 DEF QueueLen
<1>3. cslot[c] = QueueLen /\ cslot[c] \in Slots
  BY <1>1 DEF ArrayInv
<1>4. tasks' = [tasks EXCEPT ![cslot[c]] = ctask[c]] /\ tasks_count' = tasks_count
  OBVIOUS
<1>5. \A i \in 0 .. QueueLen - 1 : i # cslot[c]
  BY <1>1, <1>3
<1>6. Slots \in SUBSET Int /\ DOMAIN tasks = Slots
  BY DEF Slots
<1>7. \A i \in 0 .. QueueLen - 1 : tasks'[i] = tasks[i]
  BY ONLY <1>4, <1>5, <1>6, tasks \in [Slots -> Tasks \cup {None}]
<1> QED
  BY <1>1, <1>2, <1>3, <1>4, <1>6, <1>7, QueueStays

\* Line 181: from here on the stored task counts as queued.
LEMMA MarkAddsToQueue ==
    ASSUME TypeOK, LockHeld, ArrayInv, NEW c \in Clients, PushMark(c)
    PROVE  /\ QueueLen' = QueueLen + 1 /\ QueueLen = tasks_count - 1 /\ tasks_count' = tasks_count
           /\ tasks' = tasks /\ tasks[QueueLen] = ctask[c]
<1> USE ConstantsAssumption
        DEF ConstantsAssumption, TypeOK, PoolTypeOK, WorkerTypeOK, ClientTypeOK, PushMark
<1>1. QueueLen = tasks_count - 1
  BY LenIs DEF StorePcs
<1>2. /\ \A v \in Workers : wpc'[v] # "read"
      /\ \A d \in Clients : cpc'[d] \notin StorePcs
      /\ UNCHANGED <<tasks, tasks_count>>
  BY DEF LockHeld, InCritical, Pushes, StorePcs
<1>3. QueueLen' = tasks_count
  BY <1>2 DEF QueueLen, StorePcs
<1>4. tasks[tasks_count - 1] = ctask[c]
  BY DEF ArrayInv
<1> QED
  BY <1>1, <1>2, <1>3, <1>4

\* A step that uses neither the array nor a slot of it.
ArrayUntouched ==
    /\ QueueUntouched /\ cslot' = cslot
    /\ \A c \in Clients : cpc'[c] \in StorePcs => cpc'[c] = cpc[c] /\ ctask'[c] = ctask[c]
    /\ \A w \in Workers : wpc'[w] = "count" => wpc[w] = "count" /\ wtask'[w] = wtask[w]

LEMMA ArrayStays == ASSUME ArrayInv, ArrayUntouched PROVE ArrayInv'
<1>1. QueueLen' = QueueLen
  BY QueueStays DEF ArrayUntouched
<1> QED
  BY <1>1 DEF ArrayInv, ArrayUntouched, QueueUntouched, StorePcs

\* What is in the array are tasks, and each push knows its slot.
LEMMA ArrayInvNext ==
    ASSUME TypeOK, LockHeld, TestsHold, ArrayInv, [Next]_vars
    PROVE  ArrayInv'
<1> USE ConstantsAssumption DEF ConstantsAssumption, TypeOK, PoolTypeOK, WorkerTypeOK,
        ClientTypeOK
<1>1. ASSUME NEW w \in Workers, WorkerTake(w) PROVE ArrayInv'
  <2>1. QueueLen' = QueueLen /\ QueueLen = tasks_count /\ tasks' = tasks
    BY <1>1, TakeKeepsQueue
  <2>2. tasks_count' \in Nat
    BY <1>1 DEF WorkerTake, TestsHold, ArrayInv
  <2>3. /\ \A c \in Clients : cpc'[c] \notin StorePcs
        /\ \A v \in Workers : wpc'[v] # "count"
    BY <1>1 DEF WorkerTake, LockHeld, InCritical, Pushes, StorePcs
  <2> QED
    BY <2>1, <2>2, <2>3 DEF ArrayInv, StorePcs
<1>2. ASSUME NEW w \in Workers, WorkerRead(w) PROVE ArrayInv'
  <2>1. QueueLen' = QueueLen - 1 /\ QueueLen = tasks_count + 1 /\ tasks' = tasks
    BY <1>2, ReadPopsQueue
  <2>2. tasks_count' = tasks_count /\ wtask' = [wtask EXCEPT ![w] = tasks[tasks_count]]
    BY <1>2 DEF WorkerRead, LastPushed
  <2>3. /\ \A c \in Clients : cpc'[c] \notin StorePcs
        /\ \A v \in Workers : v # w => wpc'[v] # "count"
    BY <1>2 DEF WorkerRead, LockHeld, InCritical, Pushes, StorePcs
  <2>4. tasks[tasks_count] \in Tasks
    BY <1>2 DEF WorkerRead, TestsHold
  <2>5. \A i \in 0 .. QueueLen' - 1 : i \in 0 .. QueueLen - 1
    BY <2>1 DEF ArrayInv
  <2> QED
    BY <2>1, <2>2, <2>3, <2>4, <2>5 DEF ArrayInv, StorePcs
<1>3. ASSUME NEW w \in Workers, WorkerCount(w) PROVE ArrayInv'
  <2>1. ArrayUntouched
    BY <1>3 DEF WorkerCount, Counted, ArrayUntouched, QueueUntouched, StorePcs
  <2> QED
    BY <2>1, ArrayStays
<1>4. ASSUME NEW w \in Workers,
             \/ WorkerTest(w) \/ WorkerWait(w) \/ WorkerCheck(w) \/ WorkerPop(w)
             \/ WorkerComplete(w)
      PROVE  ArrayInv'
  <2>1. ArrayUntouched
    BY <1>4 DEF WorkerTest, MutexFree, WorkerWait, WorkerCheck, WorkerPop,
       WorkerComplete, ArrayUntouched, QueueUntouched, StorePcs
  <2> QED
    BY <2>1, ArrayStays
<1>5. ASSUME NEW c \in Clients, NEW t \in Tasks, PushCheck(c, t) PROVE ArrayInv'
  <2>1. ArrayUntouched
    BY <1>5 DEF PushCheck, Deleting, QueueFull, ArrayUntouched, QueueUntouched, StorePcs
  <2> QED
    BY <2>1, ArrayStays
<1>6. ASSUME NEW c \in Clients, PushCount(c) PROVE ArrayInv'
  <2>1. /\ QueueLen' = QueueLen /\ QueueLen = tasks_count
        /\ tasks' = tasks /\ tasks_count' = tasks_count + 1
    BY <1>6, CountKeepsQueue
  <2>2. cpc'[c] = "push_store" /\ cslot'[c] = tasks_count
    BY <1>6 DEF PushCount
  <2>3. /\ \A d \in Clients : d # c => cpc'[d] \notin StorePcs
        /\ \A v \in Workers : wpc'[v] # "count"
    BY <1>6 DEF PushCount, MutexFree, LockHeld, InCritical, Pushes, StorePcs
  <2> QED
    BY <2>1, <2>2, <2>3 DEF ArrayInv, StorePcs
<1>7. ASSUME NEW c \in Clients, PushStore(c) PROVE ArrayInv'
  <2>1. /\ QueueLen' = QueueLen /\ QueueLen = tasks_count - 1 /\ tasks_count' = tasks_count
        /\ \A i \in 0 .. QueueLen - 1 : tasks'[i] = tasks[i]
        /\ tasks'[QueueLen] = ctask[c]
    BY <1>7, StoreKeepsQueue
  <2>2. cpc'[c] = "push_mark" /\ ctask' = ctask
    BY <1>7 DEF PushStore
  <2>3. /\ \A d \in Clients : d # c => cpc'[d] \notin StorePcs
        /\ \A v \in Workers : wpc'[v] # "count"
    BY <1>7 DEF PushStore, LockHeld, InCritical, Pushes, StorePcs
  <2>4. tasks'[tasks_count' - 1] = ctask'[c] /\ tasks_count' > 0
    BY <1>7, <2>1, <2>2 DEF PushStore, ArrayInv
  <2> QED
    BY <2>1, <2>2, <2>3, <2>4 DEF ArrayInv, StorePcs
<1>8. ASSUME NEW c \in Clients, PushMark(c) PROVE ArrayInv'
  <2>1. /\ QueueLen' = QueueLen + 1 /\ QueueLen = tasks_count - 1 /\ tasks_count' = tasks_count
        /\ tasks' = tasks /\ tasks[QueueLen] = ctask[c]
    BY <1>8, MarkAddsToQueue
  <2>2. ctask[c] \in Tasks
    BY <1>8 DEF PushMark, PushPcs
  <2>3. /\ \A d \in Clients : cpc'[d] \notin StorePcs
        /\ \A v \in Workers : wpc'[v] # "count"
    BY <1>8 DEF PushMark, LockHeld, InCritical, Pushes, StorePcs
  <2>4. \A i \in 0 .. QueueLen' - 1 : i \in 0 .. QueueLen - 1 \/ i = QueueLen
    BY <2>1
  <2> QED
    BY <2>1, <2>2, <2>3, <2>4 DEF ArrayInv, StorePcs
<1>9. ASSUME NEW c \in Clients, PushSignal(c) PROVE ArrayInv'
  <2>1. ArrayUntouched
    BY <1>9 DEF PushSignal, ArrayUntouched, QueueUntouched, StorePcs
  <2> QED
    BY <2>1, ArrayStays
<1>10. ASSUME NEW c \in Clients, DeleteBroadcast(c) PROVE ArrayInv'
  <2>1. ArrayUntouched
    BY <1>10 DEF DeleteBroadcast, AllWoken, ArrayUntouched, QueueUntouched, StorePcs
  <2> QED
    BY <2>1, ArrayStays
<1>11. ASSUME NEW c \in Clients,
             \/ PushSpawn(c) \/ PushCreate(c) \/ PushCreateFails(c) \/ PushUnlock(c)
             \/ DeleteCall(c) \/ DeleteCheck(c) \/ DeleteStore(c) \/ DeleteJoin(c)
      PROVE  ArrayInv'
  <2>1. /\ UNCHANGED <<queueVars, wtask, ctask>>
        /\ \A d \in Clients : cpc'[d] \in StorePcs \/ cpc[d] \in StorePcs => cpc'[d] = cpc[d]
    BY <1>11 DEF PushSpawn, PushCreate, PushCreateFails, PushUnlock, DeleteCall, DeleteCheck,
       DeleteStore, DeleteJoin, StorePcs
  <2>2. \A w \in Workers : wpc'[w] \in {"read", "count"} \/ wpc[w] \in {"read", "count"}
                             => wpc'[w] = wpc[w]
    <3>1. CASE PushCreate(c)
      BY <3>1 DEF PushCreate, Workers
    <3>2. CASE ~PushCreate(c)
      BY <1>11, <3>2 DEF PushSpawn, PushCreateFails, PushUnlock, DeleteCall, DeleteCheck,
         DeleteStore, DeleteJoin
    <3> QED
      BY <3>1, <3>2
  <2>3. ArrayUntouched
    BY ONLY <2>1, <2>2 DEF ArrayUntouched, QueueUntouched
  <2> QED
    BY <2>3, ArrayStays
<1>12. CASE PoolUntouched
  <2>1. ArrayUntouched
    BY <1>12 DEF PoolUntouched, RestPcs, TaskPcs, JoinPcs, DetachPcs, ArrayUntouched,
       QueueUntouched, StorePcs
  <2> QED
    BY <2>1, ArrayStays
<1> QED
  BY PoolSteps, <1>1, <1>2, <1>3, <1>4, <1>5, <1>6, <1>7, <1>8, <1>9, <1>10, <1>11,
     <1>12

\* The clients past the check of line 174 are counted.
LEMMA PushingIsFinite ==
    /\ IsFiniteSet(Clients) /\ Cardinality(Clients) \in Nat
    /\ IsFiniteSet(Pushing) /\ Cardinality(Pushing) \in Nat
<1>1. IsFiniteSet(Clients) /\ Pushing \in SUBSET Clients
  BY ConstantsAssumption DEF ConstantsAssumption, Pushing
<1> QED
  BY <1>1, FS_Subset, FS_CardinalityType

\* Nobody adds or takes a task between a worker's test and its wait or pop.
LEMMA TestsHoldNext ==
    ASSUME TypeOK, QueueBound, LockHeld, ArrayInv, TestsHold, [Next]_vars
    PROVE  TestsHold'
<1> USE ConstantsAssumption DEF ConstantsAssumption, TypeOK, PoolTypeOK, WorkerTypeOK,
        ClientTypeOK
<1>1. ASSUME NEW w \in Workers, WorkerTest(w) PROVE TestsHold'
  <2>1. tasks_count \in Nat
    BY DEF ArrayInv
  <2>2. wpc'[w] = "wait" => tasks_count = 0
    BY <1>1 DEF WorkerTest
  <2>3. wpc'[w] \in {"wait", "check"} /\ (wpc'[w] = "check" => tasks_count > 0 \/ is_deleted)
    BY <1>1, <2>1 DEF WorkerTest
  <2>4. /\ \A v \in Workers : v # w => wpc'[v] = wpc[v]
        /\ UNCHANGED <<tasks, tasks_count, is_deleted>>
    BY <1>1 DEF WorkerTest
  <2> QED
    BY <2>2, <2>3, <2>4 DEF TestsHold
<1>2. ASSUME NEW w \in Workers, WorkerWait(w) PROVE TestsHold'
  BY <1>2 DEF WorkerWait, TestsHold
<1>3. ASSUME NEW w \in Workers, WorkerCheck(w) PROVE TestsHold'
  BY <1>3 DEF WorkerCheck, TestsHold
<1>4. ASSUME NEW w \in Workers, WorkerPop(w) PROVE TestsHold'
  BY <1>4 DEF WorkerPop, TestsHold
<1>5. ASSUME NEW w \in Workers, WorkerTake(w) PROVE TestsHold'
  <2>1. tasks_count > 0 /\ tasks_count \in Nat /\ tasks[tasks_count - 1] \in Tasks
    <3>1. QueueLen = tasks_count
      BY <1>5, TakeKeepsQueue
    <3>2. tasks_count > 0 /\ tasks_count \in Nat
      BY <1>5 DEF WorkerTake, TestsHold, ArrayInv
    <3>3. tasks_count - 1 \in 0 .. QueueLen - 1
      BY <3>1, <3>2
    <3> QED
      BY <3>2, <3>3 DEF ArrayInv
  <2>2. tasks_count - 1 \in Slots
    <3>1. Cardinality(Clients) \in Nat /\ Cardinality(Pushing) \in Nat
      BY PushingIsFinite
    <3> QED
      BY <2>1, <3>1 DEF Slots, QueueBound
  <2>3. /\ wpc' = [wpc EXCEPT ![w] = "read"] /\ tasks_count' = tasks_count - 1
        /\ tasks' = tasks
    BY <1>5 DEF WorkerTake
  <2>4. \A v \in Workers : v # w => ~InCritical(v)
    BY <1>5 DEF WorkerTake, LockHeld, InCritical
  <2> QED
    BY <2>1, <2>2, <2>3, <2>4 DEF TestsHold, InCritical
<1>6. ASSUME NEW w \in Workers, WorkerRead(w) PROVE TestsHold'
  BY <1>6 DEF WorkerRead, LastPushed, TestsHold
<1>7. ASSUME NEW w \in Workers, WorkerCount(w) PROVE TestsHold'
  BY <1>7 DEF WorkerCount, Counted, TestsHold
<1>8. ASSUME NEW w \in Workers, WorkerComplete(w) PROVE TestsHold'
  BY <1>8 DEF WorkerComplete, TestsHold
<1>9. ASSUME NEW c \in Clients, NEW t \in Tasks, PushCheck(c, t) PROVE TestsHold'
  BY <1>9 DEF TestsHold, PushCheck, Deleting, QueueFull
<1>10. ASSUME NEW c \in Clients, PushCount(c) PROVE TestsHold'
  <2>1. \A v \in Workers : ~InCritical(v) /\ wpc'[v] = wpc[v]
    BY <1>10 DEF PushCount, MutexFree, LockHeld, Pushes, InCritical
  <2> QED
    BY <2>1 DEF TestsHold, InCritical
<1>11. ASSUME NEW c \in Clients, PushStore(c) PROVE TestsHold'
  <2>1. \A v \in Workers : ~InCritical(v) /\ wpc'[v] = wpc[v]
    BY <1>11 DEF PushStore, LockHeld, Pushes, InCritical
  <2> QED
    BY <2>1 DEF TestsHold, InCritical
<1>12. ASSUME NEW c \in Clients, PushCreate(c) PROVE TestsHold'
  BY <1>12 DEF PushCreate, Workers, TestsHold
<1>13. ASSUME NEW c \in Clients, PushSignal(c) PROVE TestsHold'
  BY <1>13 DEF PushSignal, TestsHold
<1>14. ASSUME NEW c \in Clients, DeleteStore(c) PROVE TestsHold'
  BY <1>14 DEF DeleteStore, TestsHold
<1>15. ASSUME NEW c \in Clients, DeleteBroadcast(c) PROVE TestsHold'
  BY <1>15 DEF DeleteBroadcast, AllWoken, TestsHold
<1>16. ASSUME NEW c \in Clients,
             \/ PushMark(c) \/ PushSpawn(c) \/ PushCreateFails(c) \/ PushUnlock(c)
             \/ DeleteCall(c) \/ DeleteCheck(c) \/ DeleteJoin(c)
      PROVE  TestsHold'
  BY <1>16 DEF TestsHold, PushMark, PushSpawn, NeedThread, PushCreateFails, Workers, PushUnlock,
     DeleteCall, Deleting, DeleteCheck, QueueLooksEmpty, DeleteJoin, ThreadsExited
<1>17. CASE PoolUntouched
  BY <1>17 DEF PoolUntouched, RestPcs, JoinPcs, DetachPcs, TaskPcs, TestsHold
<1> QED
  BY PoolSteps, <1>1, <1>2, <1>3, <1>4, <1>5, <1>6, <1>7, <1>8, <1>9, <1>10, <1>11,
     <1>12, <1>13, <1>14, <1>15, <1>16, <1>17

\* No push comes between the check of line 86 and the end of the pool.
LEMMA DeletedIsEmptyNext ==
    ASSUME TypeOK, DeleteProtocol, ArrayInv, TestsHold, DeletedIsEmpty, [Next]_vars
    PROVE  DeletedIsEmpty'
<1> USE ConstantsAssumption DEF ConstantsAssumption, TypeOK, PoolTypeOK, WorkerTypeOK,
        ClientTypeOK
<1>1. ASSUME NEW w \in Workers, WorkerTake(w) PROVE DeletedIsEmpty'
  <2>1. tasks_count > 0
    BY <1>1 DEF WorkerTake, TestsHold
  <2> QED
    BY <1>1, <2>1 DEF WorkerTake, DeletedIsEmpty
<1>2. ASSUME NEW w \in Workers,
             \/ WorkerTest(w) \/ WorkerWait(w) \/ WorkerCheck(w) \/ WorkerPop(w)
             \/ WorkerRead(w) \/ WorkerCount(w) \/ WorkerComplete(w)
      PROVE  DeletedIsEmpty'
  BY <1>2 DEF DeletedIsEmpty, WorkerTest, MutexFree, WorkerWait, WorkerCheck, WorkerPop, WorkerRead,
     LastPushed, WorkerCount, Counted, WorkerComplete
<1>3. ASSUME NEW c \in Clients, NEW t \in Tasks, PushCheck(c, t) PROVE DeletedIsEmpty'
  BY <1>3 DEF DeletedIsEmpty, PushCheck, Deleting, QueueFull
<1>4. ASSUME NEW c \in Clients, PushCount(c) PROVE DeletedIsEmpty'
  <2>1. ~is_deleted /\ \A d \in Clients : cpc[d] # "del_store"
    BY <1>4 DEF PushCount, DeleteProtocol, PushPcs, DeletePcs
  <2> QED
    BY <1>4, <2>1 DEF PushCount, DeletedIsEmpty
<1>5. ASSUME NEW c \in Clients, DeleteCheck(c) PROVE DeletedIsEmpty'
  <2>1. tasks_count \in Nat
    BY DEF ArrayInv
  <2> QED
    BY <1>5, <2>1 DEF DeleteCheck, QueueLooksEmpty, DeletedIsEmpty
<1>6. ASSUME NEW c \in Clients, DeleteStore(c) PROVE DeletedIsEmpty'
  BY <1>6 DEF DeleteStore, DeletedIsEmpty
<1>7. ASSUME NEW c \in Clients,
             \/ PushStore(c) \/ PushMark(c) \/ PushSpawn(c) \/ PushCreate(c)
             \/ PushCreateFails(c) \/ PushUnlock(c) \/ PushSignal(c) \/ DeleteCall(c)
             \/ DeleteBroadcast(c) \/ DeleteJoin(c)
      PROVE  DeletedIsEmpty'
  BY <1>7 DEF DeletedIsEmpty, PushStore, PushMark, PushSpawn, NeedThread, PushCreate, Workers,
     PushCreateFails, PushUnlock, PushSignal, DeleteCall, Deleting, DeleteBroadcast,
     AllWoken, DeleteJoin, ThreadsExited
<1>8. CASE PoolUntouched
  BY <1>8 DEF PoolUntouched, RestPcs, JoinPcs, DetachPcs, TaskPcs, DeletedIsEmpty
<1> QED
  BY PoolSteps, <1>1, <1>2, <1>3, <1>4, <1>5, <1>6, <1>7, <1>8

-----------------------------------------------------------------------------
(* The threads *)

\* No other push starts a thread between lines 183 and 184.
LEMMA ThreadFitsNext ==
    ASSUME TypeOK, LockHeld, ThreadFits, [Next]_vars
    PROVE  ThreadFits'
<1> USE ConstantsAssumption DEF ConstantsAssumption, TypeOK, PoolTypeOK, WorkerTypeOK,
        ClientTypeOK
<1>1. ASSUME NEW w \in Workers,
             \/ WorkerTest(w) \/ WorkerWait(w) \/ WorkerCheck(w) \/ WorkerPop(w)
             \/ WorkerTake(w) \/ WorkerRead(w) \/ WorkerCount(w) \/ WorkerComplete(w)
      PROVE  ThreadFits'
  BY <1>1 DEF ThreadFits, WorkerTest, WorkerWait, WorkerCheck, WorkerPop, WorkerTake,
     WorkerRead, WorkerCount, WorkerComplete
<1>2. ASSUME NEW c \in Clients, NEW t \in Tasks, PushCheck(c, t) PROVE ThreadFits'
  BY <1>2 DEF ThreadFits, PushCheck
<1>3. ASSUME NEW c \in Clients, PushSpawn(c) PROVE ThreadFits'
  BY <1>3 DEF ThreadFits, PushSpawn, NeedThread
<1>4. ASSUME NEW c \in Clients, PushCreate(c) \/ PushCreateFails(c) PROVE ThreadFits'
  BY <1>4 DEF ThreadFits, PushCreate, PushCreateFails, LockHeld, Pushes
<1>5. ASSUME NEW c \in Clients,
             \/ PushCount(c) \/ PushStore(c) \/ PushMark(c) \/ PushUnlock(c)
             \/ PushSignal(c) \/ DeleteCall(c) \/ DeleteCheck(c) \/ DeleteStore(c)
             \/ DeleteBroadcast(c) \/ DeleteJoin(c)
      PROVE  ThreadFits'
  BY <1>5 DEF ThreadFits, PushCount, PushStore, PushMark, PushUnlock, PushSignal,
     DeleteCall, DeleteCheck, DeleteStore, DeleteBroadcast, DeleteJoin
<1>6. CASE PoolUntouched
  BY <1>6 DEF ThreadFits, PoolUntouched, JoinPcs, DetachPcs, TaskPcs
<1> QED
  BY PoolSteps, <1>1, <1>2, <1>3, <1>4, <1>5, <1>6

\* A failed pthread_create leaves a counted slot without a thread.
LEMMA FailedSpawnCounted ==
    ASSUME TypeOK, ThreadFits, NEW c \in Clients, PushCreateFails(c)
    PROVE  ~AllThreadsStarted'
<1> USE ConstantsAssumption
        DEF ConstantsAssumption, TypeOK, PoolTypeOK, WorkerTypeOK, Workers
<1>1. threads_count + 1 \in Workers /\ threads_count' = threads_count + 1
  BY DEF PushCreateFails, ThreadFits
<1>2. wpc'[threads_count + 1] = "absent"
  BY <1>1 DEF PushCreateFails
<1> QED
  BY <1>1, <1>2 DEF AllThreadsStarted

\* A slot whose pthread_create failed stays without a thread.
LEMMA StartedBefore ==
    ASSUME TypeOK, [Next]_vars, AllThreadsStarted'
    PROVE  AllThreadsStarted
<1> USE ConstantsAssumption DEF ConstantsAssumption, TypeOK, PoolTypeOK, WorkerTypeOK,
        ClientTypeOK, AllThreadsStarted
<1>1. ASSUME NEW w \in Workers,
             \/ WorkerTest(w) \/ WorkerWait(w) \/ WorkerCheck(w) \/ WorkerPop(w)
             \/ WorkerTake(w) \/ WorkerRead(w) \/ WorkerCount(w) \/ WorkerComplete(w)
      PROVE  AllThreadsStarted
  BY <1>1 DEF WorkerTest, MutexFree, WorkerWait, WorkerCheck, WorkerPop, WorkerTake,
     WorkerRead, LastPushed, WorkerCount, Counted, WorkerComplete
<1>2. ASSUME NEW c \in Clients, NEW t \in Tasks, PushCheck(c, t) PROVE AllThreadsStarted
  BY <1>2 DEF PushCheck, Deleting, QueueFull
<1>3. ASSUME NEW c \in Clients, PushCreate(c) PROVE AllThreadsStarted
  BY <1>3 DEF PushCreate, Workers
<1>4. ASSUME NEW c \in Clients, PushCreateFails(c) PROVE AllThreadsStarted
  BY <1>4 DEF PushCreateFails, Workers
<1>5. ASSUME NEW c \in Clients, PushSignal(c) PROVE AllThreadsStarted
  BY <1>5 DEF PushSignal
<1>6. ASSUME NEW c \in Clients, DeleteBroadcast(c) PROVE AllThreadsStarted
  BY <1>6 DEF DeleteBroadcast, AllWoken
<1>7. ASSUME NEW c \in Clients,
             \/ PushCount(c) \/ PushStore(c) \/ PushMark(c) \/ PushSpawn(c)
             \/ PushUnlock(c) \/ DeleteCall(c) \/ DeleteCheck(c) \/ DeleteStore(c)
             \/ DeleteJoin(c)
      PROVE  AllThreadsStarted
  BY <1>7 DEF PushCount, MutexFree, PushStore, PushMark, PushSpawn, NeedThread,
     PushUnlock, DeleteCall, Deleting, DeleteCheck, QueueLooksEmpty, DeleteStore,
     DeleteJoin, ThreadsExited
<1>8. CASE PoolUntouched
  BY <1>8 DEF PoolUntouched, RestPcs, JoinPcs, DetachPcs
<1> QED
  BY PoolSteps, <1>1, <1>2, <1>3, <1>4, <1>5, <1>6, <1>7, <1>8

\* The first push starts a thread, as no task is in progress without one.
LEMMA SignalHasThreadNext ==
    ASSUME TypeOK, SignalHasThread, [Next]_vars
    PROVE  SignalHasThread'
<1> USE ConstantsAssumption DEF ConstantsAssumption, TypeOK, PoolTypeOK, WorkerTypeOK,
        ClientTypeOK, SignalHasThread
<1>1. ASSUME NEW w \in Workers, WorkerCount(w) PROVE SignalHasThread'
  BY <1>1 DEF WorkerCount, Counted, Workers
<1>2. ASSUME NEW w \in Workers, WorkerComplete(w) PROVE SignalHasThread'
  BY <1>2 DEF WorkerComplete, Workers
<1>3. ASSUME NEW w \in Workers,
             \/ WorkerTest(w) \/ WorkerWait(w) \/ WorkerCheck(w) \/ WorkerPop(w)
             \/ WorkerTake(w) \/ WorkerRead(w)
      PROVE  SignalHasThread'
  BY <1>3 DEF WorkerTest, MutexFree, WorkerWait, WorkerCheck, WorkerPop, WorkerTake,
     WorkerRead, LastPushed
<1>4. ASSUME NEW c \in Clients, NEW t \in Tasks, PushCheck(c, t) PROVE SignalHasThread'
  BY <1>4 DEF PushCheck, Deleting, QueueFull
<1>5. ASSUME NEW c \in Clients, PushSpawn(c) PROVE SignalHasThread'
  BY <1>5 DEF PushSpawn, NeedThread
<1>6. ASSUME NEW c \in Clients, PushCreate(c) PROVE SignalHasThread'
  BY <1>6 DEF PushCreate, Workers
<1>7. ASSUME NEW c \in Clients, PushCreateFails(c) PROVE SignalHasThread'
  BY <1>7 DEF PushCreateFails, Workers
<1>8. ASSUME NEW c \in Clients, PushUnlock(c) PROVE SignalHasThread'
  BY <1>8 DEF PushUnlock
<1>9. ASSUME NEW c \in Clients, DeleteBroadcast(c) PROVE SignalHasThread'
  BY <1>9 DEF DeleteBroadcast, AllWoken
<1>10. ASSUME NEW c \in Clients,
             \/ PushCount(c) \/ PushStore(c) \/ PushMark(c) \/ PushSignal(c)
             \/ DeleteCall(c) \/ DeleteCheck(c) \/ DeleteStore(c) \/ DeleteJoin(c)
      PROVE  SignalHasThread'
  BY <1>10 DEF PushCount, MutexFree, PushStore, PushMark, PushSignal, DeleteCall,
     Deleting, DeleteCheck, QueueLooksEmpty, DeleteStore, DeleteJoin, ThreadsExited
<1>11. CASE PoolUntouched
  BY <1>11 DEF PoolUntouched, RestPcs, JoinPcs, DetachPcs, TaskPcs
<1> QED
  BY PoolSteps, <1>1, <1>2, <1>3, <1>4, <1>5, <1>6, <1>7, <1>8, <1>9, <1>10, <1>11

\* No step leaves tasks behind with every thread asleep or gone.
LEMMA AttendedNext ==
    ASSUME TypeOK, DeleteProtocol, SignalHasThread, AllThreadsStarted, NoPendingUnlock,
           ThreadFits, TestsHold, DeletedIsEmpty, Attended, [Next]_vars, AllThreadsStarted'
    PROVE  Attended'
<1> USE ConstantsAssumption DEF ConstantsAssumption, TypeOK, PoolTypeOK, WorkerTypeOK,
        ClientTypeOK, NoPendingUnlock, Attended, Awake, Pushes
<1>1. ASSUME NEW w \in Workers, WorkerTest(w) PROVE Attended'
  BY <1>1 DEF WorkerTest, MutexFree
<1>2. ASSUME NEW w \in Workers, WorkerWait(w) PROVE Attended'
  BY <1>2 DEF WorkerWait, TestsHold
<1>3. ASSUME NEW w \in Workers, WorkerCheck(w) PROVE Attended'
  BY <1>3 DEF WorkerCheck, DeletedIsEmpty
<1>4. ASSUME NEW w \in Workers, WorkerPop(w) PROVE Attended'
  BY <1>4 DEF WorkerPop
<1>5. ASSUME NEW w \in Workers, WorkerTake(w) PROVE Attended'
  BY <1>5 DEF WorkerTake
<1>6. ASSUME NEW w \in Workers,
             \/ WorkerRead(w) \/ WorkerCount(w) \/ WorkerComplete(w)
      PROVE  Attended'
  BY <1>6 DEF WorkerRead, LastPushed, WorkerCount, Counted, WorkerComplete
<1>7. ASSUME NEW c \in Clients, NEW t \in Tasks, PushCheck(c, t) PROVE Attended'
  BY <1>7 DEF PushCheck, Deleting, QueueFull
<1>8. ASSUME NEW c \in Clients, PushCount(c) PROVE Attended'
  BY <1>8 DEF PushCount, MutexFree
<1>9. ASSUME NEW c \in Clients, PushStore(c) PROVE Attended'
  BY <1>9 DEF PushStore
<1>10. ASSUME NEW c \in Clients, PushMark(c) PROVE Attended'
  BY <1>10 DEF PushMark
<1>11. ASSUME NEW c \in Clients, PushSpawn(c) PROVE Attended'
  BY <1>11, SMT, ZenonT(60) DEF PushSpawn, NeedThread
<1>12. ASSUME NEW c \in Clients, PushCreate(c) PROVE Attended'
  BY <1>12 DEF PushCreate, Workers
<1>13. ASSUME NEW c \in Clients, PushCreateFails(c) PROVE Attended'
  <2> QED
    BY <1>13, FailedSpawnCounted
<1>14. ASSUME NEW c \in Clients, PushUnlock(c) PROVE Attended'
  BY <1>14 DEF PushUnlock
<1>15. ASSUME NEW c \in Clients, PushSignal(c) PROVE Attended'
  <2>1. 1 \in Workers /\ wpc[1] # "absent"
    BY <1>15 DEF PushSignal, AllThreadsStarted, Workers, SignalHasThread
  <2>2. ~is_deleted
    BY <1>15 DEF PushSignal, DeleteProtocol, PushPcs, DeletePcs
  <2>3. wpc[1] \notin {"absent", "exited"}
    BY <2>1, <2>2 DEF DeleteProtocol
  <2>4. CASE \E w \in Workers : wpc[w] = "asleep"
    BY <1>15, <2>4, ZenonT(60) DEF PushSignal
  <2>5. CASE \A w \in Workers : wpc[w] # "asleep"
    BY <1>15, <2>1, <2>3, <2>5, SMT, ZenonT(60) DEF PushSignal
  <2> QED
    BY <2>4, <2>5
<1>16. ASSUME NEW c \in Clients, DeleteBroadcast(c) PROVE Attended'
  BY <1>16 DEF DeleteBroadcast, AllWoken
<1>17. ASSUME NEW c \in Clients,
             \/ DeleteCall(c) \/ DeleteCheck(c) \/ DeleteStore(c) \/ DeleteJoin(c)
      PROVE  Attended'
  BY <1>17 DEF DeleteCall, Deleting, DeleteCheck, QueueLooksEmpty, DeleteStore,
     DeleteJoin, ThreadsExited
<1>18. CASE PoolUntouched
  BY <1>18 DEF PoolUntouched, RestPcs, JoinPcs, DetachPcs, TaskPcs
<1> QED
  BY PoolSteps, <1>1, <1>2, <1>3, <1>4, <1>5, <1>6, <1>7, <1>8, <1>9, <1>10, <1>11,
     <1>12, <1>13, <1>14, <1>15, <1>16, <1>17, <1>18

-----------------------------------------------------------------------------
(* The counters *)

\* Lines 132 and 148 count each worker in and out once.
LEMMA ProgressStep ==
    ASSUME TypeOK, ArrayInv, [Next]_vars
    PROVE  ProgressMoves
<1> USE ConstantsAssumption DEF ConstantsAssumption, TypeOK, PoolTypeOK, WorkerTypeOK,
        ClientTypeOK, ProgressMoves, InProgress
<1>1. ASSUME NEW w \in Workers, WorkerCount(w) PROVE ProgressMoves
  <2>1. wtask[w] \in Tasks
    BY <1>1 DEF WorkerCount, ArrayInv
  <2> QED
    BY <1>1, <2>1 DEF WorkerCount, Counted
<1>2. ASSUME NEW w \in Workers, WorkerComplete(w) PROVE ProgressMoves
  BY <1>2 DEF WorkerComplete
<1>3. ASSUME NEW w \in Workers,
             \/ WorkerTest(w) \/ WorkerWait(w) \/ WorkerCheck(w) \/ WorkerPop(w)
             \/ WorkerTake(w) \/ WorkerRead(w)
      PROVE  ProgressMoves
  BY <1>3 DEF WorkerTest, MutexFree, WorkerWait, WorkerCheck, WorkerPop, WorkerTake,
     WorkerRead, LastPushed
<1>4. ASSUME NEW c \in Clients, NEW t \in Tasks, PushCheck(c, t) PROVE ProgressMoves
  BY <1>4 DEF PushCheck, Deleting, QueueFull
<1>5. ASSUME NEW c \in Clients, PushCreate(c) PROVE ProgressMoves
  BY <1>5 DEF PushCreate, Workers
<1>6. ASSUME NEW c \in Clients, PushSignal(c) PROVE ProgressMoves
  BY <1>6 DEF PushSignal
<1>7. ASSUME NEW c \in Clients, DeleteBroadcast(c) PROVE ProgressMoves
  BY <1>7 DEF DeleteBroadcast, AllWoken
<1>8. ASSUME NEW c \in Clients,
             \/ PushCount(c) \/ PushStore(c) \/ PushMark(c) \/ PushSpawn(c)
             \/ PushCreateFails(c) \/ PushUnlock(c) \/ DeleteCall(c) \/ DeleteCheck(c)
             \/ DeleteStore(c) \/ DeleteJoin(c)
      PROVE  ProgressMoves
  BY <1>8 DEF PushCount, MutexFree, PushStore, PushMark, PushSpawn, NeedThread,
     PushCreateFails, Workers, PushUnlock, DeleteCall, Deleting, DeleteCheck,
     QueueLooksEmpty, DeleteStore, DeleteJoin, ThreadsExited
<1>9. CASE PoolUntouched
  BY <1>9 DEF PoolUntouched, RestPcs, JoinPcs, DetachPcs
<1> QED
  BY PoolSteps, <1>1, <1>2, <1>3, <1>4, <1>5, <1>6, <1>7, <1>8, <1>9

\* tasks_in_progress_count stays the number of workers in progress.
LEMMA InProgressNext ==
    ASSUME TypeOK, ArrayInv, MutexWhole, InProgressExact, [Next]_vars
    PROVE  InProgressExact'
<1>1. ProgressMoves
  BY ProgressStep
<1>2. IsFiniteSet(InProgress)
  <2>1. IsFiniteSet(Workers)
    BY FS_Interval, ConstantsAssumption DEF ConstantsAssumption, Workers
  <2> QED
    BY <2>1, FS_Subset DEF InProgress
<1>3. Cardinality(InProgress) \in Nat
  BY <1>2, FS_CardinalityType
<1>4. CASE InProgress' = InProgress /\ tasks_in_progress_count' = tasks_in_progress_count
  BY <1>4 DEF InProgressExact
<1>5. ASSUME NEW w \in Workers, w \notin InProgress, InProgress' = InProgress \cup {w},
             tasks_in_progress_count' = tasks_in_progress_count + 1
      PROVE  InProgressExact'
  BY <1>2, <1>5, FS_AddElement DEF InProgressExact
<1>6. ASSUME NEW w \in Workers, w \in InProgress, InProgress' = InProgress \ {w},
             tasks_in_progress_count' = tasks_in_progress_count - 1
      PROVE  InProgressExact'
  BY <1>2, <1>6, FS_RemoveElement DEF InProgressExact
<1> QED
  BY <1>1, <1>4, <1>5, <1>6 DEF ProgressMoves

\* A push passes line 174 only below the limit and then adds one task.
LEMMA PushingStep ==
    ASSUME TypeOK, [Next]_vars
    PROVE  PushingMoves
<1> USE ConstantsAssumption DEF ConstantsAssumption, TypeOK, PoolTypeOK, WorkerTypeOK,
        ClientTypeOK, PushingMoves, Pushing
<1>1. ASSUME NEW w \in Workers, WorkerTake(w) PROVE PushingMoves
  BY <1>1 DEF WorkerTake
<1>2. ASSUME NEW w \in Workers,
             \/ WorkerTest(w) \/ WorkerWait(w) \/ WorkerCheck(w) \/ WorkerPop(w)
             \/ WorkerRead(w) \/ WorkerCount(w) \/ WorkerComplete(w)
      PROVE  PushingMoves
  BY <1>2 DEF WorkerTest, MutexFree, WorkerWait, WorkerCheck, WorkerPop, WorkerRead,
     LastPushed, WorkerCount, Counted, WorkerComplete
<1>3. ASSUME NEW c \in Clients, NEW t \in Tasks, PushCheck(c, t) PROVE PushingMoves
  BY <1>3 DEF PushCheck, Deleting, QueueFull
<1>4. ASSUME NEW c \in Clients, PushCount(c) PROVE PushingMoves
  BY <1>4 DEF PushCount, MutexFree
<1>5. ASSUME NEW c \in Clients, PushSpawn(c) PROVE PushingMoves
  BY <1>5 DEF PushSpawn, NeedThread
<1>6. ASSUME NEW c \in Clients, PushSignal(c) PROVE PushingMoves
  BY <1>6 DEF PushSignal
<1>7. ASSUME NEW c \in Clients, DeleteBroadcast(c) PROVE PushingMoves
  BY <1>7 DEF DeleteBroadcast, AllWoken
<1>8. ASSUME NEW c \in Clients,
             \/ PushStore(c) \/ PushMark(c) \/ PushCreate(c) \/ PushCreateFails(c)
             \/ PushUnlock(c) \/ DeleteCall(c) \/ DeleteCheck(c) \/ DeleteStore(c)
             \/ DeleteJoin(c)
      PROVE  PushingMoves
  BY <1>8 DEF PushStore, PushMark, PushCreate, Workers, PushCreateFails, PushUnlock,
     DeleteCall, Deleting, DeleteCheck, QueueLooksEmpty, DeleteStore, DeleteJoin,
     ThreadsExited
<1>9. CASE PoolUntouched
  BY <1>9 DEF PoolUntouched, RestPcs, JoinPcs, DetachPcs, TaskPcs
<1> QED
  BY PoolSteps, <1>1, <1>2, <1>3, <1>4, <1>5, <1>6, <1>7, <1>8, <1>9

\* The array and the pushes past the check stay within the bound.
LEMMA QueueBoundNext == TypeOK /\ TypeOK' /\ QueueBound /\ [Next]_vars => QueueBound'
<1> SUFFICES ASSUME TypeOK, TypeOK', QueueBound, [Next]_vars PROVE QueueBound'
  OBVIOUS
<1> USE ConstantsAssumption DEF ConstantsAssumption
<1>1. PushingMoves
  BY PushingStep
<1>2. /\ IsFiniteSet(Clients) /\ Cardinality(Clients) \in Nat
      /\ IsFiniteSet(Pushing) /\ Cardinality(Pushing) \in Nat
  BY PushingIsFinite
<1>3. Cardinality(Pushing') \in Nat /\ Cardinality(Pushing') <= Cardinality(Clients)
  <2>1. Pushing' \in SUBSET Clients
    BY DEF Pushing
  <2> QED
    BY <2>1, FS_Subset, FS_CardinalityType
<1>4. tasks_count \in Int /\ tasks_count' \in Int
  BY DEF TypeOK, PoolTypeOK
<1>5. CASE Pushing' = Pushing /\ tasks_count' <= tasks_count
  BY <1>2, <1>4, <1>5 DEF QueueBound
<1>6. CASE tasks_count < MaxTasks /\ tasks_count' = tasks_count
  BY <1>2, <1>3, <1>4, <1>6 DEF QueueBound
<1>7. ASSUME NEW c \in Pushing, Pushing' = Pushing \ {c}, tasks_count' = tasks_count + 1
      PROVE  QueueBound'
  <2>1. Cardinality(Pushing') = Cardinality(Pushing) - 1
    BY <1>2, <1>7, FS_RemoveElement
  <2> QED
    BY <1>2, <1>4, <1>7, <2>1 DEF QueueBound
<1> QED
  BY <1>1, <1>5, <1>6, <1>7 DEF PushingMoves

-----------------------------------------------------------------------------
(* The theorems *)

\* The invariant holds of a new pool.
LEMMA PoolInvInit == Init => PoolInv
<1> SUFFICES ASSUME Init PROVE PoolInv
  OBVIOUS
<1> USE ConstantsAssumption DEF ConstantsAssumption
<1>1. TypeOK
  BY TypeOKInit
<1>2. DeleteProtocol
  BY DEF Init, DeleteProtocol, DeletePcs, PushPcs
<1>3. SignalHasThread
  BY DEF Init, SignalHasThread
<1>4. StartedInv
  BY DEF Init, StartedInv, NoPendingUnlock, Attended
<1>5. LockHeld /\ ThreadFits /\ TestsHold /\ DeletedIsEmpty
  BY DEF Init, LockHeld, InCritical, Pushes, ThreadFits, TestsHold, DeletedIsEmpty
<1>6. ArrayInv
  <2>1. QueueLen = 0
    BY DEF Init, QueueLen
  <2> QED
    BY <2>1 DEF Init, ArrayInv
<1>7. InProgressExact
  <2>1. InProgress = {}
    BY DEF Init, InProgress
  <2> QED
    BY <2>1, FS_EmptySet DEF Init, InProgressExact
<1>8. QueueBound
  <2>1. Pushing = {}
    BY DEF Init, Pushing
  <2> QED
    BY <2>1, PushingIsFinite, FS_EmptySet DEF Init, QueueBound
<1> QED
  BY <1>1, <1>2, <1>3, <1>4, <1>5, <1>6, <1>7, <1>8 DEF PoolInv, WholeInv

\* Every step preserves the invariant.
LEMMA PoolInvNext == PoolInv /\ [Next]_vars => PoolInv'
<1> SUFFICES ASSUME PoolInv, [Next]_vars PROVE PoolInv'
  OBVIOUS
<1>1. TypeOK' /\ DeleteProtocol' /\ SignalHasThread' /\ QueueBound'
  <2>1. TypeOK'
    BY TypeOKNext DEF PoolInv, WholeInv
  <2> QED
    BY <2>1, DeleteProtocolNext, SignalHasThreadNext, QueueBoundNext DEF PoolInv
<1>2. ASSUME AllThreadsStarted' PROVE MutexWhole' /\ NoPendingUnlock' /\ Attended'
  <2>1. AllThreadsStarted /\ MutexWhole /\ NoPendingUnlock /\ Attended
    BY <1>2, StartedBefore DEF PoolInv, StartedInv
  <2>2. WholeInv
    BY <2>1 DEF PoolInv
  <2>3. MutexWhole' /\ NoPendingUnlock'
    BY <1>2, <2>1, <2>2, UnlockStays, FailedSpawnCounted DEF PoolInv, WholeInv
  <2> QED
    BY <1>2, <2>1, <2>2, <2>3, AttendedNext DEF PoolInv, WholeInv
<1>3. ASSUME MutexWhole' PROVE WholeInv' /\ InProgressExact'
  <2>1. MutexWhole
    BY <1>3, WholeBefore DEF PoolInv
  <2>2. LockHeld /\ ThreadFits /\ TestsHold /\ ArrayInv /\ DeletedIsEmpty
    BY <2>1 DEF PoolInv, WholeInv
  <2>3. LockHeld' /\ ThreadFits' /\ TestsHold' /\ ArrayInv' /\ DeletedIsEmpty'
    BY <1>3, <2>2, LockHeldNext, ThreadFitsNext, TestsHoldNext, ArrayInvNext, DeletedIsEmptyNext
    DEF PoolInv
  <2>4. InProgressExact'
    BY <2>1, <2>2, InProgressNext DEF PoolInv
  <2> QED
    BY <2>3, <2>4 DEF WholeInv
<1>4. StartedInv' /\ (MutexWhole => WholeInv)' /\ InProgressExact'
  BY <1>2, <1>3 DEF StartedInv, InProgressExact
<1> QED
  BY <1>1, <1>4 DEF PoolInv

\* PoolInv is an invariant of the pool.
THEOREM PoolInvariance == Spec => []PoolInv
  BY PoolInvInit, PoolInvNext, PTL DEF Spec

\* Every variable keeps its type, and threads_count its limit (line 183).
THEOREM TypeCorrect == Spec => []TypeOK
<1>1. PoolInv => TypeOK
  BY DEF PoolInv
<1> QED
  BY <1>1, PoolInvariance, PTL

\* pool->mutex excludes: while it is whole, a thread between its lock and unlock holds
\* it, and it is whole until a pthread_create fails.
THEOREM ThreadsExclude == Spec => []MutualExclusion
<1>1. PoolInv => MutualExclusion
  BY DEF PoolInv, StartedInv, WholeInv, MutualExclusion
<1> QED
  BY <1>1, PoolInvariance, PTL

\* pool->mutex excludes, and while it is whole a worker sleeps on an empty array and
\* takes from one with a task: its test of tasks_count (line 119) is not stale.
THEOREM TestsAreNotStale == Spec => []TestStillHolds
<1>1. PoolInv => TestStillHolds
  BY DEF PoolInv, StartedInv, WholeInv, MutualExclusion, TestStillHolds
<1> QED
  BY <1>1, PoolInvariance, PTL

\* Until a pthread_create fails, tasks in the array have a thread awake or a signal on
\* its way.
THEOREM PushesAreNotLost == Spec => []QueueIsAttended
<1>1. PoolInv => QueueIsAttended
  BY DEF PoolInv, StartedInv, QueueIsAttended
<1> QED
  BY <1>1, PoolInvariance, PTL

\* The array grows past TPOOL_MAX_TASKS by less than the number of clients, whatever
\* pthread_create does.
THEOREM ArrayIsBounded == Spec => []QueueBound
<1>1. PoolInv => QueueBound
  BY DEF PoolInv
<1> QED
  BY <1>1, PoolInvariance, PTL

\* While the mutex is whole, tasks_in_progress_count is the number of workers between
\* lines 132 and 148.
THEOREM ProgressIsCounted == Spec => []InProgressExact
<1>1. PoolInv => InProgressExact
  BY DEF PoolInv
<1> QED
  BY <1>1, PoolInvariance, PTL

\* The pool is freed when every worker has left and no client pushes, whatever
\* pthread_create does.
THEOREM FreedPoolIsUnused == Spec => []PoolOutlivesUsers
<1>1. PoolInv => PoolOutlivesUsers
  BY DEF PoolInv, DeleteProtocol, PoolOutlivesUsers
<1> QED
  BY <1>1, PoolInvariance, PTL

-----------------------------------------------------------------------------
(***************************************************************************)
(* The tasks, as long as the mutex is whole.                               *)
(***************************************************************************)

\* The positions of a client within a call on a task.
PushedPcs == {"push_lock", "push_store", "push_mark"}
TaskCallPcs == PushedPcs \cup JoinPcs \cup DetachPcs

\* No task has two indexes of the array, two workers, or one of each.
OneIndex == \A i, j \in 0 .. QueueLen - 1 : tasks[i] = tasks[j] => i = j

OneWorker ==
    \A v, w \in Workers :
        /\ wpc[v] \in InPool \cup {"free"} /\ wpc[w] \in InPool \cup {"free"}
        /\ wtask[v] = wtask[w]
        => v = w

QueuedOrHeld == \A t \in Tasks : Queued(t) => ~Held(t, InPool \cup {"free"})

\* What the status is of a task that a worker or the array has.
PlaceTellsStatus ==
    /\ \A t \in Tasks : Queued(t) => status[t] \in {"WAITING", "DETACHED"}
    /\ \A w \in Workers :
         /\ wpc[w] \in InPool \cup {"free", "signal"} => wtask[w] \in Tasks
         /\ wpc[w] \in {"count", "start"} => status[wtask[w]] \in {"WAITING", "DETACHED"}
         /\ wpc[w] \in {"run", "publish"} => status[wtask[w]] \in {"RUNNING", "DETACHED"}
         /\ wpc[w] = "publish" => result[wtask[w]] = "fresh"
         /\ wpc[w] = "free" => status[wtask[w]] = "JOINED" /\ wtask[w] \in alive \ owned

\* Where a task is, and whose, by its status.
StatusTells ==
    \A t \in Tasks :
        /\ status[t] = "WAITING" => Queued(t) \/ Held(t, {"count", "start"})
        /\ status[t] = "RUNNING" => Held(t, {"run", "publish"})
        /\ status[t] = "DETACHED" => t \notin owned /\ (Queued(t) \/ Held(t, InPool))
        /\ status[t] = "ABSENT" => t \notin alive
        /\ status[t] \in {"WAITING", "RUNNING", "FINISHED", "DETACHED"} => t \in alive
        /\ status[t] \in {"FINISHED", "JOINED"} => result[t] = "fresh"
        /\ t \in owned => t \in alive

\* What a client relies on within a call on a task.  Only its owner calls, and by one
\* call at a time; so no other client frees, joins or pushes it meanwhile.
ClientTells ==
    \A c \in Clients :
        /\ cpc[c] \in TaskCallPcs =>
             ctask[c] \in Tasks /\ Owner[ctask[c]] = c /\ ctask[c] \in alive
        /\ cpc[c] \in PushedPcs =>
             ctask[c] \in owned /\ status[ctask[c]] \in {"CREATED", "JOINED"}
        /\ cpc[c] \in JoinPcs =>
             ctask[c] \in owned /\ status[ctask[c]] \in {"WAITING", "RUNNING", "FINISHED"}
        /\ cpc[c] = "join_take" => status[ctask[c]] = "FINISHED"
        /\ cpc[c] = "detach_lock" =>
             ctask[c] \notin owned /\ status[ctask[c]] \in {"WAITING", "RUNNING", "FINISHED"}
        /\ cpc[c] = "detach_free" =>
             /\ ctask[c] \notin owned /\ status[ctask[c]] = "JOINED"
             /\ ~Held(ctask[c], {"free"})

TaskInv ==
    /\ OneIndex /\ OneWorker /\ QueuedOrHeld
    /\ PlaceTellsStatus /\ StatusTells /\ ClientTells /\ SleepersAttended

\* A worker or a client that has to do with a task.
BusyPcs == InPool \cup {"free", "signal"}

\* A step that concerns no task.
TasksUntouched ==
    /\ QueueLen' = QueueLen /\ \A i \in 0 .. QueueLen - 1 : tasks'[i] = tasks[i]
    /\ UNCHANGED <<status, result, alive, owned>>
    /\ \A w \in Workers : wpc[w] \in BusyPcs \/ wpc'[w] \in BusyPcs =>
         wpc'[w] = wpc[w] /\ wtask'[w] = wtask[w]
    /\ \A c \in Clients : cpc[c] \in TaskCallPcs \/ cpc'[c] \in TaskCallPcs =>
         /\ ctask'[c] = ctask[c]
         /\ cpc'[c] = cpc[c] \/ {cpc[c], cpc'[c]} \subseteq PushedPcs

-----------------------------------------------------------------------------
(* The array *)

\* A step that leaves the used part of the array alone leaves each task in its place.
LEMMA PlacesStay ==
    ASSUME OneIndex, QueueLen' = QueueLen, \A i \in 0 .. QueueLen - 1 : tasks'[i] = tasks[i]
    PROVE  OneIndex' /\ \A t \in Tasks : Queued(t)' <=> Queued(t)
  BY DEF OneIndex, Queued

LEMMA QueueUntouchedKeeps ==
    ASSUME OneIndex, QueueUntouched
    PROVE  OneIndex' /\ \A t \in Tasks : Queued(t)' <=> Queued(t)
  BY QueueStays, PlacesStay DEF QueueUntouched

\* Taking the last task from the array leaves the other ones in it.
LEMMA ReadTakesLast ==
    ASSUME TypeOK, WholeInv, OneIndex, NEW w \in Workers, WorkerRead(w)
    PROVE  /\ OneIndex'
           /\ wtask'[w] \in Tasks /\ Queued(wtask'[w])
           /\ \A t \in Tasks : Queued(t)' <=> Queued(t) /\ t # wtask'[w]
<1>1. /\ QueueLen' = QueueLen - 1 /\ QueueLen = tasks_count + 1 /\ tasks' = tasks
      /\ wtask'[w] = tasks[QueueLen - 1]
  BY ReadPopsQueue DEF WholeInv
<1>2. QueueLen \in Nat \ {0}
  BY <1>1 DEF WholeInv, ArrayInv
<1>3. OneIndex'
  BY <1>1, <1>2 DEF OneIndex
<1>4. wtask'[w] \in Tasks /\ Queued(wtask'[w])
  <2>1. QueueLen - 1 \in 0 .. QueueLen - 1
    BY <1>2
  <2> QED
    BY <1>1, <2>1 DEF Queued, WholeInv, ArrayInv
<1>5. \A t \in Tasks : Queued(t)' <=> Queued(t) /\ t # wtask'[w]
  <2> DEFINE n == QueueLen
  <2>1. n \in Nat \ {0} /\ n - 1 \in 0 .. n - 1
    BY <1>2
  <2>2. \A i \in 0 .. n - 1 : i = n - 1 \/ i \in 0 .. (n - 1) - 1
    BY <2>1
  <2>3. \A i \in 0 .. (n - 1) - 1 : i \in 0 .. n - 1 /\ i # n - 1
    BY <2>1
  <2>4. \A t \in Tasks : Queued(t)' <=> \E i \in 0 .. (n - 1) - 1 : tasks[i] = t
    BY <1>1 DEF Queued
  <2>5. \A t \in Tasks : Queued(t) <=> \E i \in 0 .. n - 1 : tasks[i] = t
    BY DEF Queued
  <2>6. \A i, j \in 0 .. n - 1 : tasks[i] = tasks[j] => i = j
    BY DEF OneIndex
  <2>7. wtask'[w] = tasks[n - 1]
    BY <1>1
  <2> QED
    BY ONLY <2>1, <2>2, <2>3, <2>4, <2>5, <2>6, <2>7
<1> QED
  BY <1>3, <1>4, <1>5

\* A push adds its task to the ones in the array.
LEMMA MarkQueuesTask ==
    ASSUME TypeOK, WholeInv, OneIndex, NEW c \in Clients, PushMark(c), ~Queued(ctask[c])
    PROVE  OneIndex' /\ \A t \in Tasks : Queued(t)' <=> Queued(t) \/ t = ctask[c]
<1> DEFINE n == QueueLen
<1>1. /\ QueueLen' = n + 1 /\ n = tasks_count - 1
      /\ tasks' = tasks /\ tasks[n] = ctask[c]
  BY MarkAddsToQueue DEF WholeInv
<1>2. n \in Nat
  BY <1>1 DEF WholeInv, ArrayInv, PushMark
<1>3. \A i : i \in 0 .. (n + 1) - 1 <=> i \in 0 .. n - 1 \/ i = n
  BY ONLY <1>2
<1>4. /\ \A t : Queued(t)' <=> \E i \in 0 .. (n + 1) - 1 : tasks[i] = t
      /\ \A t : Queued(t) <=> \E i \in 0 .. n - 1 : tasks[i] = t
  BY <1>1 DEF Queued
<1>5. OneIndex'
  BY <1>1, <1>3, <1>4 DEF OneIndex
<1>6. \A t \in Tasks : Queued(t)' <=> Queued(t) \/ t = ctask[c]
  BY ONLY <1>1, <1>3, <1>4
<1> QED
  BY <1>5, <1>6

-----------------------------------------------------------------------------
(* The steps.  Each lemma has one step per part of the invariant. *)

\* A step that concerns no task keeps what is known of them.
LEMMA UntouchedKeeps == ASSUME TypeOK, TaskInv, TasksUntouched PROVE TaskInv'
<1> USE DEF TaskInv, TasksUntouched, BusyPcs, Held, Holds, InPool
<1>1. OneIndex' /\ \A u \in Tasks : Queued(u)' <=> Queued(u)
  BY PlacesStay
<1>2. OneWorker' /\ QueuedOrHeld' /\ PlaceTellsStatus'
  BY <1>1, SMTT(60) DEF OneWorker, QueuedOrHeld, PlaceTellsStatus
<1>3. StatusTells'
  BY <1>1 DEF StatusTells
<1>4. ClientTells' /\ SleepersAttended'
  BY <1>1 DEF ClientTells, SleepersAttended, TaskCallPcs, PushedPcs, JoinPcs, DetachPcs
<1> QED
  BY <1>1, <1>2, <1>3, <1>4

\* Threads that wait for work, start or are deleted concern no task, and neither does
\* a push or a worker that is halfway at the array.
LEMMA PoolStepsTouchNoTask ==
    ASSUME TypeOK, WholeInv, [Next]_vars
    PROVE  \/ TasksUntouched
           \/ \E w \in Workers :
                \/ WorkerRead(w) \/ WorkerCount(w) \/ WorkerStart(w) \/ WorkerComplete(w)
                \/ WorkerPublish(w) \/ WorkerFree(w) \/ WorkerSignal(w)
           \/ \E c \in Clients : \/ \E t \in Tasks :
                                     \/ TaskNew(c, t) \/ TaskDelete(c, t) \/ PushCheck(c, t)
                                     \/ JoinCall(c, t) \/ DetachCall(c, t)
                                \/ PushMark(c) \/ JoinTest(c) \/ JoinTake(c)
                                \/ TimedTest(c) \/ HugeTest(c)
                                \/ TimedExpire(c) \/ TimedGiveUp(c)
                                \/ PollTest(c) \/ DetachMark(c) \/ DetachFree(c)
                                \/ ClientWakesUp(c)
<1> DEFINE Others ==
      /\ UNCHANGED <<status, result, alive, owned>>
      /\ \A w \in Workers : wpc[w] \in BusyPcs \/ wpc'[w] \in BusyPcs =>
           wpc'[w] = wpc[w] /\ wtask'[w] = wtask[w]
      /\ \A c \in Clients : cpc[c] \in TaskCallPcs \/ cpc'[c] \in TaskCallPcs =>
           /\ ctask'[c] = ctask[c]
           /\ cpc'[c] = cpc[c] \/ {cpc[c], cpc'[c]} \subseteq PushedPcs
<1>1. ASSUME QueueUntouched, Others PROVE TasksUntouched
  BY <1>1, QueueStays DEF QueueUntouched, TasksUntouched
<1> USE ConstantsAssumption
        DEF ConstantsAssumption, TypeOK, PoolTypeOK, WorkerTypeOK, ClientTypeOK,
            BusyPcs, InPool, TaskCallPcs, PushedPcs, JoinPcs, DetachPcs
<1>2. ASSUME NEW w \in Workers,
             \/ WorkerTest(w) \/ WorkerWait(w) \/ WorkerCheck(w) \/ WorkerPop(w)
             \/ WorkerWakesUp(w)
      PROVE TasksUntouched
  <2>1. QueueUntouched
    BY <1>2 DEF WorkerTest, WorkerWait, WorkerCheck, WorkerPop, WorkerWakesUp, QueueUntouched,
                StorePcs
  <2>2. Others
    BY <1>2 DEF WorkerTest, WorkerWait, WorkerCheck, WorkerPop, WorkerWakesUp
  <2> QED
    BY ONLY <1>1, <2>1, <2>2
<1>3. ASSUME NEW w \in Workers, WorkerTake(w) PROVE TasksUntouched
  <2>1. QueueLen' = QueueLen /\ tasks' = tasks
    BY <1>3, TakeKeepsQueue DEF WholeInv
  <2>2. Others
    BY <1>3 DEF WorkerTake
  <2> QED
    BY <2>1, <2>2 DEF TasksUntouched
<1>4. ASSUME NEW c \in Clients, PushCount(c) PROVE TasksUntouched
  <2>1. QueueLen' = QueueLen /\ tasks' = tasks
    BY <1>4, CountKeepsQueue DEF WholeInv
  <2>2. Others
    BY <1>4 DEF PushCount
  <2> QED
    BY <2>1, <2>2 DEF TasksUntouched
<1>5. ASSUME NEW c \in Clients, PushStore(c) PROVE TasksUntouched
  <2>1. QueueLen' = QueueLen /\ \A i \in 0 .. QueueLen - 1 : tasks'[i] = tasks[i]
    BY <1>5, StoreKeepsQueue DEF WholeInv
  <2>2. Others
    BY <1>5 DEF PushStore
  <2> QED
    BY <2>1, <2>2 DEF TasksUntouched
<1>6. ASSUME NEW c \in Clients,
             \/ PushSpawn(c) \/ PushCreate(c) \/ PushCreateFails(c) \/ PushUnlock(c)
             \/ PushSignal(c)
      PROVE TasksUntouched
  <2>1. QueueUntouched
    BY <1>6 DEF PushSpawn, PushCreate, PushCreateFails, PushUnlock, PushSignal,
       QueueUntouched, StorePcs
  <2>2. Others
    BY <1>6 DEF PushSpawn, PushCreate, PushCreateFails, PushUnlock, PushSignal
  <2> QED
    BY ONLY <1>1, <2>1, <2>2
<1>7. ASSUME NEW c \in Clients,
             \/ DeleteCall(c) \/ DeleteCheck(c) \/ DeleteStore(c) \/ DeleteBroadcast(c)
             \/ DeleteJoin(c)
      PROVE TasksUntouched
  <2>1. QueueUntouched
    BY <1>7 DEF DeleteCall, DeleteCheck, DeleteStore, DeleteBroadcast, DeleteJoin,
       AllWoken, QueueUntouched, StorePcs
  <2>2. Others
    BY <1>7 DEF DeleteCall, DeleteCheck, DeleteStore, DeleteBroadcast, DeleteJoin, AllWoken
  <2> QED
    BY ONLY <1>1, <2>1, <2>2
<1>8. CASE UNCHANGED vars
  <2>1. QueueUntouched /\ Others
    BY <1>8 DEF QueueUntouched, StorePcs
  <2> QED
    BY ONLY <1>1, <2>1
<1> QED
  BY <1>2, <1>3, <1>4, <1>5, <1>6, <1>7, <1>8 DEF Next, WorkerStep, ClientCall, ClientStep,
     Environment

\* The task a worker takes is in no other place and moves from the array to the
\* worker.
LEMMA WorkerReadKeeps ==
    ASSUME TypeOK, WholeInv, TaskInv, NEW w \in Workers, WorkerRead(w) PROVE TaskInv'
<1> USE ConstantsAssumption
        DEF ConstantsAssumption, TypeOK, PoolTypeOK, LifeTypeOK, TaskTypeOK, WorkerTypeOK,
            ClientTypeOK,
            TaskInv, Held, Holds, InPool, TaskCallPcs, PushedPcs, JoinPcs, DetachPcs, WorkerRead
<1>1. /\ OneIndex'
      /\ wtask'[w] \in Tasks /\ Queued(wtask'[w])
      /\ \A u \in Tasks : Queued(u)' <=> Queued(u) /\ u # wtask'[w]
  BY ReadTakesLast
<1>2. OneWorker' /\ QueuedOrHeld'
  BY <1>1, SMTT(60) DEF OneWorker, QueuedOrHeld, PlaceTellsStatus, StatusTells, ClientTells
<1>3. PlaceTellsStatus'
  BY <1>1, SMTT(60) DEF OneWorker, QueuedOrHeld, PlaceTellsStatus, StatusTells, ClientTells
<1>4. StatusTells'
  BY <1>1, SMTT(60) DEF OneWorker, QueuedOrHeld, PlaceTellsStatus, StatusTells, ClientTells
<1>5. ClientTells'
  <2>1. UNCHANGED <<cpc, ctask, alive, owned, status>>
    OBVIOUS
  <2>2. \A t : Held(t, {"free"})' => Held(t, {"free"})
    OBVIOUS
  <2> QED
    BY ONLY TaskInv, <2>1, <2>2 DEF TaskInv, ClientTells
<1>6. SleepersAttended'
  <2>1. UNCHANGED <<cpc, ctask>>
    OBVIOUS
  <2>2. \A t : t = wtask'[w] => Held(t, InPool \cup {"signal"})'
    BY SMTT(60)
  <2>3. \A t : Held(t, InPool \cup {"signal"}) => Held(t, InPool \cup {"signal"})'
    BY SMTT(60)
  <2>4. \A c \in Clients : cpc[c] \in {"join_asleep", "timed_asleep"} => ctask[c] \in Tasks
    BY DEF ClientTells
  <2> QED
    BY ONLY TaskInv, <1>1, <2>1, <2>2, <2>3, <2>4 DEF TaskInv, SleepersAttended
<1> QED
  BY <1>1, <1>2, <1>3, <1>4, <1>5, <1>6

\* A worker counts itself in.
LEMMA WorkerCountKeeps ==
    ASSUME TypeOK, TaskInv, NEW w \in Workers, WorkerCount(w) PROVE TaskInv'
<1> USE ConstantsAssumption
        DEF ConstantsAssumption, TypeOK, PoolTypeOK, LifeTypeOK, TaskTypeOK, WorkerTypeOK,
            ClientTypeOK,
            TaskInv, Held, Holds, InPool, TaskCallPcs, PushedPcs, JoinPcs, DetachPcs, WorkerCount
<1>1. OneIndex' /\ \A u \in Tasks : Queued(u)' <=> Queued(u)
  BY QueueUntouchedKeeps DEF QueueUntouched, StorePcs
<1>2. OneWorker' /\ QueuedOrHeld'
  BY <1>1, SMTT(60) DEF OneWorker, QueuedOrHeld, PlaceTellsStatus, StatusTells, ClientTells
<1>3. PlaceTellsStatus'
  BY <1>1, SMTT(60) DEF OneWorker, QueuedOrHeld, PlaceTellsStatus, StatusTells, ClientTells
<1>4. StatusTells'
  BY <1>1, SMTT(60) DEF OneWorker, QueuedOrHeld, PlaceTellsStatus, StatusTells, ClientTells
<1>5. ClientTells'
  BY <1>1, SMTT(60) DEF OneWorker, QueuedOrHeld, PlaceTellsStatus, StatusTells, ClientTells
<1>6. SleepersAttended'
  BY <1>1, SMTT(60) DEF PlaceTellsStatus, StatusTells, ClientTells, SleepersAttended
<1> QED
  BY <1>1, <1>2, <1>3, <1>4, <1>5, <1>6

\* The function of the task starts; a detached task stays detached.
LEMMA WorkerStartKeeps ==
    ASSUME TypeOK, TaskInv, NEW w \in Workers, WorkerStart(w) PROVE TaskInv'
<1> USE ConstantsAssumption
        DEF ConstantsAssumption, TypeOK, PoolTypeOK, LifeTypeOK, TaskTypeOK, WorkerTypeOK,
            ClientTypeOK,
            TaskInv, Held, Holds, InPool, TaskCallPcs, PushedPcs, JoinPcs, DetachPcs,
            WorkerStart, StartedStatus
<1>1. OneIndex' /\ \A u \in Tasks : Queued(u)' <=> Queued(u)
  BY QueueUntouchedKeeps DEF QueueUntouched, StorePcs
<1>2. OneWorker' /\ QueuedOrHeld'
  BY <1>1, SMTT(60) DEF OneWorker, QueuedOrHeld, PlaceTellsStatus, StatusTells, ClientTells
<1>3. PlaceTellsStatus'
  BY <1>1, SMTT(60) DEF OneWorker, QueuedOrHeld, PlaceTellsStatus, StatusTells, ClientTells
<1>4. StatusTells'
  BY <1>1, SMTT(60) DEF OneWorker, QueuedOrHeld, PlaceTellsStatus, StatusTells, ClientTells
<1>5. ClientTells'
  BY <1>1, SMTT(60) DEF OneWorker, QueuedOrHeld, PlaceTellsStatus, StatusTells, ClientTells
<1>6. SleepersAttended'
  BY <1>1, SMTT(60) DEF PlaceTellsStatus, StatusTells, ClientTells, SleepersAttended
<1> QED
  BY <1>1, <1>2, <1>3, <1>4, <1>5, <1>6

\* The function returns.
LEMMA WorkerCompleteKeeps ==
    ASSUME TypeOK, TaskInv, NEW w \in Workers, WorkerComplete(w) PROVE TaskInv'
<1> USE ConstantsAssumption
        DEF ConstantsAssumption, TypeOK, PoolTypeOK, LifeTypeOK, TaskTypeOK, WorkerTypeOK,
            ClientTypeOK,
            TaskInv, Held, Holds, InPool, TaskCallPcs, PushedPcs, JoinPcs, DetachPcs, WorkerComplete
<1>1. OneIndex' /\ \A u \in Tasks : Queued(u)' <=> Queued(u)
  BY QueueUntouchedKeeps DEF QueueUntouched, StorePcs
<1>2. OneWorker' /\ QueuedOrHeld'
  BY <1>1, SMTT(60) DEF OneWorker, QueuedOrHeld, PlaceTellsStatus, StatusTells, ClientTells
<1>3. PlaceTellsStatus'
  BY <1>1, SMTT(60) DEF OneWorker, QueuedOrHeld, PlaceTellsStatus, StatusTells, ClientTells
<1>4. StatusTells'
  BY <1>1, SMTT(60) DEF OneWorker, QueuedOrHeld, PlaceTellsStatus, StatusTells, ClientTells
<1>5. ClientTells'
  BY <1>1, SMTT(60) DEF OneWorker, QueuedOrHeld, PlaceTellsStatus, StatusTells, ClientTells
<1>6. SleepersAttended'
  BY <1>1, SMTT(60) DEF PlaceTellsStatus, StatusTells, ClientTells, SleepersAttended
<1> QED
  BY <1>1, <1>2, <1>3, <1>4, <1>5, <1>6

\* The status is published, and nobody else can free a task that was detached.
LEMMA WorkerPublishKeeps ==
    ASSUME TypeOK, TaskInv, NEW w \in Workers, WorkerPublish(w) PROVE TaskInv'
<1> USE ConstantsAssumption
        DEF ConstantsAssumption, TypeOK, PoolTypeOK, LifeTypeOK, TaskTypeOK, WorkerTypeOK,
            ClientTypeOK,
            TaskInv, Held, Holds, InPool, TaskCallPcs, PushedPcs, JoinPcs, DetachPcs,
            WorkerPublish, Detached
<1>1. OneIndex' /\ \A u \in Tasks : Queued(u)' <=> Queued(u)
  BY QueueUntouchedKeeps DEF QueueUntouched, StorePcs
<1>2. OneWorker' /\ QueuedOrHeld'
  BY <1>1, SMTT(60) DEF OneWorker, QueuedOrHeld, PlaceTellsStatus, StatusTells, ClientTells
<1>3. PlaceTellsStatus'
  BY <1>1, SMTT(60) DEF OneWorker, QueuedOrHeld, PlaceTellsStatus, StatusTells, ClientTells
<1>4. StatusTells'
  BY <1>1, SMTT(60) DEF OneWorker, QueuedOrHeld, PlaceTellsStatus, StatusTells, ClientTells
<1>5. ClientTells'
  BY <1>1, SMTT(60) DEF OneWorker, QueuedOrHeld, PlaceTellsStatus, StatusTells, ClientTells
<1>6. SleepersAttended'
  BY <1>1, SMTT(60) DEF PlaceTellsStatus, StatusTells, ClientTells, SleepersAttended
<1> QED
  BY <1>1, <1>2, <1>3, <1>4, <1>5, <1>6

\* A detached task is freed by the worker that ran it, which nobody else refers to.
LEMMA WorkerFreeKeeps ==
    ASSUME TypeOK, TaskInv, NEW w \in Workers, WorkerFree(w) PROVE TaskInv'
<1> USE ConstantsAssumption
        DEF ConstantsAssumption, TypeOK, PoolTypeOK, LifeTypeOK, TaskTypeOK, WorkerTypeOK,
            ClientTypeOK,
            TaskInv, Held, Holds, InPool, TaskCallPcs, PushedPcs, JoinPcs, DetachPcs, WorkerFree,
            FreeTask, Deletable
<1>1. OneIndex' /\ \A u \in Tasks : Queued(u)' <=> Queued(u)
  BY QueueUntouchedKeeps DEF QueueUntouched, StorePcs
<1>2. OneWorker' /\ QueuedOrHeld'
  BY <1>1, SMTT(60) DEF OneWorker, QueuedOrHeld, PlaceTellsStatus, StatusTells, ClientTells
<1>3. PlaceTellsStatus'
  BY <1>1, SMTT(60) DEF OneWorker, QueuedOrHeld, PlaceTellsStatus, StatusTells, ClientTells
<1>4. StatusTells'
  BY <1>1, SMTT(60) DEF OneWorker, QueuedOrHeld, PlaceTellsStatus, StatusTells, ClientTells
<1>5. ClientTells'
  BY <1>1, SMTT(60) DEF OneWorker, QueuedOrHeld, PlaceTellsStatus, StatusTells, ClientTells
<1>6. SleepersAttended'
  BY <1>1, SMTT(60) DEF PlaceTellsStatus, StatusTells, ClientTells, SleepersAttended
<1> QED
  BY <1>1, <1>2, <1>3, <1>4, <1>5, <1>6

\* The signal wakes the owner, the only client that can sleep on the task.
LEMMA WorkerSignalKeeps ==
    ASSUME TypeOK, TaskInv, NEW w \in Workers, WorkerSignal(w) PROVE TaskInv'
<1> USE ConstantsAssumption
        DEF ConstantsAssumption, TypeOK, PoolTypeOK, LifeTypeOK, TaskTypeOK, WorkerTypeOK,
            ClientTypeOK,
            TaskInv, Held, Holds, InPool, TaskCallPcs, PushedPcs, JoinPcs, DetachPcs,
            WorkerSignal, TaskSleepers, Woken
<1>1. OneIndex' /\ \A u \in Tasks : Queued(u)' <=> Queued(u)
  BY QueueUntouchedKeeps DEF QueueUntouched, StorePcs
<1>2. OneWorker' /\ QueuedOrHeld'
  BY <1>1, SMTT(60) DEF OneWorker, QueuedOrHeld, PlaceTellsStatus, StatusTells, ClientTells
<1>3. PlaceTellsStatus'
  BY <1>1, SMTT(60) DEF OneWorker, QueuedOrHeld, PlaceTellsStatus, StatusTells, ClientTells
<1>4. StatusTells'
  <2>1. \A v \in Workers : v # w => wpc'[v] = wpc[v] /\ wtask'[v] = wtask[v]
    OBVIOUS
  <2>2. wpc[w] = "signal" /\ UNCHANGED taskVars
    OBVIOUS
  <2> HIDE DEF WorkerSignal, TaskTypeOK, ClientTypeOK, TaskSleepers
  <2> QED
    BY <1>1, <2>1, <2>2, SMTT(60) DEF StatusTells
<1>5. ClientTells'
  BY <1>1, SMTT(60) DEF OneWorker, QueuedOrHeld, PlaceTellsStatus, StatusTells, ClientTells
<1>6. SleepersAttended'
  BY <1>1, SMTT(60) DEF PlaceTellsStatus, StatusTells, ClientTells, SleepersAttended
<1> QED
  BY <1>1, <1>2, <1>3, <1>4, <1>5, <1>6

\* thread_task_new.
LEMMA TaskNewKeeps ==
    ASSUME TypeOK, TaskInv, NEW c \in Clients, NEW t \in Tasks, TaskNew(c, t) PROVE TaskInv'
<1> USE ConstantsAssumption
        DEF ConstantsAssumption, TypeOK, PoolTypeOK, LifeTypeOK, TaskTypeOK, WorkerTypeOK,
            ClientTypeOK,
            TaskInv, Held, Holds, InPool, TaskCallPcs, PushedPcs, JoinPcs, DetachPcs, TaskNew
<1>1. OneIndex' /\ \A u \in Tasks : Queued(u)' <=> Queued(u)
  BY QueueUntouchedKeeps DEF QueueUntouched, StorePcs
<1>2. OneWorker' /\ QueuedOrHeld'
  BY <1>1, SMTT(60) DEF OneWorker, QueuedOrHeld, PlaceTellsStatus, StatusTells, ClientTells
<1>3. PlaceTellsStatus'
  BY <1>1, SMTT(60) DEF OneWorker, QueuedOrHeld, PlaceTellsStatus, StatusTells, ClientTells
<1>4. StatusTells'
  BY <1>1, SMTT(60) DEF OneWorker, QueuedOrHeld, PlaceTellsStatus, StatusTells, ClientTells
<1>5. ClientTells'
  BY <1>1, SMTT(60) DEF OneWorker, QueuedOrHeld, PlaceTellsStatus, StatusTells, ClientTells
<1>6. SleepersAttended'
  BY <1>1, SMTT(60) DEF PlaceTellsStatus, StatusTells, ClientTells, SleepersAttended
<1> QED
  BY <1>1, <1>2, <1>3, <1>4, <1>5, <1>6

\* The owner frees a task that is not in the pool.
LEMMA TaskDeleteKeeps ==
    ASSUME TypeOK, TaskInv, NEW c \in Clients, NEW t \in Tasks, TaskDelete(c, t) PROVE TaskInv'
<1> USE ConstantsAssumption
        DEF ConstantsAssumption, TypeOK, PoolTypeOK, LifeTypeOK, TaskTypeOK, WorkerTypeOK,
            ClientTypeOK,
            TaskInv, Held, Holds, InPool, TaskCallPcs, PushedPcs, JoinPcs, DetachPcs, TaskDelete,
            FreeTask, Deletable
<1>1. OneIndex' /\ \A u \in Tasks : Queued(u)' <=> Queued(u)
  BY QueueUntouchedKeeps DEF QueueUntouched, StorePcs
<1>2. OneWorker' /\ QueuedOrHeld'
  BY <1>1, SMTT(60) DEF OneWorker, QueuedOrHeld, PlaceTellsStatus, StatusTells, ClientTells
<1>3. PlaceTellsStatus'
  BY <1>1, SMTT(60) DEF OneWorker, QueuedOrHeld, PlaceTellsStatus, StatusTells, ClientTells
<1>4. StatusTells'
  BY <1>1, SMTT(60) DEF OneWorker, QueuedOrHeld, PlaceTellsStatus, StatusTells, ClientTells
<1>5. ClientTells'
  BY <1>1, SMTT(60) DEF OneWorker, QueuedOrHeld, PlaceTellsStatus, StatusTells, ClientTells
<1>6. SleepersAttended'
  BY <1>1, SMTT(60) DEF PlaceTellsStatus, StatusTells, ClientTells, SleepersAttended
<1> QED
  BY <1>1, <1>2, <1>3, <1>4, <1>5, <1>6

\* The owner finds room for a task that has left the pool.
LEMMA PushCheckKeeps ==
    ASSUME TypeOK, TaskInv, NEW c \in Clients, NEW t \in Tasks, PushCheck(c, t) PROVE TaskInv'
<1> USE ConstantsAssumption
        DEF ConstantsAssumption, TypeOK, PoolTypeOK, LifeTypeOK, TaskTypeOK, WorkerTypeOK,
            ClientTypeOK,
            TaskInv, Held, Holds, InPool, TaskCallPcs, PushedPcs, JoinPcs, DetachPcs, PushCheck
<1>1. OneIndex' /\ \A u \in Tasks : Queued(u)' <=> Queued(u)
  BY QueueUntouchedKeeps DEF QueueUntouched, StorePcs
<1>2. OneWorker' /\ QueuedOrHeld'
  BY <1>1, SMTT(60) DEF OneWorker, QueuedOrHeld, PlaceTellsStatus, StatusTells, ClientTells
<1>3. PlaceTellsStatus'
  BY <1>1, SMTT(60) DEF OneWorker, QueuedOrHeld, PlaceTellsStatus, StatusTells, ClientTells
<1>4. StatusTells'
  BY <1>1, SMTT(60) DEF OneWorker, QueuedOrHeld, PlaceTellsStatus, StatusTells, ClientTells
<1>5. ClientTells'
  BY <1>1, SMTT(60) DEF OneWorker, QueuedOrHeld, PlaceTellsStatus, StatusTells, ClientTells
<1>6. SleepersAttended'
  BY <1>1, SMTT(60) DEF PlaceTellsStatus, StatusTells, ClientTells, SleepersAttended
<1> QED
  BY <1>1, <1>2, <1>3, <1>4, <1>5, <1>6

\* The pushed task is in no place yet.
LEMMA PushMarkKeeps ==
    ASSUME TypeOK, WholeInv, TaskInv, NEW c \in Clients, PushMark(c) PROVE TaskInv'
<1> USE ConstantsAssumption
        DEF ConstantsAssumption, TypeOK, PoolTypeOK, LifeTypeOK, TaskTypeOK, WorkerTypeOK,
            ClientTypeOK,
            TaskInv, Held, Holds, InPool, TaskCallPcs, PushedPcs, JoinPcs, DetachPcs, PushMark
<1>1. OneIndex' /\ \A u \in Tasks : Queued(u)' <=> Queued(u) \/ u = ctask[c]
  <2>1. ~Queued(ctask[c])
    BY DEF PlaceTellsStatus, ClientTells
  <2> QED
    BY <2>1, MarkQueuesTask
<1>2. /\ wpc' = wpc /\ wtask' = wtask /\ ctask[c] \in Tasks
      /\ status' = [status EXCEPT ![ctask[c]] = "WAITING"]
      /\ \A u \in Tasks : u # ctask[c] => status'[u] = status[u] /\ result'[u] = result[u]
      /\ UNCHANGED <<alive, owned>>
  BY DEF ClientTells
<1>3. ~Held(ctask[c], InPool \cup {"free"})
  <2>1. ctask[c] \in owned /\ status[ctask[c]] \in {"CREATED", "JOINED"}
    BY DEF ClientTells
  <2>2. ASSUME NEW w \in Workers, wpc[w] \in InPool \cup {"free"}, wtask[w] = ctask[c] PROVE FALSE
    BY <2>1, <2>2, SMTT(60) DEF PlaceTellsStatus
  <2> QED
    BY <2>2
<1>4. OneWorker'
  BY ONLY TaskInv, <1>2 DEF TaskInv, OneWorker
<1>5. QueuedOrHeld'
  BY ONLY TaskInv, <1>1, <1>2, <1>3 DEF TaskInv, QueuedOrHeld, Held
<1>6. PlaceTellsStatus'
  <2>1. \A u \in Tasks : Queued(u)' => status'[u] \in {"WAITING", "DETACHED"}
    BY <1>1, <1>2 DEF PlaceTellsStatus
  <2>2. ASSUME NEW w \in Workers, wpc[w] \in InPool \cup {"free"}
        PROVE  /\ wtask[w] \in Tasks /\ wtask[w] # ctask[c]
               /\ status'[wtask[w]] = status[wtask[w]] /\ result'[wtask[w]] = result[wtask[w]]
    <3>1. wtask[w] \in Tasks
      BY <2>2 DEF PlaceTellsStatus
    <3>2. wtask[w] # ctask[c]
      BY ONLY <1>3, <2>2 DEF Held, Holds
    <3> QED
      BY ONLY <1>2, <3>1, <3>2
  <2> QED
    BY ONLY TaskInv, <1>2, <2>1, <2>2 DEF TaskInv, PlaceTellsStatus, InPool
<1>7. StatusTells'
  BY <1>1, SMTT(60) DEF OneWorker, QueuedOrHeld, PlaceTellsStatus, StatusTells, ClientTells
<1>8. ClientTells'
  BY <1>1, SMTT(60) DEF OneWorker, QueuedOrHeld, PlaceTellsStatus, StatusTells, ClientTells
<1>9. SleepersAttended'
  BY <1>1, SMTT(60) DEF PlaceTellsStatus, StatusTells, ClientTells, SleepersAttended
<1> QED
  BY <1>1, <1>4, <1>5, <1>6, <1>7, <1>8, <1>9

\* The owner joins a task it has pushed.
LEMMA JoinCallKeeps ==
    ASSUME TypeOK, TaskInv, NEW c \in Clients, NEW t \in Tasks, JoinCall(c, t) PROVE TaskInv'
<1> USE ConstantsAssumption
        DEF ConstantsAssumption, TypeOK, PoolTypeOK, LifeTypeOK, TaskTypeOK, WorkerTypeOK,
            ClientTypeOK,
            TaskInv, Held, Holds, InPool, TaskCallPcs, PushedPcs, JoinPcs, DetachPcs, JoinCall,
            JoinCalls, Joinable
<1>1. OneIndex' /\ \A u \in Tasks : Queued(u)' <=> Queued(u)
  BY QueueUntouchedKeeps DEF QueueUntouched, StorePcs
<1>2. OneWorker' /\ QueuedOrHeld'
  BY <1>1, SMTT(60) DEF OneWorker, QueuedOrHeld, PlaceTellsStatus, StatusTells, ClientTells
<1>3. PlaceTellsStatus'
  BY <1>1, SMTT(60) DEF OneWorker, QueuedOrHeld, PlaceTellsStatus, StatusTells, ClientTells
<1>4. StatusTells'
  BY <1>1, SMTT(60) DEF OneWorker, QueuedOrHeld, PlaceTellsStatus, StatusTells, ClientTells
<1>5. ClientTells'
  <2>1. status[t] \in {"WAITING", "RUNNING", "FINISHED"} /\ t \in alive
    BY DEF StatusTells, Statuses
  <2>2. \A d \in Clients \ {c} : cpc[d] \in TaskCallPcs => ctask[d] # t
    BY DEF ClientTells
  <2> QED
    BY <2>1, <2>2 DEF ClientTells
<1>6. SleepersAttended'
  BY <1>1, SMTT(60) DEF PlaceTellsStatus, StatusTells, ClientTells, SleepersAttended
<1> QED
  BY <1>1, <1>2, <1>3, <1>4, <1>5, <1>6

\* The owner gives up a task it has pushed.
LEMMA DetachCallKeeps ==
    ASSUME TypeOK, TaskInv, NEW c \in Clients, NEW t \in Tasks, DetachCall(c, t) PROVE TaskInv'
<1> USE ConstantsAssumption
        DEF ConstantsAssumption, TypeOK, PoolTypeOK, LifeTypeOK, TaskTypeOK, WorkerTypeOK,
            ClientTypeOK,
            TaskInv, Held, Holds, InPool, TaskCallPcs, PushedPcs, JoinPcs, DetachPcs, DetachCall,
            Joinable
<1>1. OneIndex' /\ \A u \in Tasks : Queued(u)' <=> Queued(u)
  BY QueueUntouchedKeeps DEF QueueUntouched, StorePcs
<1>2. OneWorker' /\ QueuedOrHeld'
  BY <1>1, SMTT(60) DEF OneWorker, QueuedOrHeld, PlaceTellsStatus, StatusTells, ClientTells
<1>3. PlaceTellsStatus'
  BY <1>1, SMTT(60) DEF OneWorker, QueuedOrHeld, PlaceTellsStatus, StatusTells, ClientTells
<1>4. StatusTells'
  BY <1>1, SMTT(60) DEF OneWorker, QueuedOrHeld, PlaceTellsStatus, StatusTells, ClientTells
<1>5. ClientTells'
  <2>1. status[t] \in {"WAITING", "RUNNING", "FINISHED"} /\ t \in alive
    BY DEF StatusTells, Statuses
  <2>2. \A d \in Clients \ {c} : cpc[d] \in TaskCallPcs => ctask[d] # t
    BY DEF ClientTells
  <2> QED
    BY <2>1, <2>2 DEF ClientTells
<1>6. SleepersAttended'
  BY <1>1, SMTT(60) DEF PlaceTellsStatus, StatusTells, ClientTells, SleepersAttended
<1> QED
  BY <1>1, <1>2, <1>3, <1>4, <1>5, <1>6

\* Who falls asleep on an unfinished task will be woken: the task is queued or run.
LEMMA JoinTestKeeps ==
    ASSUME TypeOK, TaskInv, NEW c \in Clients, JoinTest(c) PROVE TaskInv'
<1> USE ConstantsAssumption
        DEF ConstantsAssumption, TypeOK, PoolTypeOK, LifeTypeOK, TaskTypeOK, WorkerTypeOK,
            ClientTypeOK,
            TaskInv, Held, Holds, InPool, TaskCallPcs, PushedPcs, JoinPcs, DetachPcs, JoinTest,
            Finished, TaskLocked
<1>1. OneIndex' /\ \A u \in Tasks : Queued(u)' <=> Queued(u)
  BY QueueUntouchedKeeps DEF QueueUntouched, StorePcs
<1>2. OneWorker' /\ QueuedOrHeld'
  BY <1>1, SMTT(60) DEF OneWorker, QueuedOrHeld, PlaceTellsStatus, StatusTells, ClientTells
<1>3. PlaceTellsStatus'
  BY <1>1, SMTT(60) DEF OneWorker, QueuedOrHeld, PlaceTellsStatus, StatusTells, ClientTells
<1>4. StatusTells'
  BY <1>1, SMTT(60) DEF OneWorker, QueuedOrHeld, PlaceTellsStatus, StatusTells, ClientTells
<1>5. ClientTells'
  BY <1>1, SMTT(60) DEF OneWorker, QueuedOrHeld, PlaceTellsStatus, StatusTells, ClientTells
<1>6. SleepersAttended'
  BY <1>1, SMTT(60) DEF PlaceTellsStatus, StatusTells, ClientTells, SleepersAttended
<1> QED
  BY <1>1, <1>2, <1>3, <1>4, <1>5, <1>6

\* thread_task_join returns.
LEMMA JoinTakeKeeps ==
    ASSUME TypeOK, TaskInv, NEW c \in Clients, JoinTake(c) PROVE TaskInv'
<1> USE ConstantsAssumption
        DEF ConstantsAssumption, TypeOK, PoolTypeOK, LifeTypeOK, TaskTypeOK, WorkerTypeOK,
            ClientTypeOK,
            TaskInv, Held, Holds, InPool, TaskCallPcs, PushedPcs, JoinPcs, DetachPcs, JoinTake
<1>1. OneIndex' /\ \A u \in Tasks : Queued(u)' <=> Queued(u)
  BY QueueUntouchedKeeps DEF QueueUntouched, StorePcs
<1>2. OneWorker' /\ QueuedOrHeld'
  BY <1>1, SMTT(60) DEF OneWorker, QueuedOrHeld, PlaceTellsStatus, StatusTells, ClientTells
<1>3. PlaceTellsStatus'
  BY <1>1, SMTT(60) DEF OneWorker, QueuedOrHeld, PlaceTellsStatus, StatusTells, ClientTells
<1>4. StatusTells'
  BY <1>1, SMTT(60) DEF OneWorker, QueuedOrHeld, PlaceTellsStatus, StatusTells, ClientTells
<1>5. ClientTells'
  BY <1>1, SMTT(60) DEF OneWorker, QueuedOrHeld, PlaceTellsStatus, StatusTells, ClientTells
<1>6. SleepersAttended'
  BY <1>1, SMTT(60) DEF PlaceTellsStatus, StatusTells, ClientTells, SleepersAttended
<1> QED
  BY <1>1, <1>2, <1>3, <1>4, <1>5, <1>6

\* The same for the timed join, which takes a finished task at once.
LEMMA TimedTestKeeps ==
    ASSUME TypeOK, TaskInv, NEW c \in Clients, TimedTest(c) \/ HugeTest(c) PROVE TaskInv'
<1> USE ConstantsAssumption
        DEF ConstantsAssumption, TypeOK, PoolTypeOK, LifeTypeOK, TaskTypeOK, WorkerTypeOK,
            ClientTypeOK,
            TaskInv, Held, Holds, InPool, TaskCallPcs, PushedPcs, JoinPcs, DetachPcs, TimedTest,
            HugeTest, TakeOr, Finished,
            TaskLocked
<1>1. OneIndex' /\ \A u \in Tasks : Queued(u)' <=> Queued(u)
  BY QueueUntouchedKeeps DEF QueueUntouched, StorePcs
<1>2. OneWorker' /\ QueuedOrHeld'
  BY <1>1, SMTT(60) DEF OneWorker, QueuedOrHeld, PlaceTellsStatus, StatusTells, ClientTells
<1>3. PlaceTellsStatus'
  BY <1>1, SMTT(60) DEF OneWorker, QueuedOrHeld, PlaceTellsStatus, StatusTells, ClientTells
<1>4. StatusTells'
  BY <1>1, SMTT(60) DEF OneWorker, QueuedOrHeld, PlaceTellsStatus, StatusTells, ClientTells
<1>5. ClientTells'
  BY <1>1, SMTT(60) DEF OneWorker, QueuedOrHeld, PlaceTellsStatus, StatusTells, ClientTells
<1>6. SleepersAttended'
  BY <1>1, SMTT(60) DEF PlaceTellsStatus, StatusTells, ClientTells, SleepersAttended
<1> QED
  BY <1>1, <1>2, <1>3, <1>4, <1>5, <1>6

\* The wait times out.
LEMMA TimedExpireKeeps ==
    ASSUME TypeOK, TaskInv, NEW c \in Clients, TimedExpire(c) PROVE TaskInv'
<1> USE ConstantsAssumption
        DEF ConstantsAssumption, TypeOK, PoolTypeOK, LifeTypeOK, TaskTypeOK, WorkerTypeOK,
            ClientTypeOK,
            TaskInv, Held, Holds, InPool, TaskCallPcs, PushedPcs, JoinPcs, DetachPcs, TimedExpire
<1>1. OneIndex' /\ \A u \in Tasks : Queued(u)' <=> Queued(u)
  BY QueueUntouchedKeeps DEF QueueUntouched, StorePcs
<1>2. OneWorker' /\ QueuedOrHeld'
  BY <1>1, SMTT(60) DEF OneWorker, QueuedOrHeld, PlaceTellsStatus, StatusTells, ClientTells
<1>3. PlaceTellsStatus'
  BY <1>1, SMTT(60) DEF OneWorker, QueuedOrHeld, PlaceTellsStatus, StatusTells, ClientTells
<1>4. StatusTells'
  BY <1>1, SMTT(60) DEF OneWorker, QueuedOrHeld, PlaceTellsStatus, StatusTells, ClientTells
<1>5. ClientTells'
  BY <1>1, SMTT(60) DEF OneWorker, QueuedOrHeld, PlaceTellsStatus, StatusTells, ClientTells
<1>6. SleepersAttended'
  BY <1>1, SMTT(60) DEF PlaceTellsStatus, StatusTells, ClientTells, SleepersAttended
<1> QED
  BY <1>1, <1>2, <1>3, <1>4, <1>5, <1>6

\* The timed join returns without the task.
LEMMA TimedGiveUpKeeps ==
    ASSUME TypeOK, TaskInv, NEW c \in Clients, TimedGiveUp(c) PROVE TaskInv'
<1> USE ConstantsAssumption
        DEF ConstantsAssumption, TypeOK, PoolTypeOK, LifeTypeOK, TaskTypeOK, WorkerTypeOK,
            ClientTypeOK,
            TaskInv, Held, Holds, InPool, TaskCallPcs, PushedPcs, JoinPcs, DetachPcs, TimedGiveUp
<1>1. OneIndex' /\ \A u \in Tasks : Queued(u)' <=> Queued(u)
  BY QueueUntouchedKeeps DEF QueueUntouched, StorePcs
<1>2. OneWorker' /\ QueuedOrHeld'
  BY <1>1, SMTT(60) DEF OneWorker, QueuedOrHeld, PlaceTellsStatus, StatusTells, ClientTells
<1>3. PlaceTellsStatus'
  BY <1>1, SMTT(60) DEF OneWorker, QueuedOrHeld, PlaceTellsStatus, StatusTells, ClientTells
<1>4. StatusTells'
  BY <1>1, SMTT(60) DEF OneWorker, QueuedOrHeld, PlaceTellsStatus, StatusTells, ClientTells
<1>5. ClientTells'
  BY <1>1, SMTT(60) DEF OneWorker, QueuedOrHeld, PlaceTellsStatus, StatusTells, ClientTells
<1>6. SleepersAttended'
  BY <1>1, SMTT(60) DEF PlaceTellsStatus, StatusTells, ClientTells, SleepersAttended
<1> QED
  BY <1>1, <1>2, <1>3, <1>4, <1>5, <1>6

\* The poll takes a finished task or returns without it.
LEMMA PollTestKeeps ==
    ASSUME TypeOK, TaskInv, NEW c \in Clients, PollTest(c) PROVE TaskInv'
<1> USE ConstantsAssumption
        DEF ConstantsAssumption, TypeOK, PoolTypeOK, LifeTypeOK, TaskTypeOK, WorkerTypeOK,
            ClientTypeOK,
            TaskInv, Held, Holds, InPool, TaskCallPcs, PushedPcs, JoinPcs, DetachPcs, PollTest,
            Finished
<1>1. OneIndex' /\ \A u \in Tasks : Queued(u)' <=> Queued(u)
  BY QueueUntouchedKeeps DEF QueueUntouched, StorePcs
<1>2. OneWorker' /\ QueuedOrHeld'
  BY <1>1, SMTT(60) DEF OneWorker, QueuedOrHeld, PlaceTellsStatus, StatusTells, ClientTells
<1>3. PlaceTellsStatus'
  BY <1>1, SMTT(60) DEF OneWorker, QueuedOrHeld, PlaceTellsStatus, StatusTells, ClientTells
<1>4. StatusTells'
  BY <1>1, SMTT(60) DEF OneWorker, QueuedOrHeld, PlaceTellsStatus, StatusTells, ClientTells
<1>5. ClientTells'
  BY <1>1, SMTT(60) DEF OneWorker, QueuedOrHeld, PlaceTellsStatus, StatusTells, ClientTells
<1>6. SleepersAttended'
  BY <1>1, SMTT(60) DEF PlaceTellsStatus, StatusTells, ClientTells, SleepersAttended
<1> QED
  BY <1>1, <1>2, <1>3, <1>4, <1>5, <1>6

\* The detach leaves the task to its worker, or to itself when no worker has it.
LEMMA DetachMarkKeeps ==
    ASSUME TypeOK, TaskInv, NEW c \in Clients, DetachMark(c) PROVE TaskInv'
<1> USE ConstantsAssumption
        DEF ConstantsAssumption, TypeOK, PoolTypeOK, LifeTypeOK, TaskTypeOK, WorkerTypeOK,
            ClientTypeOK,
            TaskInv, Held, Holds, InPool, TaskCallPcs, PushedPcs, JoinPcs, DetachPcs, DetachMark,
            DetachedAs, Finished
<1>1. OneIndex' /\ \A u \in Tasks : Queued(u)' <=> Queued(u)
  BY QueueUntouchedKeeps DEF QueueUntouched, StorePcs
<1>2. OneWorker' /\ QueuedOrHeld'
  BY <1>1, SMTT(60) DEF OneWorker, QueuedOrHeld, PlaceTellsStatus, StatusTells, ClientTells
<1>3. PlaceTellsStatus'
  BY <1>1, SMTT(60) DEF OneWorker, QueuedOrHeld, PlaceTellsStatus, StatusTells, ClientTells
<1>4. StatusTells'
  BY <1>1, SMTT(60) DEF OneWorker, QueuedOrHeld, PlaceTellsStatus, StatusTells, ClientTells
<1>5. ClientTells'
  BY <1>1, SMTT(60) DEF OneWorker, QueuedOrHeld, PlaceTellsStatus, StatusTells, ClientTells
<1>6. SleepersAttended'
  BY <1>1, SMTT(60) DEF PlaceTellsStatus, StatusTells, ClientTells, SleepersAttended
<1> QED
  BY <1>1, <1>2, <1>3, <1>4, <1>5, <1>6

\* A finished task is freed by the client that detached it.
LEMMA DetachFreeKeeps ==
    ASSUME TypeOK, TaskInv, NEW c \in Clients, DetachFree(c) PROVE TaskInv'
<1> USE ConstantsAssumption
        DEF ConstantsAssumption, TypeOK, PoolTypeOK, LifeTypeOK, TaskTypeOK, WorkerTypeOK,
            ClientTypeOK,
            TaskInv, Held, Holds, InPool, TaskCallPcs, PushedPcs, JoinPcs, DetachPcs, DetachFree,
            FreeTask, Deletable
<1>1. OneIndex' /\ \A u \in Tasks : Queued(u)' <=> Queued(u)
  BY QueueUntouchedKeeps DEF QueueUntouched, StorePcs
<1>2. OneWorker' /\ QueuedOrHeld'
  BY <1>1, SMTT(60) DEF OneWorker, QueuedOrHeld, PlaceTellsStatus, StatusTells, ClientTells
<1>3. PlaceTellsStatus'
  BY <1>1, SMTT(60) DEF OneWorker, QueuedOrHeld, PlaceTellsStatus, StatusTells, ClientTells
<1>4. StatusTells'
  BY <1>1, SMTT(60) DEF OneWorker, QueuedOrHeld, PlaceTellsStatus, StatusTells, ClientTells
<1>5. ClientTells'
  BY <1>1, SMTT(60) DEF OneWorker, QueuedOrHeld, PlaceTellsStatus, StatusTells, ClientTells
<1>6. SleepersAttended'
  BY <1>1, SMTT(60) DEF PlaceTellsStatus, StatusTells, ClientTells, SleepersAttended
<1> QED
  BY <1>1, <1>2, <1>3, <1>4, <1>5, <1>6

\* A wait wakes up by itself.
LEMMA ClientWakesUpKeeps ==
    ASSUME TypeOK, TaskInv, NEW c \in Clients, ClientWakesUp(c) PROVE TaskInv'
<1> USE ConstantsAssumption
        DEF ConstantsAssumption, TypeOK, PoolTypeOK, LifeTypeOK, TaskTypeOK, WorkerTypeOK,
            ClientTypeOK,
            TaskInv, Held, Holds, InPool, TaskCallPcs, PushedPcs, JoinPcs, DetachPcs,
            ClientWakesUp, Woken
<1>1. OneIndex' /\ \A u \in Tasks : Queued(u)' <=> Queued(u)
  BY QueueUntouchedKeeps DEF QueueUntouched, StorePcs
<1>2. OneWorker' /\ QueuedOrHeld'
  BY <1>1, SMTT(60) DEF OneWorker, QueuedOrHeld, PlaceTellsStatus, StatusTells, ClientTells
<1>3. PlaceTellsStatus'
  BY <1>1, SMTT(60) DEF OneWorker, QueuedOrHeld, PlaceTellsStatus, StatusTells, ClientTells
<1>4. StatusTells'
  BY <1>1, SMTT(60) DEF OneWorker, QueuedOrHeld, PlaceTellsStatus, StatusTells, ClientTells
<1>5. ClientTells'
  BY <1>1, SMTT(60) DEF OneWorker, QueuedOrHeld, PlaceTellsStatus, StatusTells, ClientTells
<1>6. SleepersAttended'
  BY <1>1, SMTT(60) DEF PlaceTellsStatus, StatusTells, ClientTells, SleepersAttended
<1> QED
  BY <1>1, <1>2, <1>3, <1>4, <1>5, <1>6

-----------------------------------------------------------------------------
(* The theorems *)

\* A new pool has no task.
LEMMA TaskInvInit == Init => TaskInv
<1> SUFFICES ASSUME Init PROVE TaskInv
  OBVIOUS
<1> USE ConstantsAssumption DEF ConstantsAssumption, Init
<1>1. OneIndex /\ \A t \in Tasks : ~Queued(t)
  <2>1. QueueLen = 0
    BY DEF QueueLen
  <2> QED
    BY <2>1 DEF OneIndex, Queued
<1>2. OneWorker /\ QueuedOrHeld /\ PlaceTellsStatus
  BY <1>1, SMTT(60) DEF OneWorker, QueuedOrHeld, PlaceTellsStatus, InPool
<1>3. StatusTells
  BY DEF StatusTells
<1>4. ClientTells /\ SleepersAttended
  BY DEF ClientTells, SleepersAttended, TaskCallPcs, PushedPcs, JoinPcs, DetachPcs
<1> QED
  BY <1>1, <1>2, <1>3, <1>4 DEF TaskInv

\* Every step of a pool with a whole mutex preserves the invariant.
LEMMA TaskInvNext == TypeOK /\ WholeInv /\ TaskInv /\ [Next]_vars => TaskInv'
  BY PoolStepsTouchNoTask, UntouchedKeeps,
     WorkerReadKeeps, WorkerCountKeeps, WorkerStartKeeps, WorkerCompleteKeeps,
     WorkerPublishKeeps, WorkerFreeKeeps, WorkerSignalKeeps, TaskNewKeeps,
     TaskDeleteKeeps, PushCheckKeeps, PushMarkKeeps, JoinCallKeeps, DetachCallKeeps,
     JoinTestKeeps, JoinTakeKeeps, TimedTestKeeps, TimedExpireKeeps, TimedGiveUpKeeps,
     PollTestKeeps, DetachMarkKeeps, DetachFreeKeeps, ClientWakesUpKeeps

\* TaskInv holds as long as the mutex is whole.
THEOREM TaskInvariance == Spec => [](MutexWhole => TaskInv)
<1>1. PoolInv /\ (MutexWhole => TaskInv) /\ [Next]_vars => (MutexWhole => TaskInv)'
  <2> SUFFICES ASSUME PoolInv, MutexWhole => TaskInv, [Next]_vars, MutexWhole'
               PROVE  TaskInv'
    OBVIOUS
  <2>1. MutexWhole
    BY WholeBefore DEF PoolInv
  <2> QED
    BY <2>1, TaskInvNext DEF PoolInv
<1> QED
  BY <1>1, TaskInvInit, PoolInvariance, PTL DEF Spec

\* A set without two elements has at most one.
LEMMA AtMostOne ==
    ASSUME NEW S, \A x, y \in S : x = y
    PROVE  Cardinality(S) \in 0 .. 1 /\ (S = {} => Cardinality(S) = 0)
<1>1. CASE S = {}
  BY <1>1, FS_EmptySet
<1>2. ASSUME NEW x \in S PROVE Cardinality(S) = 1
  <2>1. S = {x}
    OBVIOUS
  <2> QED
    BY <2>1, FS_Singleton
<1> QED
  BY <1>1, <1>2

\* The invariant leaves a task at most one place.
LEMMA PlaceIsOne == TaskInv => OnePlace
<1> SUFFICES ASSUME TaskInv, NEW t \in Tasks
             PROVE  Cardinality({i \in 0 .. QueueLen - 1 : tasks[i] = t})
                      + Cardinality({w \in Workers : Holds(w, t, InPool \cup {"free"})}) <= 1
  BY DEF OnePlace
<1> DEFINE I == {i \in 0 .. QueueLen - 1 : tasks[i] = t}
           W == {w \in Workers : Holds(w, t, InPool \cup {"free"})}
<1>1. Cardinality(I) \in 0 .. 1 /\ (I = {} => Cardinality(I) = 0)
  <2>1. \A i, j \in I : i = j
    BY DEF TaskInv, OneIndex
  <2> QED
    BY <2>1, AtMostOne
<1>2. Cardinality(W) \in 0 .. 1 /\ (W = {} => Cardinality(W) = 0)
  <2>1. \A v, w \in W : v = w
    BY DEF TaskInv, OneWorker, Holds
  <2> QED
    BY <2>1, AtMostOne
<1>3. I = {} \/ W = {}
  BY DEF TaskInv, QueuedOrHeld, Queued, Held
<1> HIDE DEF I, W
<1>4. Cardinality(I) + Cardinality(W) <= 1
  BY ONLY <1>1, <1>2, <1>3
<1> QED
  BY ONLY <1>4 DEF I, W

\* The status of a task tells its place.
LEMMA StatusFitsPlace == TaskInv => StatusFits
<1> SUFFICES ASSUME TaskInv, NEW t \in Tasks
             PROVE
               /\ status[t] = "WAITING" => Queued(t) \/ Held(t, {"count", "start"})
               /\ status[t] = "RUNNING" => Held(t, {"run", "publish"})
               /\ status[t] = "DETACHED" => Queued(t) \/ Held(t, InPool)
               /\ status[t] \in {"ABSENT", "CREATED", "FINISHED", "JOINED"}
                    => ~Queued(t) /\ ~Held(t, InPool)
  BY DEF StatusFits
<1>1. ~(status[t] \in {"WAITING", "RUNNING", "DETACHED"}) => ~Queued(t) /\ ~Held(t, InPool)
  BY DEF TaskInv, PlaceTellsStatus, Held, Holds, InPool
<1> QED
  BY <1>1 DEF TaskInv, StatusTells

\* While the mutex is whole, a task has one place in the pool, and its status says which:
\* what is waited for or detached will be published, and what the owner may free or push
\* again has left.
THEOREM StatusIsRight == Spec => []StatusTellsPlace
<1>1. (MutexWhole => TaskInv) => StatusTellsPlace
  BY PlaceIsOne, StatusFitsPlace DEF StatusTellsPlace
<1> QED
  BY <1>1, TaskInvariance, PTL

\* While the mutex is whole, no thread uses the memory of a task after it was freed, but
\* for line 159.
THEOREM FreedTaskIsUnused == Spec => []NoUseOfFreedTask
<1>1. TypeOK /\ (MutexWhole => TaskInv) => NoUseOfFreedTask
  <2> SUFFICES ASSUME TypeOK, TaskInv PROVE OnlyLiveTasks
    BY DEF NoUseOfFreedTask
  <2>1. \A t \in Tasks : Queued(t) \/ t \in owned => t \in alive
    BY DEF TaskInv, PlaceTellsStatus, StatusTells
  <2>2. \A w \in Workers : wpc[w] \in InPool \cup {"free"} => wtask[w] \in alive
    BY DEF TaskInv, PlaceTellsStatus, StatusTells, InPool
  <2>3. \A c \in Clients : cpc[c] \in TaskCallPcs => ctask[c] \in alive
    BY DEF TaskInv, ClientTells
  <2> QED
    BY <2>1, <2>2, <2>3 DEF OnlyLiveTasks, TaskCallPcs, PushedPcs
<1> QED
  BY <1>1, TypeCorrect, TaskInvariance, PTL

\* While the mutex is whole, a join hands out the result of the last push.
THEOREM JoinsGetFreshResult == Spec => []JoinSeesResult
<1>1. TypeOK /\ (MutexWhole => TaskInv) => JoinSeesResult
  BY DEF TypeOK, TaskTypeOK, TaskInv, StatusTells, JoinSeesResult
<1> QED
  BY <1>1, TypeCorrect, TaskInvariance, PTL

\* While the mutex is whole, who sleeps on a task has a worker that will signal it.
THEOREM SleepersAreSignalled == Spec => []JoinerIsAttended
<1>1. (MutexWhole => TaskInv) => JoinerIsAttended
  BY DEF TaskInv, JoinerIsAttended
<1> QED
  BY <1>1, TaskInvariance, PTL

\* A pool whose mutex is whole is freed without a task: the array is empty from line 90
\* on, a worker has run what it took before it leaves, and the status of any other task
\* says that it has left the pool.
THEOREM DeleteIsLossless == Spec => []DeleteLosesNothing
<1>1. PoolInv /\ (MutexWhole => TaskInv) => DeleteLosesNothing
  <2> SUFFICES ASSUME PoolInv, TaskInv, MutexWhole, ~pool_alive, NEW t \in Tasks
               PROVE  status[t] \notin {"WAITING", "RUNNING", "DETACHED"}
    BY DEF DeleteLosesNothing
  <2>1. /\ \A w \in Workers : wpc[w] \in {"absent", "exited"}
        /\ \A c \in Clients : cpc[c] \notin PushPcs
        /\ is_deleted
    BY DEF PoolInv, DeleteProtocol
  <2>2. tasks_count = 0
    BY <2>1 DEF PoolInv, WholeInv, DeletedIsEmpty
  <2>3. QueueLen = 0
    BY <2>1, <2>2 DEF QueueLen, PushPcs
  <2>4. ~Queued(t)
    BY <2>3 DEF Queued
  <2>5. ~Held(t, InPool) /\ ~Held(t, {"count", "start"}) /\ ~Held(t, {"run", "publish"})
    BY <2>1 DEF Held, Holds, InPool
  <2> QED
    BY <2>4, <2>5 DEF TaskInv, StatusTells
<1> QED
  BY <1>1, PoolInvariance, TaskInvariance, PTL

-----------------------------------------------------------------------------
(***************************************************************************)
(* The pool implements TaskService: every step of the pool moves one task  *)
(* from one phase to the next, as the service may, or moves none.  What a  *)
(* step finds and leaves is known from WholeInv and TaskInv, that there is *)
(* room for the task from QueueBound and from the number of workers.  Once *)
(* the mutex is torn nothing is claimed any more.                          *)
(***************************************************************************)

RunPcs == InPool \cup {"free"}

\* One task moves, the others stay.
OthersStay(t) == \A u \in Tasks : u # t => Phase(u)' = Phase(u)
NoneMoves == (\A u \in Tasks : Phase(u)' = Phase(u)) /\ DetachedTasks' = DetachedTasks

-----------------------------------------------------------------------------
(* Phases *)

\* The phases as the service sees them.
LEMMA MoveOf ==
    ASSUME NEW t \in Tasks, NEW p, NEW q, Phase(t) = p, Phase(t)' = q, OthersStay(t)
    PROVE  Service!Moves(t, p, q)
  BY DEF Service!Moves, PhaseMap, OthersStay

\* A step that moves no task is none of the service.
LEMMA StutterOf == NoneMoves => UNCHANGED Service!serviceVars
  BY DEF NoneMoves, Service!serviceVars, PhaseMap

\* What a phase depends on.
LEMMA PhaseDepends ==
    ASSUME NEW u \in Tasks,
           status'[u] = status[u] \/ {status[u], status'[u]} \cap {"ABSENT", "FINISHED"} = {},
           u \in alive' <=> u \in alive,
           Queued(u)' <=> Queued(u),
           Held(u, RunPcs)' <=> Held(u, RunPcs),
           \A c \in Clients : cpc'[c] = "detach_free" /\ ctask'[c] = u <=>
                              cpc[c] = "detach_free" /\ ctask[c] = u
    PROVE  Phase(u)' = Phase(u)
  BY DEF Phase, RunPcs, InPool

\* Cardinality in the instance of TaskService is that of FiniteSets.
LEMMA SameCardinality == ASSUME NEW S PROVE Service!Cardinality(S) = Cardinality(S)
  BY DEF Service!Cardinality, Cardinality, Service!IsFiniteSet, IsFiniteSet

\* How many tasks are queued and run.
LEMMA QueuedFit ==
    ASSUME TypeOK, WholeInv
    PROVE  /\ IsFiniteSet(Service!In("queued")) /\ QueueLen \in Nat
           /\ Cardinality(Service!In("queued")) <= QueueLen
<1> DEFINE Q == Service!In("queued")
           indexes == 0 .. QueueLen - 1
<1>1. QueueLen \in Nat
  BY DEF WholeInv, ArrayInv, QueueLen
<1>2. \A t \in Q : \E i \in indexes : tasks[i] = t
  BY DEF Service!In, PhaseMap, Phase, Queued
<1> HIDE DEF indexes, Q
<1> DEFINE index == [t \in Q |-> CHOOSE i \in indexes : tasks[i] = t]
<1>3. \A t \in Q : index[t] \in indexes /\ tasks[index[t]] = t
  BY ONLY <1>2
<1>4. index \in Injection(Q, indexes)
  <2>1. index \in [Q -> indexes]
    BY ONLY <1>3
  <2>2. \A t, u \in Q : index[t] = index[u] => t = u
    BY ONLY <1>3
  <2> QED
    BY <2>1, <2>2 DEF Injection, IsInjective
<1>5. IsFiniteSet(indexes) /\ Cardinality(indexes) = QueueLen
  <2>1. PICK n \in Nat : n = QueueLen
    BY ONLY <1>1, Zenon
  <2>2. /\ IsFiniteSet(0 .. n - 1)
        /\ Cardinality(0 .. n - 1) = IF 0 > n - 1 THEN 0 ELSE (n - 1) - 0 + 1
    BY ONLY 0 \in Int, n - 1 \in Int, FS_Interval
  <2>3. (IF 0 > n - 1 THEN 0 ELSE (n - 1) - 0 + 1) = n
    BY ONLY n \in Nat
  <2>4. indexes = 0 .. n - 1
    BY <2>1 DEF indexes
  <2> QED
    BY ONLY <2>1, <2>2, <2>3, <2>4, Zenon
<1> HIDE DEF index
<1>6. IsFiniteSet(Q) /\ Cardinality(Q) <= Cardinality(indexes)
  BY <1>4, <1>5, FS_Injection
<1> QED
  BY <1>1, <1>5, <1>6 DEF Q

LEMMA RunningFit ==
    ASSUME TypeOK, NEW w \in Workers, wpc[w] \notin RunPcs
    PROVE  Cardinality(Service!In("running")) < MaxThreads
<1> USE ConstantsAssumption DEF ConstantsAssumption
<1> DEFINE R == Service!In("running")
           others == Workers \ {w}
<1>1. \A t \in R : \E v \in others : Holds(v, t, RunPcs)
  BY DEF Service!In, PhaseMap, Phase, Held, Holds, RunPcs
<1> DEFINE holder == [t \in R |-> CHOOSE v \in others : Holds(v, t, RunPcs)]
<1>2. \A t \in R : holder[t] \in others /\ wtask[holder[t]] = t
  BY <1>1 DEF Holds
<1>3. holder \in Injection(R, others)
  BY <1>2 DEF Injection, IsInjective
<1>4. IsFiniteSet(Workers) /\ Cardinality(Workers) = MaxThreads
  BY FS_Interval DEF Workers
<1>5. IsFiniteSet(others) /\ Cardinality(others) = MaxThreads - 1
  BY <1>4, FS_RemoveElement
<1>6. IsFiniteSet(R) /\ Cardinality(R) <= Cardinality(others)
  <2> HIDE DEF holder, R, others
  <2> QED
    BY <1>3, <1>5, FS_Injection
<1>7. Cardinality(R) \in Nat
  BY <1>6, FS_CardinalityType
<1> QED
  BY <1>5, <1>6, <1>7

-----------------------------------------------------------------------------
(* The steps of the pool that concern a task *)

\* All but lines 129-131 and 178-181 leave the array alone.
LEMMA ArrayLeftAlone ==
    ASSUME TypeOK,
           \/ \E w \in Workers :
                \/ WorkerCount(w) \/ WorkerStart(w) \/ WorkerComplete(w)
                \/ WorkerPublish(w) \/ WorkerFree(w) \/ WorkerSignal(w)
           \/ \E c \in Clients :
                \/ \E t \in Tasks :
                     \/ TaskNew(c, t) \/ TaskDelete(c, t) \/ PushCheck(c, t)
                     \/ JoinCall(c, t) \/ DetachCall(c, t)
                \/ JoinTest(c) \/ JoinTake(c) \/ TimedTest(c) \/ HugeTest(c)
                \/ TimedExpire(c) \/ TimedGiveUp(c) \/ PollTest(c) \/ DetachMark(c)
                \/ DetachFree(c) \/ ClientWakesUp(c)
    PROVE  \A u \in Tasks : Queued(u)' <=> Queued(u)
<1> USE DEF TypeOK, WorkerTypeOK, ClientTypeOK, QueueUntouched, StorePcs
<1>1. ASSUME NEW w \in Workers,
             \/ WorkerCount(w) \/ WorkerStart(w) \/ WorkerComplete(w) \/ WorkerPublish(w)
             \/ WorkerFree(w)
      PROVE  QueueUntouched
  BY <1>1 DEF WorkerCount, WorkerStart, WorkerComplete, WorkerPublish, WorkerFree
<1>2. ASSUME NEW w \in Workers, WorkerSignal(w) PROVE QueueUntouched
  BY <1>2 DEF WorkerSignal, TaskSleepers, Woken
<1>3. ASSUME NEW c \in Clients, NEW t \in Tasks,
             \/ TaskNew(c, t) \/ TaskDelete(c, t) \/ PushCheck(c, t)
             \/ JoinCall(c, t) \/ DetachCall(c, t)
      PROVE  QueueUntouched
  BY <1>3 DEF TaskNew, TaskDelete, PushCheck, JoinCall, JoinCalls, DetachCall
<1>4. ASSUME NEW c \in Clients,
             \/ JoinTest(c) \/ JoinTake(c) \/ TimedTest(c) \/ HugeTest(c)
             \/ TimedExpire(c) \/ TimedGiveUp(c) \/ PollTest(c) \/ DetachMark(c)
             \/ DetachFree(c) \/ ClientWakesUp(c)
      PROVE  QueueUntouched
  BY <1>4 DEF JoinTest, JoinTake, TimedTest, HugeTest, TakeOr, TimedExpire, TimedGiveUp,
     PollTest, DetachMark, DetachFree, ClientWakesUp, Woken
<1> QED
  BY <1>1, <1>2, <1>3, <1>4, QueueStays

\* Waiting for work concerns no task.
LEMMA UntouchedMovesNone == ASSUME TaskInv, TasksUntouched PROVE NoneMoves
<1> USE DEF TasksUntouched, BusyPcs, TaskCallPcs, PushedPcs, DetachPcs, InPool, RunPcs, Held, Holds
<1>1. \A u \in Tasks : Queued(u)' <=> Queued(u)
  BY PlacesStay DEF TaskInv
<1>2. \A u \in Tasks : Phase(u)' = Phase(u)
  BY <1>1, PhaseDepends
<1>3. DetachedTasks' = DetachedTasks
  BY DEF DetachedTasks
<1> QED
  BY <1>2, <1>3 DEF NoneMoves

\* Line 131: the task starts, and this worker had none.
LEMMA ReadIsStart ==
    ASSUME TypeOK, WholeInv, TaskInv, NEW w \in Workers, WorkerRead(w)
    PROVE  \E t \in Tasks : Service!Start(t)
<1> USE ConstantsAssumption DEF ConstantsAssumption
<1>1. PICK t \in Tasks :
        /\ t = wtask'[w] /\ Queued(t)
        /\ \A u \in Tasks : Queued(u)' <=> Queued(u) /\ u # t
  BY ReadTakesLast DEF TaskInv
<1>2. /\ wpc[w] = "read" /\ wpc'[w] = "count" /\ wtask'[w] = t
      /\ \A v \in Workers : v # w => wpc'[v] = wpc[v] /\ wtask'[v] = wtask[v]
      /\ UNCHANGED <<taskVars, clientVars>>
  BY <1>1 DEF WorkerRead, TypeOK, WorkerTypeOK
<1>3. Phase(t) = "queued" /\ Phase(t)' = "running"
  BY <1>1, <1>2 DEF Phase, TaskInv, PlaceTellsStatus, StatusTells, Held, Holds, InPool
<1>4. \A u \in Tasks : u # t => (Held(u, RunPcs)' <=> Held(u, RunPcs))
  BY <1>2 DEF Held, Holds, RunPcs, InPool
<1>5. OthersStay(t)
  BY <1>1, <1>2, <1>4, PhaseDepends DEF OthersStay
<1>6. DetachedTasks' = DetachedTasks
  <2>1. \A u : Held(u, {"free"})' <=> Held(u, {"free"})
    BY <1>2 DEF Held, Holds
  <2> QED
    BY <1>2, <2>1 DEF DetachedTasks
<1>7. Cardinality(Service!In("running")) < MaxThreads
  BY <1>2, RunningFit DEF RunPcs, InPool
<1>8. Service!Moves(t, "queued", "running")
  BY <1>3, <1>5, MoveOf
<1> QED
  BY <1>6, <1>7, <1>8, SameCardinality DEF Service!Start

\* Lines 132-148: the task is run all the while.
LEMMA WorkMovesNone ==
    ASSUME TypeOK, TaskInv, NEW w \in Workers,
           WorkerCount(w) \/ WorkerStart(w) \/ WorkerComplete(w) \/ WorkerSignal(w)
    PROVE  NoneMoves
<1> USE ConstantsAssumption DEF ConstantsAssumption, TypeOK, PoolTypeOK, LifeTypeOK, TaskTypeOK,
                                WorkerTypeOK,
            ClientTypeOK
<1>1. \A u \in Tasks : Queued(u)' <=> Queued(u)
  BY ArrayLeftAlone
<1>2. \A u \in Tasks : Held(u, RunPcs)' <=> Held(u, RunPcs)
  BY DEF WorkerCount, WorkerStart, WorkerComplete, WorkerSignal, Held, Holds, RunPcs, InPool,
     TaskInv, PlaceTellsStatus
<1>3. /\ UNCHANGED alive
      /\ \A c \in Clients : /\ cpc'[c] = "detach_free" <=> cpc[c] = "detach_free"
                            /\ ctask'[c] = ctask[c]
  BY DEF WorkerCount, WorkerStart, WorkerComplete, WorkerSignal, TaskSleepers, Woken
<1>4. \A u \in Tasks : \/ status'[u] = status[u]
                       \/ {status[u], status'[u]} \cap {"ABSENT", "FINISHED", "DETACHED"} = {}
  BY DEF WorkerCount, WorkerStart, WorkerComplete, WorkerSignal, StartedStatus,
     TaskInv, PlaceTellsStatus
<1>5. \A u \in Tasks : Phase(u)' = Phase(u)
  BY <1>1, <1>2, <1>3, <1>4, PhaseDepends, SMTT(60)
<1>6. \A u \in Tasks : Held(u, {"free"})' <=> Held(u, {"free"})
  BY SMTT(60) DEF WorkerCount, WorkerStart, WorkerComplete, WorkerSignal, Held, Holds
<1>7. DetachedTasks' = DetachedTasks
  BY <1>3, <1>4, <1>6 DEF DetachedTasks
<1> QED
  BY <1>5, <1>7 DEF NoneMoves

\* Lines 150-158: the task is finished; a detached one is left to be freed.
LEMMA PublishIsFinish ==
    ASSUME TypeOK, TaskInv, NEW w \in Workers, WorkerPublish(w)
    PROVE  NoneMoves \/ \E t \in Tasks : Service!Finish(t)
<1> USE ConstantsAssumption DEF ConstantsAssumption, TypeOK, PoolTypeOK, LifeTypeOK, TaskTypeOK,
                                WorkerTypeOK,
            ClientTypeOK
<1>1. PICK u \in Tasks : u = wtask[w]
  BY DEF WorkerPublish, TaskInv, PlaceTellsStatus, InPool
<1>2. /\ u \in alive /\ status[u] \in {"RUNNING", "DETACHED"} /\ ~Queued(u)
      /\ \A v \in Workers : v # w /\ wpc[v] \in RunPcs => wtask[v] # u
      /\ \A c \in Clients : cpc[c] = "detach_free" => ctask[c] # u
  BY <1>1 DEF WorkerPublish, TaskInv, PlaceTellsStatus, StatusTells, ClientTells,
     QueuedOrHeld, OneWorker, Held, Holds, RunPcs, InPool
<1>3. /\ wpc[w] = "publish" /\ UNCHANGED <<alive, wtask, cpc, ctask>>
      /\ wpc' = [wpc EXCEPT ![w] = IF status[u] = "DETACHED" THEN "free" ELSE "signal"]
      /\ status' = [status EXCEPT ![u] =
                      IF status[u] = "DETACHED" THEN "JOINED" ELSE "FINISHED"]
  BY <1>1 DEF WorkerPublish, Detached
<1>4. \A x \in Tasks : Queued(x)' <=> Queued(x)
  BY ArrayLeftAlone
<1>5. \A x \in Tasks : x # u => (Held(x, RunPcs)' <=> Held(x, RunPcs))
  BY <1>1, <1>3 DEF Held, Holds, RunPcs, InPool
<1>6. OthersStay(u)
  BY <1>3, <1>4, <1>5, PhaseDepends DEF OthersStay
<1>7. Phase(u) = "running"
  BY <1>1, <1>2, <1>3 DEF Phase, Held, Holds, InPool
<1>8. CASE status[u] = "DETACHED"
  <2>1. Phase(u)' = "running"
    BY <1>1, <1>2, <1>3, <1>4, <1>8 DEF Phase, Held, Holds
  <2>2. DetachedTasks' = DetachedTasks
    BY <1>1, <1>2, <1>3, <1>8 DEF DetachedTasks, Held, Holds
  <2> QED
    BY <1>6, <1>7, <2>1, <2>2 DEF NoneMoves, OthersStay
<1>9. CASE status[u] = "RUNNING"
  <2>1. ~Held(u, RunPcs)'
    BY <1>1, <1>2, <1>3, <1>9 DEF Held, Holds, RunPcs, InPool
  <2>2. Phase(u)' = "done"
    BY <1>2, <1>3, <1>4, <1>9, <2>1 DEF Phase, RunPcs
  <2>3. DetachedTasks' = DetachedTasks
    BY <1>1, <1>2, <1>3, <1>9 DEF DetachedTasks, Held, Holds
  <2>4. u \notin DetachedTasks
    BY <1>1, <1>2, <1>3, <1>9 DEF DetachedTasks, Held, Holds, RunPcs
  <2>5. Service!Moves(u, "running", "done")
    BY <1>6, <1>7, <2>2, MoveOf
  <2> QED
    BY <2>3, <2>4, <2>5 DEF Service!Finish
<1> QED
  BY <1>2, <1>8, <1>9

\* Lines 153-154: a detached task that was run is freed.
LEMMA FreeIsReap ==
    ASSUME TypeOK, TaskInv, NEW w \in Workers, WorkerFree(w)
    PROVE  \E t \in Tasks : Service!Reap(t)
<1> USE ConstantsAssumption DEF ConstantsAssumption, TypeOK, PoolTypeOK, LifeTypeOK, TaskTypeOK,
                                WorkerTypeOK,
            ClientTypeOK
<1>1. PICK u \in Tasks : u = wtask[w]
  BY DEF WorkerFree, TaskInv, PlaceTellsStatus
<1>2. /\ u \in alive /\ status[u] = "JOINED" /\ ~Queued(u)
      /\ \A v \in Workers : v # w /\ wpc[v] \in RunPcs => wtask[v] # u
      /\ \A c \in Clients : cpc[c] = "detach_free" => ctask[c] # u
  BY <1>1 DEF WorkerFree, TaskInv, PlaceTellsStatus, StatusTells, ClientTells,
     QueuedOrHeld, OneWorker, Held, Holds, RunPcs, InPool
<1>3. /\ wpc[w] = "free" /\ UNCHANGED <<status, cpc, ctask>>
      /\ wpc' = [wpc EXCEPT ![w] = "lock"] /\ wtask' = [wtask EXCEPT ![w] = None]
      /\ alive' = alive \ {u}
  BY <1>1, <1>2 DEF WorkerFree, FreeTask, Deletable
<1>4. \A x \in Tasks : Queued(x)' <=> Queued(x)
  BY ArrayLeftAlone
<1>5. \A x \in Tasks : x # u => (Held(x, RunPcs)' <=> Held(x, RunPcs))
  BY <1>1, <1>3 DEF Held, Holds, RunPcs, InPool
<1>6. OthersStay(u)
  BY <1>3, <1>4, <1>5, PhaseDepends DEF OthersStay
<1>7. Phase(u) = "running" /\ Phase(u)' = "gone"
  BY <1>1, <1>2, <1>3 DEF Phase, Held, Holds
<1>8. u \in DetachedTasks /\ DetachedTasks' = DetachedTasks \ {u}
  BY <1>1, <1>2, <1>3 DEF DetachedTasks, Held, Holds
<1>9. Service!Moves(u, "running", "gone")
  BY <1>6, <1>7, MoveOf
<1> QED
  BY <1>8, <1>9 DEF Service!Reap

\* A task of its owner that is not in the pool.
LEMMA OwnedIsIdle ==
    ASSUME TypeOK, TaskInv, NEW t \in owned, status[t] \in {"CREATED", "JOINED"}
    PROVE  /\ Phase(t) = "idle" /\ t \notin DetachedTasks
           /\ ~Queued(t) /\ ~Held(t, RunPcs)
<1>1. t \in Tasks /\ t \in alive
  BY DEF TypeOK, TaskTypeOK, TaskInv, StatusTells
<1>2. ~Queued(t) /\ ~Held(t, RunPcs)
  BY <1>1 DEF TaskInv, PlaceTellsStatus, Held, Holds, RunPcs, InPool
<1>3. \A c \in Clients : ~(cpc[c] = "detach_free" /\ ctask[c] = t)
  BY DEF TaskInv, ClientTells
<1>4. Phase(t) = "idle"
  BY <1>1, <1>2, <1>3 DEF Phase, RunPcs
<1>5. t \notin DetachedTasks
  BY <1>2 DEF DetachedTasks, Held, Holds, RunPcs
<1> QED
  BY <1>2, <1>4, <1>5

\* thread_task_new.
LEMMA NewIsCreate ==
    ASSUME TypeOK, TaskInv, NEW c \in Clients, NEW t \in Tasks, TaskNew(c, t)
    PROVE  Service!Create(t)
<1> USE ConstantsAssumption DEF ConstantsAssumption, TypeOK, PoolTypeOK, LifeTypeOK, TaskTypeOK,
                                WorkerTypeOK,
            ClientTypeOK
<1>1. /\ status[t] = "ABSENT" /\ status' = [status EXCEPT ![t] = "CREATED"]
      /\ alive' = alive \cup {t} /\ t \notin alive
      /\ UNCHANGED <<wpc, wtask, cpc, ctask>>
  BY DEF TaskNew, TaskInv, StatusTells
<1>2. /\ \A u \in Tasks : Queued(u)' <=> Queued(u)
      /\ \A u \in Tasks : Held(u, RunPcs)' <=> Held(u, RunPcs)
  BY <1>1, ArrayLeftAlone DEF Held, Holds
<1>3. OthersStay(t)
  BY <1>1, <1>2, PhaseDepends DEF OthersStay
<1>4. ~Queued(t) /\ ~Held(t, RunPcs)
  BY <1>1 DEF TaskInv, PlaceTellsStatus, Held, Holds, RunPcs, InPool
<1>5. \A c_1 \in Clients : ~(cpc[c_1] = "detach_free" /\ ctask[c_1] = t)
  BY <1>1 DEF TaskInv, ClientTells
<1>6. Phase(t) = "none" /\ Phase(t)' = "idle"
  BY <1>1, <1>2, <1>4, <1>5 DEF Phase, RunPcs
<1>7. DetachedTasks' = DetachedTasks
  BY <1>1, <1>4 DEF DetachedTasks, Held, Holds, RunPcs
<1> QED
  BY <1>3, <1>6, <1>7, MoveOf DEF Service!Create

\* thread_task_delete frees a task that is not in the pool.
LEMMA DeleteIsFree ==
    ASSUME TypeOK, TaskInv, NEW c \in Clients, NEW t \in Tasks, TaskDelete(c, t)
    PROVE  NoneMoves \/ Service!Free(t)
<1> USE ConstantsAssumption DEF ConstantsAssumption, TypeOK, PoolTypeOK, LifeTypeOK, TaskTypeOK,
                                WorkerTypeOK,
            ClientTypeOK
<1>1. t \in owned /\ UNCHANGED <<status, wpc, wtask, cpc, ctask>>
  BY DEF TaskDelete
<1>2. /\ \A u \in Tasks : Queued(u)' <=> Queued(u)
      /\ \A u \in Tasks : Held(u, RunPcs)' <=> Held(u, RunPcs)
  BY <1>1, ArrayLeftAlone DEF Held, Holds
<1>3. CASE Deletable(t)
  <2>1. alive' = alive \ {t} /\ status[t] \in {"CREATED", "JOINED"}
    BY <1>3 DEF TaskDelete, FreeTask, Deletable
  <2>2. OthersStay(t)
    BY <1>1, <1>2, <2>1, PhaseDepends DEF OthersStay
  <2>3. Phase(t) = "idle" /\ t \notin DetachedTasks
    BY <1>1, <2>1, OwnedIsIdle
  <2>4. Phase(t)' = "gone"
    BY <1>1, <2>1 DEF Phase
  <2>5. DetachedTasks' = DetachedTasks
    BY <1>1, <2>1, <2>3 DEF DetachedTasks, Held, Holds
  <2>6. Service!Moves(t, "idle", "gone")
    BY <2>2, <2>3, <2>4, MoveOf
  <2> QED
    BY <2>5, <2>6 DEF Service!Free
<1>4. CASE ~Deletable(t)
  <2>1. alive' = alive
    BY <1>4 DEF TaskDelete, FreeTask
  <2>2. \A u \in Tasks : Phase(u)' = Phase(u)
    BY <1>1, <1>2, <2>1, PhaseDepends
  <2>3. DetachedTasks' = DetachedTasks
    BY <1>1, <2>1 DEF DetachedTasks, Held, Holds
  <2> QED
    BY <2>2, <2>3 DEF NoneMoves
<1> QED
  BY <1>3, <1>4

\* A call that begins, a wait, and a join that gives up.
LEMMA CallMovesNone ==
    ASSUME TypeOK, TaskInv, NEW c \in Clients,
           \/ \E t \in Tasks : PushCheck(c, t) \/ JoinCall(c, t) \/ DetachCall(c, t)
           \/ JoinTest(c) \/ TimedExpire(c) \/ TimedGiveUp(c) \/ ClientWakesUp(c)
    PROVE  NoneMoves
<1> USE ConstantsAssumption DEF ConstantsAssumption, TypeOK, PoolTypeOK, LifeTypeOK, TaskTypeOK,
                                WorkerTypeOK,
            ClientTypeOK
<1>1. /\ UNCHANGED <<status, alive, wpc, wtask>>
      /\ \A d \in Clients : cpc[d] = "detach_free" \/ cpc'[d] = "detach_free" =>
           cpc'[d] = cpc[d] /\ ctask'[d] = ctask[d]
  BY DEF PushCheck, JoinCall, JoinCalls, DetachCall, JoinTest, TimedExpire, TimedGiveUp,
         ClientWakesUp, Woken
<1>2. /\ \A u \in Tasks : Queued(u)' <=> Queued(u)
      /\ \A u \in Tasks : Held(u, RunPcs)' <=> Held(u, RunPcs)
  BY <1>1, ArrayLeftAlone DEF Held, Holds
<1>3. \A u \in Tasks : Phase(u)' = Phase(u)
  BY <1>1, <1>2, PhaseDepends
<1>4. DetachedTasks' = DetachedTasks
  BY <1>1 DEF DetachedTasks, Held, Holds
<1> QED
  BY <1>3, <1>4 DEF NoneMoves

\* Line 181: the task is queued, and QueueBound leaves room for it.
LEMMA MarkIsPush ==
    ASSUME TypeOK, QueueBound, WholeInv, TaskInv, NEW c \in Clients, PushMark(c)
    PROVE  \E t \in Tasks : Service!Push(t)
<1> USE ConstantsAssumption DEF ConstantsAssumption, TypeOK, PoolTypeOK, LifeTypeOK, TaskTypeOK,
                                WorkerTypeOK,
            ClientTypeOK
<1>1. cpc[c] = "push_mark"
  BY DEF PushMark
<1>2. /\ ctask[c] \in Tasks /\ ctask[c] \in owned /\ ctask[c] \in alive
      /\ status[ctask[c]] \in {"CREATED", "JOINED"}
  BY <1>1 DEF TaskInv, ClientTells, TaskCallPcs, PushedPcs
<1>3. PICK t \in Tasks : t = ctask[c]
  BY <1>2
<1>4. /\ cpc' = [cpc EXCEPT ![c] = "push_spawn"]
      /\ status' = [status EXCEPT ![t] = "WAITING"]
      /\ UNCHANGED <<alive, wpc, wtask, ctask>>
  BY <1>3 DEF PushMark
<1>5. /\ Phase(t) = "idle" /\ t \notin DetachedTasks
      /\ ~Queued(t) /\ ~Held(t, RunPcs)
  BY <1>2, <1>3, OwnedIsIdle
<1>6. \A u \in Tasks : Queued(u)' <=> Queued(u) \/ u = t
  BY <1>3, <1>5, MarkQueuesTask DEF TaskInv
<1>7. \A u \in Tasks : Held(u, RunPcs)' <=> Held(u, RunPcs)
  BY <1>1, <1>4 DEF Held, Holds
<1>8. OthersStay(t)
  BY <1>1, <1>2, <1>3, <1>4, <1>6, <1>7, PhaseDepends DEF OthersStay
<1>9. Phase(t)' = "queued"
  BY <1>2, <1>3, <1>4, <1>6 DEF Phase
<1>10. DetachedTasks' = DetachedTasks
  BY <1>1, <1>2, <1>3, <1>4, <1>5 DEF DetachedTasks, Held, Holds
<1>11. Cardinality(Service!In("queued")) < MaxTasks + Cardinality(Clients) - 1
  <2>1. IsFiniteSet(Pushing) /\ Cardinality(Pushing) \in Nat
    BY PushingIsFinite
  <2>2. QueueLen = tasks_count - 1
    BY MarkAddsToQueue DEF WholeInv
  <2>3. QueueLen \in Nat /\ Cardinality(Clients) \in Nat
    BY QueuedFit, FS_CardinalityType
  <2>4. IsFiniteSet(Service!In("queued")) /\ Cardinality(Service!In("queued")) <= QueueLen
    BY QueuedFit
  <2>5. Cardinality(Service!In("queued")) \in Nat
    BY <2>4, FS_CardinalityType
  <2> QED
    BY <2>1, <2>2, <2>3, <2>4, <2>5 DEF QueueBound
<1>12. Service!Moves(t, "idle", "queued")
  BY <1>5, <1>8, <1>9, MoveOf
<1> QED
  BY <1>10, <1>11, <1>12, SameCardinality DEF Service!Push

\* A finished task is taken by a join; one that is not is left alone.
LEMMA TakeIsJoin ==
    ASSUME TypeOK, TaskInv, NEW c \in Clients,
           JoinTake(c) \/ TimedTest(c) \/ HugeTest(c) \/ PollTest(c)
    PROVE  NoneMoves \/ \E t \in Tasks : Service!Join(t)
<1> USE ConstantsAssumption DEF ConstantsAssumption, TypeOK, PoolTypeOK, LifeTypeOK, TaskTypeOK,
                                WorkerTypeOK,
            ClientTypeOK
<1>1. PICK t \in Tasks : t = ctask[c]
  BY DEF JoinTake, TimedTest, HugeTest, TakeOr, PollTest, TaskInv, ClientTells, TaskCallPcs,
         PushedPcs, JoinPcs
<1>2. /\ t \in owned /\ t \in alive
      /\ UNCHANGED <<alive, wpc, wtask>>
      /\ \A d \in Clients : cpc[d] = "detach_free" \/ cpc'[d] = "detach_free" =>
           cpc'[d] = cpc[d] /\ ctask'[d] = ctask[d]
  BY <1>1 DEF JoinTake, TimedTest, HugeTest, TakeOr, PollTest, TaskInv, ClientTells, TaskCallPcs,
              PushedPcs, JoinPcs
<1>3. \/ status' = status
      \/ status[t] = "FINISHED" /\ status' = [status EXCEPT ![t] = "JOINED"]
  BY <1>1 DEF JoinTake, TimedTest, HugeTest, TakeOr, PollTest, Finished, TaskInv, ClientTells
<1>4. /\ \A u \in Tasks : Queued(u)' <=> Queued(u)
      /\ \A u \in Tasks : Held(u, RunPcs)' <=> Held(u, RunPcs)
  BY <1>2, ArrayLeftAlone DEF Held, Holds
<1>5. CASE status' = status
  <2>1. \A u \in Tasks : Phase(u)' = Phase(u)
    BY <1>2, <1>4, <1>5, PhaseDepends
  <2>2. DetachedTasks' = DetachedTasks
    BY <1>2, <1>5 DEF DetachedTasks, Held, Holds
  <2> QED
    BY <2>1, <2>2 DEF NoneMoves
<1>6. CASE status[t] = "FINISHED" /\ status' = [status EXCEPT ![t] = "JOINED"]
  <2>1. ~Queued(t) /\ ~Held(t, RunPcs)
    BY <1>6 DEF TaskInv, PlaceTellsStatus, Held, Holds, RunPcs, InPool
  <2>2. \A d \in Clients : ~(cpc[d] = "detach_free" /\ ctask[d] = t)
    BY <1>6 DEF TaskInv, ClientTells
  <2>3. \A d \in Clients : ~(cpc'[d] = "detach_free" /\ ctask'[d] = t)
    BY <1>2, <2>2
  <2>4. Phase(t) = "done"
    BY <1>2, <1>6, <2>1 DEF Phase, RunPcs
  <2>5. Phase(t)' = "idle"
    BY <1>2, <1>4, <1>6, <2>1, <2>3 DEF Phase, RunPcs
  <2>6. OthersStay(t)
    BY <1>2, <1>4, <1>6, PhaseDepends DEF OthersStay
  <2>7. DetachedTasks' = DetachedTasks
    BY <1>2, <1>6 DEF DetachedTasks, Held, Holds
  <2>8. Service!Moves(t, "done", "idle")
    BY <2>4, <2>5, <2>6, MoveOf
  <2> QED
    BY <2>7, <2>8 DEF Service!Join
<1> QED
  BY <1>3, <1>5, <1>6

\* Lines 321-332: a task in the pool is detached; a finished one is about to be freed.
LEMMA MarkIsDetach ==
    ASSUME TypeOK, TaskInv, NEW c \in Clients, DetachMark(c)
    PROVE  NoneMoves \/ \E t \in Tasks : Service!Detach(t)
<1> USE ConstantsAssumption DEF ConstantsAssumption, TypeOK, PoolTypeOK, LifeTypeOK, TaskTypeOK,
                                WorkerTypeOK,
            ClientTypeOK
<1>1. PICK t \in Tasks : t = ctask[c]
  BY DEF DetachMark, TaskInv, ClientTells, TaskCallPcs, DetachPcs
<1>2. /\ t \in alive /\ status[t] \in {"WAITING", "RUNNING", "FINISHED"}
      /\ UNCHANGED <<alive, wpc, wtask>>
      /\ \A d \in Clients \ {c} : cpc'[d] = cpc[d] /\ ctask'[d] = ctask[d]
      /\ cpc[c] = "detach_lock"
  BY <1>1 DEF DetachMark, TaskInv, ClientTells, TaskCallPcs, DetachPcs
<1>3. /\ \A u \in Tasks : Queued(u)' <=> Queued(u)
      /\ \A u \in Tasks : Held(u, RunPcs)' <=> Held(u, RunPcs)
  BY <1>2, ArrayLeftAlone DEF Held, Holds
<1>4. CASE status[t] = "FINISHED"
  <2>1. /\ status' = [status EXCEPT ![t] = "JOINED"]
        /\ cpc'[c] = "detach_free" /\ ctask'[c] = t
    BY <1>1, <1>4 DEF DetachMark, DetachedAs, Finished
  <2>2. ~Queued(t) /\ ~Held(t, RunPcs)
    BY <1>4 DEF TaskInv, PlaceTellsStatus, Held, Holds, RunPcs, InPool
  <2>3. Phase(t) = "done" /\ Phase(t)' = "done"
    BY <1>2, <1>3, <1>4, <2>1, <2>2 DEF Phase, RunPcs
  <2>4. OthersStay(t)
    BY <1>1, <1>2, <1>3, <2>1, PhaseDepends DEF OthersStay
  <2>5. DetachedTasks' = DetachedTasks
    BY <1>2, <1>4, <2>1 DEF DetachedTasks, Held, Holds
  <2> QED
    BY <2>3, <2>4, <2>5 DEF NoneMoves, OthersStay
<1>5. CASE status[t] # "FINISHED"
  <2>1. /\ status' = [status EXCEPT ![t] = "DETACHED"]
        /\ cpc'[c] = "idle"
    BY <1>1, <1>5 DEF DetachMark, DetachedAs, Finished
  <2>2. \A d \in Clients : cpc[d] = "detach_free" \/ cpc'[d] = "detach_free" =>
           cpc'[d] = cpc[d] /\ ctask'[d] = ctask[d]
    BY <1>2, <2>1
  <2>3. \A u \in Tasks : Phase(u)' = Phase(u)
    BY <1>2, <1>3, <1>5, <2>1, <2>2, PhaseDepends
  <2>4. Phase(t) \in {"queued", "running"}
    BY <1>2, <1>5 DEF TaskInv, StatusTells, Phase, Held, Holds, RunPcs, InPool
  <2>5. t \notin DetachedTasks
    BY <1>2 DEF DetachedTasks, TaskInv, PlaceTellsStatus, Held, Holds
  <2>6. DetachedTasks' = DetachedTasks \cup {t}
    BY <1>2, <1>5, <2>1 DEF DetachedTasks, Held, Holds
  <2> QED
    BY <2>3, <2>4, <2>5, <2>6 DEF Service!Detach, PhaseMap
<1> QED
  BY <1>4, <1>5

\* Lines 326-328: a finished task that was detached is freed.
LEMMA DetachFreeIsFree ==
    ASSUME TypeOK, TaskInv, NEW c \in Clients, DetachFree(c)
    PROVE  \E t \in Tasks : Service!Free(t)
<1> USE ConstantsAssumption DEF ConstantsAssumption, TypeOK, PoolTypeOK, LifeTypeOK, TaskTypeOK,
                                WorkerTypeOK,
            ClientTypeOK
<1>1. PICK t \in Tasks : t = ctask[c]
  BY DEF DetachFree, TaskInv, ClientTells, TaskCallPcs, DetachPcs
<1>2. /\ t \in alive /\ status[t] = "JOINED" /\ ~Held(t, {"free"}) /\ Owner[t] = c
      /\ cpc[c] = "detach_free"
      /\ cpc' = [cpc EXCEPT ![c] = "idle"] /\ ctask' = [ctask EXCEPT ![c] = None]
      /\ alive' = alive \ {t} /\ UNCHANGED <<status, wpc, wtask>>
  BY <1>1 DEF DetachFree, FreeTask, Deletable, TaskInv, ClientTells, TaskCallPcs, DetachPcs
<1>3. /\ \A u \in Tasks : Queued(u)' <=> Queued(u)
      /\ \A u \in Tasks : Held(u, RunPcs)' <=> Held(u, RunPcs)
  BY <1>2, ArrayLeftAlone DEF Held, Holds
<1>4. ~Queued(t) /\ ~Held(t, RunPcs)
  BY <1>2 DEF TaskInv, PlaceTellsStatus, Held, Holds, RunPcs, InPool
<1>5. Phase(t) = "done" /\ Phase(t)' = "gone"
  BY <1>1, <1>2, <1>4 DEF Phase, RunPcs
<1>6. OthersStay(t)
  BY <1>1, <1>2, <1>3, PhaseDepends DEF OthersStay
<1>7. DetachedTasks' = DetachedTasks
  BY <1>2, <1>4 DEF DetachedTasks, Held, Holds, RunPcs
<1>8. Service!Moves(t, "done", "gone")
  BY <1>5, <1>6, MoveOf
<1> QED
  BY <1>7, <1>8 DEF Service!Free

-----------------------------------------------------------------------------
(* The theorem *)

\* A new pool is a service without tasks.
LEMMA ServiceInit == Init => Service!Init
<1> SUFFICES ASSUME Init PROVE Service!Init
  OBVIOUS
<1>1. \A t \in Tasks : Phase(t) = "none"
  BY DEF Init, Phase
<1>2. DetachedTasks = {}
  BY DEF Init, DetachedTasks
<1> QED
  BY <1>1, <1>2 DEF Service!Init, PhaseMap

\* As long as the mutex is whole, a step of the pool is a step of the service, or none.
LEMMA ServiceNext ==
    ASSUME TypeOK, QueueBound, WholeInv, TaskInv, [Next]_vars
    PROVE  Service!Next \/ UNCHANGED Service!serviceVars
<1> SUFFICES NoneMoves \/ Service!Next
  BY StutterOf
<1>1. CASE TasksUntouched
  BY <1>1, UntouchedMovesNone
<1>2. ASSUME NEW w \in Workers,
             \/ WorkerRead(w) \/ WorkerCount(w) \/ WorkerStart(w) \/ WorkerComplete(w)
             \/ WorkerPublish(w) \/ WorkerFree(w) \/ WorkerSignal(w)
      PROVE  NoneMoves \/ Service!Next
  BY <1>2, ReadIsStart, WorkMovesNone, PublishIsFinish, FreeIsReap DEF Service!Next
<1>3. ASSUME NEW c \in Clients, NEW t \in Tasks, TaskNew(c, t) \/ TaskDelete(c, t)
      PROVE  NoneMoves \/ Service!Next
  BY <1>3, NewIsCreate, DeleteIsFree DEF Service!Next
<1>4. ASSUME NEW c \in Clients,
             \/ \E t \in Tasks : PushCheck(c, t) \/ JoinCall(c, t) \/ DetachCall(c, t)
             \/ JoinTest(c) \/ TimedExpire(c) \/ TimedGiveUp(c) \/ ClientWakesUp(c)
      PROVE  NoneMoves
  BY <1>4, CallMovesNone
<1>5. ASSUME NEW c \in Clients,
             \/ PushMark(c) \/ JoinTake(c) \/ TimedTest(c) \/ HugeTest(c) \/ PollTest(c)
             \/ DetachMark(c) \/ DetachFree(c)
      PROVE  NoneMoves \/ Service!Next
  BY <1>5, MarkIsPush, TakeIsJoin, MarkIsDetach, DetachFreeIsFree DEF Service!Next
<1> QED
  BY <1>1, <1>2, <1>3, <1>4, <1>5, PoolStepsTouchNoTask

\* As long as the mutex is whole, the pool implements the service: each push is run
\* once, by a bounded number of threads at a time, joined when it is done, and freed
\* once.
THEOREM PoolImplementsService == Spec => ImplementsService
<1> DEFINE Step == torn' \/ UNCHANGED <<PhaseMap, DetachedTasks>> \/ Service!Next
<1>1. Init => Service!Init
  BY ServiceInit
<1>2. PoolInv /\ (MutexWhole => TaskInv) /\ [Next]_vars => Step
  <2> SUFFICES ASSUME PoolInv, MutexWhole => TaskInv, [Next]_vars, ~torn' PROVE Step
    OBVIOUS
  <2>1. MutexWhole
    BY WholeBefore DEF PoolInv
  <2> QED
    BY <2>1, ServiceNext DEF PoolInv, Service!serviceVars
<1>3. Spec => Service!Init /\ [][Step]_vars
  <2> HIDE DEF Step
  <2> QED
    BY <1>1, <1>2, PoolInvariance, TaskInvariance, PTL DEF Spec
<1> QED
  BY <1>3 DEF ImplementsService

\* Where pthread_create never fails, this is the whole specification of the service.
THEOREM PoolIsService == ~CreateMayFail => (Spec => Service!Spec)
<1> SUFFICES ASSUME ~CreateMayFail PROVE Spec => Service!Spec
  OBVIOUS
<1>1. Init => MutexWhole /\ NoPendingUnlock
  BY DEF Init, NoPendingUnlock
<1>2. TypeOK /\ (MutexWhole /\ NoPendingUnlock) /\ [Next]_vars => (MutexWhole /\ NoPendingUnlock)'
  BY UnlockStays DEF PushCreateFails
<1>3. PoolInv => TypeOK
  BY DEF PoolInv
<1>4. PoolInv /\ (MutexWhole => TaskInv) /\ (MutexWhole /\ NoPendingUnlock) /\ [Next]_vars
        => [Service!Next]_Service!serviceVars
  BY ServiceNext DEF PoolInv
<1> HIDE DEF MutexWhole
<1> QED
  BY <1>1, <1>2, <1>3, <1>4, ServiceInit, PoolInvariance, TaskInvariance, PTL
  DEF Spec, Service!Spec

=============================================================================
