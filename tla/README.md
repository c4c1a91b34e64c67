# Verification of sysprog-hw

TLA+ models of the programs of this repository, what TLC checks of them on
small instances, and what TLAPS proves of them for instances of any size.
Paths are relative to the root of the repository.

## 1. The system and its parts

The repository holds four C programs and a tool, independent of each other at
run time.

| Part | Source | State it keeps | Operations |
|---|---|---|---|
| Thread pool | `4/thread_pool.c` | array of queued tasks, thread and progress counters, `is_deleted`, a mutex and a condition variable; per task a status, a result, a mutex and a condition variable | `thread_pool_new/push_task/delete`, `thread_task_new/join/timed_join/detach/delete`, the worker loop |
| UserFS, files and descriptors | `3/userfs.c` | doubly linked `file_list`, `refs` and `is_del` of each file, the growing array of descriptors with its count and capacity | `ufs_open/close/delete/destroy` |
| UserFS, data | `3/userfs.c` | per file a list of blocks, per descriptor a position and its rights | `ufs_write`, `ufs_read` (`ufs_resize` is not compiled) |
| Coroutines | `1/libcoro.c` | list of coroutines, `coro_this_ptr`, `is_sched_waiting`, saved contexts, working times | `coro_new`, `coro_yield`, `coro_sched_wait`, `coro_delete`, `yield_coro_period_end` |
| Sorting program | `1/solution.c` | one array per file | reading, `mergesort` inside coroutines, merging, writing |
| Shell parser | `2/parser.c` | buffer of bytes fed and not yet parsed | `parser_feed`, `parser_pop_next` |
| Shell execution | `2/solution.c` | pipes, children, last status | `execute_command_line` |
| Heap tracer | `utils/heap_help/heap_help.c` | list, pool and count of allocation records, initialisation flags and lock, where the default functions point to, exit flag | replacements of `malloc`, `free`, `realloc`, ..., `heaph_init`, `heaph_atexit` |

How they interact.  The pool's workers and the threads that use it share the
pool and the tasks; they meet in the pool mutex, in each task's mutex, in two
kinds of condition variable and in atomics that are read and written outside of
both mutexes.  In UserFS, descriptors share files and the walk of `file_find`
depends on everything created and deleted before; there is one thread.
Coroutines share one stack of control: each runs until it yields to the next of
a list that may have changed since it last ran.  The parser feeds command lines
to the shell.  The sorting program runs one coroutine per file and
reads their arrays when all have been returned to it.  The heap tracer is linked
under the programs and their tests; it shares its table with all their threads.

What is hard, and for which part:

* *Pool*: interleavings around unlocked atomics, lost wake-ups, the lifetime of
  tasks and of the pool, timeouts that race completion, a failing
  `pthread_create`, threads that must eventually do something.
* *UserFS*: long sequences of legal calls, files that are deleted while open,
  calls that fail half-way, positions at the edges of blocks.
* *Coroutines*: links that are stale when used, a fair turn for everyone, exact
  charging of time over switches.  *Sorting*: recursive calls that give up control
  in the middle, a comparator that overflows, failing reads and mallocs.
* *Parser*: independence of how the input is cut.  *Shell*: processes that exit
  in any order, failing `execvp`.  *Heap tracer*: first use by two threads,
  addresses reused between two steps, an exit in the middle of other calls.

What makes each part correct: for the pool, that every pushed task is run once
and its joiner woken, and that memory outlives its users; for UserFS, that
names lead to files and descriptors keep theirs, and that blocks cannot be told
from a flat file; for the coroutines, that control only goes to live coroutines
and each one is returned to `main`; for the sorting program, that the output is
all of the input in order; for the parser, that chunks do not matter;
for the shell, that the status is that of the last command; for the tracer, that
the table is the set of live allocations and the report at exit their number.

## 2. Modules

| Module | Contents |
|---|---|
| `ThreadPool` | the pool: state, one action per access to what its threads share, `Spec`, `FairSpec` |
| `ThreadPoolProperties` | type invariant, invariants, refinement, liveness of the pool |
| `TaskService` | abstract specification of what the pool promises of a task |
| `ThreadPoolProofs` | the inductive invariants of the pool and of the custody of tasks, their theorems, and the proof that the pool implements `TaskService` |
| `MCThreadPool` | owners of tasks for TLC |
| `UserFS`, `UserFSProperties`, `UserFSProofs`, `MCUserFS` | files, list, descriptors; their properties; proofs; TLC instance |
| `UserFSData`, `UserFSDataProperties`, `UserFSDataProofs`, `MCUserFSData` | blocks and positions; their properties; proofs; TLC instance |
| `FlatFile` | abstract specification of a file: a sequence of bytes and positions |
| `Coro`, `CoroProperties` | the coroutine library: one action per call; its properties |
| `CoroProgram`, `CoroProofs`, `MCCoro` | any program on the library; proofs; TLC instance |
| `SortingProgram`, `SortingProperties`, `SortingProofs`, `MCSorting` | the sorting program on the library; its properties; proofs; TLC instance |
| `HeapTracer`, `HeapTracerProperties`, `HeapTracerProofs`, `MCHeapTracer` | the heap tracer under a program of several threads; its properties; proofs; TLC instance |
| `Parser`, `ParserProperties`, `ParserProofs`, `MCParser` | the command line parser; its properties; proofs; TLC instance |
| `Shell`, `ShellProperties`, `ShellProofs`, `MCShell` | a line's processes and pipes; their properties; proofs; TLC instance |

An operator that nothing uses, placed right before one with the same
parameters, is a plausible mistake in that operator (a dropped test, a missing
reset, a wrong index).  `PROJECT.json` pairs each property of a passing run
with one such mistake that violates it.

### 2.1 ThreadPool

Variables have the names of the fields of `struct thread_pool` and
`struct thread_task`.  Each worker and each client has a program counter whose
value says what it does *next*.  The correspondence:

| Code | Actions |
|---|---|
| `pool_worker` 117-126 | `WorkerTest`, `WorkerWait`, `WorkerCheck` |
| 128-137 | `WorkerPop` (the test of 129), `WorkerTake` (130), `WorkerRead` (131), `WorkerCount` (132, 135) |
| 138-160 | `WorkerStart`, `WorkerComplete`, `WorkerPublish`, `WorkerFree`, `WorkerSignal` |
| `thread_pool_push_task` | `PushCheck`, `PushCount` and `PushStore` (the two halves of 180), `PushMark`, `PushSpawn` (the test of 183), `PushCreate` or `PushCreateFails` and `PushUnlock`, `PushSignal` |
| `thread_task_join` | `JoinCall`, `JoinTest`, `JoinTake` |
| `thread_task_timed_join` | `JoinCall`, `TimedTest`, `TimedExpire`, `TimedGiveUp`; `PollTest` for a timeout of nothing, `HugeTest` for one that `time_t` cannot hold |
| `thread_task_detach` | `DetachCall`, `DetachMark`, `DetachFree` |
| `thread_pool_delete` | `DeleteCall`, `DeleteCheck` (the two reads of line 86), `DeleteStore`, `DeleteBroadcast`, `DeleteJoin` |
| `thread_task_new`, `thread_task_delete` | `TaskNew`, `TaskDelete` |
| `pthread_cond_wait` without a signal | `WorkerWakesUp`, `ClientWakesUp` |

A step is one access to what the threads share.  Most of these accesses are between
lock and unlock of the pool's mutex, and merging them would be sound if that mutex
always excluded.  It does not: when `pthread_create` fails, line 185 releases it and
line 189 releases it again, from under whoever has taken it in between.  After that
two threads may be in the critical section, and a push may come between lines 130
and 131 of a worker, or the other way round.  So the mutex is a variable, the pop is four
steps (129, 130, 131, 132), the push is five up to the unlock (178 with the increment
of 180, the store of 180, 181, 183, 184), and `torn` remembers that line 189 has taken
the mutex from a thread.  The array keeps what was stored in it, so a slot can be read
again, and one that was never used reads as NULL (the array is larger than what `malloc`
serves from memory used before, so it is zero); a NULL is counted at line 132 and never
counted back, as in the code.  An index below the array, or a thread past
`pool->threads`, can only come about when the mutex is torn; it is undefined and
no behaviour goes on from there.

A task mutex is held over several steps only by a worker between lines 146 and 158
and by a client whose timed join spins (below), and is derived from their positions;
every other section of it is one step.  Atomics that are accessed outside the pool's mutex
(lines 86, 90, 148, 174) are steps of their own.  A pthread condition variable is the
set of threads asleep on it.

A timed join has one of three timeouts: below 1e-9 (`PollTest`), one that `time_t` can hold
(`TimedTest`), or one that it cannot, as infinity and DBL_MAX are (`HugeTest`, with
`HugeTimeouts`).  The conversion in lines 266-267 is undefined for the last; on x86-64
it gives the least integer, `pthread_cond_timedwait` rejects the negative `tv_nsec` with
EINVAL and keeps the mutex, and the loop of lines 275-277 neither leaves nor
lets the worker finish the task.  The wait has no other error: its mutex is the
caller's and `tv_nsec` is below 10^9 after line 271.

How the pool is used follows the header and the tests: each task is allocated
once and has one owner, who joins it once per push or detaches it; no task is
pushed that is in the pool; no push is under way when, or is started after, the
pool is deleted.  Pushing to, joining and detaching different tasks run
concurrently with each other and with deletion.  A task's data is one result
that is *fresh* after the function returned and *stale* from the next push on.

Simplifications.  `thread_pool_new` is the initial state.  `pthread_join` of a slot
whose `pthread_create` failed is taken to return.  The two unlocks of a mutex that
nobody holds, or that another thread holds, are taken to release it, as a default mutex
of glibc does.

### 2.2 UserFS

The program has one thread, so a step is one call.  `file` maps the addresses
now allocated to the structs there; `Files` is the set of addresses malloc can
return, and a freed address may be handed out again.  An access to a freed file
is an access outside the domain of `file`, which TLC reports as an error.
`ufs_open` is four actions by outcome: nothing opened (no file, or malloc
failed), an existing file opened, a new one opened, a new one left without a
descriptor.  The loop of `ufs_destroy` is one step per file because it unlinks
what it walks over.  Where a walk over the list is needed, it is the least set
of files that is closed under `prev` (`Reached`), rather than a recursion; this
is the form a proof can use.

### 2.3 UserFSData

One file, its blocks and several descriptors.  `file_write` is given by what it
does to each block it goes through: from which offset, from which part of the
buffer, how much, and the resulting `occupied`; blocks are created as it goes.
`ufs_read` is given by what it walks over: the occupied bytes of the blocks one
after the other.  Memory fresh from malloc holds `Junk`.  `FlatFile` knows
neither blocks nor junk; the refinement maps byte `i` to its place by block
number and offset, so it also relates the two ways the code finds a position.

### 2.4 Coro, CoroProgram, SortingProgram

The context of a coroutine is where it is suspended; a jump to it is a change of
`coro_this_ptr`.  A step is what a coroutine does between two possible
switches, and the clock ticks while one has control.  `worked` is a history
variable: it counts the ticks in which a coroutine had control, against which
the charged time is compared.

`Coro` has the calls of the library and no program.  Two modules extend it.
`CoroProgram` is any program: main and the coroutines create coroutines at any
time, and a coroutine yields up to `MaxCalls` times, by either function, and returns.
`SortingProgram` is `1/solution.c`: main creates a coroutine per file, in order,
waits until `coro_sched_wait` returns NULL, merges and writes.

| Code | Actions |
|---|---|
| `main` | `MainCreates`, `MainWaits`, `MainMerges` (a round of the loop), `MainWrites` |
| `coroutine_func_f` | `Read` or `ReadFails`, `Sort` (line 229 and the call), `End` |
| `mergesort` | `SortCalls`, `SortYields`, `SortMerges` or `SortMallocFails`, `SortReturns` |
| `merge` with `int_gt_comparator` | `Merges`, the set of what may come out |

mergesort is recursive and gives up control between its calls, so a coroutine
has a stack of frames, each with its part of the array and the place it has come
to.  What a call does with the result of another is in `After`: line 195 tests the
result for the left half a second time, so a failure in the right half is not
noticed.  `a - b` of the comparator may leave the range of `int`; its sign is then
undefined, and `Merges` is the set of results over every answer it may give.  An
array of a file that was not read is `Unset`, and nothing is said of the program
once main uses it.

### 2.5 Parser

`parse_token` is a machine over bytes (`ScanByte`), `parser_pop_next` one over
tokens (`ReadToken`); its labels are values of `phase`, the loops of
`parse_token` values of `mode`.  A call folds them over the buffer, and it is a
step only when it returns something: otherwise nothing is consumed and the next
call starts from the beginning again.  A failed assertion is a result of its own,
after which the program is over (the Makefile does not define `NDEBUG`).

### 2.6 Shell

Each process has the local variables of `execute_command_line`, because a forked
child runs the same code until `execvp`, and goes on with it when that fails.
Descriptors are numbered as the system numbers them, lowest first, since the code
uses a number after it closed it.  A process may have `MaxFds` of them, and `pipe()`
fails when it finds fewer than two free.  Of a program the model knows whether it reads
to the end, fills a pipe, or neither; what a reader and a writer wait for is
computed from the descriptors that are open in all processes.  `pid` and `status`
are undefined before the first fork and wait, so their comparison may go either
way.  `&&`, `||` and `&` have no effect in this code and none in the model.  A program
exits with the number of its command, so every program fails and tells which one it was.
A child whose `execvp` failed goes on with the loop and then with that of `main`: it takes
what comes through its input (`IsRead`) and ends with it, but that it executes
what it reads is left out.

### 2.7 HeapTracer

The program is any program that frees and reallocates only what it holds, and
calls from any thread at any time; what it passes to a call it no longer uses.

| Code | Actions |
|---|---|
| the program | `Call`, `Exit` |
| `heaph_touch`, `heaph_lock`, `heaph_init`, `heaph_unlock` | `InitBegins`, `InitResolves`, `InitEnds`; `InitNested` for what `dlsym` allocates |
| `malloc`, `calloc`, `strdup`, `getaddrinfo` | `Allocate`, `StrdupAtExit`, then `alloc_trace_new`: `Take` or `TakeNothing`, `Link`; `Nested` for what `backtrace` allocates |
| `free`, `freeaddrinfo` | `Untraced`, `DefaultFree` |
| `realloc`, `getline` | `ReallocInPlace`, `ReallocMoves`, `ReallocFrees`, `ReallocFails`, `UnlinkOld`, then as malloc |
| `static_malloc`, `static_free`, `static_calloc` | `StaticAgain`, `InitNested` |
| `heaph_atexit` | `Exit`, `Report` |

A step ends where another thread can come between: the two critical sections of
`alloc_trace_new` are two steps, the system's allocator and the removal of the
record are two steps, in the order the code has them (free: record first; realloc:
system first).  `allocs_lock` is no variable, since a section under it is one step;
`init_lock` is one, since it is held over calls of `dlsym` that allocate.  The
system's allocator may return any address that is free, at once after it was
freed.  Of a record the model keeps the address and whether its trace shows a
function whose leaks are suppressed (lines 326-342); the pool is the number of
records in it, a batch the number of records cut.  A failed assertion ends the
program and is remembered in `aborted`.

History variables name what the properties have to except: `raced` (a thread
initialised what was initialised), `lost` (a realloc failed), `reused` (an address
was handed out before its last record was removed), `held` (what the user's code
holds when `exit` is called and no other thread is in a call).

## 3. Runs

| Run | Instance | Shows |
|---|---|---|
| `pool_safety` | 2 clients, 2 tasks, 2 threads, array of 1, failing `pthread_create`, spurious wake-ups | see below |
| `pool_queue_bound` | 2 clients, 3 tasks, 1 thread, array of 1 | the bound of the array when both clients are past the unlocked test; no use of freed tasks |
| `pool_liveness` | 1 client, 2 tasks, 2 threads, infinite timeouts, fair scheduling | queued tasks are taken, detached ones freed, joins return, deletion without the race returns |
| `pool_delete_hangs` | 1 client, 1 task, 1 thread, fair scheduling | *violated*: deletion returns |
| `ufs_names` | 3 addresses, 2 names, up to 4 descriptors | list, counts, descriptors, names |
| `ufs_data` | 2 descriptors, 3 blocks of 2 bytes, file of at most 5, calls of at most 4 | blocks implement a flat file |
| `coro` | 3 coroutines, 2 yields each of either kind, 3 ticks | list, control, time, everyone returns |
| `sort` | 2 files, the first with every content of 4 or of 3 numbers out of 3, the second with up to 2; `int` of 3 bits; 2 ticks | output in order, output complete, the program ends |
| `heap` | 2 threads, 2 addresses | table, alarms, report, size of the tracer, calls return |
| `parser` | every input of up to 5 bytes out of 10 kinds, fed and popped in any order | chunks do not matter, shape of lines, a pop takes one line |
| `shell` | every line of one or two commands of 7 kinds with pipes, `&&` and `||`, three of 5 kinds and four of 2 with pipes and `||`, with and without redirection; failing `pipe`, `fork` and `open` | wiring, return, status, nothing left |
| `shell_second_pipeline` | lines of 4 commands | *violated*: a second pipeline is wired like the first |

`pool_safety` checks that the mutex excludes and so what a worker tested still holds
when it acts on it (`TestStillHolds`, with `MutualExclusion`); that no push and no
join is lost on sleeping threads (`QueueIsAttended`, `JoinerIsAttended`); that the progress
counter is exact (`InProgressExact`); that the status of a task says where it is
(`StatusTellsPlace`) and a join returns the result of the last push
(`JoinSeesResult`); that deletion loses no task (`DeleteLosesNothing`) and frees the pool
last (`PoolOutlivesUsers`); and that the pool implements `TaskService`.

What a failing `pthread_create` leaves of this is stated in the properties.  `TypeOK`,
`QueueBound` and `PoolOutlivesUsers` hold whatever happens.  `QueueIsAttended` holds until a
`pthread_create` has failed: a thread that is counted and does not exist is waited for.
The others have the premise `MutexWhole`: line 189 has not yet taken the mutex from
another thread.  That is weaker than that no `pthread_create` has failed, since the
second unlock often meets a free mutex, and `MutualExclusion` says that nothing but a failure
tears it.  Once it is torn they do not hold (section 4).

Bounds and why they suffice.  The pool's races are between a worker and a
client, two workers over one task, or two clients over the array; two of each
exhibit them, and an array of one task makes the second push hit the limit.
A mutex torn needs one failed `pthread_create` and a worker, hence two threads and a
client that pushes twice.  Two clients with an array of one, and
a third task, let both be past the test of line 174 when the array fills up, with one task
more to push (`pool_queue_bound`).  The list of files distinguishes first,
middle and last, hence three addresses; two names let a name be hidden, reused
and not concerned; the descriptor array is grown twice by four places.  A write
of four bytes over blocks of two starts in one block, covers the next and ends
in a third; five bytes of file leave the last block half full at the limit.
Three coroutines make a list with a middle one; two yields each let the list
change between two turns of the same coroutine.  Five bytes hold a pipe or a
redirect with both its sides and the end of its line, or an error and the line
after it; each kind of byte follows and precedes each other one.  Three commands
give a pipeline with a middle and a pipeline followed by something else; four are
needed for two pipelines.  Four numbers make mergesort
call itself to both sides of both sides, three divide unevenly; of the three values
only the least and the greatest are too far apart for an `int`; two ticks let
control move to the other coroutine and back at any two yields.  Two threads
and two addresses let one thread's address come to the other at every point of a
call, with the other address for a block that is moved, and leave both threads
in calls when there is no memory left.  Five descriptors (`MaxFds`) are as many as a
pipeline needs, so that a line that leaves one open does run out of them, and
eight are never used up by four commands.  `MaxCapacity`, `MaxCall`, `MaxCalls`, `MaxTime`,
`MaxFed` and `MaxProcs` exist for TLC only.

Deadlock is not checked where the program may stop: clients need not call
anything, the coroutines end, nothing follows `ufs_destroy`, an assertion or `exit`
ends the program under the tracer.

The type invariants of `UserFS`, `UserFSData`, `Coro`, `SortingProgram`,
`HeapTracer`, `Parser` and `Shell` are conjuncts of an invariant of their module.

Symmetry is used where descriptors, addresses and bytes are interchangeable and no
liveness is checked.

### Fairness

`ThreadPool!FairSpec` has weak fairness of each worker and of each client inside
a call: the operating system runs a thread that can run, mutexes are free again
after finitely many steps of the holder, and a task's function returns.  No
client has to make a call, and neither a timeout nor a spurious wake-up has to
happen.  Weak fairness is enough because a thread that waits for the mutex is
modelled as not enabled only while someone holds it, and nothing is demanded of
a behaviour in which the clients push for ever (the premise `Calm` of the
properties) or in which a timed join spins (the premise `NoneLoops`): it holds the task's
mutex for good, so the worker never comes back.  `Shell!FairSpec` has weak fairness of
every process: the system runs it when it can run, and a program ends once its input has ended and its output is
taken.  `CoroProgram!FairSpec` and `SortingProgram!FairSpec` say that whoever has
control goes on, which is what a single thread does; no time has to pass, and in
`CoroProgram` nobody has to create a coroutine.  `HeapTracer!FairSpec` has weak fairness of each
thread inside a call; nobody has to call anything.  It is enough for the spinlock,
because a thread takes it at most once.

## 4. What disagrees with the documentation

Two are runs that TLC violates; `PROJECT.json` quotes the lines.

* Deleting an idle pool can hang (`4/thread_pool.c:90-91`): the flag is set and
  broadcast without the mutex, between a worker's test and its wait.
  `DeleteReturnsUnraced` shows this window is the only cause.
* The second pipeline of a line is connected to itself (`2/solution.c:146`):
  `pipe_stdin` names a closed descriptor that `pipe()` hands out again.
  `ProgramsAreWired` shows that lines without a second pipeline are right.

Others are named premises of properties that hold with them:

* A timed join with infinity or DBL_MAX, as `4/thread_pool.h:145-146` recommends, spins for
  ever with the task's mutex held (`4/thread_pool.c:266-277`), unless the task
  is finished when it takes that mutex.  The liveness properties of the pool have the premise
  that no join does so (`NoneLoops`).
* After a failed `pthread_create` the mutex is released twice (`4/thread_pool.c:185,189`),
  the second time perhaps from under a worker between its lines 130 and 131.  A push that
  comes there counts the array up again; the worker reads the slot above the one it has
  counted off, the push stores its task into the latter, and the task that was there is
  lost, although its own push returned 0.  A task run twice, a count below zero and a NULL
  that stays counted come about likewise.  `MutexWhole` is the premise of what does not hold then.
* A pool with a task can be deleted (`4/thread_pool.c:86`), because the two counters are
  read in the order in which a task does *not* move; `4/thread_pool.h:81` and
  `4/test.c:151-152` say that it is refused.  `DeleteLosesNothing` shows that the
  task is run all the same.
* `&&` and `||` are ignored (`2/solution.c:182-185`): the right command is run, and gives
  the line its status, whatever the left one returned.  `2/tests.txt:126`
  (`false && echo 123` prints nothing) and `2/checker.py:171` ("Exit code should be from
  the last used command") say otherwise.  `StatusIsOfLast` is for lines all of whose
  commands are to be run (`AllUsed`).
* A name may belong to several files (`3/userfs.c:104`), against
  `3/userfs.h:7-8`: a deleted file at the front of the list hides the one that
  replaced it.  `UniqueUnlessDeletedFirst` shows that this is the only way.
* A joined task may be freed before it is signalled (`4/thread_pool.c:158-159`),
  although `4/thread_pool.h:128-129` allows the owner to delete it.
  `NoUseOfFreedTask` shows that this is the only access to a freed task.
* The sorting program is right for numbers whose differences are `int`s
  (`Comparable`); `1/task_eng.txt` promises numbers that are `int`s.  After a malloc
  that failed in mergesort the file written is complete but not in order
  (`starved`), and the program reports success.
* The tracer ends a correct program in three cases, the exceptions of
  `NoFalseAlarm`: two threads allocate first at the same time
  (`heap_help.c:508-510`); a block is freed whose realloc had failed, as
  `1/solution.c:129` does (`heap_help.c:589`); `strdup` is called while another
  thread exits (`heap_help.c:539`).
* After an address was handed out again by realloc before its old record was
  removed, the record that goes is the newest one of the address
  (`heap_help.c:226`); how many blocks are left is right, which ones were
  the user's may be wrong (`ReportIsExact`).

Not run, but visible in the code and most of them listed as hazards: a queued task
may wait although a thread could be started, because line 183 does not count queued tasks; a redirect without
a file takes the next line with it (`2/parser.c:379`, the exception in
`PopTakesOneLine`); an empty word ends the shell by an assertion (`2/parser.c:37`);
a child whose `execvp` fails goes on as a second shell; `cd` and `exit` next to a
pipe leave its ends open in the shell; `ufs_delete` of a
missing file returns 0 where the header says -1; `ufs_open` counts a descriptor
before it can fail; a descriptor equal to the capacity is not refused;
`ufs_destroy` leaks files that are still open; a realloc that leaves a block in place
keeps the old size in its record (`heap_help.c:590`), and one of a block of the static
allocator loses its content (line 582); a coroutine that calls `coro_yield`
itself is not charged with the time before (`1/libcoro.c:144`); `>>` to a file that does
not exist, or `>` to one that cannot be opened, writes to the terminal
(`2/solution.c:156`, where `O_CREAT` is missing); a file that cannot be read leaves
the array that main merges without a value (`1/solution.c:223`).

## 5. Proofs

The theorems hold for every value of the constants that the named assumption of
the module allows: any finite number of clients, tasks, threads, names, addresses,
coroutines, processes and descriptors, and any lines of commands.  They rest on no
other assumption.  Each component has one inductive invariant (two for the pool),
whose proof has one lemma or step per action; the properties the runs check follow from
it.  Every safety invariant and action property that a passing run checks is a
theorem, and so are the two refinements of an abstract specification, `TaskService` and
`FlatFile`.

### 5.1 Thread pool

| Module | Theorem | Property |
|---|---|---|
| `ThreadPoolProofs` | `PoolInvariance` | `PoolInv`, the inductive invariant |
| | `TypeCorrect` | `TypeOK` |
| | `ThreadsExclude` | `MutualExclusion`, the first half of `TestStillHolds` |
| | `TestsAreNotStale` | `TestStillHolds` |
| | `PushesAreNotLost` | `QueueIsAttended` |
| | `ArrayIsBounded` | `QueueBound` |
| | `ProgressIsCounted` | `InProgressExact` |
| | `DeleteIsLossless` | `DeleteLosesNothing` |
| | `FreedPoolIsUnused` | `PoolOutlivesUsers` |
| | `TaskInvariance` | `TaskInv`, the second invariant |
| | `StatusIsRight` | `StatusTellsPlace` |
| | `FreedTaskIsUnused` | `NoUseOfFreedTask` |
| | `JoinsGetFreshResult` | `JoinSeesResult` |
| | `SleepersAreSignalled` | `JoinerIsAttended` |
| | `PoolImplementsService` | `ImplementsService` |
| | `PoolIsService` | `Service!Spec`, where `pthread_create` does not fail |

`PoolInv` is in three layers, by what has happened.

* Whatever happens: the types, the bound of the array with the clients past the unlocked
  check, `DeleteProtocol` (what a deletion under way implies for the pool, the array
  and the pushes) and `SignalHasThread` (whoever is about to signal has a thread that
  was counted).
* While the mutex is whole (`WholeInv`): the holder of the mutex is who the program
  counters say (`LockHeld`), so a test of the array stays valid up to the sleep or the read
  of the slot (`TestsHold`); the slots below the count, but for what is under way
  (`QueueLen`), hold tasks (`ArrayInv`); the test of line 183 still holds at
  line 184 (`ThreadFits`), which is what bounds the threads; and the progress counter is exact,
  by cardinalities of a set that one worker leaves or joins.
* Until a `pthread_create` fails (`StartedInv`): no second unlock is pending, so the
  mutex is whole; a worker that sleeps has really seen an empty array, and the task
  pushed after that finds either a worker awake or its own signal still to come.
  The premise, once false, stays false until a thread fills the slot, which never
  happens; this is what makes the implication inductive.

Line 189 may falsify `MutexWhole`, and nothing makes it true again: the implications
with it are inductive because the step that tears the mutex makes their premise false.

`TaskInv`, also while the mutex is whole, is about custody.  A task is in one place only
(`OneIndex`, `OneWorker`, `QueuedOrHeld`); the place says what the status may be
(`PlaceTellsStatus`), the status says where the task is and whose
(`StatusTells`), and a client in a call keeps what it has tested, since only the
owner calls and once at a time (`ClientTells`).

The refinement maps a task to its phase (created, queued, running, finished,
absent).  A task is queued from line 181 on and running from line 131 on.  That a step
moves one task the way `TaskService` allows follows from `TaskInv`; that there is room
for it, from `QueueBound` for the array and from the number of workers for the
tasks that run.  `ImplementsService` asks this of every step that does not tear the mutex and
follows none that has; `PoolIsService` is the plain implication for a pool whose
`pthread_create` does not fail.

### 5.2 Coroutines

`CoroProofs` proves `ListIsExact` (`ListHoldsUnreturned`), `NoDeadRuns`
(`ControlIsAlive`), `NoTimeIsLost` (`TimeIsExact`) and `CoroTypeCorrect`
from `CoroInvariance`.  The latter is a theorem of `CoroSpec`, in which each step
is some call of the library: it holds for every program that keeps to the calls,
and `Spec` of `CoroProgram` implies `CoroSpec`.  That the list holds everything it
should is stated without recursion: no set that a walk from the head stays in
leaves a listed coroutine out (`NoneIsMissed`).  `ControlIsAlive` needs that the
scheduler has collected every finished coroutine before it gives control away
(`CollectedFirst`).

### 5.3 UserFS

`UserFSProofs` proves `ListIsWhole` (`ListHoldsFiles`), `CountsDecide`
(`RefsDecideLife`), `OpenFilesStay` (`DescriptorsKeepFiles`) and
`NamesStayUnique` (`UniqueUnlessDeletedFirst`) from `UserFSInvariance`.  The links
of the list are treated as those of the coroutines.  For `ufs_destroy` the invariant says
that the walk from its cursor misses no file without descriptors
(`UnopenedLieAhead`), although files are unlinked behind it.  The uniqueness of
names holds under the premise that no open file at the front of the list is ever
deleted; its own invariant, `NamesInv`, adds that a file that is not deleted comes
before every deleted one of its name: that is why `file_find` does not create
it twice.

### 5.4 Data of UserFS

`UserFSDataProofs` proves `BlocksStayPacked` (`BlocksArePacked`) and
`BlocksAreInvisible` (`ImplementsFlatFile`), for any size of a block, of the file
and of a buffer.  `BlocksArePacked` is inductive as it stands; it is
used in the form that the blocks are packed to a size (`PackedTo`): the occupied
bytes of block `k` are then a function of the size and `k`.

* `TouchedBlocks` and `WrittenLength` say between which blocks a write begins and
  ends and that none is skipped, `FilledIsPacked` what it makes of one of them,
  `WrittenIsPacked` that the list is packed to the new size, and `WrittenBytes`
  that exactly the bytes from the position on are those of the buffer.
* `Flattened` gives the flattening of pieces of equal length, of which only the last
  may be shorter, by index; its induction over the number of pieces takes
  the least piece at which two functions differ.  `StoredIsContent` follows: what
  `ufs_read` finds by counting is what `file_write` put there by division.

### 5.5 Heap tracer

`HeapTracerProofs` proves `TableIsExact` (`TableMatchesHeap`), `AlarmsAreRight`
(`NoFalseAlarm`), `LeaksAreExact` (`ReportIsExact`) and `BatchIsBounded`
(`RecordsAreReused`) from `HeapInvariance`.  The invariant says what each call
has in its hands by where it stands (`CallsMatch`), that a block is the program's, a
library's or in one call's hands (`OneHolder`), that only a race initialises twice
(`InitIsGuarded`), that each record is in the list, in the pool or about to be
linked (`RecordsAreKept`), how many records of an address there are for how
many owners (`RecordsHaveOwners`), and that, unless a realloc failed or an address was
handed out too early, the record is the right one (`RecordsAreFresh`).  The number
reported is exact because at the exit the list holds one record per
block (`CountIsHeld`): two cardinalities that are shown equal by a bijection.
`RecordsHaveRoom` bounds the records in use by the blocks and the calls that have one.
`HeapAssumption` asks for a thread, because without any `RecordsAreReused` is false.

### 5.6 Shell

`ShellProofs` proves `ProgramsStayWired` (`ProgramsAreWired`), `NothingRemains`
(`NothingIsLeft`) and `LastStatusIsRight` (`StatusIsOfLast`) from `ShellInvariance`.
`ShellInv` has four layers, each resting on the ones before, because the code is
right for fewer and fewer lines.

* For every line: types, where a process stands among the commands
  (`PlacesHold`), who may be a parent (`ParentsLive`), and that the shell has
  at most `proc_wait` children, one less while it may still fork
  (`ChildrenAreCounted`).  So a shell that returns has reaped them all.
* If every program is found no process but the shell runs its loop, and the
  last command's child is the one in `pid`, alive, unreaped, or reaped with its
  status kept (`LastIsKnown`).
* If also nothing in a pipeline runs in the shell itself, the shell has open at most
  the pipe that leads to the command and the new one (`ShellIsTidy`).
* If also no pipeline follows another, these are the pipes of the right number, in
  the shell and in each child before and after lines 145-165 (`WiringHolds`); the
  premise is used where `pipe_stdin` must not be a descriptor that was
  closed and handed out again.

### 5.7 Parser

`ParserProofs` proves `TypeCorrect` (`TypeOK`), `LinesAreSound`
(`LinesAlternate`), `ChunksAreIrrelevant` (`ChunksDoNotMatter`) and
`PopsTakeOneLine` (`PopTakesOneLine`) from `ParserInvariance`, for any alphabet and any
number of bytes.

* `ChunksDoNotMatter` alone is not inductive: it compares the pops so far with what all
  bytes fed now would give, and the next byte changes that.  `ParserInv` says it for
  every future: whatever bytes follow, popping what is fed and them at once gives
  the lines popped already and then those of the buffer and them.
* A byte that follows may change only the last token.  That a token which was ended by
  a byte, not by the end of the buffer, stays what it is under any bytes after it, and a
  line that has ended with it, are the two stability lemmas the invariant rests on.
* `PopTakesOneLine` follows the tokens of the consumed bytes: the positions where
  `Line` has stopped are those where `Tokens` cuts the same bytes (`ConsumedLine`).

The functions that scan bytes and tokens are recursive.  Each is unrolled once
(`Unrolls`, `TokensUnfold`, `AllPoppedUnfolds`), its existence shown by
the bounded union of its initial parts; inductions on the length of the input are arguments
by a least counterexample (`LeastNumber` and its consequences `UpTo`, `DownFrom`,
`AllNumbers`), stated for the set of the numbers that satisfy the claim, because
the provers cannot instantiate a theorem whose parameter is an operator.

### 5.8 Sorting program

`SortingProofs` proves `OutputIsOrdered` (`OutputIsSorted`), `OutputIsComplete`
(`OutputIsAllInput`, which includes the types) and `LibraryHolds` from
`SortingInvariance`, for any number of files, numbers and range of `int`.

* The library comes first: `CoroProofs` is instantiated with the variables of this
  program, each step of which is a call of the library or leaves it alone
  (`LibraryNext`).  So `ListHoldsUnreturned`, `ControlIsAlive` and `TimeIsExact` hold here
  too, and when `coro_sched_wait` returns NULL every coroutine has been returned
  (`AllReturned`): main merges no array that is still being sorted.
* `MergesFacts` says what `Merges` may give: as many of each number as the two
  sequences hold, always, and in order if they are and no difference overflows.  The
  proof is an induction on what is left of both (`GoodFromLeft`, `GoodFromRight`).
* `Works` is the invariant of one coroutine.  Its calls are nested, each part within the
  one around it; the array has the numbers of its file; and a call has in order what
  its place says (`PutInOrder`): nothing, the left half, both halves, or all.
  That a merge leaves the left halves of the calls around it alone is why parts
  are compared by place, and not only by what they hold (`MergeKeepsOrder`).
* A malloc that fails ends the claim of order for the whole program (`Sound`), and
  only that: `Same` does not depend on it.
* `MainInv`: `result_array` holds the first `merged` files, in order under `Sound`.

The premises of `OutputIsSorted` are those of the property.  Of the constants the
proofs assume that the coroutines are numbered from 1, that there are finitely many, and
that `Unset` is not an array.

### 5.9 What is only model-checked

Liveness is out of the prover's reach: `TasksAreServed`, `JoinReturns`,
`DeleteReturnsUnraced`, `EveryCoroutineReturns`, `ProgramEnds`, `CallsReturn` and
`LineEnds`.  The two runs that expect a violation have no theorem.

## 6. Plan

Done, in this order: the pool with its abstract specification and first
theorems; files and descriptors; file data with its abstract specification;
coroutines; the parser; the shell; the heap tracer; the sorting program on the
coroutines; the proofs of section 5, the sorting program's last.  Left are proofs of
liveness, when the prover can do them.

### Not modelled

`ufs_resize` is not compiled and `file_read` is not called.  The construction of a
coroutine's stack by a signal handler is left out: a context is where a coroutine
is suspended.  Of the tracer, sizes, contents and what is printed of a leak are
left out, and the two environment variables that choose what is printed and
filled.  Of the shell, main's reading of several lines.  The examples are demonstrations of system
calls; the tests are read for what they say of the code.
