# TLA+ models of open_hsm

open_hsm is a C library for hierarchical state machines: a small macro core, active
objects (a state machine with a thread, a message queue and a timer), a worker pool, and
an operating system abstraction layer (OSA) for Linux and ESP32. This directory models
its concurrent core in TLA+, checks it with TLC and proves the main results with TLAPS.
Paths and line numbers below are those of the repository.

## 1. Inventory

| Component | State | Operations | Talks to |
|---|---|---|---|
| Message queue, `platform/linux/osa_queue.c` | ring buffer, head, tail, count, closed, mutex, two condition variables | create, send, receive (timeout 0, > 0, < 0), destroy; count, is_full, is_empty, get_name | used by the active machines |
| Worker pool, `core/osa_worker.c` | linked job queue, job states, statistics, shutdown flag, lock, two semaphores, threads | init, start, submit, submit_to_hsm, cancel, wait, get_stats, stop; worker and completion threads | calls complete_cb, posts to a state machine |
| Job structures, `core/osa_worker.c:22-89` | 32 static slots, id counter | job_alloc, job_init, job_free | filled by clients, read by workers without a common lock |
| State machine core, `core/hsm.h` | current, histroy, error | STATE_INIT, STATE_DISPATCH, STATE_TRANSIT, STATE_SUPER | calls the user's handlers, which use the macros again |
| Active machines, `core/osa_hsm.c` | thread, queue handle, timer handle, period | init, start, dispatcher thread, event_post, period, timer callback | threads, queues, timers; handlers post to other machines |
| Timer, `platform/linux/osa_timer.c` | POSIX timer, callback, argument | create, stop, delete, callback thread | active machines |
| Mutex and semaphore, `platform/linux/osa_sync.c` | pthread mutex, POSIX semaphore | create, destroy, lock, timed lock, wait, post, get_count | worker pool |
| Threads, `platform/linux/osa_thread.c` | pthread | create, delete, join, sleep, exit | worker pool, active machines |
| Error codes, `platform/*/osa_error.c` | none | code to text and category | everybody |
| ESP32 layer, `platform/esp32/*.c` | fixed tables of handles | a similar interface over FreeRTOS | - |
| Example `examples/linux/hsm_worker.c` | two machines with their current job and counters | main's rounds, three state handlers, job function, completion callback | active machines, job structures, worker pool |
| Example `examples/linux/worker_pool.c` | a counter and its lock | main, job function | worker pool, mutex |

What is hard here:

* **Threads in the queue.** Condition variables, one signal per message, callers that
  overtake woken threads, timeouts, spurious wake-ups, closing under load.
* **Threads in the pool.** A token (semaphore) and a job (list) are taken in two steps;
  jobs are cancelled without their token; all waits share one semaphore; stop races with
  everything.
* **Shared job structures.** One state, COMPLETED, says "finished" to the client and
  "free" to the allocator, and the allocator takes no lock.
* **Re-entrant macros.** A transition or a delegation calls another handler before the
  first has returned, and both macros look at `current` as it is then.
* **Partial failure.** Five creations make a pool and as many threads start it; each
  error path undoes by hand what came before.
* **Composition.** A completion event is posted once, without waiting, to a queue that
  timers and users fill too; a machine that misses it waits for ever.
* **Life cycles.** The queue of a machine appears only after its thread has run the
  initial handler; each period makes a timer and forgets the last one.

`PROJECT.json` lists each such hazard at its line, with the properties aimed at it.

## 2. Modules

| Module | Models | Built on |
|---|---|---|
| `BoundedQueue` | what a message queue promises: bounded, first in first out, closable, and which caller may get which result when | - |
| `OsaQueue` | the Linux queue, one action per critical section | instantiates `BoundedQueue` as its abstraction |
| `OsaWorker` | the worker pool, its threads, clients and owner | - |
| `JobPool` | static job slots and ids, and the machines that use them | abstracts the job queue of `OsaWorker` to a set, and message queues to `BoundedQueue`'s sequences |
| `HsmWorker` | the program hsm_worker.c: main, machines, workers, timers | extends `JobPool`, and implements its `DisciplinedSpec` |
| `PoolLifecycle` | the program worker_pool.c over osa_sync.c and osa_thread.c: what is created, used and destroyed | counts the jobs of `OsaWorker` |
| `OsaTime` | the arithmetic of timeouts, periods and sleeps, with its theorems | - |
| `Hsm` | the macros, with the stack of handler calls | - |
| `ActiveHsm` | dispatcher threads, posts, timers | a queue is its length, justified by `OsaQueue`; a handler posts, sets timers and returns, justified by `Hsm` |
| `MC...` | constants and symmetry for TLC | the module of the same name |
| `SequenceFacts` | lemmas on sequences | - |
| `OsaQueueProofs`, `OsaWorkerProofs`, `PoolLifecycleProofs`, `HsmProofs`, `ActiveHsmProofs` | theorems | the module of the same name |
| `HsmWorkerProofs` | theorems about `JobPool` and `HsmWorker` | `HsmWorker` |

### OsaQueue

Every field is guarded by one mutex, so an action is the code from taking the mutex (or
from the return of a condition wait) to releasing it (or the next wait). `condSend` and
`condRecv` are the threads asleep on the two condition variables, `wokenSend` and
`wokenRecv` those that were woken and have yet to get the mutex. `Send` and `Receive`
start a call, which either blocks or runs to its end (`SendTail`, `ReceiveTail`);
`ResumeSend` and `ResumeReceive` are one more turn of the waiting loop; `ExpireSend` and
`ExpireReceive` the timeout; `SpuriousWakeup` what POSIX allows. `osa_queue_destroy` is
`Close` and then `Free`, because it releases the mutex in between.
No thread starts a call on a freed queue. Not distinguished: argument errors (`-EINVAL`), which change nothing.

### OsaWorker

The doubly linked list is modelled with its real `next` and `prev` links. An action is a
critical section under `pool->lock`, or one semaphore operation, thread creation or join
outside it. A job function runs between `PopJob` and `FinishJob`. Counters are unsigned
and wrap at `UintMax`. `fifo`, `holder` and `granted` are history variables: the jobs
accepted and not yet taken or cancelled, who may use a structure, and how many waits have
succeeded. The constant `CancelStaleHead` says whether clients also cancel a head whose
`prev` link is stale; the code is wrong when they do, and a run of its own shows it.
The HSM post and `complete_cb` inside `FinishJob` do not touch the pool; a callback that
calls the pool again would deadlock on the lock and is left out.

### JobPool

A machine that receives START allocates a slot, initialises and submits it, and frees it
when its completion event arrives (docs/worker_design.md, section 5). Allocation and
initialisation are split where another thread can see the difference: the
test of a slot (`Look`), the memset with the read of the id counter (`Claim`, `InitJob`)
and the write of it with the assignments (`Number`, `InitJobEnds`). The worker stores a
job's outcome (`End`) and reads `target_hsm` later (`Report`), with the
pool's lock held in between: submit, cancel and other workers wait, an allocation does
not. A machine that receives a completion reads the job's result (`Finish`) and then
frees the job (`FreeJob`), which takes no lock either. `Submit` numbers a job whose id is
0 (`EnsureId`), as that of a slot which another machine has cleared meanwhile. `DisciplinedSpec` is the module as an abstract specification: `Discipline` says what
users have to do for the pool to be safe, namely allocate one at a time, while no job
ends, no queued job is cancelled and no ended job is still to be freed. That the first use of the allocator initialises the slots is
`PoolInit`. The job queue has room: the 64 places of the example are more than the 32
slots. Ids do not wrap; it takes 2^31 jobs, as each takes two.

### HsmWorker

`JobPool`'s `pc` tells the state of a machine: `idle`, `submitted` for processing, and
working in between, whose entry action runs inside the handler of START. Around it are
the steps of main (`PostStart`, `DelayEnds`, `RoundEnds`, `StopTimers`, `StopPool`,
`Return`), the creation of each machine's queue by its thread (`Open`), the timers
(`Tick`) and a user who posts SIG_WORK_CANCEL (`AskCancel`). A post to a machine without
a queue, or with a full one, is lost, and nobody looks at the result. The job function
may fail at any time. main waits for nobody: `usleep` and `sleep(4)` end whatever the
machines do. `Paced` is the assumption that the delays are long enough, written as
guards: a start is handled within the 100 ms of its turn (`DelayEnds`), the jobs, of
2.5 s, end after all starts of the round (`EndJob`), a round is over within 4 s
(`RoundEnds`), and a machine has handled one tick before the next (`Tick`). What is
checked and proved under `Paced` is what follows from it across turns and rounds; no
property says that main waits. `Considerate` is an assumption about the users who post
SIG_WORK_CANCEL, of whom the repository has none: they cancel a job only when a worker
has taken it, as one of the example's four workers does at once, and one cancel at a
time. Cancels of queued jobs are left to `hsm_worker_overlap`, which has neither
assumption, and to section 4.

### PoolLifecycle

`live` is the set of the objects that exist, `handles` the thread structures that the
array `workers` points to. main creates its own lock, calls init, start, submit and wait
five times each, and stop; each creation may fail, and the error path the code has for it
is `Rollback`, `InitFails` or `StartFails`. The threads are those of `OsaWorker` without
cancels; their job function increments `job_count` in two steps under `result_lock`.

### Hsm

The state is `current`, `histroy` (the code's spelling) and `error`, plus the stack of
handler calls that one event has caused. A call of a handler uses at most one macro and then returns, as
the handlers in README.md and examples/ do. `Escalates` says whether a handler that was
called by STATE_SUPER may use STATE_SUPER again; what goes wrong then is `hsm_super`.

### ActiveHsm

`pc` follows each dispatcher thread: off, running the initial handler, creating its
queue, receiving, running a handler, or waiting in a post. `ClientPosts` and the timer
callbacks are the other threads. A timer is armed, expires into a callback thread
(`fired`) and that thread posts, even if the timer was stopped in between.
`ResetPeriod` says whether a period is set while a timer is already running.
A handler that meets a full queue waits with a timeout, as those of
examples/linux/hsm_simulate.c do, or with the timeout -1 for ever (osa_hsm.h:106):
`forever` is the set of machines in a wait of the second kind, and `WaitExpires` ends only
those of the first. `Jam` is the deadlock that waits of the second kind can make, a circle
of machines (one suffices) each of which waits for room in the next one's full queue.
`osa_hsm_active_period` is one step: `tick_period` is read by nobody, the timer callback
does not read `timer_id`, and one thread sets the period of a machine, so that nobody sees
the moment between the stores.

## 3. Runs

| Run | Instance | Shows |
|---|---|---|
| `queue` | 3 threads, 2 slots, 1 message | `TypeOK`, `RingConsistent`, `NoLostWakeup`, `NobodySleepsOnClosed`, `ImplementsBoundedQueue`; liveness: `MessageIsTaken`, `SlotIsFilled`, `ClosedCallsReturn` |
| `queue_destroy` | 2 threads, 1 slot, 1 message | *violation* of `NoUseAfterFree` |
| `worker` | 2 workers, 3 jobs, 1 waiter, queue of 3, 4 submissions | `TypeOK`; list, places, statistics and tokens: `ListIsFifo`, `JobsHaveOnePlace`, `StatsAddUp`, `NoTokenLost`; waits, polls and stop: `WaitBarrier`, `PollMeansDone`, `StopWakesEveryone`; steps: `DocumentedTransitions` |
| `worker_live` | 2 workers, 2 jobs, 1 waiter, 3 submissions | `AcceptedJobsEnd`, `StopReturns`, `EnoughJobsServeWaits` |
| `worker_cancel` | 2 workers, 2 jobs, 1 waiter, queue of 2, 3 submissions, with `CancelStaleHead` | *violation* of `DocumentedTransitions` |
| `hsm_worker` | 3 machines, 2 workers, 2 slots, queues of 3, 3 rounds, `Paced` and `Considerate` | `TypeOK`; ids, slots and completions: `LiveIdsDistinct`, `LiveJobsKeepTheirSlot`, `FreesOnlyItsOwn`, `NoMachineForgotten`; `ImplementsJobPool` (`DisciplinedSpec`); liveness: `WorkIsDone` |
| `hsm_worker_overlap` | 2 machines, 2 workers, 2 slots, queues of 2, 2 rounds, neither `Paced` nor `Considerate` | *violation* of `FreesOnlyItsOwn` |
| `pool_lifecycle` | 2 workers, 5 jobs, as in the example | `TypeOK`, `UsedOnlyWhileAlive`, `NothingLeaked`, `EveryJobCounted`; liveness: `MainReturns` |
| `hsm` | 3 levels and a state beside them, calls nested 5 deep | `TypeOK`, `DelegationClimbs` |
| `hsm_super` | the same hierarchy, 4 deep, with `Escalates` | *violation* of `DelegationClimbs` |
| `active_hsm` | 2 machines, 2 timers, queues of 2, 2 posts per handler | `TypeOK`, `NoTickWhenDisabled`, `WaitsForALiveMachine`; liveness: `FullQueueDrains`, `QueueOpens` |
| `active_hsm_period` | 1 machine, 2 timers, with `ResetPeriod` | *violation* of `NoTickWhenDisabled` |

**Bounds.** A queue of two slots wraps around, and is neither only full nor only empty;
with three threads there are two on one side and one on the other, so that a woken
thread is overtaken and a signal has a choice of threads. With one message TLC sees that messages are
neither lost nor made up; that different ones keep their order is the theorem
`Refinement`. Two workers and
two jobs let a worker run while another is between its token and the lock;
a pool queue of three, three jobs and four submissions let a job be linked behind a head
that was popped, be cancelled at the head, in the middle or at the tail, and be submitted
again. A pool queue that refuses a submission because it is full is beyond these runs (it
takes a fourth job) and covered by the theorems, which hold for every `QueueSize`. `SemMax` is
larger than what the run can post, except where the theorem for every `SemMax` takes
over. Three machines, two slots and
two workers let an allocation fail, a job wait for a worker, and a slot be reused while
another job is live; a message queue of three is the smallest that holds a completion
event next to a tick and a cancel, and three rounds are those of the example. `pool_lifecycle` has the
numbers of its program. Five nested calls hold delegations and
transitions in each other, in both orders. `MaxPosts` lets a handler post, wait and post once
more. The theorems below drop all of these bounds for the properties they cover.

**Symmetry** is used for workers, jobs and waiting threads in `worker` only, which checks no liveness: nothing in `OsaWorker` tells them apart.

**Fairness.** `OsaQueue`: a thread that was woken gets the mutex, since every critical
section ends (weak fairness of `ResumeSend`, `ResumeReceive`). `OsaWorker`: workers are
scheduled and job functions return, an owner that has begun to stop goes on, the
completion thread looks at its flag, and a semaphore that stays open lets a waiting
thread pass. `ActiveHsm`: dispatchers are scheduled, handlers return, a wait with a
timeout ends, and a wait that finds room and keeps it is served. No fairness is strong:
a wait without a timeout may be overtaken each time there is room, and the two liveness
properties of `ActiveHsm` say so (`Starves`). They also name the circle of waits without a
timeout (`Jam`); that nothing else keeps a queue full, or a started machine from opening
its queue, is what they show. `HsmWorker` and `PoolLifecycle`: threads are scheduled, job functions
return, main's sleeps end, and a mutex or semaphore that stays open lets its waiter pass. Clients, timers and expiry are never fair: nothing makes a client call.

**Deadlock** is not checked where the system may stop: a freed queue, a stopped pool, a
pool whose bound of submissions is used up, machines that nobody starts, a program that
has returned. `Hsm` and `HsmWorker` are checked for it.

**Mutants.** For each property of a passing run `PROJECT.json` names a mutated operator
(`Mutant...`, beside the original in the module) under which the property fails.

## 4. Where code and documents disagree

Shown by a run:

1. `queue_destroy`: `osa_queue_destroy` wakes the blocked calls and frees the mutex they
   are about to take (osa_queue.c:98-111).
2. `worker_cancel`: taking a job leaves its successor's `prev` behind (osa_worker.c:120);
   cancelling that successor then does not unlink it, and a cancelled job is run.
3. `hsm_worker_overlap`: a job's structure is reusable as soon as the job has completed
   (osa_worker.c:69, 145), before its machine has handled the completion event; when
   another machine is given it first, the event's handler reads and frees the other's job.
   The delays of hsm_worker.c avoid this if they are long enough: `hsm_worker`.
4. `hsm_super`: a handler that delegates what was delegated to it calls itself, without
   end (hsm.h:131-133).
5. `active_hsm_period`: a period set twice leaves a timer that cannot be stopped
   (osa_hsm.c:168).

Seen in the source, where the text alone decides and there is nothing for a model to
explore:

* `osa_worker_pool_wait` for one job returns 0 on the completion of any job
  (osa_worker.c:518), against osa_worker.h:173; what waits do guarantee is `WaitBarrier`
  and `EnoughJobsServeWaits`.
* With timeout 0 it reports a failed job as "still pending or running" (osa_worker.c:513);
  what a success means is `PollMeansDone`.
* `osa_worker_pool_stop` of a pool that was not started (test/test_worker.c:23-33), or
  whose start failed, joins handles that were never written (osa_worker.c:327).
* `STATE_TRANSIT` sends HSM_SIG_EXIT to nobody (hsm.h:116-120), against hsm.h:112.
* The queue of a machine is made by its thread, after the initial handler
  (osa_hsm.c:60-70), not by `osa_hsm_active_start` as osa_hsm.h:87 says; posts in between
  fail. What holds is `QueueOpens`.
* Job ids and slots are handed out without a lock (osa_worker.c:35, 68-74): clients that
  allocate at the same time can share one. `LiveIdsDistinct` is checked where delays keep
  them apart.
* A job is reusable even before its end has been reported: an allocation between
  osa_worker.c:145 and 160 clears `target_hsm`, and nobody is told, against
  docs/worker_design.md:217-219.
* A job cancelled while it is queued posts no completion event (osa_worker.c:442): a
  machine of hsm_worker.c then stays in processing (hsm_worker.c:288-294).
* Nothing warns of the timeout -1 in a handler (osa_hsm.h:104-106): a handler that posts
  with it to its own full queue, or machines that do so in a circle, block for good.
  `FullQueueDrains` and `QueueOpens` show that this is the only way, `JamIsForGood` that
  there is no way out.
* A failed `osa_worker_pool_init` does not free the copy of the name
  (osa_worker.c:221-257); `NothingLeaked` says that it is all that is left. After a
  failed start worker_pool.c returns without stopping the threads there are.

## 5. Proofs

All theorems hold for every value of the constants that the modules' assumptions allow;
where a theorem needs more, it says so in its ASSUME.

**OsaQueue** (`OsaQueueProofs`). `Invariance` proves the inductive invariant `IInv`:
types, `RingConsistent`, `BlockedIffPending` (a thread is blocked in exactly one of the
four sets, and exactly when its result is pending), `NobodySleepsOnClosed`,
`NoLostWakeup`, `AgainOnlyIfNonblocking` and `CallersAsk` (what a blocked thread was
called with). `NoLostWakeup` counts
threads, and is inductive only with the disjointness in `BlockedIffPending`: taking a
slot removes one woken sender, or a fresh caller takes it and then there is one slot
less. From `IInv` follow `TypeCorrect`, `RingStaysConsistent`, `NoWakeupIsLost`,
`ClosedQueueIsAwake`, `NoSpuriousAgain` and `Refinement`, which maps the ring to the
sequence `Contents`, the arguments of the calls to `Asked`, and each critical section to
one step of `BoundedQueue`. There a failure has to fit its caller: `-EAGAIN` and waiting
are for a sender only when the queue is full and for a receiver only when it is empty,
and only a call that has waited times out.

**OsaWorker** (`OsaWorkerProofs`). `TypeCorrect` and `StopWakesAll` hold without further
assumption; the latter rests on `StopTokens`, which counts the tokens posted by stop
against the workers that still have to see the flag. The others assume
`CancelStaleHead = FALSE`. Their invariant `PoolIInv` joins the shape of the list
(`ListIsFifo`), the place of each job (`JobsHaveOnePlace`), the statistics
(`StatsAddUp`), `NoTokenLost`, `GrantsAreFinishes` (waits served and completions not
yet consumed are at most the finished jobs) and `StateTellsPlace` (what a job's state
says about where it is). It gives `QueueIsFifo`, `NoJobRunsTwice`, `StatisticsAddUp`,
`NoJobIsForgotten`, `WaitsAreABarrier`, `PollsAreTrue`, and the action properties `JobsStartInOrder` and
`JobsFollowTheDiagram`.

**Hsm** (`HsmProofs`). `TypeCorrect`, and `DelegationIsToTheParent` for handlers that do
not delegate what was delegated to them. `CallInv` adds to the types that all calls below
the innermost have used their macro, and that the innermost, if it has not, acts for the
current state.

**ActiveHsm** (`ActiveHsmProofs`). `TypeCorrect`; `ClearedPeriodIsSilent`, from
`TimersAreKnown` (each running timer is the one its machine has the handle of), for
applications that set a period only while no timer runs; `WaitsHaveAReader`, from
`QueueHasReader` (a queue exists only once its dispatcher receives). `JamIsForGood`, an
action property: a circle of waits without a timeout on full queues stays one. It rests on
`ForeverWaits` (a machine in `forever` is waiting): the machines of the circle take no step,
and nobody else takes a message from their queues.

**OsaTime.** `QueueDeadlineIsExact`: for every time of the clock and every timeout,
`calc_timeout` gives a valid `timespec` exactly that far away, and the sum before the
carry fits a 32-bit `long`; it rests on `CarryIsNeutral` and on splitting the timeout into
its quotient and remainder by 1000. `DeadlinesAgree`: the second copy of the code, in
`osa_sem_wait`, gives the same. `PeriodIsExact`: the same for a timer's period, which never
becomes the zero that disarms a timer. `SleepIsExact`: `osa_thread_sleep` is exact up to
4294967 ms, and wraps one millisecond later. Seconds and timeouts are integers of any size
here.

**PoolLifecycle** (`PoolLifecycleProofs`). `TypesAlwaysOK`, `AlwaysUsedWhileAlive`,
`NothingEverLeaked` and `EveryJobAlwaysCounted`, for any number of workers and jobs, from
`LifeInv`. `LoopOK`, `FlagOK`, `LiveOK` and `HandlesOK` say, for each place of main, what
exists, which handles may be joined and which threads may still be in their loop; that no
worker is left when the primitives are destroyed is only true because every handle that
start wrote has been joined. `CountsOK` is the argument behind the exit status: each job
is queued, with a worker or completed, each token of a semaphore stands for one job, and
`job_count` is ahead of `total_completed` by the workers between the two; the count of
workers makes it a statement about cardinalities. It needs `LockOK`: a worker between its
read and its write of `job_count` has the lock, and has read what is still there.

**JobPool** (`HsmWorkerProofs`). `DisciplineKeepsIdsDistinct`, `DisciplineKeepsSlots` and
`DisciplineFreesOwn` hold for `DisciplinedSpec`, from `PoolInv`. The properties are about
live jobs, and the proof is about ownership: no two machines have one slot (`OneOwner`),
who allocates is alone and nobody has an ended job meanwhile (`OneAllocates`), a job in
the pool's hands is in one place and its machine waits for it (`JobsOwned`), and a
completion event is about the job of its receiver, the only one, with the pool done with
it (`EventsTell`). `StatesTell` is why a free slot is nobody's: a slot that is queued or
running has another state, and an ended job that is not yet freed, whose state is that of
a free slot, does not exist while somebody scans. `IdsDistinct` has the value that a
machine has read of the counter still be the counter's.

**HsmWorker** (`HsmWorkerProofs`). `ProgramTypes` holds with delays of any length. The
others assume `Paced` and `Considerate`. `DelaysAreDiscipline` is the refinement: with `PacedInv`, each step
of the program is a step of the pool that keeps the discipline, or leaves the pool alone.
`PacedInv` says in which turn and phase of main a machine may be on its way to a submit
(`InTurn`, `IdleBefore`), that jobs end only when all have been submitted (`EndsLate`),
and what the message queues hold: one event of a kind, a START only for an idle machine,
and a CANCEL only for a job that a worker has, or one left from an earlier round and then
in front of the START (`QueuesOK`, `SignalsTell`), so that no cancel meets a queued job.
`DelaysKeepIdsDistinct`, `DelaysKeepSlots` and `DelaysFreeOwn` follow from the theorems
about the pool. `DelaysForgetNobody` also assumes message queues of three events or more
(the example gives 20, hsm_worker.c:41): the machine that a job is reported to
has at most a PERIOD and a CANCEL in its queue, so that the one post with timeout 0 is
accepted.

**Only model-checked.** The liveness properties: `MessageIsTaken`, `SlotIsFilled`,
`ClosedCallsReturn`, `AcceptedJobsEnd`, `StopReturns`, `EnoughJobsServeWaits`,
`FullQueueDrains`, `QueueOpens`, `WorkIsDone` and `MainReturns` (TLAPS has no fairness
reasoning). Every invariant and every action property of a passing run is a theorem.

## 6. Not modelled, and the plan

Not modelled:

* The ESP32 layer. At this commit it does not implement the interface of `platform/`:
  `osa_mutex_create(void)` and `osa_sem_create` return handles where osa_sync.h has an out
  parameter, `osa_thread_join` and `osa_timer_delete` are missing, and the example uses a
  field `param` that `struct hsm_event` does not have. What its semaphores would mean for
  the pool is in `OsaWorker`'s `SemMax`.
* Of hsm_worker.c, SIG_WORK_ERROR and SIG_WORK_PROGRESS, which nobody posts, the failure
  of main's own set-up, of a submission (the queue is larger than the pool of slots) and
  of creating a machine's queue, which `ActiveHsm` has.
* Calls that nobody outside the tests makes: `osa_mutex_trylock`, `osa_sem_get_count`,
  `osa_thread_delete`, `osa_thread_self`, `osa_thread_yield`, `osa_timer_delete`.
* The other examples, and the tests, except as evidence of how the library is used:
  hsm_simulate.c is one use of what `Hsm` and `ActiveHsm` model.
* The tables of the error codes (no state); logging and names; thread attributes and
  priorities; `osa_worker_pool_get_stats` and the read-only queue calls, which change
  nothing.

Next: the safety that the liveness properties rest on, where it is not proved yet: for
each thread that waits, who is going to wake it.
