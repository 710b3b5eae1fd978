--------------------------- MODULE PoolLifecycle ---------------------------
(***************************************************************************)
(* The life of what a worker pool allocates: its name, lock, semaphores    *)
(* and array of thread handles (osa_worker_pool_init), its threads         *)
(* (osa_worker_pool_start), and their end (osa_worker_pool_stop), over     *)
(* platform/linux/osa_sync.c and osa_thread.c.  The owner is main of       *)
(* examples/linux/worker_pool.c, which submits jobs, waits as often, and   *)
(* stops the pool.  Any creation may fail.                                 *)
(*                                                                         *)
(* OsaWorker models the pool at work, with clients that cancel and poll;   *)
(* here jobs are only counted, and a thread is known by the objects that   *)
(* its next step touches.                                                  *)
(***************************************************************************)
EXTENDS Integers, FiniteSets

CONSTANTS
    num_workers,  \* pool->num_workers
    NumJobs       \* how many jobs main submits and waits for

ASSUME SizesAssumption == num_workers \in Nat \ {0} /\ NumJobs \in Nat \ {0}

VARIABLES
    main,          \* where main is, inside the calls it makes
    i,             \* the index of the loop that main is in
    live,          \* the objects that exist
    handles,       \* the workers w whose structure workers[w] points to
    holder,        \* the worker that holds result_lock, or Nobody
    sem,           \* the counts of the semaphores
    pc, completion,   \* pc[w]: where worker w is; the completion thread
    read,          \* read[w]: the value of job_count that w has read
    shutdown,      \* pool->shutdown
    queue_depth, active_workers, total_completed,   \* pool->stats
    job_count      \* the variable of the example

objects == <<live, handles>>
stats == <<queue_depth, active_workers, total_completed>>
threads == <<pc, completion, read>>
vars == <<main, i, objects, holder, sem, threads, shutdown, stats, job_count>>

Workers == 0 .. num_workers - 1
Nobody == num_workers

Semaphores == {"work_sem", "complete_sem"}
Primitives == Semaphores \cup {"lock"}
Objects == Primitives \cup {"result_lock", "name", "workers", "completion"}

-----------------------------------------------------------------------------
(* platform/linux/osa_sync.c and osa_thread.c *)

\* A structure is allocated and its handle written; a call that fails leaves
\* nothing behind.
MutexCreate(x) == live' = live \cup {x}
SemCreate(x) == live' = live \cup {x} /\ sem' = [sem EXCEPT ![x] = 0]

\* The structures are freed.
Destroy(xs) == live' = live \ xs

MutantMutexLock(w) == holder' = w

\* Only result_lock is held from one action to another: the sections under the
\* pool's lock are one action each.
MutexLock(w) == holder = Nobody /\ holder' = w
MutexUnlock(w) == holder' = Nobody

\* osa_sem_wait(sem, -1) returns.
SemWait(x) == sem[x] > 0 /\ sem' = [sem EXCEPT ![x] = @ - 1]
SemPost(x) == sem' = [sem EXCEPT ![x] = @ + 1]

\* The new thread runs, and its handle is in workers[w].
ThreadCreate(w) ==
    /\ handles' = handles \cup {w}
    /\ pc' = [pc EXCEPT ![w] = "waiting"]

\* The join waits for the thread, and frees its structure.
ThreadJoin(w) == pc[w] = "exited" /\ handles' = handles \ {w}

-----------------------------------------------------------------------------

\* Before osa_worker_pool_start all of the workers array is garbage.
Init ==
    /\ main = "result_lock" /\ i = 0
    /\ live = {} /\ handles = {}
    /\ holder = Nobody
    /\ sem = [x \in Semaphores |-> 0]
    /\ pc = [w \in Workers |-> "none"]
    /\ completion = "none"
    /\ read = [w \in Workers |-> 0]
    /\ shutdown = FALSE
    /\ queue_depth = 0 /\ active_workers = 0 /\ total_completed = 0
    /\ job_count = 0

\* main goes to its next statement, at the start of a loop if that is one.
Go(next) == main' = next /\ i' = 0

\* The body of a loop of n iterations is done once more.
Loop(n, next) ==
    IF i + 1 < n THEN i' = i + 1 /\ UNCHANGED main ELSE Go(next)

-----------------------------------------------------------------------------
(* main: osa_mutex_create, osa_worker_pool_init *)

CreateResultLock ==
    /\ main = "result_lock"
    /\ \/ MutexCreate("result_lock") /\ Go("name")
       \/ UNCHANGED live /\ Go("failed")
    /\ UNCHANGED <<handles, holder, sem, threads, shutdown, stats, job_count>>

\* strdup may return NULL, which nobody minds.
CopyName ==
    /\ main = "name"
    /\ live' = live \cup {"name"} \/ UNCHANGED live
    /\ Go("lock")
    /\ UNCHANGED <<handles, holder, sem, threads, shutdown, stats, job_count>>

CreateLock ==
    /\ main = "lock"
    /\ MutexCreate("lock")
    /\ Go("work_sem")
    /\ UNCHANGED <<handles, holder, sem, threads, shutdown, stats, job_count>>

CreateSemaphore ==
    /\ main \in Semaphores
    /\ SemCreate(main)
    /\ Go(IF main = "work_sem" THEN "complete_sem" ELSE "workers")
    /\ UNCHANGED <<handles, holder, threads, shutdown, stats, job_count>>

\* malloc of the handle array
AllocateWorkers ==
    /\ main = "workers"
    /\ live' = live \cup {"workers"}
    /\ Go("start")
    /\ UNCHANGED <<handles, holder, sem, threads, shutdown, stats, job_count>>

InitSteps == {"lock", "work_sem", "complete_sem", "workers"}

MutantRollback(step) ==
    CASE step = "lock" -> {}
      [] step = "work_sem" -> {"lock"}
      [] step = "complete_sem" -> {"lock"}
      [] step = "workers" -> Primitives

\* What osa_worker_pool_init destroys when the step fails.
Rollback(step) ==
    CASE step = "lock" -> {}
      [] step = "work_sem" -> {"lock"}
      [] step = "complete_sem" -> {"work_sem", "lock"}
      [] step = "workers" -> Primitives

\* osa_worker_pool_init fails, and main destroys its own lock and returns.
InitFails ==
    /\ main \in InitSteps
    /\ Destroy(Rollback(main) \cup {"result_lock"})
    /\ Go("failed")
    /\ UNCHANGED <<handles, holder, sem, threads, shutdown, stats, job_count>>

-----------------------------------------------------------------------------
(* main: osa_worker_pool_start *)

CreateWorker ==
    /\ main = "start"
    /\ ThreadCreate(i)
    /\ Loop(num_workers, "completion")
    /\ UNCHANGED <<live, holder, sem, completion, read, shutdown, stats, job_count>>

MutantStartFails ==
    /\ main = "start"
    /\ Go("stop")
    /\ UNCHANGED <<objects, holder, sem, threads, shutdown, stats, job_count>>

\* osa_worker_pool_start returns -1; main destroys its lock and returns, the
\* threads created so far keep waiting.
StartFails ==
    /\ main = "start"
    /\ Destroy({"result_lock"})
    /\ Go("not_started")
    /\ UNCHANGED <<handles, holder, sem, threads, shutdown, stats, job_count>>

\* A failure is not fatal: the handle stays NULL.
CreateCompletion ==
    /\ main = "completion"
    /\ \/ live' = live \cup {"completion"} /\ completion' = "sleeping"
       \/ UNCHANGED <<live, completion>>
    /\ Go("submit")
    /\ UNCHANGED <<handles, holder, sem, pc, read, shutdown, stats, job_count>>

-----------------------------------------------------------------------------
(* main: the two loops of the example *)

Submit ==
    /\ main = "submit"
    /\ queue_depth' = queue_depth + 1
    /\ SemPost("work_sem")
    /\ Loop(NumJobs, "wait")
    /\ UNCHANGED <<objects, holder, threads, shutdown, active_workers,
                   total_completed, job_count>>

\* osa_worker_pool_wait(pool, job, -1)
Wait ==
    /\ main = "wait"
    /\ SemWait("complete_sem")
    /\ Loop(NumJobs, "stop")
    /\ UNCHANGED <<objects, holder, threads, shutdown, stats, job_count>>

-----------------------------------------------------------------------------
(* main: osa_worker_pool_stop *)

SetShutdown ==
    /\ main = "stop"
    /\ shutdown' = TRUE
    /\ Go("post")
    /\ UNCHANGED <<objects, holder, sem, threads, stats, job_count>>

MutantPostStop ==
    /\ main = "post"
    /\ SemPost("work_sem")
    /\ Loop(num_workers - 1, "join")
    /\ UNCHANGED <<objects, holder, threads, shutdown, stats, job_count>>

PostStop ==
    /\ main = "post"
    /\ SemPost("work_sem")
    /\ Loop(num_workers, "join")
    /\ UNCHANGED <<objects, holder, threads, shutdown, stats, job_count>>

Join ==
    /\ main = "join"
    /\ ThreadJoin(i)
    /\ Loop(num_workers, "join_completion")
    /\ UNCHANGED <<live, holder, sem, threads, shutdown, stats, job_count>>

\* Without a completion thread the handle is NULL, and the call returns -EINVAL.
JoinCompletion ==
    /\ main = "join_completion"
    /\ completion \in {"none", "exited"}
    /\ Destroy({"completion"})
    /\ Go("cleanup")
    /\ UNCHANGED <<handles, holder, sem, threads, shutdown, stats, job_count>>

\* free(workers), the semaphores and the lock destroyed, free(name)
Cleanup ==
    /\ main = "cleanup"
    /\ Destroy(Primitives \cup {"workers", "name"})
    /\ Go("destroy")
    /\ UNCHANGED <<handles, holder, sem, threads, shutdown, stats, job_count>>

DestroyResultLock ==
    /\ main = "destroy"
    /\ Destroy({"result_lock"})
    /\ Go("done")
    /\ UNCHANGED <<handles, holder, sem, threads, shutdown, stats, job_count>>

-----------------------------------------------------------------------------
(* osa_worker_pool_thread, test_job_func and osa_worker_completion_thread *)

TakeToken(w) ==
    /\ pc[w] = "waiting"
    /\ SemWait("work_sem")
    /\ pc' = [pc EXCEPT ![w] = "locking"]
    /\ UNCHANGED <<main, i, objects, holder, completion, read, shutdown, stats, job_count>>

ExitLoop(w) ==
    /\ pc[w] = "locking"
    /\ shutdown
    /\ pc' = [pc EXCEPT ![w] = "exited"]
    /\ UNCHANGED <<main, i, objects, holder, sem, completion, read, shutdown, stats,
                   job_count>>

\* Nobody cancels here, so that a token always comes with a job.
PopJob(w) ==
    /\ pc[w] = "locking"
    /\ ~shutdown
    /\ queue_depth > 0
    /\ queue_depth' = queue_depth - 1
    /\ active_workers' = active_workers + 1
    /\ pc' = [pc EXCEPT ![w] = "running"]
    /\ UNCHANGED <<main, i, objects, holder, sem, completion, read, shutdown,
                   total_completed, job_count>>

\* test_job_func: job_count++ under result_lock, and a result that is not < 0
ReadCount(w) ==
    /\ pc[w] = "running"
    /\ MutexLock(w)
    /\ read' = [read EXCEPT ![w] = job_count]
    /\ pc' = [pc EXCEPT ![w] = "counting"]
    /\ UNCHANGED <<main, i, objects, sem, completion, shutdown, stats, job_count>>

WriteCount(w) ==
    /\ pc[w] = "counting"
    /\ job_count' = read[w] + 1
    /\ MutexUnlock(w)
    /\ pc' = [pc EXCEPT ![w] = "finishing"]
    /\ UNCHANGED <<main, i, objects, sem, completion, read, shutdown, stats>>

MutantFinishJob(w) ==
    /\ pc[w] = "finishing"
    /\ total_completed' = total_completed + 1
    /\ SemPost("complete_sem")
    /\ pc' = [pc EXCEPT ![w] = "waiting"]
    /\ UNCHANGED <<main, i, objects, holder, completion, read, shutdown, queue_depth,
                   active_workers, job_count>>

FinishJob(w) ==
    /\ pc[w] = "finishing"
    /\ active_workers' = active_workers - 1
    /\ total_completed' = total_completed + 1
    /\ SemPost("complete_sem")
    /\ pc' = [pc EXCEPT ![w] = "waiting"]
    /\ UNCHANGED <<main, i, objects, holder, completion, read, shutdown, queue_depth,
                   job_count>>

\* It looks at the flag every 100 ms.
CompletionExits ==
    /\ completion = "sleeping"
    /\ shutdown
    /\ completion' = "exited"
    /\ UNCHANGED <<main, i, objects, holder, sem, pc, read, shutdown, stats, job_count>>

-----------------------------------------------------------------------------

Main ==
    \/ CreateResultLock
    \/ CopyName \/ CreateLock \/ CreateSemaphore \/ AllocateWorkers \/ InitFails
    \/ CreateWorker \/ StartFails \/ CreateCompletion
    \/ Submit \/ Wait
    \/ SetShutdown \/ PostStop \/ Join \/ JoinCompletion \/ Cleanup
    \/ DestroyResultLock

Worker(w) ==
    \/ TakeToken(w) \/ ExitLoop(w) \/ PopJob(w)
    \/ ReadCount(w) \/ WriteCount(w) \/ FinishJob(w)

\* main has returned, and the process is over.
Returned == main \in {"done", "failed", "not_started"}

Next ==
    \/ Main
    \/ \E w \in Workers : Worker(w)
    \/ CompletionExits

Spec == Init /\ [][Next]_vars

\* Threads are scheduled; a semaphore or a mutex that stays open lets its waiter
\* pass.
Fairness ==
    /\ WF_vars(Main)
    /\ \A w \in Workers : WF_vars(Worker(w))
    /\ WF_vars(CompletionExits)

FairSpec == Spec /\ Fairness

-----------------------------------------------------------------------------
(* Correctness *)

TypeOK ==
    /\ main \in InitSteps \cup
           {"result_lock", "name", "start", "completion", "submit", "wait", "stop",
            "post", "join", "join_completion", "cleanup", "destroy",
            "done", "failed", "not_started"}
    /\ i \in Nat
    /\ live \subseteq Objects
    /\ handles \subseteq Workers
    /\ holder \in Workers \cup {Nobody}
    /\ sem \in [Semaphores -> Nat]
    /\ pc \in [Workers -> {"none", "waiting", "locking", "running", "counting",
                           "finishing", "exited"}]
    /\ completion \in {"none", "sleeping", "exited"}
    /\ read \in [Workers -> Nat]
    /\ shutdown \in BOOLEAN
    /\ queue_depth \in 0 .. NumJobs
    /\ active_workers \in 0 .. num_workers
    /\ total_completed \in 0 .. NumJobs
    /\ job_count \in 0 .. NumJobs

\* What the next step of a worker touches
WorkerTouches(w) ==
    CASE pc[w] = "waiting" -> {"work_sem"}
      [] pc[w] = "locking" -> {"lock"}
      [] pc[w] \in {"running", "counting"} -> {"result_lock"}
      [] pc[w] = "finishing" -> {"lock", "complete_sem"}
      [] OTHER -> {}

\* What the next step of main touches or destroys
MainTouches ==
    CASE main = "start" -> {"workers"}
      [] main = "submit" -> {"lock", "work_sem"}
      [] main = "wait" -> {"lock", "complete_sem"}
      [] main = "stop" -> {"lock"}
      [] main = "post" -> {"work_sem"}
      [] main = "join" -> {"workers"}
      [] main = "join_completion" -> IF completion = "none" THEN {} ELSE {"completion"}
      [] main = "cleanup" -> Primitives \cup {"workers"}
      [] main = "destroy" -> {"result_lock"}
      [] OTHER -> {}

\* No thread uses a lock, a semaphore or the handle array before it exists or
\* after it is destroyed (osa_worker.c:317-345), and a join is given a handle
\* that start has written and no join has freed (osa_worker.c:328,
\* osa_thread.c:120-144), whichever creation failed before.
UsedOnlyWhileAlive ==
    /\ \A w \in Workers : WorkerTouches(w) \subseteq live
    /\ MainTouches \subseteq live
    /\ main = "join" => i \in handles

\* A failed init gives back everything it took, but for the name
\* (osa_worker.c:221-257), and after a stop nothing is left of the pool.
NothingLeaked ==
    /\ main = "failed" => live \subseteq {"name"} /\ handles = {}
    /\ main = "done" => live = {} /\ handles = {}

\* Once as many waits as jobs have returned, every job has run and is counted,
\* in the pool and in the example, though no wait is for a job of its own
\* (osa_worker.c:515-522): the exit status worker_pool.c:116 computes is 0.
EveryJobCounted ==
    main \in {"stop", "post", "join", "join_completion", "cleanup", "destroy", "done"} =>
        /\ job_count = NumJobs /\ total_completed = NumJobs
        /\ queue_depth = 0 /\ active_workers = 0

\* main returns: the waits are served, and stop wakes and joins every thread
\* (osa_worker.c:321-332), with a completion thread and without.
MainReturns == <>Returned
=============================================================================
