----------------------------- MODULE OsaWorker -----------------------------
(***************************************************************************)
(* The worker pool (core/osa_worker.c): clients submit job structures,     *)
(* which are linked into a queue; worker threads take them from its head,  *)
(* run them and report their completion; an owner starts the threads and   *)
(* stops the pool.                                                         *)
(*                                                                         *)
(* The pool's fields are only touched with pool->lock held, so one action  *)
(* is one critical section, one semaphore operation outside it, or one     *)
(* thread creation or join.  A job function runs between two actions of    *)
(* its worker (PopJob and FinishJob), with the lock released.              *)
(*                                                                         *)
(* Jobs are identified with their structures, and job ids with the jobs:   *)
(* JobPool models how ids and structures are handed out.                   *)
(***************************************************************************)
EXTENDS Integers, Sequences, FiniteSets

CONSTANTS
    Workers,         \* the num_workers worker threads
    Jobs,            \* the job structures of the clients
    Waiters,         \* client threads that call osa_worker_pool_wait
    NULL,            \* the null pointer
    QueueSize,       \* queue_size of osa_worker_pool_init
    SemMax,          \* a semaphore at this count ignores osa_sem_post
    UintMax,         \* the largest uint32_t
    MaxSubmits,      \* bound: how many submissions are accepted
    CancelStaleHead  \* TRUE: also cancel a head that has a stale prev link

ASSUME WorkersAssumption == IsFiniteSet(Workers)
ASSUME NullAssumption == NULL \notin Jobs
ASSUME SizesAssumption ==
    /\ QueueSize \in Nat \ {0}
    /\ SemMax \in Nat
    /\ QueueSize <= SemMax
    /\ Cardinality(Workers) <= SemMax
    /\ UintMax \in Nat
    /\ MaxSubmits \in Nat
    /\ MaxSubmits <= UintMax
ASSUME ClientsAssumption == CancelStaleHead \in BOOLEAN

VARIABLES
    work_sem, complete_sem,            \* counts of the two semaphores
    job_queue_head, job_queue_tail,    \* the doubly linked job queue
    next, prev,                        \* job->next, job->prev
    state,                             \* job->state
    shutdown,                          \* pool->shutdown
    total_submitted, total_completed,  \* pool->stats
    total_cancelled, total_errors,
    queue_depth, active_workers,
    pc,          \* pc[w]: where worker thread w is
    job,         \* job[w]: the job in w's local variable while it runs one
    ownerPc,     \* where the owner's calls of start and stop have got to
    posted,      \* how many wake-up posts osa_worker_pool_stop has made
    completion,  \* the completion thread
    waiting,     \* waiting[t]: the job whose wait t is blocked in, or NULL
    granted,     \* history: waits that returned 0 from the semaphore
    holder,      \* history: who may use the job structure, client or pool
    fifo         \* history: the jobs accepted and not yet taken or cancelled

sems  == <<work_sem, complete_sem>>
queue == <<job_queue_head, job_queue_tail, next, prev, fifo>>
stats == <<total_submitted, total_completed, total_cancelled, total_errors,
           queue_depth, active_workers>>
threads == <<pc, job, ownerPc, posted, completion>>
clients == <<waiting, granted>>
vars  == <<work_sem, complete_sem, job_queue_head, job_queue_tail, next, prev,
           state, shutdown, total_submitted, total_completed, total_cancelled,
           total_errors, queue_depth, active_workers, pc, job, ownerPc, posted,
           completion, waiting, granted, holder, fifo>>

JobStates == {"PENDING", "RUNNING", "COMPLETED", "CANCELLED", "ERROR"}

\* uint32_t arithmetic
Inc(n) == IF n = UintMax THEN 0 ELSE n + 1
Dec(n) == IF n = 0 THEN UintMax ELSE n - 1

\* The effect of osa_sem_post on a semaphore's count.
Post(s) == IF s < SemMax THEN s + 1 ELSE s

\* After osa_worker_pool_stop has destroyed the lock and the semaphores no
\* client calls the pool any more.
Usable == ownerPc # "stopped"

-----------------------------------------------------------------------------
(* osa_worker_pool_init *)

Init ==
    /\ work_sem = 0 /\ complete_sem = 0
    /\ job_queue_head = NULL /\ job_queue_tail = NULL
    /\ next = [j \in Jobs |-> NULL]
    /\ prev = [j \in Jobs |-> NULL]
    /\ state = [j \in Jobs |-> "PENDING"]
    /\ shutdown = FALSE
    /\ total_submitted = 0 /\ total_completed = 0
    /\ total_cancelled = 0 /\ total_errors = 0
    /\ queue_depth = 0 /\ active_workers = 0
    /\ pc = [w \in Workers |-> "off"]
    /\ job = [w \in Workers |-> NULL]
    /\ ownerPc = "initialized"
    /\ posted = 0
    /\ completion = "off"
    /\ waiting = [t \in Waiters |-> NULL]
    /\ granted = 0
    /\ holder = [j \in Jobs |-> "client"]
    /\ fifo = << >>

-----------------------------------------------------------------------------
(* osa_worker_pool_start: the owner creates the threads one by one *)

CreateWorker(w) ==
    /\ ownerPc \in {"initialized", "starting"}
    /\ pc[w] = "off"
    /\ pc' = [pc EXCEPT ![w] = "wait"]
    /\ ownerPc' = "starting"
    /\ UNCHANGED <<sems, queue, state, shutdown, stats, job, posted, completion,
                   clients, holder>>

\* osa_thread_create fails: start returns -1 and leaves the threads it has
\* already created running.
CreateWorkerFails ==
    /\ ownerPc \in {"initialized", "starting"}
    /\ \E w \in Workers : pc[w] = "off"
    /\ ownerPc' = "failed"
    /\ UNCHANGED <<sems, queue, state, shutdown, stats, pc, job, posted,
                   completion, clients, holder>>

\* The completion thread comes last; the pool goes on without it if it cannot
\* be created.
CreateCompletion ==
    /\ ownerPc \in {"initialized", "starting"}
    /\ \A w \in Workers : pc[w] # "off"
    /\ ownerPc' = "started"
    /\ completion' \in {"off", "loop"}
    /\ UNCHANGED <<sems, queue, state, shutdown, stats, pc, job, posted,
                   clients, holder>>

-----------------------------------------------------------------------------
(* osa_worker_pool_submit *)

HasRoom == queue_depth < QueueSize

\* Put j behind the last job of the queue.
Link(j) ==
    /\ IF job_queue_tail = NULL
       THEN /\ job_queue_head' = j
            /\ next' = [next EXCEPT ![j] = NULL]
            /\ prev' = [prev EXCEPT ![j] = NULL]
       ELSE /\ next' = [next EXCEPT ![j] = NULL, ![job_queue_tail] = j]
            /\ prev' = [prev EXCEPT ![j] = job_queue_tail]
            /\ UNCHANGED job_queue_head
    /\ job_queue_tail' = j

MutantSignalWorkers ==
    work_sem' = IF job_queue_head = NULL THEN Post(work_sem) ELSE work_sem

\* One token for each accepted job.
SignalWorkers == work_sem' = Post(work_sem)

\* A client hands over a job it holds; if the queue is full the call returns
\* -1 and changes nothing.  The flag shutdown is not looked at.
Submit(j) ==
    /\ Usable
    /\ holder[j] = "client"
    /\ total_submitted < MaxSubmits
    /\ HasRoom
    /\ state' = [state EXCEPT ![j] = "PENDING"]
    /\ Link(j)
    /\ queue_depth' = Inc(queue_depth)
    /\ total_submitted' = Inc(total_submitted)
    /\ SignalWorkers
    /\ holder' = [holder EXCEPT ![j] = "pool"]
    /\ fifo' = Append(fifo, j)
    /\ UNCHANGED <<complete_sem, shutdown, total_completed, total_cancelled,
                   total_errors, active_workers, threads, clients>>

-----------------------------------------------------------------------------
(* osa_worker_pool_cancel *)

\* The walk along next, from the head, comes past j.
InQueue(j) ==
    \A S \in SUBSET Jobs :
        (/\ job_queue_head \in S \cup {NULL}
         /\ \A k \in S : next[k] \in S \cup {NULL})
            => j \in S

MutantUnlink(j) ==
    /\ IF prev[j] # NULL
       THEN /\ next' = [next EXCEPT ![prev[j]] = next[j]]
            /\ UNCHANGED job_queue_head
       ELSE job_queue_head' = next[j] /\ UNCHANGED next
    /\ job_queue_tail' = IF next[j] # NULL THEN job_queue_tail ELSE prev[j]
    /\ UNCHANGED prev

MutantUnlinkKeepsHead(j) ==
    /\ IF prev[j] # NULL
       THEN next' = [next EXCEPT ![prev[j]] = next[j]]
       ELSE UNCHANGED next
    /\ IF next[j] # NULL
       THEN /\ prev' = [prev EXCEPT ![next[j]] = prev[j]]
            /\ UNCHANGED job_queue_tail
       ELSE job_queue_tail' = prev[j] /\ UNCHANGED prev
    /\ UNCHANGED job_queue_head

\* The links around j are joined.  A job without prev is taken to be the head.
Unlink(j) ==
    /\ IF prev[j] # NULL
       THEN /\ next' = [next EXCEPT ![prev[j]] = next[j]]
            /\ UNCHANGED job_queue_head
       ELSE job_queue_head' = next[j] /\ UNCHANGED next
    /\ IF next[j] # NULL
       THEN /\ prev' = [prev EXCEPT ![next[j]] = prev[j]]
            /\ UNCHANGED job_queue_tail
       ELSE job_queue_tail' = prev[j] /\ UNCHANGED prev

\* The sequence s without its element j.
Without(s, j) ==
    IF \E i \in 1 .. Len(s) : s[i] = j
    THEN LET n == CHOOSE i \in 1 .. Len(s) : s[i] = j
         IN  [i \in 1 .. Len(s) - 1 |-> IF i < n THEN s[i] ELSE s[i + 1]]
    ELSE s

\* A client cancels the job with j's id; if the walk does not find it the call
\* returns -1 and changes nothing.  Of the semaphores nothing is taken back.
Cancel(j) ==
    /\ Usable
    /\ InQueue(j)
    /\ CancelStaleHead \/ ~(j = job_queue_head /\ prev[j] # NULL)
    /\ Unlink(j)
    /\ state' = [state EXCEPT ![j] = "CANCELLED"]
    /\ queue_depth' = Dec(queue_depth)
    /\ total_cancelled' = Inc(total_cancelled)
    /\ holder' = [holder EXCEPT ![j] = "client"]
    /\ fifo' = Without(fifo, j)
    /\ UNCHANGED <<sems, shutdown, total_submitted, total_completed,
                   total_errors, active_workers, threads, clients>>

-----------------------------------------------------------------------------
(* osa_worker_pool_thread *)

\* The check for shutdown.
MayTakeJob == ~shutdown

\* osa_sem_wait(pool->work_sem, -1) returns 0.
TakeToken(w) ==
    /\ pc[w] = "wait"
    /\ work_sem > 0
    /\ work_sem' = work_sem - 1
    /\ pc' = [pc EXCEPT ![w] = "locking"]
    /\ UNCHANGED <<complete_sem, queue, state, shutdown, stats, job, ownerPc,
                   posted, completion, clients, holder>>

\* The worker sees the shutdown flag and leaves its loop.
ExitLoop(w) ==
    /\ pc[w] = "locking"
    /\ ~MayTakeJob
    /\ pc' = [pc EXCEPT ![w] = "exited"]
    /\ UNCHANGED <<sems, queue, state, shutdown, stats, job, ownerPc, posted,
                   completion, clients, holder>>

\* The queue is empty, because a cancelled job has left its token behind.
FindNoJob(w) ==
    /\ pc[w] = "locking"
    /\ MayTakeJob
    /\ job_queue_head = NULL
    /\ pc' = [pc EXCEPT ![w] = "wait"]
    /\ UNCHANGED <<sems, queue, state, shutdown, stats, job, ownerPc, posted,
                   completion, clients, holder>>

\* The worker takes the job at the head.  Its successor becomes the head, and
\* keeps its prev link.
PopJob(w) ==
    /\ pc[w] = "locking"
    /\ MayTakeJob
    /\ job_queue_head # NULL
    /\ job_queue_head' = next[job_queue_head]
    /\ job_queue_tail' = IF next[job_queue_head] = NULL THEN NULL
                                                        ELSE job_queue_tail
    /\ next' = [next EXCEPT ![job_queue_head] = NULL]
    /\ prev' = [prev EXCEPT ![job_queue_head] = NULL]
    /\ state' = [state EXCEPT ![job_queue_head] = "RUNNING"]
    /\ active_workers' = Inc(active_workers)
    /\ queue_depth' = Dec(queue_depth)
    /\ job' = [job EXCEPT ![w] = job_queue_head]
    /\ pc' = [pc EXCEPT ![w] = "run"]
    /\ fifo' = IF fifo = << >> THEN fifo ELSE Tail(fifo)
    /\ UNCHANGED <<sems, shutdown, total_submitted, total_completed,
                   total_cancelled, total_errors, ownerPc, posted, completion,
                   clients, holder>>

MutantCountOutcome(outcome) ==
    /\ total_errors' = IF outcome = "ERROR" THEN Inc(total_errors)
                                            ELSE total_errors
    /\ total_completed' = Inc(total_completed)

CountOutcome(outcome) ==
    IF outcome = "ERROR"
    THEN total_errors' = Inc(total_errors) /\ UNCHANGED total_completed
    ELSE total_completed' = Inc(total_completed) /\ UNCHANGED total_errors

MutantSignalTwice(outcome) ==
    complete_sem' = IF outcome = "ERROR" THEN Post(Post(complete_sem))
                                         ELSE Post(complete_sem)

MutantSignalCompletion(outcome) ==
    complete_sem' = IF outcome = "ERROR" THEN complete_sem
                                         ELSE Post(complete_sem)

\* Whatever the outcome, the completion semaphore is posted once.
SignalCompletion(outcome) == complete_sem' = Post(complete_sem)

\* The job function has returned (or there is none: outcome "ERROR").  With the
\* lock held again the worker records the outcome, calls complete_cb, posts the
\* completion event to the job's HSM and posts the completion semaphore.
FinishJob(w, outcome) ==
    /\ pc[w] = "run"
    /\ state' = [state EXCEPT ![job[w]] = outcome]
    /\ active_workers' = Dec(active_workers)
    /\ CountOutcome(outcome)
    /\ SignalCompletion(outcome)
    /\ holder' = [holder EXCEPT ![job[w]] = "client"]
    /\ job' = [job EXCEPT ![w] = NULL]
    /\ pc' = [pc EXCEPT ![w] = "wait"]
    /\ UNCHANGED <<work_sem, queue, shutdown, total_submitted, total_cancelled,
                   queue_depth, ownerPc, posted, completion, clients>>

-----------------------------------------------------------------------------
(* osa_worker_pool_wait *)

MutantPollResult(j) == IF state[j] = "PENDING" THEN -1 ELSE 0

\* timeout_ms = 0: what the call returns, without a step of its own.
PollResult(j) ==
    IF state[j] \notin {"COMPLETED", "CANCELLED"} THEN -1 ELSE 0

\* timeout_ms # 0: the lock is taken and released, then the thread waits.  It
\* waits for a job that it has submitted.
WaitBegins(t, j) ==
    /\ Usable
    /\ waiting[t] = NULL
    /\ holder[j] = "pool" \/ state[j] # "PENDING"
    /\ waiting' = [waiting EXCEPT ![t] = j]
    /\ UNCHANGED <<sems, queue, state, shutdown, stats, threads, granted, holder>>

\* The completion semaphore lets the thread pass and the call returns 0.
WaitSucceeds(t) ==
    /\ Usable
    /\ waiting[t] # NULL
    /\ complete_sem > 0
    /\ complete_sem' = complete_sem - 1
    /\ granted' = granted + 1
    /\ waiting' = [waiting EXCEPT ![t] = NULL]
    /\ UNCHANGED <<work_sem, queue, state, shutdown, stats, threads, holder>>

\* The timeout passes, or the wait is interrupted: the call fails.
WaitFails(t) ==
    /\ Usable
    /\ waiting[t] # NULL
    /\ waiting' = [waiting EXCEPT ![t] = NULL]
    /\ UNCHANGED <<sems, queue, state, shutdown, stats, threads, granted, holder>>

-----------------------------------------------------------------------------
(* osa_worker_pool_stop *)

\* Set the shutdown flag.  The owner stops a pool that it has started: of any
\* other pool the joins below would use handles that nobody has written.
StopBegins ==
    /\ ownerPc = "started"
    /\ shutdown' = TRUE
    /\ ownerPc' = "posting"
    /\ UNCHANGED <<sems, queue, state, stats, pc, job, posted, completion,
                   clients, holder>>

MutantPostsOneMore == posted <= Cardinality(Workers)

MutantPostsOneLess == posted + 1 < Cardinality(Workers)

\* The loop posts once for each worker.
MorePosts == posted < Cardinality(Workers)

StopPosts ==
    /\ ownerPc = "posting"
    /\ MorePosts
    /\ work_sem' = Post(work_sem)
    /\ posted' = posted + 1
    /\ UNCHANGED <<complete_sem, queue, state, shutdown, stats, pc, job,
                   ownerPc, completion, clients, holder>>

StopJoins ==
    /\ ownerPc = "posting"
    /\ ~MorePosts
    /\ ownerPc' = "joining"
    /\ UNCHANGED <<sems, queue, state, shutdown, stats, pc, job, posted,
                   completion, clients, holder>>

\* All joins have returned: destroy the semaphores and the lock.
StopEnds ==
    /\ ownerPc = "joining"
    /\ \A w \in Workers : pc[w] = "exited"
    /\ completion \in {"exited", "off"}
    /\ ownerPc' = "stopped"
    /\ UNCHANGED <<sems, queue, state, shutdown, stats, pc, job, posted,
                   completion, clients, holder>>

\* osa_worker_completion_thread looks at the flag every 100 ms.
CompletionExits ==
    /\ completion = "loop"
    /\ shutdown
    /\ completion' = "exited"
    /\ UNCHANGED <<sems, queue, state, shutdown, stats, pc, job, ownerPc,
                   posted, clients, holder>>

-----------------------------------------------------------------------------

WorkerStep(w) ==
    \/ TakeToken(w)
    \/ ExitLoop(w)
    \/ FindNoJob(w)
    \/ PopJob(w)
    \/ \E outcome \in {"COMPLETED", "ERROR"} : FinishJob(w, outcome)

Next ==
    \/ \E w \in Workers : CreateWorker(w) \/ WorkerStep(w)
    \/ CreateWorkerFails
    \/ CreateCompletion
    \/ \E j \in Jobs : Submit(j) \/ Cancel(j)
    \/ \E t \in Waiters :
           \/ \E j \in Jobs : WaitBegins(t, j)
           \/ WaitSucceeds(t)
           \/ WaitFails(t)
    \/ StopBegins
    \/ StopPosts
    \/ StopJoins
    \/ StopEnds
    \/ CompletionExits

Spec == Init /\ [][Next]_vars

\* Threads are scheduled, job functions return, an owner that has begun to stop
\* the pool goes on, and a semaphore that stays open lets a waiting thread pass.
Fairness ==
    /\ \A w \in Workers : WF_vars(WorkerStep(w))
    /\ WF_vars(StopPosts \/ StopJoins \/ StopEnds)
    /\ WF_vars(CompletionExits)
    /\ \A t \in Waiters : WF_vars(WaitSucceeds(t))

FairSpec == Spec /\ Fairness

-----------------------------------------------------------------------------
(* Correctness *)

TypeOK ==
    /\ work_sem \in 0 .. SemMax
    /\ complete_sem \in 0 .. SemMax
    /\ job_queue_head \in Jobs \cup {NULL}
    /\ job_queue_tail \in Jobs \cup {NULL}
    /\ next \in [Jobs -> Jobs \cup {NULL}]
    /\ prev \in [Jobs -> Jobs \cup {NULL}]
    /\ state \in [Jobs -> JobStates]
    /\ shutdown \in BOOLEAN
    /\ total_submitted \in 0 .. MaxSubmits
    /\ total_completed \in 0 .. UintMax
    /\ total_cancelled \in 0 .. UintMax
    /\ total_errors \in 0 .. UintMax
    /\ queue_depth \in 0 .. UintMax
    /\ active_workers \in 0 .. UintMax
    /\ pc \in [Workers -> {"off", "wait", "locking", "run", "exited"}]
    /\ job \in [Workers -> Jobs \cup {NULL}]
    /\ ownerPc \in {"initialized", "starting", "started", "failed", "posting",
                    "joining", "stopped"}
    /\ posted \in 0 .. Cardinality(Workers)
    /\ completion \in {"off", "loop", "exited"}
    /\ waiting \in [Waiters -> Jobs \cup {NULL}]
    /\ granted \in Nat
    /\ holder \in [Jobs -> {"client", "pool"}]
    /\ fifo \in Seq(Jobs)

Locking == {w \in Workers : pc[w] = "locking"}
Running == {w \in Workers : pc[w] = "run"}
Exited  == {w \in Workers : pc[w] = "exited"}

\* The linked list (osa_worker.c:118-125, 374-386, 430-440) is the sequence of
\* the jobs accepted and neither taken nor cancelled, in the order of their
\* submission, whatever mix of submit, cancel and take came before.  The prev
\* link of the head is not constrained: osa_worker.c:120 leaves it behind.
ListIsFifo ==
    /\ job_queue_head = IF fifo = << >> THEN NULL ELSE fifo[1]
    /\ job_queue_tail = IF fifo = << >> THEN NULL ELSE fifo[Len(fifo)]
    /\ \A i \in 1 .. Len(fifo) :
           /\ next[fifo[i]] = IF i = Len(fifo) THEN NULL ELSE fifo[i + 1]
           /\ i > 1 => prev[fifo[i]] = fifo[i - 1]

\* A job the pool has accepted is either in the queue, once, or being run by
\* one worker, and the pool runs no job that it has given back to its client by
\* finishing or cancelling it (osa_worker.c:118-129, 144-145, 442).
JobsHaveOnePlace ==
    /\ \A i, k \in 1 .. Len(fifo) : fifo[i] = fifo[k] => i = k
    /\ \A v, w \in Running : job[v] = job[w] => v = w
    /\ \A w \in Running : job[w] # NULL /\ holder[job[w]] = "pool"
    /\ \A i \in 1 .. Len(fifo) :
           /\ holder[fifo[i]] = "pool"
           /\ \A w \in Running : fifo[i] # job[w]
    /\ \A j \in Jobs : holder[j] = "pool" =>
           \/ \E i \in 1 .. Len(fifo) : fifo[i] = j
           \/ \E w \in Running : job[w] = j

\* The statistics (osa_worker.c:127-128, 146-152, 388-389, 443-444): every job
\* ever submitted is counted in exactly one of the other five numbers, and the
\* depth and the active workers are what they are called.
StatsAddUp ==
    /\ total_submitted = total_completed + total_errors + total_cancelled
                             + queue_depth + active_workers
    /\ queue_depth = Len(fifo)
    /\ active_workers = Cardinality(Running)

\* Tokens and jobs are taken in two steps (osa_worker.c:104 and 118), jobs are
\* cancelled without their token (414-460) and tokens are spent on an empty
\* queue: there is still a token, or a worker about to look, for every job.
NoTokenLost == ~shutdown => queue_depth <= work_sem + Cardinality(Locking)

\* What a client can rely on (examples/linux/worker_pool.c:89-93): a wait may
\* return for another job than its own, but when as many waits have succeeded
\* as jobs were accepted, every job is finished.
WaitBarrier ==
    granted >= total_submitted =>
        /\ total_completed + total_errors = total_submitted
        /\ \A j \in Jobs : holder[j] = "client"

\* A poll that succeeds (osa_worker.c:510-514) means that the pool is done with
\* the job: the client may use the structure for something else.
PollMeansDone ==
    \A j \in Jobs : PollResult(j) = 0 => holder[j] = "client"

\* The posts of osa_worker_pool_stop (osa_worker.c:322-324) leave a token for
\* every worker that still has to come round to the shutdown flag: the joins
\* (327-329) cannot wait for a worker that sleeps for ever.
StopWakesEveryone ==
    ownerPc = "joining" =>
        Cardinality({w \in Workers : pc[w] \in {"wait", "run"}}) <= work_sem

\* The documented life of a job (docs/worker_design.md:60-68), and submitting a
\* job again after its end.  The diagram's arrow from RUNNING to CANCELLED is
\* left out: a job that runs is not in the queue, so no cancel finds it
\* (osa_worker.c:458).
DocumentedTransitions ==
    [][\A j \in Jobs : state'[j] # state[j] =>
           <<state[j], state'[j]>> \in
               {<<"PENDING", "RUNNING">>, <<"PENDING", "CANCELLED">>,
                <<"RUNNING", "COMPLETED">>, <<"RUNNING", "ERROR">>,
                <<"COMPLETED", "PENDING">>, <<"CANCELLED", "PENDING">>,
                <<"ERROR", "PENDING">>}]_vars

\* Jobs are started in the order of their submission: when a worker takes a
\* job, no job accepted earlier is still queued (osa_worker.c:118).
StartsInOrder ==
    [][\A w \in Workers : PopJob(w) =>
           fifo # << >> /\ job'[w] = fifo[1]]_vars

\* Every job accepted by a pool that has a worker is finished or cancelled,
\* unless the pool is stopped first (osa_worker.c:102-176).
AcceptedJobsEnd ==
    \A j \in Jobs :
        (holder[j] = "pool" /\ \E w \in Workers : pc[w] # "off")
            ~> (holder[j] = "client" \/ shutdown)

\* osa_worker_pool_stop returns: no worker misses the shutdown
\* (osa_worker.c:317-332).
StopReturns == shutdown ~> ownerPc = "stopped"

\* As long as the jobs that were accepted and not cancelled suffice for the
\* waits begun, a wait returns (osa_worker.c:173 and 518): five waits for five
\* jobs all come back, in whatever order the jobs end.
EnoughJobsServeWaits ==
    LET enough == total_submitted - total_cancelled - granted
                      >= Cardinality({t \in Waiters : waiting[t] # NULL})
    IN  \A t \in Waiters :
            (waiting[t] # NULL /\ enough /\ \E w \in Workers : pc[w] # "off")
                ~> (waiting[t] = NULL \/ ~enough \/ shutdown)
=============================================================================
