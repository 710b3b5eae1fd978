------------------------ MODULE PoolLifecycleProofs ------------------------
(***************************************************************************)
(* Proofs about the life of a worker pool, for any number of workers and   *)
(* jobs, and whichever creation fails.                                     *)
(***************************************************************************)
EXTENDS PoolLifecycle, FiniteSetTheorems, TLAPS

-----------------------------------------------------------------------------
(* The inductive invariant *)

\* Where main is, by the parts of its life that the invariant tells apart.
BeforeStart == InitSteps \cup {"result_lock", "name", "failed"}
AtWork == {"completion", "submit", "wait", "stop", "post"}
Joined == {"join_completion", "cleanup", "destroy", "done"}
Stopping == {"post", "join"} \cup Joined

Locking == {w \in Workers : pc[w] = "locking"}
Busy == {w \in Workers : pc[w] \in {"running", "counting", "finishing"}}
Finishing == {w \in Workers : pc[w] = "finishing"}

\* The jobs that main has submitted, and the waits of main that have returned.
Submitted ==
    IF main = "submit" THEN i
    ELSE IF main \in {"wait", "stop"} \cup Stopping THEN NumJobs ELSE 0
Waited ==
    IF main = "wait" THEN i
    ELSE IF main \in {"stop"} \cup Stopping THEN NumJobs ELSE 0

\* The index of a loop stays inside the loop.
LoopOK ==
    /\ main \in {"start", "post", "join"} => i \in Workers
    /\ main \in {"submit", "wait"} => i \in 0 .. NumJobs - 1
    /\ main \notin {"start", "post", "join", "submit", "wait"} => i = 0

\* main raises the flag once, and before that no worker leaves its loop.
FlagOK ==
    /\ shutdown \in BOOLEAN
    /\ shutdown <=> main \in Stopping
    /\ ~shutdown => \A w \in Workers : pc[w] # "exited"

\* What exists besides the name, which may be missing: what main has built, and
\* has not taken down again.
Built ==
    CASE main \in {"result_lock", "failed", "done"} -> {}
      [] main \in {"name", "lock", "destroy"} -> {"result_lock"}
      [] main = "work_sem" -> {"result_lock", "lock"}
      [] main = "complete_sem" -> {"result_lock", "lock", "work_sem"}
      [] main = "workers" -> {"result_lock"} \cup Primitives
      [] main = "not_started" -> {"workers"} \cup Primitives
      [] OTHER -> {"result_lock", "workers"} \cup Primitives \cup
             (IF completion = "none" \/ main = "cleanup" THEN {} ELSE {"completion"})

LiveOK ==
    /\ live \ {"name"} = Built
    /\ "name" \in live => main \notin {"result_lock", "name", "destroy", "done"}
    /\ main \in BeforeStart \cup {"start", "not_started", "completion"} =>
           completion = "none"
    /\ main \in {"cleanup", "destroy", "done"} => completion # "sleeping"

\* The handles that may be joined, and the threads behind them.
HandlesOK ==
    /\ main \in BeforeStart => handles = {} /\ \A w \in Workers : pc[w] = "none"
    /\ main = "start" =>
           handles = 0 .. i - 1 /\ \A w \in Workers : pc[w] # "none" <=> w < i
    /\ main \in AtWork => handles = Workers /\ \A w \in Workers : pc[w] # "none"
    /\ main = "join" =>
           /\ handles = i .. num_workers - 1
           /\ \A w \in Workers : pc[w] # "none" /\ (w < i => pc[w] = "exited")
    /\ main \in Joined => handles = {} /\ \A w \in Workers : pc[w] = "exited"

\* Every job is queued, with a worker or counted as completed; every token of
\* the semaphores stands for one job; and the example's own counter is ahead of
\* the pool's by the workers that have counted their job and not yet reported.
CountsOK ==
    /\ queue_depth + active_workers + total_completed = Submitted
    /\ active_workers = Cardinality(Busy)
    /\ sem["complete_sem"] + Waited = total_completed
    /\ job_count = total_completed + Cardinality(Finishing)
    /\ main \notin Stopping => sem["work_sem"] + Cardinality(Locking) = queue_depth

\* A worker between its read and its write of job_count has the lock, and has
\* read what is still there.
LockOK ==
    \A w \in Workers : pc[w] = "counting" => holder = w /\ read[w] = job_count

\* The types that do not follow from the counts.
BaseTypes ==
    /\ main \in BeforeStart \cup AtWork \cup Joined \cup {"start", "not_started",
      "join"}
    /\ i \in Nat
    /\ handles \subseteq Workers
    /\ holder \in Workers \cup {Nobody}
    /\ sem \in [Semaphores -> Nat]
    /\ pc \in [Workers -> {"none", "waiting", "locking", "running", "counting",
                           "finishing", "exited"}]
    /\ completion \in {"none", "sleeping", "exited"}
    /\ read \in [Workers -> Nat]
    /\ queue_depth \in Nat /\ active_workers \in Int /\ total_completed \in Nat
    /\ job_count \in Nat

LifeInv ==
    /\ BaseTypes
    /\ LoopOK
    /\ FlagOK
    /\ LiveOK
    /\ HandlesOK
    /\ CountsOK
    /\ LockOK

-----------------------------------------------------------------------------
(* What a step is *)

\* The sets of workers are finite, and one that joins or leaves is counted.
LEMMA WorkerCount ==
    ASSUME NEW S \in SUBSET Workers
    PROVE  /\ Cardinality(S) \in Nat /\ Cardinality(S) <= num_workers
           /\ Cardinality(S) = 0 <=> S = {}
           /\ \A w \in Workers \ S : Cardinality(S \cup {w}) = Cardinality(S) + 1
           /\ \A w \in S : Cardinality(S \ {w}) = Cardinality(S) - 1
  <1>1. IsFiniteSet(Workers) /\ Cardinality(Workers) = num_workers
    <2>1. num_workers \in Nat /\ num_workers > 0 BY SizesAssumption
    <2> QED BY <2>1, FS_Interval DEF Workers
  <1>2. IsFiniteSet(S) /\ Cardinality(S) <= num_workers
    BY <1>1, FS_Subset
  <1>3. Cardinality(S) \in Nat
    BY <1>2, FS_CardinalityType
  <1>4. Cardinality(S) = 0 <=> S = {}
    BY <1>2, FS_EmptySet
  <1>5. \A w \in Workers \ S : Cardinality(S \cup {w}) = Cardinality(S) + 1
    BY <1>2, FS_AddElement
  <1>6. \A w \in S : Cardinality(S \ {w}) = Cardinality(S) - 1
    BY <1>2, FS_RemoveElement
  <1> QED BY <1>2, <1>3, <1>4, <1>5, <1>6

\* The kinds of steps, as the proofs below tell them apart.
LEMMA StepCases ==
    ASSUME [Next]_vars
    PROVE  \/ CreateResultLock \/ CopyName \/ CreateLock \/ CreateSemaphore
           \/ AllocateWorkers \/ InitFails
           \/ CreateWorker \/ StartFails \/ CreateCompletion
           \/ Submit \/ Wait
           \/ SetShutdown \/ PostStop \/ Join
           \/ JoinCompletion \/ Cleanup \/ DestroyResultLock
           \/ \E w \in Workers :
                  \/ TakeToken(w) \/ ExitLoop(w) \/ PopJob(w)
                  \/ ReadCount(w) \/ WriteCount(w) \/ FinishJob(w)
           \/ CompletionExits
           \/ UNCHANGED vars
  BY DEF Next, Main, Worker

\* The body of a loop of n iterations has been done once more.
Iterated(n, next) ==
    \/ main' = main /\ i < n - 1 /\ i' = i + 1
    \/ main' = next /\ i = n - 1 /\ i' = 0

\* The five loops of main.
LEMMA Loops ==
    ASSUME BaseTypes, LoopOK
    PROVE  /\ CreateWorker => i \in Workers /\ Iterated(num_workers, "completion")
           /\ Submit => i \in 0 .. NumJobs - 1 /\ Iterated(NumJobs, "wait")
           /\ Wait => i \in 0 .. NumJobs - 1 /\ Iterated(NumJobs, "stop")
           /\ PostStop => i \in Workers /\ Iterated(num_workers, "join")
           /\ Join => i \in Workers /\ Iterated(num_workers, "join_completion")
  <1> USE BaseTypes, LoopOK, SizesAssumption DEF Iterated, LoopOK, Loop, Go, Workers
  <1>1. CreateWorker => i \in Workers /\ Iterated(num_workers, "completion")
    BY DEF CreateWorker
  <1>2. Submit => i \in 0 .. NumJobs - 1 /\ Iterated(NumJobs, "wait")
    BY DEF Submit
  <1>3. Wait => i \in 0 .. NumJobs - 1 /\ Iterated(NumJobs, "stop")
    BY DEF Wait
  <1>4. PostStop => i \in Workers /\ Iterated(num_workers, "join")
    BY DEF PostStop
  <1>5. Join => i \in Workers /\ Iterated(num_workers, "join_completion")
    BY DEF Join
  <1> QED BY <1>1, <1>2, <1>3, <1>4, <1>5

-----------------------------------------------------------------------------
(* Every step keeps the invariant *)

\* The types are kept.
LEMMA TypesStep ==
    ASSUME BaseTypes, LoopOK, [Next]_vars
    PROVE  BaseTypes'
  <1> USE BaseTypes, LoopOK, SizesAssumption DEF BaseTypes, BeforeStart, AtWork,
          Joined, Stopping, InitSteps, Semaphores, Workers, Nobody,
          objects, threads, stats
  <1>1. CASE CreateResultLock
    BY <1>1 DEF CreateResultLock, MutexCreate, Go
  <1>2. CASE CopyName
    BY <1>2 DEF CopyName, Go
  <1>3. CASE CreateLock
    BY <1>3 DEF CreateLock, MutexCreate, Go
  <1>4. CASE CreateSemaphore
    BY <1>4 DEF CreateSemaphore, SemCreate, Go, Semaphores
  <1>5. CASE AllocateWorkers
    BY <1>5 DEF AllocateWorkers, Go
  <1>6. CASE InitFails
    BY <1>6 DEF InitFails, Destroy, Rollback, Go, InitSteps
  <1>7. CASE CreateWorker
    BY <1>7, Loops DEF CreateWorker, ThreadCreate, Iterated
  <1>8. CASE StartFails
    BY <1>8 DEF StartFails, Destroy, Go
  <1>9. CASE CreateCompletion
    BY <1>9 DEF CreateCompletion, Go
  <1>10. CASE Submit
    BY <1>10, Loops DEF Submit, SemPost, Iterated
  <1>11. CASE Wait
    <2>1. sem' \in [Semaphores -> Nat]
      BY <1>11 DEF Wait, SemWait
    <2> QED BY <1>11, <2>1, Loops DEF Wait, Iterated
  <1>12. CASE SetShutdown
    BY <1>12 DEF SetShutdown, Go
  <1>13. CASE PostStop
    <2>1. sem' \in [Semaphores -> Nat]
      BY <1>13 DEF PostStop, SemPost
    <2> QED BY <1>13, <2>1, Loops DEF PostStop, Iterated
  <1>14. CASE Join
    BY <1>14, Loops DEF Join, ThreadJoin, Iterated
  <1>15. CASE JoinCompletion
    BY <1>15 DEF JoinCompletion, Destroy, Go
  <1>16. CASE Cleanup
    BY <1>16 DEF Cleanup, Destroy, Go
  <1>17. CASE DestroyResultLock
    BY <1>17 DEF DestroyResultLock, Destroy, Go
  <1>18. ASSUME NEW w \in Workers, TakeToken(w) PROVE BaseTypes'
    BY <1>18 DEF TakeToken, SemWait
  <1>19. ASSUME NEW w \in Workers, ExitLoop(w) PROVE BaseTypes'
    BY <1>19 DEF ExitLoop
  <1>20. ASSUME NEW w \in Workers, PopJob(w) PROVE BaseTypes'
    BY <1>20 DEF PopJob
  <1>21. ASSUME NEW w \in Workers, ReadCount(w) PROVE BaseTypes'
    BY <1>21 DEF ReadCount, MutexLock
  <1>22. ASSUME NEW w \in Workers, WriteCount(w) PROVE BaseTypes'
    BY <1>22 DEF WriteCount, MutexUnlock
  <1>23. ASSUME NEW w \in Workers, FinishJob(w) PROVE BaseTypes'
    BY <1>23 DEF FinishJob, SemPost
  <1>24. CASE CompletionExits
    BY <1>24 DEF CompletionExits
  <1>25. CASE UNCHANGED vars
    BY <1>25 DEF vars
  <1> QED BY <1>1, <1>2, <1>3, <1>4, <1>5, <1>6, <1>7, <1>8, <1>9, <1>10, <1>11, <1>12,
             <1>13, <1>14, <1>15, <1>16, <1>17, <1>18, <1>19, <1>20, <1>21, <1>22,
             <1>23, <1>24, <1>25, StepCases


\* Every loop ends at its bound.
LEMMA LoopStep ==
    ASSUME BaseTypes, LoopOK, [Next]_vars
    PROVE  LoopOK'
  <1> USE BaseTypes, LoopOK, SizesAssumption DEF LoopOK, InitSteps, Workers, Semaphores
  <1>1. CASE CreateResultLock
    BY <1>1 DEF CreateResultLock, MutexCreate, Go
  <1>2. CASE CopyName
    BY <1>2 DEF CopyName, Go
  <1>3. CASE CreateLock
    BY <1>3 DEF CreateLock, MutexCreate, Go
  <1>4. CASE CreateSemaphore
    BY <1>4 DEF CreateSemaphore, SemCreate, Go, Semaphores
  <1>5. CASE AllocateWorkers
    BY <1>5 DEF AllocateWorkers, Go
  <1>6. CASE InitFails
    BY <1>6 DEF InitFails, Destroy, Rollback, Go, InitSteps
  <1>7. CASE CreateWorker
    BY <1>7, Loops DEF CreateWorker, ThreadCreate, Iterated
  <1>8. CASE StartFails
    BY <1>8 DEF StartFails, Destroy, Go
  <1>9. CASE CreateCompletion
    BY <1>9 DEF CreateCompletion, Go
  <1>10. CASE Submit
    BY <1>10, Loops DEF Submit, SemPost, Iterated
  <1>11. CASE Wait
    BY <1>11, Loops DEF Wait, SemWait, Iterated
  <1>12. CASE SetShutdown
    BY <1>12 DEF SetShutdown, Go
  <1>13. CASE PostStop
    BY <1>13, Loops DEF PostStop, SemPost, Iterated
  <1>14. CASE Join
    BY <1>14, Loops DEF Join, ThreadJoin, Iterated
  <1>15. CASE JoinCompletion
    BY <1>15 DEF JoinCompletion, Destroy, Go
  <1>16. CASE Cleanup
    BY <1>16 DEF Cleanup, Destroy, Go
  <1>17. CASE DestroyResultLock
    BY <1>17 DEF DestroyResultLock, Destroy, Go
  <1>18. ASSUME NEW w \in Workers, TakeToken(w) PROVE LoopOK'
    BY <1>18 DEF TakeToken, SemWait
  <1>19. ASSUME NEW w \in Workers, ExitLoop(w) PROVE LoopOK'
    BY <1>19 DEF ExitLoop
  <1>20. ASSUME NEW w \in Workers, PopJob(w) PROVE LoopOK'
    BY <1>20 DEF PopJob
  <1>21. ASSUME NEW w \in Workers, ReadCount(w) PROVE LoopOK'
    BY <1>21 DEF ReadCount, MutexLock
  <1>22. ASSUME NEW w \in Workers, WriteCount(w) PROVE LoopOK'
    BY <1>22 DEF WriteCount, MutexUnlock
  <1>23. ASSUME NEW w \in Workers, FinishJob(w) PROVE LoopOK'
    BY <1>23 DEF FinishJob, SemPost
  <1>24. CASE CompletionExits
    BY <1>24 DEF CompletionExits
  <1>25. CASE UNCHANGED vars
    BY <1>25 DEF vars
  <1> QED BY <1>1, <1>2, <1>3, <1>4, <1>5, <1>6, <1>7, <1>8, <1>9, <1>10, <1>11, <1>12,
             <1>13, <1>14, <1>15, <1>16, <1>17, <1>18, <1>19, <1>20, <1>21, <1>22,
             <1>23, <1>24, <1>25, StepCases


\* Only osa_worker_pool_stop raises the flag, and only then threads end.
LEMMA FlagStep ==
    ASSUME BaseTypes, LoopOK, FlagOK, [Next]_vars
    PROVE  FlagOK'
  <1> USE BaseTypes, LoopOK, FlagOK DEF BaseTypes, FlagOK, Stopping, Joined, InitSteps,
          Semaphores, threads
  <1>1. CASE CreateResultLock
    BY <1>1 DEF CreateResultLock, MutexCreate, Go
  <1>2. CASE CopyName
    BY <1>2 DEF CopyName, Go
  <1>3. CASE CreateLock
    BY <1>3 DEF CreateLock, MutexCreate, Go
  <1>4. CASE CreateSemaphore
    BY <1>4 DEF CreateSemaphore, SemCreate, Go, Semaphores
  <1>5. CASE AllocateWorkers
    BY <1>5 DEF AllocateWorkers, Go
  <1>6. CASE InitFails
    BY <1>6 DEF InitFails, Destroy, Rollback, Go, InitSteps
  <1>7. CASE CreateWorker
    BY <1>7, Loops DEF CreateWorker, ThreadCreate, Iterated
  <1>8. CASE StartFails
    BY <1>8 DEF StartFails, Destroy, Go
  <1>9. CASE CreateCompletion
    BY <1>9 DEF CreateCompletion, Go
  <1>10. CASE Submit
    BY <1>10, Loops DEF Submit, SemPost, Iterated
  <1>11. CASE Wait
    BY <1>11, Loops DEF Wait, SemWait, Iterated
  <1>12. CASE SetShutdown
    BY <1>12 DEF SetShutdown, Go
  <1>13. CASE PostStop
    BY <1>13, Loops DEF PostStop, SemPost, Iterated
  <1>14. CASE Join
    BY <1>14, Loops DEF Join, ThreadJoin, Iterated
  <1>15. CASE JoinCompletion
    BY <1>15 DEF JoinCompletion, Destroy, Go
  <1>16. CASE Cleanup
    BY <1>16 DEF Cleanup, Destroy, Go
  <1>17. CASE DestroyResultLock
    BY <1>17 DEF DestroyResultLock, Destroy, Go
  <1>18. ASSUME NEW w \in Workers, TakeToken(w) PROVE FlagOK'
    BY <1>18 DEF TakeToken, SemWait
  <1>19. ASSUME NEW w \in Workers, ExitLoop(w) PROVE FlagOK'
    BY <1>19 DEF ExitLoop
  <1>20. ASSUME NEW w \in Workers, PopJob(w) PROVE FlagOK'
    BY <1>20 DEF PopJob
  <1>21. ASSUME NEW w \in Workers, ReadCount(w) PROVE FlagOK'
    BY <1>21 DEF ReadCount, MutexLock
  <1>22. ASSUME NEW w \in Workers, WriteCount(w) PROVE FlagOK'
    BY <1>22 DEF WriteCount, MutexUnlock
  <1>23. ASSUME NEW w \in Workers, FinishJob(w) PROVE FlagOK'
    BY <1>23 DEF FinishJob, SemPost
  <1>24. CASE CompletionExits
    BY <1>24 DEF CompletionExits
  <1>25. CASE UNCHANGED vars
    BY <1>25 DEF vars
  <1> QED BY <1>1, <1>2, <1>3, <1>4, <1>5, <1>6, <1>7, <1>8, <1>9, <1>10, <1>11, <1>12,
             <1>13, <1>14, <1>15, <1>16, <1>17, <1>18, <1>19, <1>20, <1>21, <1>22,
             <1>23, <1>24, <1>25, StepCases


\* What main has built and not taken down is what exists.
LEMMA LiveStep ==
    ASSUME BaseTypes, LoopOK, FlagOK, LiveOK, [Next]_vars
    PROVE  LiveOK'
  <1> USE BaseTypes, LoopOK, FlagOK, LiveOK DEF BaseTypes, FlagOK, LiveOK, Built,
          Primitives,
          BeforeStart, AtWork, Joined, Stopping, InitSteps, Semaphores, Workers,
            Nobody, objects, threads, stats
  <1>1. CASE CreateResultLock
    BY <1>1 DEF CreateResultLock, MutexCreate, Go
  <1>2. CASE CopyName
    BY <1>2 DEF CopyName, Go
  <1>3. CASE CreateLock
    BY <1>3 DEF CreateLock, MutexCreate, Go
  <1>4. CASE CreateSemaphore
    BY <1>4 DEF CreateSemaphore, SemCreate, Go, Semaphores
  <1>5. CASE AllocateWorkers
    BY <1>5 DEF AllocateWorkers, Go
  <1>6. CASE InitFails
    BY <1>6 DEF InitFails, Destroy, Rollback, Go, InitSteps
  <1>7. CASE CreateWorker
    BY <1>7, Loops DEF CreateWorker, ThreadCreate, Iterated
  <1>8. CASE StartFails
    BY <1>8 DEF StartFails, Destroy, Go
  <1>9. CASE CreateCompletion
    BY <1>9 DEF CreateCompletion, Go
  <1>10. CASE Submit
    BY <1>10, Loops DEF Submit, SemPost, Iterated
  <1>11. CASE Wait
    BY <1>11, Loops DEF Wait, SemWait, Iterated
  <1>12. CASE SetShutdown
    BY <1>12 DEF SetShutdown, Go
  <1>13. CASE PostStop
    BY <1>13, Loops DEF PostStop, SemPost, Iterated
  <1>14. CASE Join
    BY <1>14, Loops DEF Join, ThreadJoin, Iterated
  <1>15. CASE JoinCompletion
    BY <1>15 DEF JoinCompletion, Destroy, Go
  <1>16. CASE Cleanup
    BY <1>16 DEF Cleanup, Destroy, Go
  <1>17. CASE DestroyResultLock
    BY <1>17 DEF DestroyResultLock, Destroy, Go
  <1>18. ASSUME NEW w \in Workers, TakeToken(w) PROVE LiveOK'
    BY <1>18 DEF TakeToken, SemWait
  <1>19. ASSUME NEW w \in Workers, ExitLoop(w) PROVE LiveOK'
    BY <1>19 DEF ExitLoop
  <1>20. ASSUME NEW w \in Workers, PopJob(w) PROVE LiveOK'
    BY <1>20 DEF PopJob
  <1>21. ASSUME NEW w \in Workers, ReadCount(w) PROVE LiveOK'
    BY <1>21 DEF ReadCount, MutexLock
  <1>22. ASSUME NEW w \in Workers, WriteCount(w) PROVE LiveOK'
    BY <1>22 DEF WriteCount, MutexUnlock
  <1>23. ASSUME NEW w \in Workers, FinishJob(w) PROVE LiveOK'
    BY <1>23 DEF FinishJob, SemPost
  <1>24. CASE CompletionExits
    BY <1>24 DEF CompletionExits
  <1>25. CASE UNCHANGED vars
    BY <1>25 DEF vars
  <1> QED BY <1>1, <1>2, <1>3, <1>4, <1>5, <1>6, <1>7, <1>8, <1>9, <1>10, <1>11, <1>12,
             <1>13, <1>14, <1>15, <1>16, <1>17, <1>18, <1>19, <1>20, <1>21, <1>22,
             <1>23, <1>24, <1>25, StepCases


\* The thread and the handle that the loop of osa_worker_pool_start adds.
LEMMA CreateWorkerHandles ==
    ASSUME BaseTypes, LoopOK, HandlesOK, CreateWorker
    PROVE  HandlesOK'
  <1>1. /\ main = "start" /\ handles = 0 .. i - 1
        /\ \A w \in Workers : pc[w] # "none" <=> w < i
    BY DEF CreateWorker, HandlesOK
  <1>2. /\ i \in Nat /\ i < num_workers /\ num_workers \in Nat
        /\ Iterated(num_workers, "completion")
    BY Loops, SizesAssumption DEF Workers
  <1>3. handles' = (0 .. i - 1) \cup {i} /\ pc' = [pc EXCEPT ![i] = "waiting"]
    BY <1>1 DEF CreateWorker, ThreadCreate
  <1>4. handles' = 0 .. (i + 1) - 1
    BY <1>2, <1>3
  <1>5. \A w \in Workers : pc'[w] # "none" <=> w < i + 1
    BY <1>1, <1>2, <1>3 DEF BaseTypes, Workers
  <1>6. CASE main' = main /\ i' = i + 1
    BY <1>1, <1>4, <1>5, <1>6 DEF HandlesOK, BeforeStart, InitSteps, AtWork, Joined
  <1>7. CASE main' = "completion" /\ i = num_workers - 1
    <2>1. handles' = Workers /\ \A w \in Workers : pc'[w] # "none"
      BY <1>2, <1>4, <1>5, <1>7 DEF Workers
    <2> QED BY <1>7, <2>1 DEF HandlesOK, BeforeStart, InitSteps, AtWork, Joined
  <1> QED BY <1>2, <1>6, <1>7 DEF Iterated

\* Handles are written from the first to the last, and freed in the same order.
LEMMA HandlesStep ==
    ASSUME BaseTypes, LoopOK, FlagOK, HandlesOK, [Next]_vars
    PROVE  HandlesOK'
  <1> USE BaseTypes, LoopOK, FlagOK, HandlesOK, SizesAssumption DEF BaseTypes, FlagOK,
          HandlesOK,
          BeforeStart, AtWork, Joined, Stopping, InitSteps, Semaphores, Workers,
            Nobody, objects, threads, stats
  <1>1. CASE CreateResultLock
    BY <1>1 DEF CreateResultLock, MutexCreate, Go
  <1>2. CASE CopyName
    BY <1>2 DEF CopyName, Go
  <1>3. CASE CreateLock
    BY <1>3 DEF CreateLock, MutexCreate, Go
  <1>4. CASE CreateSemaphore
    BY <1>4 DEF CreateSemaphore, SemCreate, Go, Semaphores
  <1>5. CASE AllocateWorkers
    BY <1>5 DEF AllocateWorkers, Go
  <1>6. CASE InitFails
    BY <1>6 DEF InitFails, Destroy, Rollback, Go, InitSteps
  <1>7. CASE CreateWorker
    BY <1>7, CreateWorkerHandles
  <1>8. CASE StartFails
    BY <1>8 DEF StartFails, Destroy, Go
  <1>9. CASE CreateCompletion
    BY <1>9 DEF CreateCompletion, Go
  <1>10. CASE Submit
    BY <1>10, Loops DEF Submit, SemPost, Iterated
  <1>11. CASE Wait
    BY <1>11, Loops DEF Wait, SemWait, Iterated
  <1>12. CASE SetShutdown
    BY <1>12 DEF SetShutdown, Go
  <1>13. CASE PostStop
    BY <1>13, Loops DEF PostStop, SemPost, Iterated
  <1>14. CASE Join
    BY <1>14, Loops DEF Join, ThreadJoin, Iterated
  <1>15. CASE JoinCompletion
    BY <1>15 DEF JoinCompletion, Destroy, Go
  <1>16. CASE Cleanup
    BY <1>16 DEF Cleanup, Destroy, Go
  <1>17. CASE DestroyResultLock
    BY <1>17 DEF DestroyResultLock, Destroy, Go
  <1>18. ASSUME NEW w \in Workers, TakeToken(w) PROVE HandlesOK'
    BY <1>18 DEF TakeToken, SemWait
  <1>19. ASSUME NEW w \in Workers, ExitLoop(w) PROVE HandlesOK'
    BY <1>19 DEF ExitLoop
  <1>20. ASSUME NEW w \in Workers, PopJob(w) PROVE HandlesOK'
    BY <1>20 DEF PopJob
  <1>21. ASSUME NEW w \in Workers, ReadCount(w) PROVE HandlesOK'
    BY <1>21 DEF ReadCount, MutexLock
  <1>22. ASSUME NEW w \in Workers, WriteCount(w) PROVE HandlesOK'
    BY <1>22 DEF WriteCount, MutexUnlock
  <1>23. ASSUME NEW w \in Workers, FinishJob(w) PROVE HandlesOK'
    BY <1>23 DEF FinishJob, SemPost
  <1>24. CASE CompletionExits
    BY <1>24 DEF CompletionExits
  <1>25. CASE UNCHANGED vars
    BY <1>25 DEF vars
  <1> QED BY <1>1, <1>2, <1>3, <1>4, <1>5, <1>6, <1>7, <1>8, <1>9, <1>10, <1>11, <1>12,
             <1>13, <1>14, <1>15, <1>16, <1>17, <1>18, <1>19, <1>20, <1>21, <1>22,
             <1>23, <1>24, <1>25, StepCases


\* job_count does not change between the read and the write of a worker.
LEMMA LockStep ==
    ASSUME BaseTypes, LockOK, [Next]_vars
    PROVE  LockOK'
  <1> USE BaseTypes, LockOK, SizesAssumption DEF BaseTypes, LockOK, Workers, Nobody,
          objects, threads, stats
  <1>1. CASE CreateResultLock
    BY <1>1 DEF CreateResultLock, MutexCreate, Go
  <1>2. CASE CopyName
    BY <1>2 DEF CopyName, Go
  <1>3. CASE CreateLock
    BY <1>3 DEF CreateLock, MutexCreate, Go
  <1>4. CASE CreateSemaphore
    BY <1>4 DEF CreateSemaphore, SemCreate, Go, Semaphores
  <1>5. CASE AllocateWorkers
    BY <1>5 DEF AllocateWorkers, Go
  <1>6. CASE InitFails
    BY <1>6 DEF InitFails, Destroy, Rollback, Go, InitSteps
  <1>7. CASE CreateWorker
    BY <1>7, Loops DEF CreateWorker, ThreadCreate
  <1>8. CASE StartFails
    BY <1>8 DEF StartFails, Destroy, Go
  <1>9. CASE CreateCompletion
    BY <1>9 DEF CreateCompletion, Go
  <1>10. CASE Submit
    BY <1>10, Loops DEF Submit, SemPost, Iterated
  <1>11. CASE Wait
    BY <1>11, Loops DEF Wait, SemWait, Iterated
  <1>12. CASE SetShutdown
    BY <1>12 DEF SetShutdown, Go
  <1>13. CASE PostStop
    BY <1>13, Loops DEF PostStop, SemPost, Iterated
  <1>14. CASE Join
    BY <1>14, Loops DEF Join, ThreadJoin, Iterated
  <1>15. CASE JoinCompletion
    BY <1>15 DEF JoinCompletion, Destroy, Go
  <1>16. CASE Cleanup
    BY <1>16 DEF Cleanup, Destroy, Go
  <1>17. CASE DestroyResultLock
    BY <1>17 DEF DestroyResultLock, Destroy, Go
  <1>18. ASSUME NEW w \in Workers, TakeToken(w) PROVE LockOK'
    BY <1>18 DEF TakeToken, SemWait
  <1>19. ASSUME NEW w \in Workers, ExitLoop(w) PROVE LockOK'
    BY <1>19 DEF ExitLoop
  <1>20. ASSUME NEW w \in Workers, PopJob(w) PROVE LockOK'
    BY <1>20 DEF PopJob
  <1>21. ASSUME NEW w \in Workers, ReadCount(w) PROVE LockOK'
    BY <1>21 DEF ReadCount, MutexLock
  <1>22. ASSUME NEW w \in Workers, WriteCount(w) PROVE LockOK'
    BY <1>22 DEF WriteCount, MutexUnlock
  <1>23. ASSUME NEW w \in Workers, FinishJob(w) PROVE LockOK'
    BY <1>23 DEF FinishJob, SemPost
  <1>24. CASE CompletionExits
    BY <1>24 DEF CompletionExits
  <1>25. CASE UNCHANGED vars
    BY <1>25 DEF vars
  <1> QED BY <1>1, <1>2, <1>3, <1>4, <1>5, <1>6, <1>7, <1>8, <1>9, <1>10, <1>11, <1>12,
             <1>13, <1>14, <1>15, <1>16, <1>17, <1>18, <1>19, <1>20, <1>21, <1>22,
             <1>23, <1>24, <1>25, StepCases

-----------------------------------------------------------------------------
(* Counting *)

\* The sets of workers that the counts are about.
LEMMA CountTypes ==
    /\ Cardinality(Locking) \in Nat /\ Cardinality(Busy) \in Nat
    /\ Cardinality(Finishing) \in Nat
    /\ Cardinality(Busy) <= num_workers
    /\ Cardinality(Finishing) <= Cardinality(Busy)
  <1>1. /\ Locking \in SUBSET Workers /\ Busy \in SUBSET Workers
        /\ Finishing \in SUBSET Workers /\ Finishing \subseteq Busy
    BY DEF Locking, Busy, Finishing
  <1>2. IsFiniteSet(Busy)
    <2>1. IsFiniteSet(Workers) BY SizesAssumption, FS_Interval DEF Workers
    <2> QED BY <1>1, <2>1, FS_Subset
  <1>3. Cardinality(Finishing) <= Cardinality(Busy)
    BY <1>1, <1>2, FS_Subset
  <1> QED BY <1>1, <1>3, WorkerCount

\* How the numbers of locking, busy and finishing workers change.
LEMMA WorkerSets ==
    ASSUME BaseTypes, NEW w \in Workers
    PROVE  /\ TakeToken(w) =>
                  /\ Cardinality(Locking') = Cardinality(Locking) + 1
                  /\ Busy' = Busy /\ Finishing' = Finishing
           /\ PopJob(w) =>
                  /\ Cardinality(Locking') = Cardinality(Locking) - 1
                  /\ Cardinality(Busy') = Cardinality(Busy) + 1
                  /\ Finishing' = Finishing
           /\ ExitLoop(w) => Busy' = Busy /\ Finishing' = Finishing
           /\ ReadCount(w) => Locking' = Locking /\ Busy' = Busy /\ Finishing' = Finishing
           /\ WriteCount(w) =>
                  /\ Locking' = Locking /\ Busy' = Busy
                  /\ Cardinality(Finishing') = Cardinality(Finishing) + 1
           /\ FinishJob(w) =>
                  /\ Locking' = Locking
                  /\ Cardinality(Busy') = Cardinality(Busy) - 1
                  /\ Cardinality(Finishing') = Cardinality(Finishing) - 1
  <1> USE BaseTypes DEF BaseTypes, Locking, Busy, Finishing
  <1>1. /\ Locking \in SUBSET Workers /\ Busy \in SUBSET Workers
        /\ Finishing \in SUBSET Workers
    OBVIOUS
  <1>2. TakeToken(w) =>
            /\ w \in Workers \ Locking /\ Locking' = Locking \cup {w}
            /\ Busy' = Busy /\ Finishing' = Finishing
    BY DEF TakeToken
  <1>3. PopJob(w) =>
            /\ w \in Locking /\ Locking' = Locking \ {w}
            /\ w \in Workers \ Busy /\ Busy' = Busy \cup {w}
            /\ Finishing' = Finishing
    BY DEF PopJob
  <1>4. ExitLoop(w) => Busy' = Busy /\ Finishing' = Finishing
    BY DEF ExitLoop
  <1>5. ReadCount(w) => Locking' = Locking /\ Busy' = Busy /\ Finishing' = Finishing
    BY DEF ReadCount
  <1>6. WriteCount(w) =>
            /\ w \in Workers \ Finishing /\ Finishing' = Finishing \cup {w}
            /\ Locking' = Locking /\ Busy' = Busy
    BY DEF WriteCount
  <1>7. FinishJob(w) =>
            /\ Locking' = Locking
            /\ w \in Busy /\ Busy' = Busy \ {w}
            /\ w \in Finishing /\ Finishing' = Finishing \ {w}
    BY DEF FinishJob
  <1> HIDE DEF BaseTypes, Locking, Busy, Finishing
  <1> QED BY <1>1, <1>2, <1>3, <1>4, <1>5, <1>6, <1>7, WorkerCount

\* The jobs that are submitted and the waits that have returned, after a step.
LEMMA MainCounts ==
    ASSUME BaseTypes, LoopOK, [Next]_vars
    PROVE  /\ Submit => Submitted' = Submitted + 1 /\ Waited' = Waited
           /\ Wait => Submitted' = Submitted /\ Waited' = Waited + 1
           /\ Submit \/ Wait \/ (Submitted' = Submitted /\ Waited' = Waited)
           /\ Submitted \in 0 .. NumJobs /\ Waited \in 0 .. NumJobs
           /\ main \in Stopping => main' \in Stopping
  <1> USE BaseTypes, LoopOK, SizesAssumption
          DEF LoopOK, Submitted, Waited, Stopping, Joined, InitSteps, Semaphores
  <1> DEFINE Same == Submitted' = Submitted /\ Waited' = Waited
  <1>1. Submit => Submitted' = Submitted + 1 /\ Waited' = Waited
    BY Loops DEF Submit, Iterated
  <1>2. Wait => Submitted' = Submitted /\ Waited' = Waited + 1
    BY Loops DEF Wait, Iterated
  <1>3. Submitted \in 0 .. NumJobs /\ Waited \in 0 .. NumJobs
    BY DEF BaseTypes
  <1>4. CreateResultLock \/ CopyName \/ CreateLock \/ CreateSemaphore
            \/ AllocateWorkers \/ InitFails => Same
    BY DEF CreateResultLock, CopyName, CreateLock, CreateSemaphore, AllocateWorkers,
           InitFails, Go
  <1>5. StartFails \/ CreateCompletion \/ SetShutdown \/ JoinCompletion \/ Cleanup
            \/ DestroyResultLock => Same
    BY DEF StartFails, CreateCompletion, SetShutdown, JoinCompletion, Cleanup,
           DestroyResultLock, Go
  <1>6. CreateWorker \/ PostStop \/ Join => Same
    BY Loops DEF CreateWorker, PostStop, Join, Iterated
  <1>7. ASSUME UNCHANGED <<main, i>> PROVE Same
    BY <1>7
  <1>8. /\ (\E w \in Workers : Worker(w)) => UNCHANGED <<main, i>>
        /\ CompletionExits \/ UNCHANGED vars => UNCHANGED <<main, i>>
    BY DEF Worker, TakeToken, ExitLoop, PopJob, ReadCount, WriteCount, FinishJob,
           CompletionExits, vars
  <1>9. ASSUME main \in Stopping PROVE main' \in Stopping
    <2>1. CASE PostStop \/ Join
      BY <2>1, Loops DEF PostStop, Join, Iterated
    <2>2. CASE JoinCompletion \/ Cleanup \/ DestroyResultLock
      BY <2>2 DEF JoinCompletion, Cleanup, DestroyResultLock, Go
    <2>3. ~(\/ CreateResultLock \/ CopyName \/ CreateLock \/ CreateSemaphore
            \/ AllocateWorkers \/ InitFails \/ CreateWorker \/ StartFails
            \/ CreateCompletion \/ Submit \/ Wait \/ SetShutdown)
      BY <1>9 DEF CreateResultLock, CopyName, CreateLock, CreateSemaphore,
                  AllocateWorkers, InitFails, CreateWorker, StartFails,
                  CreateCompletion, Submit, Wait, SetShutdown
    <2>4. CASE UNCHANGED main
      BY <1>9, <2>4
    <2> QED BY <1>8, <2>1, <2>2, <2>3, <2>4 DEF Next, Main
  <1> HIDE DEF Same
  <1>10. Submit \/ Wait \/ Same
    BY <1>4, <1>5, <1>6, <1>7, <1>8 DEF Next, Main
  <1> QED BY <1>1, <1>2, <1>3, <1>9, <1>10 DEF Same

\* Nothing has been counted while nothing has been submitted.
LEMMA NothingYet ==
    ASSUME BaseTypes, CountsOK, Submitted = 0, Waited = 0, main \notin Stopping
    PROVE  sem["work_sem"] = 0 /\ sem["complete_sem"] = 0
  <1>1. /\ queue_depth \in Nat /\ active_workers \in Int /\ total_completed \in Nat
        /\ sem["work_sem"] \in Nat /\ sem["complete_sem"] \in Nat
    BY DEF BaseTypes, Semaphores
  <1>2. /\ queue_depth + active_workers + total_completed = 0
        /\ active_workers \in Nat
    BY CountTypes DEF CountsOK
  <1>3. queue_depth = 0 /\ total_completed = 0
    BY <1>1, <1>2
  <1>4. /\ sem["complete_sem"] + 0 = 0
        /\ sem["work_sem"] + Cardinality(Locking) = 0
        /\ Cardinality(Locking) \in Nat
    BY <1>3, CountTypes DEF CountsOK
  <1> QED BY <1>1, <1>4

\* Every step keeps the counts: a job is always in exactly one of them.
LEMMA CountsStep ==
    ASSUME BaseTypes, LoopOK, FlagOK, HandlesOK, CountsOK, LockOK, [Next]_vars
    PROVE  CountsOK'
  <1> DEFINE Sets == Locking' = Locking /\ Busy' = Busy /\ Finishing' = Finishing
             Tokens == /\ sem'["work_sem"] = sem["work_sem"]
                       /\ sem'["complete_sem"] = sem["complete_sem"]
             Numbers == UNCHANGED <<queue_depth, active_workers, total_completed,
               job_count>>
  <1>1. /\ queue_depth \in Nat /\ active_workers \in Int /\ total_completed \in Nat
        /\ job_count \in Nat
        /\ sem \in [{"work_sem", "complete_sem"} -> Nat]
        /\ sem["work_sem"] \in Nat /\ sem["complete_sem"] \in Nat
    BY DEF BaseTypes, Semaphores
  <1>2. /\ queue_depth + active_workers + total_completed = Submitted
        /\ active_workers = Cardinality(Busy)
        /\ sem["complete_sem"] + Waited = total_completed
        /\ job_count = total_completed + Cardinality(Finishing)
        /\ main \notin Stopping => sem["work_sem"] + Cardinality(Locking) = queue_depth
    BY DEF CountsOK
  <1>3. /\ Submit => Submitted' = Submitted + 1 /\ Waited' = Waited
        /\ Wait => Submitted' = Submitted /\ Waited' = Waited + 1
        /\ Submit \/ Wait \/ (Submitted' = Submitted /\ Waited' = Waited)
        /\ Submitted \in 0 .. NumJobs /\ Waited \in 0 .. NumJobs
        /\ main \in Stopping => main' \in Stopping
    BY MainCounts
  <1>4. main' \notin Stopping => main \notin Stopping
    BY <1>3
  <1>5. ASSUME pc' = pc PROVE Sets
    BY <1>5 DEF Locking, Busy, Finishing
  <1>6. ASSUME Sets, Tokens, Numbers, Submitted' = Submitted, Waited' = Waited
        PROVE  CountsOK'
    BY <1>2, <1>4, <1>6 DEF CountsOK
  <1>7. CASE Submit
    <2>1. /\ queue_depth' = queue_depth + 1 /\ pc' = pc
          /\ UNCHANGED <<active_workers, total_completed, job_count>>
          /\ sem' = [sem EXCEPT !["work_sem"] = @ + 1]
      BY <1>7 DEF Submit, SemPost, threads
    <2>2. /\ sem'["work_sem"] = sem["work_sem"] + 1
          /\ sem'["complete_sem"] = sem["complete_sem"]
      BY <1>1, <2>1
    <2>3. Sets BY <1>5, <2>1
    <2>4. Submitted' = Submitted + 1 /\ Waited' = Waited BY <1>3, <1>7
    <2> QED BY <1>1, <1>2, <1>4, <2>1, <2>2, <2>3, <2>4, CountTypes DEF CountsOK
  <1>8. CASE Wait
    <2>1. /\ UNCHANGED <<queue_depth, active_workers, total_completed, job_count>>
          /\ pc' = pc /\ sem["complete_sem"] > 0
          /\ sem' = [sem EXCEPT !["complete_sem"] = @ - 1]
      BY <1>8 DEF Wait, SemWait, threads, stats
    <2>2. /\ sem'["work_sem"] = sem["work_sem"]
          /\ sem'["complete_sem"] = sem["complete_sem"] - 1
      BY <1>1, <2>1
    <2> QED BY <1>1, <1>2, <1>3, <1>4, <1>5, <1>8, <2>1, <2>2, CountTypes DEF CountsOK
  <1>9. ~Submit /\ ~Wait => Submitted' = Submitted /\ Waited' = Waited
    BY <1>3
  <1>10. CASE CreateResultLock \/ CopyName \/ CreateLock \/ AllocateWorkers
                  \/ InitFails \/ StartFails \/ CreateCompletion \/ SetShutdown
                  \/ Join \/ JoinCompletion \/ Cleanup \/ DestroyResultLock
                  \/ CompletionExits \/ UNCHANGED vars
    <2>1. pc' = pc /\ sem' = sem /\ Numbers
      BY <1>10 DEF CreateResultLock, CopyName, CreateLock, AllocateWorkers, InitFails,
                   StartFails, CreateCompletion, SetShutdown, Join, JoinCompletion,
                   Cleanup, DestroyResultLock, CompletionExits, vars, threads, stats
    <2>2. Submit => queue_depth' = queue_depth + 1
      BY DEF Submit
    <2>3. Wait => sem'["complete_sem"] = sem["complete_sem"] - 1
      BY <1>1 DEF Wait, SemWait
    <2>4. ~Submit /\ ~Wait
      BY <1>1, <2>1, <2>2, <2>3
    <2> QED BY <1>5, <1>6, <1>9, <2>1, <2>4
  <1>11. CASE PostStop
    <2>1. /\ pc' = pc /\ Numbers /\ main \in Stopping
          /\ sem' = [sem EXCEPT !["work_sem"] = @ + 1]
      BY <1>11 DEF PostStop, SemPost, threads, stats, Stopping
    <2>2. sem'["complete_sem"] = sem["complete_sem"]
      BY <1>1, <2>1
    <2>3. ~Submit /\ ~Wait
      BY <1>11 DEF PostStop, Submit, Wait
    <2> QED BY <1>2, <1>3, <1>5, <1>9, <2>1, <2>2, <2>3 DEF CountsOK
  <1>12. CASE CreateSemaphore
    <2>1. /\ pc' = pc /\ Numbers /\ main \in {"work_sem", "complete_sem"}
          /\ sem' = [sem EXCEPT ![main] = 0]
      BY <1>12 DEF CreateSemaphore, SemCreate, Semaphores, threads, stats
    <2>2. Submitted = 0 /\ Waited = 0 /\ main \notin Stopping
      BY <2>1 DEF Submitted, Waited, Stopping, Joined
    <2>3. Tokens
      BY <1>1, <2>1, <2>2, NothingYet
    <2>4. ~Submit /\ ~Wait
      BY <2>1 DEF Submit, Wait
    <2> QED BY <1>5, <1>6, <1>9, <2>1, <2>3, <2>4
  <1>13. CASE CreateWorker
    <2>1. /\ main = "start" /\ sem' = sem /\ Numbers
          /\ pc' = [pc EXCEPT ![i] = "waiting"]
      BY <1>13 DEF CreateWorker, ThreadCreate, stats
    <2>2. i \in Workers /\ pc[i] = "none"
      <3>1. i \in Workers BY <1>13, Loops
      <3> QED BY <2>1, <3>1, SizesAssumption DEF HandlesOK, BaseTypes, Workers
    <2>3. Sets
      BY <2>1, <2>2 DEF BaseTypes, Locking, Busy, Finishing
    <2>4. ~Submit /\ ~Wait
      BY <2>1 DEF Submit, Wait
    <2> QED BY <1>6, <1>9, <2>1, <2>3, <2>4
  <1>14. ASSUME NEW w \in Workers, Worker(w) PROVE ~Submit /\ ~Wait
    <2>1. pc' # pc
      BY <1>14 DEF Worker, TakeToken, ExitLoop, PopJob, ReadCount, WriteCount,
                   FinishJob, BaseTypes
    <2> QED BY <2>1 DEF Submit, Wait, threads
  <1>15. ASSUME NEW w \in Workers, TakeToken(w) PROVE CountsOK'
    <2>1. Numbers /\ sem' = [sem EXCEPT !["work_sem"] = @ - 1]
      BY <1>15 DEF TakeToken, SemWait, stats
    <2>2. /\ sem'["work_sem"] = sem["work_sem"] - 1
          /\ sem'["complete_sem"] = sem["complete_sem"]
      BY <1>1, <2>1
    <2>3. /\ Cardinality(Locking') = Cardinality(Locking) + 1
          /\ Busy' = Busy /\ Finishing' = Finishing
      BY <1>15, WorkerSets
    <2>4. Submitted' = Submitted /\ Waited' = Waited
      BY <1>9, <1>14, <1>15 DEF Worker
    <2> QED BY <1>1, <1>2, <1>4, <2>1, <2>2, <2>3, <2>4, CountTypes DEF CountsOK
  <1>16. ASSUME NEW w \in Workers, ExitLoop(w) PROVE CountsOK'
    <2>1. Numbers /\ sem' = sem /\ main' = main
      BY <1>16 DEF ExitLoop, stats
    <2>2. main \in Stopping
      BY <1>16 DEF ExitLoop, FlagOK
    <2>3. Busy' = Busy /\ Finishing' = Finishing
      BY <1>16, WorkerSets
    <2>4. Submitted' = Submitted /\ Waited' = Waited
      BY <1>9, <1>14, <1>16 DEF Worker
    <2> QED BY <1>2, <2>1, <2>2, <2>3, <2>4 DEF CountsOK
  <1>17. ASSUME NEW w \in Workers, PopJob(w) PROVE CountsOK'
    <2>1. /\ queue_depth' = queue_depth - 1 /\ active_workers' = active_workers + 1
          /\ UNCHANGED <<total_completed, job_count>> /\ sem' = sem
      BY <1>17 DEF PopJob
    <2>2. /\ Cardinality(Locking') = Cardinality(Locking) - 1
          /\ Cardinality(Busy') = Cardinality(Busy) + 1
          /\ Finishing' = Finishing
      BY <1>17, WorkerSets
    <2>3. Submitted' = Submitted /\ Waited' = Waited
      BY <1>9, <1>14, <1>17 DEF Worker
    <2> QED BY <1>1, <1>2, <1>4, <2>1, <2>2, <2>3, CountTypes DEF CountsOK
  <1>18. ASSUME NEW w \in Workers, ReadCount(w) PROVE CountsOK'
    <2>1. Numbers /\ sem' = sem
      BY <1>18 DEF ReadCount, stats
    <2>2. Submitted' = Submitted /\ Waited' = Waited
      BY <1>9, <1>14, <1>18 DEF Worker
    <2> QED BY <1>6, <1>18, <2>1, <2>2, WorkerSets
  <1>19. ASSUME NEW w \in Workers, WriteCount(w) PROVE CountsOK'
    <2>1. /\ UNCHANGED <<queue_depth, active_workers, total_completed>> /\ sem' = sem
          /\ job_count' = read[w] + 1
      BY <1>19 DEF WriteCount, stats
    <2>2. read[w] = job_count
      BY <1>19 DEF WriteCount, LockOK
    <2>3. /\ Locking' = Locking /\ Busy' = Busy
          /\ Cardinality(Finishing') = Cardinality(Finishing) + 1
      BY <1>19, WorkerSets
    <2>4. Submitted' = Submitted /\ Waited' = Waited
      BY <1>9, <1>14, <1>19 DEF Worker
    <2> QED BY <1>1, <1>2, <1>4, <2>1, <2>2, <2>3, <2>4, CountTypes DEF CountsOK
  <1>20. ASSUME NEW w \in Workers, FinishJob(w) PROVE CountsOK'
    <2>1. /\ active_workers' = active_workers - 1
          /\ total_completed' = total_completed + 1
          /\ UNCHANGED <<queue_depth, job_count>>
          /\ sem' = [sem EXCEPT !["complete_sem"] = @ + 1]
      BY <1>20 DEF FinishJob, SemPost
    <2>2. /\ sem'["work_sem"] = sem["work_sem"]
          /\ sem'["complete_sem"] = sem["complete_sem"] + 1
      BY <1>1, <2>1
    <2>3. /\ Locking' = Locking
          /\ Cardinality(Busy') = Cardinality(Busy) - 1
          /\ Cardinality(Finishing') = Cardinality(Finishing) - 1
      BY <1>20, WorkerSets
    <2>4. Submitted' = Submitted /\ Waited' = Waited
      BY <1>9, <1>14, <1>20 DEF Worker
    <2> QED BY <1>1, <1>2, <1>3, <1>4, <2>1, <2>2, <2>3, <2>4, CountTypes DEF CountsOK
  <1> QED BY <1>7, <1>8, <1>10, <1>11, <1>12, <1>13, <1>15, <1>16, <1>17, <1>18, <1>19,
             <1>20, StepCases

-----------------------------------------------------------------------------
(* What follows from the invariant *)

\* The invariant holds when main starts.
LEMMA LifeInit == Init => LifeInv
  <1> SUFFICES ASSUME Init PROVE LifeInv OBVIOUS
  <1>1. BaseTypes
    BY DEF Init, BaseTypes, BeforeStart, Semaphores
  <1>2. LoopOK /\ LiveOK /\ HandlesOK /\ LockOK
    BY DEF Init, LoopOK, LiveOK, Built, HandlesOK, LockOK, BeforeStart, AtWork, Joined,
           InitSteps
  <1>3. FlagOK
    BY DEF Init, FlagOK, Stopping, Joined
  <1>4. Locking = {} /\ Busy = {} /\ Finishing = {}
    BY DEF Init, Locking, Busy, Finishing
  <1>5. Cardinality({}) = 0
    BY FS_EmptySet
  <1>6. CountsOK
    BY <1>4, <1>5 DEF Init, CountsOK, Submitted, Waited, Stopping, Joined, Semaphores
  <1> QED BY <1>1, <1>2, <1>3, <1>6 DEF LifeInv

\* Every step keeps the invariant.
LEMMA LifeStep == LifeInv /\ [Next]_vars => LifeInv'
  BY TypesStep, LoopStep, FlagStep, LiveStep, HandlesStep, CountsStep, LockStep
     DEF LifeInv

\* It holds of every behaviour of the pool and its owner.
LEMMA LifeAlways == Spec => []LifeInv
  BY LifeInit, LifeStep, PTL DEF Spec

\* Nobody is at work unless jobs have been submitted.
LEMMA Idle ==
    ASSUME LifeInv, Submitted = Waited
    PROVE  Busy = {} /\ queue_depth = 0 /\ total_completed = Submitted
           /\ job_count = Submitted /\ active_workers = 0
  <1>1. /\ queue_depth \in Nat /\ active_workers \in Int /\ total_completed \in Nat
        /\ job_count \in Nat /\ sem["complete_sem"] \in Nat
    BY DEF LifeInv, BaseTypes, Semaphores
  <1>2. /\ queue_depth + active_workers + total_completed = Submitted
        /\ active_workers = Cardinality(Busy)
        /\ sem["complete_sem"] + Submitted = total_completed
        /\ job_count = total_completed + Cardinality(Finishing)
    BY DEF LifeInv, CountsOK
  <1>3. Submitted \in Nat
    BY SizesAssumption DEF LifeInv, BaseTypes, Submitted
  <1>4. /\ Cardinality(Busy) = 0 /\ Cardinality(Finishing) = 0
        /\ queue_depth = 0 /\ total_completed = Submitted
    BY <1>1, <1>2, <1>3, CountTypes
  <1>5. Busy = {}
    BY <1>4, WorkerCount DEF Busy
  <1> QED BY <1>1, <1>2, <1>3, <1>4, <1>5

\* What the invariant says of the objects that a worker uses.
LEMMA WorkersUse ==
    ASSUME LifeInv, NEW w \in Workers
    PROVE  WorkerTouches(w) \subseteq live
  <1> USE DEF LifeInv
  <1>1. CASE pc[w] \in {"none", "exited"}
    BY <1>1 DEF WorkerTouches
  <1>2. CASE pc[w] \notin {"none", "exited"}
    <2>1. main \in AtWork \cup {"start", "not_started", "join"}
      BY <1>2 DEF BaseTypes, HandlesOK
    <2>2. Primitives \subseteq live
      BY <2>1 DEF LiveOK, Built, AtWork
    <2>3. CASE pc[w] \in {"waiting", "locking"}
      BY <2>2, <2>3 DEF WorkerTouches, Primitives, Semaphores
    <2>4. CASE pc[w] \notin {"waiting", "locking"}
      <3>1. w \in Busy
        BY <1>2, <2>4 DEF BaseTypes, Busy
      <3>2. main # "not_started"
        BY <3>1, Idle DEF Submitted, Waited, Stopping, Joined
      <3>3. "result_lock" \in live
        BY <2>1, <3>2 DEF LiveOK, Built, AtWork
      <3> QED BY <2>2, <3>1, <3>3 DEF WorkerTouches, Primitives, Semaphores, Busy
    <2> QED BY <2>3, <2>4
  <1> QED BY <1>1, <1>2

\* The variables have their types; in particular the statistics of the pool stay
\* between 0 and the number of jobs or workers: no uint32_t of pool->stats
\* (osa_worker.c:118-152) is ever decremented below 0.
THEOREM TypesAlwaysOK == Spec => []TypeOK
  <1>1. LifeInv => TypeOK
    <2> SUFFICES ASSUME LifeInv PROVE TypeOK OBVIOUS
    <2> USE DEF LifeInv
    <2>1. live \subseteq Objects
      BY DEF BaseTypes, LiveOK, Built, Objects, Primitives, Semaphores
    <2>2. /\ queue_depth \in Nat /\ active_workers \in Int /\ total_completed \in Nat
          /\ job_count \in Nat
          /\ queue_depth + active_workers + total_completed = Submitted
          /\ active_workers = Cardinality(Busy)
          /\ job_count = total_completed + Cardinality(Finishing)
      BY DEF BaseTypes, CountsOK
    <2>3. Submitted \in 0 .. NumJobs
      BY SizesAssumption DEF LoopOK, Submitted
    <2>4. /\ queue_depth \in 0 .. NumJobs /\ active_workers \in 0 .. num_workers
          /\ total_completed \in 0 .. NumJobs /\ job_count \in 0 .. NumJobs
      BY <2>2, <2>3, CountTypes, SizesAssumption
    <2>5. shutdown \in BOOLEAN
      BY DEF FlagOK
    <2>6. main \in InitSteps \cup
              {"result_lock", "name", "start", "completion", "submit", "wait", "stop",
               "post", "join", "join_completion", "cleanup", "destroy",
               "done", "failed", "not_started"}
      BY DEF BaseTypes, BeforeStart, AtWork, Joined
    <2> QED BY <2>1, <2>4, <2>5, <2>6 DEF TypeOK, BaseTypes
  <1> QED BY <1>1, LifeAlways, PTL

\* No thread uses a lock, a semaphore or the handle array before it exists or
\* after osa_worker_pool_stop has destroyed it (osa_worker.c:317-345), and only
\* handles that start has written are joined, each once (osa_worker.c:328).
THEOREM AlwaysUsedWhileAlive == Spec => []UsedOnlyWhileAlive
  <1>1. LifeInv => UsedOnlyWhileAlive
    <2> SUFFICES ASSUME LifeInv PROVE UsedOnlyWhileAlive OBVIOUS
    <2>1. \A w \in Workers : WorkerTouches(w) \subseteq live
      BY WorkersUse
    <2>2. MainTouches \subseteq live
      BY DEF LifeInv, LiveOK, Built, MainTouches, Primitives, Semaphores
    <2>3. main = "join" => i \in handles
      BY SizesAssumption DEF LifeInv, BaseTypes, HandlesOK, LoopOK, Workers
    <2> QED BY <2>1, <2>2, <2>3 DEF UsedOnlyWhileAlive
  <1> QED BY <1>1, LifeAlways, PTL

\* A failed osa_worker_pool_init gives back everything it took but the name
\* (osa_worker.c:221-257), and after osa_worker_pool_stop nothing is left of the
\* pool (osa_worker.c:317-345).
THEOREM NothingEverLeaked == Spec => []NothingLeaked
  <1>1. LifeInv => NothingLeaked
    BY DEF LifeInv, LiveOK, Built, HandlesOK, NothingLeaked, BeforeStart, Joined
  <1> QED BY <1>1, LifeAlways, PTL

\* When the last of as many waits as jobs has returned, every job has been run
\* and counted, by the pool (osa_worker.c:148-152) and by the example
\* (worker_pool.c:116).
THEOREM EveryJobAlwaysCounted == Spec => []EveryJobCounted
  <1>1. LifeInv => EveryJobCounted
    <2> SUFFICES ASSUME LifeInv, main \in {"stop"} \cup Stopping
                 PROVE  /\ job_count = NumJobs /\ total_completed = NumJobs
                        /\ queue_depth = 0 /\ active_workers = 0
      BY DEF EveryJobCounted, Stopping, Joined
    <2>1. Submitted = NumJobs /\ Waited = NumJobs
      BY DEF Submitted, Waited, Stopping, Joined
    <2> QED BY <2>1, Idle
  <1> QED BY <1>1, LifeAlways, PTL
=============================================================================
