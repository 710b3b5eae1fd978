-------------------------- MODULE OsaWorkerProofs --------------------------
(***************************************************************************)
(* Proofs about the worker pool, for any number of workers, jobs and       *)
(* waiting threads, any queue size and any semaphore limit that is at      *)
(* least the queue size and the number of workers.                         *)
(***************************************************************************)
EXTENDS OsaWorker, SequenceFacts, FiniteSetTheorems, TLAPS

-----------------------------------------------------------------------------
(* Arithmetic and sequences *)

\* uint32_t arithmetic stays in range.
LEMMA UintType ==
    ASSUME NEW n \in 0 .. UintMax
    PROVE  Inc(n) \in 0 .. UintMax /\ Dec(n) \in 0 .. UintMax
  BY SizesAssumption DEF Inc, Dec

\* A semaphore's count stays in range, and a post never lowers it.
LEMMA PostType ==
    ASSUME NEW s \in 0 .. SemMax
    PROVE  Post(s) \in 0 .. SemMax /\ (Post(s) = s + 1 \/ (s = SemMax /\ Post(s) = s))
  BY SizesAssumption DEF Post

\* The number of workers is a number.
LEMMA WorkerCountType == Cardinality(Workers) \in Nat
  BY WorkersAssumption, FS_CardinalityType

\* What is left of a sequence of jobs when the job at position p is removed.
LEMMA WithoutBasics ==
    ASSUME NEW s \in Seq(Jobs), NEW p \in 1 .. Len(s),
           \A i, k \in 1 .. Len(s) : s[i] = s[k] => i = k
    PROVE  /\ Without(s, s[p]) \in Seq(Jobs)
           /\ Len(Without(s, s[p])) = Len(s) - 1
           /\ \A i \in 1 .. Len(s) - 1 :
                  Without(s, s[p])[i] = IF i < p THEN s[i] ELSE s[i + 1]
  <1> DEFINE n == CHOOSE i \in 1 .. Len(s) : s[i] = s[p]
  <1>1. n = p
    OBVIOUS
  <1>2. Without(s, s[p]) =
            [i \in 1 .. Len(s) - 1 |-> IF i < p THEN s[i] ELSE s[i + 1]]
    BY <1>1 DEF Without
  <1>3. Len(s) \in Nat /\ Len(s) - 1 \in Nat /\ p \in Nat
    BY SeqBasics
  <1>4. \A i \in 1 .. Len(s) - 1 : s[i] \in Jobs /\ s[i + 1] \in Jobs
    BY <1>3, ElementOfSeq
  <1>5. Without(s, s[p]) \in [1 .. Len(s) - 1 -> Jobs]
    BY <1>2, <1>4
  <1>6. /\ Without(s, s[p]) \in Seq(Jobs)
        /\ Len(Without(s, s[p])) = Len(s) - 1
    BY <1>3, <1>5, FunctionIsSequence
  <1> HIDE DEF n
  <1> QED BY <1>2, <1>6

\* Removing a job from a sequence of jobs leaves a sequence of jobs.
LEMMA WithoutType ==
    ASSUME NEW s \in Seq(Jobs), NEW j
    PROVE  Without(s, j) \in Seq(Jobs)
  <1>1. CASE \E i \in 1 .. Len(s) : s[i] = j
    <2> DEFINE n == CHOOSE i \in 1 .. Len(s) : s[i] = j
    <2>1. Without(s, j) =
              [i \in 1 .. Len(s) - 1 |-> IF i < n THEN s[i] ELSE s[i + 1]]
      BY <1>1 DEF Without
    <2>2. Len(s) \in Nat /\ Len(s) - 1 \in Nat
      BY <1>1, LenProperties
    <2>3. \A i \in 1 .. Len(s) - 1 : s[i] \in Jobs /\ s[i + 1] \in Jobs
      BY <2>2, ElementOfSeq
    <2>4. Without(s, j) \in [1 .. Len(s) - 1 -> Jobs]
      BY <2>1, <2>3
    <2> QED BY <2>2, <2>4, FunctionIsSequence
  <1>2. CASE ~ \E i \in 1 .. Len(s) : s[i] = j
    BY <1>2 DEF Without
  <1> QED BY <1>1, <1>2

-----------------------------------------------------------------------------
(* Types *)

\* Every step keeps the types, also after the cancellation of a head with a
\* stale link (osa_worker.c:94-536).
LEMMA TypeStep ==
    ASSUME TypeOK, [Next]_vars
    PROVE  TypeOK'
  <1> USE TypeOK DEF TypeOK
  <1>1. ASSUME NEW w \in Workers, CreateWorker(w)
        PROVE  TypeOK'
    BY <1>1 DEF CreateWorker, sems, queue, stats, threads, clients
  <1>2. ASSUME NEW w \in Workers, TakeToken(w)
        PROVE  TypeOK'
    BY <1>2, SizesAssumption DEF TakeToken, sems, queue, stats, threads, clients
  <1>3. ASSUME NEW w \in Workers, ExitLoop(w)
        PROVE  TypeOK'
    BY <1>3 DEF ExitLoop, sems, queue, stats, threads, clients
  <1>4. ASSUME NEW w \in Workers, FindNoJob(w)
        PROVE  TypeOK'
    BY <1>4 DEF FindNoJob, sems, queue, stats, threads, clients
  <1>5. ASSUME NEW w \in Workers, PopJob(w)
        PROVE  TypeOK'
    <2>1. job_queue_head \in Jobs
      BY <1>5 DEF PopJob
    <2>2. /\ job_queue_head' \in Jobs \cup {NULL}
          /\ job_queue_tail' \in Jobs \cup {NULL}
          /\ next' \in [Jobs -> Jobs \cup {NULL}]
          /\ prev' \in [Jobs -> Jobs \cup {NULL}]
      BY <1>5, <2>1 DEF PopJob
    <2>3. state' \in [Jobs -> JobStates]
      BY <1>5 DEF PopJob, JobStates
    <2>4. queue_depth' \in 0 .. UintMax /\ active_workers' \in 0 .. UintMax
      BY <1>5, UintType DEF PopJob
    <2>5. /\ pc' \in [Workers -> {"off", "wait", "locking", "run", "exited"}]
          /\ job' \in [Workers -> Jobs \cup {NULL}]
      BY <1>5, <2>1 DEF PopJob
    <2>6. fifo' \in Seq(Jobs)
      BY <1>5, HeadTailProperties DEF PopJob
    <2> QED BY <1>5, <2>2, <2>3, <2>4, <2>5, <2>6 DEF PopJob, sems, clients
  <1>6. ASSUME NEW w \in Workers, NEW outcome \in {"COMPLETED", "ERROR"},
               FinishJob(w, outcome)
        PROVE  TypeOK'
    <2>1. state' \in [Jobs -> JobStates]
      BY <1>6 DEF FinishJob, JobStates
    <2>2. /\ active_workers' \in 0 .. UintMax
          /\ total_errors' \in 0 .. UintMax /\ total_completed' \in 0 .. UintMax
      BY <1>6, UintType DEF FinishJob, CountOutcome
    <2>3. complete_sem' \in 0 .. SemMax
      BY <1>6, PostType DEF FinishJob, SignalCompletion
    <2>4. /\ pc' \in [Workers -> {"off", "wait", "locking", "run", "exited"}]
          /\ job' \in [Workers -> Jobs \cup {NULL}]
          /\ holder' \in [Jobs -> {"client", "pool"}]
      BY <1>6 DEF FinishJob
    <2> QED BY <1>6, <2>1, <2>2, <2>3, <2>4 DEF FinishJob, queue, clients
  <1>7. ASSUME CreateWorkerFails
        PROVE  TypeOK'
    BY <1>7 DEF CreateWorkerFails, sems, queue, stats, threads, clients
  <1>8. ASSUME CreateCompletion
        PROVE  TypeOK'
    BY <1>8 DEF CreateCompletion, sems, queue, stats, threads, clients
  <1>9. ASSUME NEW j \in Jobs, Submit(j)
        PROVE  TypeOK'
    <2>1. /\ job_queue_head' \in Jobs \cup {NULL}
          /\ job_queue_tail' \in Jobs \cup {NULL}
          /\ next' \in [Jobs -> Jobs \cup {NULL}]
          /\ prev' \in [Jobs -> Jobs \cup {NULL}]
      BY <1>9 DEF Submit, Link
    <2>2. /\ state' \in [Jobs -> JobStates]
          /\ holder' \in [Jobs -> {"client", "pool"}]
      BY <1>9 DEF Submit, JobStates
    <2>3. queue_depth' \in 0 .. UintMax
      BY <1>9, UintType DEF Submit
    <2>4. total_submitted' \in 0 .. MaxSubmits
      BY <1>9, SizesAssumption DEF Submit, Inc
    <2>5. work_sem' \in 0 .. SemMax
      BY <1>9, PostType DEF Submit, SignalWorkers
    <2>6. fifo' \in Seq(Jobs)
      BY <1>9, AppendProperties DEF Submit
    <2> QED BY <1>9, <2>1, <2>2, <2>3, <2>4, <2>5, <2>6
            DEF Submit, threads, clients
  <1>10. ASSUME NEW j \in Jobs, Cancel(j)
        PROVE  TypeOK'
    <2>1. prev[j] \in Jobs \cup {NULL} /\ next[j] \in Jobs \cup {NULL}
      OBVIOUS
    <2>2. /\ job_queue_head' \in Jobs \cup {NULL}
          /\ next' \in [Jobs -> Jobs \cup {NULL}]
      BY <1>10, <2>1 DEF Cancel, Unlink
    <2>3. /\ job_queue_tail' \in Jobs \cup {NULL}
          /\ prev' \in [Jobs -> Jobs \cup {NULL}]
      BY <1>10, <2>1 DEF Cancel, Unlink
    <2>4. /\ state' \in [Jobs -> JobStates]
          /\ holder' \in [Jobs -> {"client", "pool"}]
      BY <1>10 DEF Cancel, JobStates
    <2>5. queue_depth' \in 0 .. UintMax /\ total_cancelled' \in 0 .. UintMax
      BY <1>10, UintType DEF Cancel
    <2>6. fifo' \in Seq(Jobs)
      BY <1>10, WithoutType DEF Cancel
    <2> QED BY <1>10, <2>2, <2>3, <2>4, <2>5, <2>6
            DEF Cancel, sems, threads, clients
  <1>11. ASSUME NEW t \in Waiters, NEW j \in Jobs, WaitBegins(t, j)
        PROVE  TypeOK'
    BY <1>11 DEF WaitBegins, sems, queue, stats, threads, clients
  <1>12. ASSUME NEW t \in Waiters, WaitSucceeds(t)
        PROVE  TypeOK'
    BY <1>12, SizesAssumption DEF WaitSucceeds, sems, queue, stats, threads, clients
  <1>13. ASSUME NEW t \in Waiters, WaitFails(t)
        PROVE  TypeOK'
    BY <1>13 DEF WaitFails, sems, queue, stats, threads, clients
  <1>14. ASSUME StopBegins
        PROVE  TypeOK'
    BY <1>14 DEF StopBegins, sems, queue, stats, threads, clients
  <1>15. ASSUME StopPosts
        PROVE  TypeOK'
    <2>1. work_sem' \in 0 .. SemMax
      BY <1>15, PostType DEF StopPosts
    <2>2. posted' \in 0 .. Cardinality(Workers)
      BY <1>15, WorkerCountType DEF StopPosts, MorePosts
    <2> QED BY <1>15, <2>1, <2>2 DEF StopPosts, queue, stats, clients
  <1>16. ASSUME StopJoins
        PROVE  TypeOK'
    BY <1>16 DEF StopJoins, sems, queue, stats, threads, clients
  <1>17. ASSUME StopEnds
        PROVE  TypeOK'
    BY <1>17 DEF StopEnds, sems, queue, stats, threads, clients
  <1>18. ASSUME CompletionExits
        PROVE  TypeOK'
    BY <1>18 DEF CompletionExits, sems, queue, stats, threads, clients
  <1>19. ASSUME UNCHANGED vars
        PROVE  TypeOK'
    BY <1>19 DEF vars
  <1> QED BY <1>1, <1>2, <1>3, <1>4, <1>5, <1>6, <1>7, <1>8, <1>9, <1>10, <1>11, <1>12, <1>13, <1>14, <1>15, <1>16, <1>17, <1>18, <1>19
          DEF Next, WorkerStep

-----------------------------------------------------------------------------
(* The linked list *)

\* No job is in the queue twice.
Distinct == \A i, k \in 1 .. Len(fifo) : fifo[i] = fifo[k] => i = k

\* A step that changes neither the queue nor what is run nor the numbers that
\* go with it.
Quiet ==
    /\ UNCHANGED <<queue, stats, state, job, holder>>
    /\ Running' = Running

\* Every step submits, cancels, takes or finishes a job, or is quiet.
LEMMA StepCases ==
    ASSUME TypeOK, [Next]_vars
    PROVE  \/ \E j \in Jobs : Submit(j) \/ Cancel(j)
           \/ \E w \in Workers :
                  \/ PopJob(w)
                  \/ \E outcome \in {"COMPLETED", "ERROR"} : FinishJob(w, outcome)
           \/ Quiet
  <1> USE TypeOK DEF Quiet, Running
  <1>1. ASSUME NEW w \in Workers,
               CreateWorker(w) \/ TakeToken(w) \/ ExitLoop(w) \/ FindNoJob(w)
        PROVE  Quiet
    <2>1. UNCHANGED <<queue, stats, state, job, holder>>
      BY <1>1 DEF CreateWorker, TakeToken, ExitLoop, FindNoJob
    <2>2. \E new \in {"wait", "locking", "exited"} :
              pc[w] # "run" /\ pc' = [pc EXCEPT ![w] = new]
      BY <1>1 DEF CreateWorker, TakeToken, ExitLoop, FindNoJob
    <2>3. \A v \in Workers : pc'[v] = "run" <=> pc[v] = "run"
      BY <2>2 DEF TypeOK
    <2> QED BY <2>1, <2>3
  <1>2. CASE \/ CreateWorkerFails \/ CreateCompletion \/ StopBegins \/ StopPosts
             \/ StopJoins \/ StopEnds \/ CompletionExits \/ UNCHANGED vars
    BY <1>2 DEF CreateWorkerFails, CreateCompletion, StopBegins, StopPosts,
                StopJoins, StopEnds, CompletionExits, vars, queue, stats
  <1>3. ASSUME NEW t \in Waiters, NEW j \in Jobs,
               WaitBegins(t, j) \/ WaitSucceeds(t) \/ WaitFails(t)
        PROVE  Quiet
    BY <1>3 DEF WaitBegins, WaitSucceeds, WaitFails, threads
  <1>4. ASSUME NEW t \in Waiters, WaitSucceeds(t) \/ WaitFails(t)
        PROVE  Quiet
    BY <1>4 DEF WaitSucceeds, WaitFails, threads
  <1> QED BY <1>1, <1>2, <1>3, <1>4 DEF Next, WorkerStep

\* A job that is found by the walk of osa_worker_pool_cancel is in the queue.
LEMMA FoundInQueue ==
    ASSUME TypeOK, ListIsFifo, NEW j \in Jobs, InQueue(j)
    PROVE  \E p \in 1 .. Len(fifo) : fifo[p] = j
  <1> DEFINE S == {fifo[i] : i \in 1 .. Len(fifo)}
  <1>1. /\ Len(fifo) \in Nat /\ fifo = << >> <=> Len(fifo) = 0
        /\ \A i \in 1 .. Len(fifo) : fifo[i] \in Jobs
    BY SeqBasics, TypeOK DEF TypeOK
  <1>2. S \in SUBSET Jobs
    BY <1>1
  <1>3. job_queue_head \in S \cup {NULL}
    BY <1>1, ListIsFifo DEF ListIsFifo
  <1>4. \A k \in S : next[k] \in S \cup {NULL}
    BY <1>1, ListIsFifo DEF ListIsFifo
  <1>5. j \in S
    BY <1>2, <1>3, <1>4, InQueue(j) DEF InQueue
  <1> QED BY <1>5

\* Submitting links the job behind the last one.
LEMMA SubmitList ==
    ASSUME TypeOK, ListIsFifo, Distinct, NEW j \in Jobs, Submit(j),
           \A i \in 1 .. Len(fifo) : fifo[i] # j
    PROVE  ListIsFifo' /\ Distinct'
  <1>1. /\ Len(fifo) \in Nat /\ fifo = << >> <=> Len(fifo) = 0
        /\ \A i \in 1 .. Len(fifo) : fifo[i] \in Jobs
    BY SeqBasics, TypeOK DEF TypeOK
  <1>2. /\ fifo' # << >>
        /\ Len(fifo') = Len(fifo) + 1
        /\ \A i \in 1 .. Len(fifo) : fifo'[i] = fifo[i]
        /\ fifo'[Len(fifo) + 1] = j
    BY Submit(j), AppendBasics, TypeOK DEF Submit, TypeOK
  <1>3. Distinct'
    BY <1>1, <1>2 DEF Distinct
  <1>4. CASE fifo = << >>
    <2>1. /\ job_queue_head' = j /\ job_queue_tail' = j
          /\ next'[j] = NULL
      BY <1>4, Submit(j), ListIsFifo, TypeOK DEF Submit, Link, ListIsFifo, TypeOK
    <2> QED BY <1>1, <1>2, <1>3, <1>4, <2>1 DEF ListIsFifo
  <1>5. CASE fifo # << >>
    <2>1. job_queue_tail = fifo[Len(fifo)] /\ job_queue_tail \in Jobs
      BY <1>1, <1>5, ListIsFifo DEF ListIsFifo
    <2>2. job_queue_tail # NULL /\ job_queue_tail # j
      BY <1>1, <1>5, <2>1, NullAssumption
    <2>3. /\ job_queue_head' = job_queue_head /\ job_queue_tail' = j
          /\ next' = [next EXCEPT ![j] = NULL, ![job_queue_tail] = j]
          /\ prev' = [prev EXCEPT ![j] = job_queue_tail]
      BY <2>2, Submit(j) DEF Submit, Link
    <2>4. /\ next'[j] = NULL
          /\ next'[job_queue_tail] = j
          /\ prev'[j] = job_queue_tail
          /\ \A k \in Jobs : k # j /\ k # job_queue_tail => next'[k] = next[k]
          /\ \A k \in Jobs : k # j => prev'[k] = prev[k]
      BY <2>1, <2>2, <2>3, TypeOK DEF TypeOK
    <2>5. ASSUME NEW i \in 1 .. Len(fifo) + 1
          PROVE  /\ next'[fifo'[i]] = IF i = Len(fifo) + 1 THEN NULL ELSE fifo'[i + 1]
                 /\ i > 1 => prev'[fifo'[i]] = fifo'[i - 1]
      <3>1. CASE i = Len(fifo) + 1
        BY <1>1, <1>2, <1>5, <2>1, <2>4, <3>1
      <3>2. CASE i = Len(fifo)
        <4>1. fifo'[i] = job_queue_tail /\ fifo'[i + 1] = j
          BY <1>1, <1>2, <2>1, <3>2
        <4>2. i > 1 => prev'[fifo'[i]] = prev[fifo[i]] /\ fifo'[i - 1] = fifo[i - 1]
          BY <1>1, <1>2, <2>1, <2>2, <2>4, <3>2
        <4>3. i > 1 => prev[fifo[i]] = fifo[i - 1]
          BY <3>2, <1>1, <1>5, ListIsFifo DEF ListIsFifo
        <4> QED BY <1>1, <2>4, <3>2, <4>1, <4>2, <4>3
      <3>3. CASE i < Len(fifo)
        <4>1. /\ fifo'[i] = fifo[i] /\ fifo'[i + 1] = fifo[i + 1]
              /\ i > 1 => fifo'[i - 1] = fifo[i - 1]
          BY <1>1, <1>2, <3>3
        <4>2. fifo[i] # j /\ fifo[i] # job_queue_tail /\ fifo[i] \in Jobs
          BY <1>1, <2>1, <3>3, Distinct DEF Distinct
        <4>3. /\ next[fifo[i]] = fifo[i + 1]
              /\ i > 1 => prev[fifo[i]] = fifo[i - 1]
          BY <1>1, <3>3, ListIsFifo DEF ListIsFifo
        <4> QED BY <1>1, <2>4, <3>3, <4>1, <4>2, <4>3
      <3> QED BY <1>1, <3>1, <3>2, <3>3
    <2>6. job_queue_head' = fifo'[1]
      BY <1>1, <1>2, <1>5, <2>3, ListIsFifo DEF ListIsFifo
    <2>7. job_queue_tail' = fifo'[Len(fifo')]
      BY <1>2, <2>3
    <2>8. \A i \in 1 .. Len(fifo') :
              /\ next'[fifo'[i]] = IF i = Len(fifo') THEN NULL ELSE fifo'[i + 1]
              /\ i > 1 => prev'[fifo'[i]] = fifo'[i - 1]
      BY <1>2, <2>5
    <2>9. ListIsFifo'
      BY <1>2, <2>6, <2>7, <2>8 DEF ListIsFifo
    <2> QED BY <1>3, <2>9
  <1> QED BY <1>4, <1>5

\* Taking the head moves the head one job on.
LEMMA PopList ==
    ASSUME TypeOK, ListIsFifo, Distinct, NEW w \in Workers, PopJob(w)
    PROVE  /\ ListIsFifo' /\ Distinct'
           /\ fifo # << >> /\ job_queue_head = fifo[1]
           /\ Len(fifo') = Len(fifo) - 1
           /\ \A i \in 1 .. Len(fifo') : fifo'[i] = fifo[i + 1]
  <1>1. /\ Len(fifo) \in Nat /\ fifo = << >> <=> Len(fifo) = 0
        /\ \A i \in 1 .. Len(fifo) : fifo[i] \in Jobs
    BY SeqBasics, TypeOK DEF TypeOK
  <1>2. fifo # << >> /\ job_queue_head = fifo[1] /\ Len(fifo) >= 1
    BY <1>1, PopJob(w), ListIsFifo DEF PopJob, ListIsFifo
  <1>3. /\ Len(fifo') = Len(fifo) - 1
        /\ \A i \in 1 .. Len(fifo') : fifo'[i] = fifo[i + 1]
        /\ fifo' \in Seq(Jobs)
    BY <1>2, PopJob(w), TailBasics, TypeOK DEF PopJob, TypeOK
  <1>4. Distinct'
    BY <1>1, <1>3, Distinct DEF Distinct
  <1>5. /\ \A k \in Jobs : k # fifo[1] => next'[k] = next[k] /\ prev'[k] = prev[k]
        /\ job_queue_head' = next[fifo[1]]
        /\ job_queue_tail' = IF next[fifo[1]] = NULL THEN NULL ELSE job_queue_tail
    BY <1>1, <1>2, PopJob(w), TypeOK DEF PopJob, TypeOK
  <1>6. fifo' = << >> <=> Len(fifo) = 1
    BY <1>1, <1>3, SeqBasics
  <1>7. next[fifo[1]] = IF Len(fifo) = 1 THEN NULL ELSE fifo[2]
    <2>1. 1 \in 1 .. Len(fifo) /\ 1 + 1 = 2
      BY <1>1, <1>2
    <2> QED BY <2>1, ListIsFifo DEF ListIsFifo
  <1>8. job_queue_head' = IF fifo' = << >> THEN NULL ELSE fifo'[1]
    BY <1>1, <1>2, <1>3, <1>5, <1>6, <1>7
  <1>9. job_queue_tail' = IF fifo' = << >> THEN NULL ELSE fifo'[Len(fifo')]
    <2>1. job_queue_tail = fifo[Len(fifo)]
      BY <1>2, ListIsFifo DEF ListIsFifo
    <2>2. Len(fifo) # 1 => fifo[2] # NULL
      <3>0. Len(fifo) \in Nat /\ Len(fifo) >= 1
        BY <1>1, <1>2
      <3>1. \A n \in Nat : n >= 1 /\ n # 1 => 2 \in 1 .. n
        OBVIOUS
      <3>2. Len(fifo) # 1 => 2 \in 1 .. Len(fifo)
        BY <3>0, <3>1
      <3> QED BY <1>1, <3>2, NullAssumption
    <2> QED BY <1>1, <1>2, <1>3, <1>5, <1>6, <1>7, <2>1, <2>2
  <1>10. ASSUME NEW i \in 1 .. Len(fifo')
         PROVE  /\ next'[fifo'[i]] = IF i = Len(fifo') THEN NULL ELSE fifo'[i + 1]
                /\ i > 1 => prev'[fifo'[i]] = fifo'[i - 1]
    <2>1. fifo'[i] = fifo[i + 1] /\ i + 1 \in 1 .. Len(fifo) /\ fifo[i + 1] \in Jobs
      BY <1>1, <1>3
    <2>2. fifo[i + 1] # fifo[1]
      BY <1>1, <1>2, <2>1, Distinct DEF Distinct
    <2>3. /\ next[fifo[i + 1]] = IF i + 1 = Len(fifo) THEN NULL ELSE fifo[i + 2]
          /\ prev[fifo[i + 1]] = fifo[i]
      BY <1>1, <2>1, ListIsFifo, (i + 1) + 1 = i + 2, (i + 1) - 1 = i, i + 1 > 1
         DEF ListIsFifo
    <2> QED BY <1>1, <1>3, <1>5, <2>1, <2>2, <2>3
  <1>11. ListIsFifo'
    BY <1>8, <1>9, <1>10 DEF ListIsFifo
  <1> QED BY <1>2, <1>3, <1>4, <1>11

\* Cancelling joins the neighbours of the job, if its prev link is its
\* predecessor or, for the head, null.
LEMMA CancelList ==
    ASSUME TypeOK, ListIsFifo, Distinct, CancelStaleHead = FALSE,
           NEW j \in Jobs, Cancel(j)
    PROVE  /\ ListIsFifo' /\ Distinct'
           /\ Len(fifo) >= 1 /\ Len(fifo') = Len(fifo) - 1
           /\ \E p \in 1 .. Len(fifo) :
                  /\ fifo[p] = j
                  /\ \A i \in 1 .. Len(fifo) - 1 :
                         fifo'[i] = IF i < p THEN fifo[i] ELSE fifo[i + 1]
  <1>1. /\ Len(fifo) \in Nat /\ fifo = << >> <=> Len(fifo) = 0
        /\ \A i \in 1 .. Len(fifo) : fifo[i] \in Jobs
    BY SeqBasics, TypeOK DEF TypeOK
  <1>2. InQueue(j)
    BY Cancel(j) DEF Cancel
  <1>3. PICK p \in 1 .. Len(fifo) : fifo[p] = j
    BY <1>2, FoundInQueue
  <1>4. Len(fifo) >= 1 /\ fifo # << >>
    BY <1>1, <1>3
  <1>5. /\ fifo' \in Seq(Jobs)
        /\ Len(fifo') = Len(fifo) - 1
        /\ \A i \in 1 .. Len(fifo) - 1 :
               fifo'[i] = IF i < p THEN fifo[i] ELSE fifo[i + 1]
    <2>1. fifo' = Without(fifo, fifo[p]) /\ fifo \in Seq(Jobs)
      BY <1>3, Cancel(j), TypeOK DEF Cancel, TypeOK
    <2>2. \A i, k \in 1 .. Len(fifo) : fifo[i] = fifo[k] => i = k
      BY Distinct DEF Distinct
    <2> QED BY <2>1, <2>2, WithoutBasics
  <1>6. Distinct'
    BY <1>1, <1>3, <1>5, Distinct DEF Distinct
  <1>7. fifo' = << >> <=> Len(fifo) = 1
    BY <1>1, <1>5, SeqBasics
  <1>8. /\ next[j] = IF p = Len(fifo) THEN NULL ELSE fifo[p + 1]
        /\ prev[j] = IF p = 1 THEN NULL ELSE fifo[p - 1]
    <2>1. /\ next[j] = IF p = Len(fifo) THEN NULL ELSE fifo[p + 1]
          /\ p > 1 => prev[j] = fifo[p - 1]
      BY <1>3, ListIsFifo DEF ListIsFifo
    <2>2. p = 1 => prev[j] = NULL
      BY <1>3, <1>4, Cancel(j), ListIsFifo, CancelStaleHead = FALSE
         DEF Cancel, ListIsFifo
    <2> QED BY <1>1, <2>1, <2>2
  <1>9. /\ p # 1 => fifo[p - 1] \in Jobs /\ fifo[p - 1] # NULL
        /\ p # Len(fifo) => fifo[p + 1] \in Jobs /\ fifo[p + 1] # NULL
    <2>1. /\ p # 1 => p - 1 \in 1 .. Len(fifo)
          /\ p # Len(fifo) => p + 1 \in 1 .. Len(fifo)
      BY <1>1
    <2> QED BY <1>1, <2>1, NullAssumption
  <1>10. /\ p = 1 => job_queue_head' = next[j] /\ next' = next
         /\ p # 1 => /\ job_queue_head' = job_queue_head
                     /\ next' = [next EXCEPT ![fifo[p - 1]] = next[j]]
         /\ p = Len(fifo) => job_queue_tail' = prev[j] /\ prev' = prev
         /\ p # Len(fifo) => /\ job_queue_tail' = job_queue_tail
                             /\ prev' = [prev EXCEPT ![fifo[p + 1]] = prev[j]]
    BY <1>8, <1>9, Cancel(j) DEF Cancel, Unlink
  <1>11. job_queue_head = fifo[1] /\ job_queue_tail = fifo[Len(fifo)]
    BY <1>4, ListIsFifo DEF ListIsFifo
  <1>12. job_queue_head' = IF fifo' = << >> THEN NULL ELSE fifo'[1]
    <2>1. CASE p = 1
      BY <1>1, <1>5, <1>7, <1>8, <1>10, <2>1
    <2>2. CASE p # 1
      BY <1>1, <1>5, <1>7, <1>10, <1>11, <2>2
    <2> QED BY <2>1, <2>2
  <1>13. job_queue_tail' = IF fifo' = << >> THEN NULL ELSE fifo'[Len(fifo')]
    <2>1. CASE p = Len(fifo)
      BY <1>1, <1>5, <1>7, <1>8, <1>10, <2>1
    <2>2. CASE p # Len(fifo)
      BY <1>1, <1>5, <1>7, <1>10, <1>11, <2>2
    <2> QED BY <2>1, <2>2
  <1>14. \A i \in 1 .. Len(fifo) :
             /\ next[fifo[i]] = IF i = Len(fifo) THEN NULL ELSE fifo[i + 1]
             /\ i > 1 => prev[fifo[i]] = fifo[i - 1]
    BY ListIsFifo DEF ListIsFifo
  <1>15. ASSUME NEW i \in 1 .. Len(fifo')
         PROVE  next'[fifo'[i]] = IF i = Len(fifo') THEN NULL ELSE fifo'[i + 1]
    <2>0. i \in 1 .. Len(fifo) - 1 /\ i + 1 \in 1 .. Len(fifo)
      BY <1>1, <1>5
    <2>1. CASE i < p - 1
      <3>1. fifo'[i] = fifo[i] /\ fifo'[i + 1] = fifo[i + 1]
        BY <1>1, <1>5, <2>0, <2>1
      <3>2. fifo[i] # fifo[p - 1] /\ p - 1 \in 1 .. Len(fifo) /\ p # 1
        BY <1>1, <2>0, <2>1, Distinct DEF Distinct
      <3>3. next'[fifo[i]] = next[fifo[i]]
        BY <1>1, <1>10, <2>0, <3>2, TypeOK DEF TypeOK
      <3>4. i \in 1 .. Len(fifo) /\ i # Len(fifo) /\ i # Len(fifo')
        BY <1>1, <1>5, <2>0, <2>1
      <3>5. next[fifo[i]] = fifo[i + 1]
        BY <1>14, <3>4
      <3> QED BY <3>1, <3>3, <3>4, <3>5
    <2>2. CASE i = p - 1
      <3>1. fifo'[i] = fifo[p - 1] /\ p # 1
        BY <1>1, <1>5, <2>0, <2>2
      <3>2. next'[fifo'[i]] = next[j]
        BY <1>9, <1>10, <3>1, TypeOK DEF TypeOK
      <3>3. p # Len(fifo) => fifo'[i + 1] = fifo[p + 1]
        BY <1>1, <1>5, <2>0, <2>2
      <3> QED BY <1>1, <1>5, <1>8, <2>2, <3>2, <3>3
    <2>3. CASE i >= p
      <3>1. fifo'[i] = fifo[i + 1]
        BY <1>1, <1>5, <2>0, <2>3
      <3>2. i # Len(fifo') => fifo'[i + 1] = fifo[(i + 1) + 1]
        BY <1>1, <1>5, <2>0, <2>3
      <3>3. p # 1 => fifo[i + 1] # fifo[p - 1]
        BY <1>1, <2>0, <2>3, Distinct DEF Distinct
      <3>4. next'[fifo[i + 1]] = next[fifo[i + 1]]
        BY <1>1, <1>10, <2>0, <3>3, TypeOK DEF TypeOK
      <3> QED BY <1>1, <1>5, <1>14, <2>0, <3>1, <3>2, <3>4
    <2> QED BY <1>1, <2>1, <2>2, <2>3
  <1>16. ASSUME NEW i \in 1 .. Len(fifo'), i > 1
         PROVE  prev'[fifo'[i]] = fifo'[i - 1]
    <2>0. /\ i \in 1 .. Len(fifo) - 1 /\ i + 1 \in 1 .. Len(fifo)
          /\ i - 1 \in 1 .. Len(fifo) - 1
      BY <1>1, <1>5, <1>16
    <2>1. CASE i < p
      <3>1. fifo'[i] = fifo[i] /\ fifo'[i - 1] = fifo[i - 1]
        BY <1>1, <1>5, <2>0, <2>1
      <3>2. p # Len(fifo) => fifo[i] # fifo[p + 1]
        BY <1>1, <2>0, <2>1, Distinct DEF Distinct
      <3>3. prev'[fifo[i]] = prev[fifo[i]]
        BY <1>1, <1>10, <2>0, <3>2, TypeOK DEF TypeOK
      <3> QED BY <1>1, <1>14, <1>16, <2>0, <3>1, <3>3
    <2>2. CASE i = p
      <3>1. fifo'[i] = fifo[p + 1] /\ fifo'[i - 1] = fifo[p - 1] /\ p # Len(fifo)
        BY <1>1, <1>5, <2>0, <2>2
      <3>2. prev'[fifo'[i]] = prev[j]
        BY <1>9, <1>10, <3>1, TypeOK DEF TypeOK
      <3> QED BY <1>8, <1>16, <2>2, <3>1, <3>2
    <2>3. CASE i > p
      <3>1. fifo'[i] = fifo[i + 1] /\ fifo'[i - 1] = fifo[i]
        BY <1>1, <1>5, <2>0, <2>3
      <3>2. fifo[i + 1] # fifo[p + 1] /\ p # Len(fifo)
        BY <1>1, <2>0, <2>3, Distinct DEF Distinct
      <3>3. prev'[fifo[i + 1]] = prev[fifo[i + 1]]
        BY <1>1, <1>10, <2>0, <3>2, TypeOK DEF TypeOK
      <3>4. prev[fifo[i + 1]] = fifo[i]
        BY <1>1, <1>14, <2>0, (i + 1) - 1 = i, i + 1 > 1
      <3> QED BY <3>1, <3>3, <3>4
    <2> QED BY <1>1, <2>1, <2>2, <2>3
  <1>17. ListIsFifo'
    BY <1>12, <1>13, <1>15, <1>16 DEF ListIsFifo
  <1> QED BY <1>3, <1>4, <1>5, <1>6, <1>17

-----------------------------------------------------------------------------
(* Where the jobs are *)

\* How the set of running workers changes when a job is taken or finished.
LEMMA RunningChange ==
    ASSUME TypeOK, NEW w \in Workers
    PROVE  /\ PopJob(w) => w \notin Running /\ Running' = Running \cup {w}
           /\ \A outcome \in {"COMPLETED", "ERROR"} :
                  FinishJob(w, outcome) => w \in Running /\ Running' = Running \ {w}
           /\ \A j \in Jobs : Submit(j) \/ Cancel(j) => Running' = Running
  BY TypeOK DEF TypeOK, PopJob, FinishJob, Submit, Cancel, threads, Running

\* Every step keeps the list in the order of submission and every job in one
\* place, as long as no head with a stale prev link is cancelled.
LEMMA PlaceStep ==
    ASSUME TypeOK, ListIsFifo, JobsHaveOnePlace, CancelStaleHead = FALSE,
           [Next]_vars
    PROVE  ListIsFifo' /\ JobsHaveOnePlace'
  <1>1. Distinct
    BY JobsHaveOnePlace DEF JobsHaveOnePlace, Distinct
  <1>2. /\ Len(fifo) \in Nat /\ fifo = << >> <=> Len(fifo) = 0
        /\ \A i \in 1 .. Len(fifo) : fifo[i] \in Jobs
    BY SeqBasics, TypeOK DEF TypeOK
  <1>3. /\ \A v, w \in Running : job[v] = job[w] => v = w
        /\ \A w \in Running : job[w] # NULL /\ holder[job[w]] = "pool"
        /\ \A i \in 1 .. Len(fifo) :
               /\ holder[fifo[i]] = "pool"
               /\ \A w \in Running : fifo[i] # job[w]
        /\ \A j \in Jobs : holder[j] = "pool" =>
               \/ \E i \in 1 .. Len(fifo) : fifo[i] = j
               \/ \E w \in Running : job[w] = j
    BY JobsHaveOnePlace DEF JobsHaveOnePlace
  <1>4. \A w \in Running : w \in Workers /\ job[w] \in Jobs
    BY <1>3, TypeOK DEF TypeOK, Running
  <1>5. ASSUME NEW j \in Jobs, Submit(j)
        PROVE  ListIsFifo' /\ JobsHaveOnePlace'
    <2>1. /\ \A i \in 1 .. Len(fifo) : fifo[i] # j
          /\ \A w \in Running : job[w] # j
      BY <1>3, <1>5 DEF Submit
    <2>2. ListIsFifo' /\ Distinct'
      BY <1>1, <1>5, <2>1, SubmitList
    <2>3. /\ Len(fifo') = Len(fifo) + 1
          /\ \A i \in 1 .. Len(fifo) : fifo'[i] = fifo[i]
          /\ fifo'[Len(fifo) + 1] = j
      BY <1>5, AppendBasics, TypeOK DEF Submit, TypeOK
    <2>4. /\ Running' = Running /\ job' = job
          /\ holder'[j] = "pool"
          /\ \A k \in Jobs : k # j => holder'[k] = holder[k]
      BY <1>5, TypeOK DEF Submit, threads, Running, TypeOK
    <2>5. \A w \in Running' : job'[w] # NULL /\ holder'[job'[w]] = "pool"
      BY <1>3, <1>4, <2>1, <2>4
    <2>6. ASSUME NEW i \in 1 .. Len(fifo')
          PROVE  /\ holder'[fifo'[i]] = "pool"
                 /\ \A w \in Running' : fifo'[i] # job'[w]
      <3>1. CASE i = Len(fifo) + 1
        BY <2>1, <2>3, <2>4, <3>1
      <3>2. CASE i # Len(fifo) + 1
        <4>1. i \in 1 .. Len(fifo) BY <1>2, <2>3, <3>2
        <4> QED BY <1>2, <1>3, <2>1, <2>3, <2>4, <4>1
      <3> QED BY <3>1, <3>2
    <2>7. ASSUME NEW k \in Jobs, holder'[k] = "pool"
          PROVE  \/ \E i \in 1 .. Len(fifo') : fifo'[i] = k
                 \/ \E w \in Running' : job'[w] = k
      <3>1. CASE k = j
        BY <1>2, <2>3, <3>1, Len(fifo) + 1 \in 1 .. Len(fifo')
      <3>2. CASE k # j
        <4>1. holder[k] = "pool" BY <2>4, <2>7, <3>2
        <4>2. CASE \E w \in Running : job[w] = k
          BY <2>4, <4>2
        <4>3. ASSUME NEW i \in 1 .. Len(fifo), fifo[i] = k
              PROVE  \E m \in 1 .. Len(fifo') : fifo'[m] = k
          BY <1>2, <2>3, <4>3, i \in 1 .. Len(fifo')
        <4> QED BY <1>3, <4>1, <4>2, <4>3
      <3> QED BY <3>1, <3>2
    <2> QED BY <1>3, <2>2, <2>4, <2>5, <2>6, <2>7 DEF JobsHaveOnePlace, Distinct
  <1>6. ASSUME NEW j \in Jobs, Cancel(j)
        PROVE  ListIsFifo' /\ JobsHaveOnePlace'
    <2>1. /\ ListIsFifo' /\ Distinct' /\ Len(fifo') = Len(fifo) - 1
      BY <1>1, <1>6, CancelList
    <2>2. PICK p \in 1 .. Len(fifo) :
              /\ fifo[p] = j
              /\ \A i \in 1 .. Len(fifo) - 1 :
                     fifo'[i] = IF i < p THEN fifo[i] ELSE fifo[i + 1]
      BY <1>1, <1>6, CancelList
    <2>3. /\ Running' = Running /\ job' = job
          /\ holder'[j] = "client"
          /\ \A k \in Jobs : k # j => holder'[k] = holder[k]
      BY <1>6, TypeOK DEF Cancel, threads, Running, TypeOK
    <2>4. \A w \in Running : job[w] # j
      BY <1>3, <2>2
    <2>5. \A w \in Running' : job'[w] # NULL /\ holder'[job'[w]] = "pool"
      BY <1>3, <1>4, <2>3, <2>4
    <2>6. \A i \in 1 .. Len(fifo') :
              \E m \in 1 .. Len(fifo) : m # p /\ fifo'[i] = fifo[m]
      <3> SUFFICES ASSUME NEW i \in 1 .. Len(fifo')
                   PROVE  \E m \in 1 .. Len(fifo) : m # p /\ fifo'[i] = fifo[m]
        OBVIOUS
      <3>1. i \in 1 .. Len(fifo) - 1 /\ i \in 1 .. Len(fifo) /\ i + 1 \in 1 .. Len(fifo)
        BY <1>2, <2>1
      <3>2. CASE i < p
        BY <2>2, <3>1, <3>2
      <3>3. CASE ~(i < p)
        <4>1. fifo'[i] = fifo[i + 1] /\ i + 1 # p
          BY <2>2, <3>1, <3>3
        <4> QED BY <3>1, <4>1
      <3> QED BY <3>2, <3>3
    <2>7. \A m \in 1 .. Len(fifo) : m # p => fifo[m] # j
      BY <1>1, <2>2 DEF Distinct
    <2>8. \A i \in 1 .. Len(fifo') :
              /\ holder'[fifo'[i]] = "pool"
              /\ \A w \in Running' : fifo'[i] # job'[w]
      BY <1>2, <1>3, <2>3, <2>6, <2>7
    <2>9. ASSUME NEW k \in Jobs, holder'[k] = "pool"
          PROVE  \/ \E i \in 1 .. Len(fifo') : fifo'[i] = k
                 \/ \E w \in Running' : job'[w] = k
      <3>1. k # j /\ holder[k] = "pool"
        BY <2>3, <2>9
      <3>2. CASE \E w \in Running : job[w] = k
        BY <2>3, <3>2
      <3>3. ASSUME NEW m \in 1 .. Len(fifo), fifo[m] = k
            PROVE  \E i \in 1 .. Len(fifo') : fifo'[i] = k
        <4>1. m # p BY <2>2, <3>1, <3>3
        <4>2. CASE m < p
          <5>1. m \in 1 .. Len(fifo) - 1 /\ m \in 1 .. Len(fifo')
            BY <1>2, <2>1, <4>2
          <5> QED BY <2>2, <3>3, <4>2, <5>1
        <4>3. CASE m > p
          <5>1. /\ m - 1 \in 1 .. Len(fifo) - 1 /\ m - 1 \in 1 .. Len(fifo')
                /\ ~(m - 1 < p) /\ (m - 1) + 1 = m
            BY <1>2, <2>1, <4>3
          <5>2. fifo'[m - 1] = fifo[m]
            BY <2>2, <5>1
          <5> QED BY <3>3, <5>1, <5>2
        <4> QED BY <1>2, <4>1, <4>2, <4>3
      <3> QED BY <1>3, <3>1, <3>2, <3>3
    <2> QED BY <1>3, <2>1, <2>3, <2>5, <2>8, <2>9 DEF JobsHaveOnePlace, Distinct
  <1>7. ASSUME NEW w \in Workers, PopJob(w)
        PROVE  ListIsFifo' /\ JobsHaveOnePlace'
    <2>1. /\ ListIsFifo' /\ Distinct'
          /\ fifo # << >> /\ job_queue_head = fifo[1]
          /\ Len(fifo') = Len(fifo) - 1
          /\ \A i \in 1 .. Len(fifo') : fifo'[i] = fifo[i + 1]
      BY <1>1, <1>7, PopList
    <2>2. w \notin Running /\ Running' = Running \cup {w}
      BY <1>7, RunningChange
    <2>3. /\ job'[w] = fifo[1] /\ holder' = holder
          /\ \A v \in Running : job'[v] = job[v]
      BY <1>4, <1>7, <2>1, <2>2, TypeOK DEF PopJob, TypeOK
    <2>4. 1 \in 1 .. Len(fifo) /\ fifo[1] \in Jobs
      BY <1>2, <2>1
    <2>5. \A u, v \in Running' : job'[u] = job'[v] => u = v
      BY <1>3, <2>2, <2>3, <2>4
    <2>6. \A v \in Running' : job'[v] # NULL /\ holder'[job'[v]] = "pool"
      BY <1>3, <2>2, <2>3, <2>4, NullAssumption
    <2>7. ASSUME NEW i \in 1 .. Len(fifo')
          PROVE  /\ holder'[fifo'[i]] = "pool"
                 /\ \A v \in Running' : fifo'[i] # job'[v]
      <3>1. /\ fifo'[i] = fifo[i + 1] /\ i + 1 \in 1 .. Len(fifo)
            /\ i + 1 # 1
        BY <1>2, <2>1
      <3>2. fifo[i + 1] # fifo[1]
        BY <1>1, <2>4, <3>1 DEF Distinct
      <3> QED BY <1>3, <2>2, <2>3, <3>1, <3>2
    <2>8. ASSUME NEW k \in Jobs, holder'[k] = "pool"
          PROVE  \/ \E i \in 1 .. Len(fifo') : fifo'[i] = k
                 \/ \E v \in Running' : job'[v] = k
      <3>1. CASE \E v \in Running : job[v] = k
        BY <2>2, <2>3, <3>1
      <3>2. ASSUME NEW m \in 1 .. Len(fifo), fifo[m] = k
            PROVE  \/ \E i \in 1 .. Len(fifo') : fifo'[i] = k
                   \/ \E v \in Running' : job'[v] = k
        <4>1. CASE m = 1
          BY <2>2, <2>3, <3>2, <4>1
        <4>2. CASE m # 1
          <5>1. m - 1 \in 1 .. Len(fifo') /\ (m - 1) + 1 = m
            BY <1>2, <2>1, <4>2
          <5> QED BY <2>1, <3>2, <5>1
        <4> QED BY <4>1, <4>2
      <3> QED BY <1>3, <2>3, <2>8, <3>1, <3>2
    <2> QED BY <2>1, <2>5, <2>6, <2>7, <2>8 DEF JobsHaveOnePlace, Distinct
  <1>8. ASSUME NEW w \in Workers, NEW outcome \in {"COMPLETED", "ERROR"},
               FinishJob(w, outcome)
        PROVE  ListIsFifo' /\ JobsHaveOnePlace'
    <2>1. w \in Running /\ Running' = Running \ {w}
      BY <1>8, RunningChange
    <2>2. /\ UNCHANGED queue
          /\ \A v \in Running' : job'[v] = job[v]
          /\ holder'[job[w]] = "client"
          /\ \A k \in Jobs : k # job[w] => holder'[k] = holder[k]
      BY <1>4, <1>8, <2>1, TypeOK DEF FinishJob, TypeOK
    <2>3. fifo' = fifo /\ ListIsFifo'
      BY <2>2, ListIsFifo DEF queue, ListIsFifo
    <2>4. \A u, v \in Running' : job'[u] = job'[v] => u = v
      BY <1>3, <2>1, <2>2
    <2>5. \A v \in Running' : job'[v] # NULL /\ holder'[job'[v]] = "pool"
      BY <1>3, <1>4, <2>1, <2>2
    <2>6. \A i \in 1 .. Len(fifo') :
              /\ holder'[fifo'[i]] = "pool"
              /\ \A v \in Running' : fifo'[i] # job'[v]
      BY <1>2, <1>3, <2>1, <2>2, <2>3
    <2>7. \A k \in Jobs : holder'[k] = "pool" =>
              \/ \E i \in 1 .. Len(fifo') : fifo'[i] = k
              \/ \E v \in Running' : job'[v] = k
      <3> SUFFICES ASSUME NEW k \in Jobs, holder'[k] = "pool"
                   PROVE  \/ \E i \in 1 .. Len(fifo') : fifo'[i] = k
                          \/ \E v \in Running' : job'[v] = k
        OBVIOUS
      <3>1. k # job[w] /\ holder[k] = "pool"
        BY <2>2
      <3> QED BY <1>3, <2>1, <2>2, <2>3, <3>1
    <2> QED BY <1>1, <2>3, <2>4, <2>5, <2>6, <2>7 DEF JobsHaveOnePlace, Distinct
  <1>9. ASSUME Quiet PROVE ListIsFifo' /\ JobsHaveOnePlace'
    BY <1>9, ListIsFifo, JobsHaveOnePlace
       DEF Quiet, queue, ListIsFifo, JobsHaveOnePlace
  <1> QED BY <1>5, <1>6, <1>7, <1>8, <1>9, StepCases

-----------------------------------------------------------------------------
(* Counting *)

\* How many workers a set holds when one joins or leaves it.
LEMMA WorkerCount ==
    ASSUME NEW S \in SUBSET Workers, NEW x \in Workers
    PROVE  /\ Cardinality(S) \in Nat
           /\ Cardinality(S) <= Cardinality(Workers)
           /\ x \notin S => Cardinality(S \cup {x}) = Cardinality(S) + 1
           /\ x \in S => Cardinality(S \ {x}) = Cardinality(S) - 1
           /\ x \in S => Cardinality(S) >= 1
  <1>1. IsFiniteSet(S) /\ Cardinality(S) <= Cardinality(Workers)
    BY WorkersAssumption, FS_Subset
  <1>2. Cardinality(S) \in Nat
    BY <1>1, FS_CardinalityType
  <1>3. x \notin S => Cardinality(S \cup {x}) = Cardinality(S) + 1
    BY <1>1, FS_AddElement
  <1>4. x \in S => IsFiniteSet(S \ {x}) /\ Cardinality(S \ {x}) = Cardinality(S) - 1
    BY <1>1, FS_RemoveElement
  <1>5. x \in S => Cardinality(S \ {x}) \in Nat
    BY <1>4, FS_CardinalityType
  <1> QED BY <1>1, <1>2, <1>3, <1>4, <1>5

\* The sets of workers that are locking, running or exited have a size.
LEMMA CountTypes ==
    ASSUME TypeOK
    PROVE  /\ Cardinality(Locking) \in Nat /\ Cardinality(Running) \in Nat
           /\ Cardinality(Exited) \in Nat
  <1>1. \A S \in SUBSET Workers : IsFiniteSet(S)
    BY WorkersAssumption, FS_Subset
  <1>2. /\ Locking \in SUBSET Workers /\ Running \in SUBSET Workers
        /\ Exited \in SUBSET Workers
    BY DEF Locking, Running, Exited
  <1> QED BY <1>1, <1>2, FS_CardinalityType

\* The invariant of the pool's bookkeeping.
PoolInv ==
    /\ TypeOK
    /\ ListIsFifo
    /\ JobsHaveOnePlace
    /\ StatsAddUp

\* The numbers as they are after each of the four steps that change them:
\* none of them wraps around.
LEMMA StatsStep ==
    ASSUME PoolInv, CancelStaleHead = FALSE, [Next]_vars
    PROVE  StatsAddUp'
  <1> USE PoolInv DEF PoolInv
  <1>1. /\ total_submitted \in Nat /\ total_completed \in Nat
        /\ total_cancelled \in Nat /\ total_errors \in Nat
        /\ queue_depth \in Nat /\ active_workers \in Nat
        /\ total_submitted <= MaxSubmits /\ UintMax \in Nat
        /\ MaxSubmits \in Nat /\ MaxSubmits <= UintMax
        /\ Len(fifo) \in Nat /\ Cardinality(Running) \in Nat
    BY SizesAssumption, CountTypes, SeqBasics DEF TypeOK
  <1>2. /\ total_submitted = total_completed + total_errors + total_cancelled
                                 + queue_depth + active_workers
        /\ queue_depth = Len(fifo)
        /\ active_workers = Cardinality(Running)
    BY DEF StatsAddUp
  <1>3. Distinct
    BY DEF JobsHaveOnePlace, Distinct
  <1>4. ASSUME NEW j \in Jobs, Submit(j) PROVE StatsAddUp'
    <2>1. /\ Len(fifo') = Len(fifo) + 1
          /\ Running' = Running
          /\ total_submitted < MaxSubmits
          /\ queue_depth' = Inc(queue_depth)
          /\ total_submitted' = Inc(total_submitted)
          /\ UNCHANGED <<total_completed, total_cancelled, total_errors,
                         active_workers>>
      BY <1>4, AppendBasics DEF Submit, threads, Running, TypeOK
    <2>2. queue_depth' = queue_depth + 1 /\ total_submitted' = total_submitted + 1
      BY <1>1, <1>2, <2>1 DEF Inc
    <2> QED BY <1>1, <1>2, <2>1, <2>2 DEF StatsAddUp
  <1>5. ASSUME NEW j \in Jobs, Cancel(j) PROVE StatsAddUp'
    <2>1. Len(fifo) >= 1 /\ Len(fifo') = Len(fifo) - 1
      BY <1>3, <1>5, CancelList
    <2>2. /\ Running' = Running
          /\ queue_depth' = Dec(queue_depth)
          /\ total_cancelled' = Inc(total_cancelled)
          /\ UNCHANGED <<total_submitted, total_completed, total_errors,
                         active_workers>>
      BY <1>5 DEF Cancel, threads, Running
    <2>3. queue_depth' = queue_depth - 1 /\ total_cancelled' = total_cancelled + 1
      BY <1>1, <1>2, <2>1, <2>2 DEF Inc, Dec
    <2> QED BY <1>1, <1>2, <2>1, <2>2, <2>3 DEF StatsAddUp
  <1>6. ASSUME NEW w \in Workers, PopJob(w) PROVE StatsAddUp'
    <2>1. Len(fifo') = Len(fifo) - 1 /\ Len(fifo) >= 1
      BY <1>3, <1>6, PopList, SeqBasics DEF TypeOK
    <2>2. Cardinality(Running') = Cardinality(Running) + 1
      BY <1>6, RunningChange, WorkerCount DEF Running
    <2>3. /\ active_workers' = Inc(active_workers)
          /\ queue_depth' = Dec(queue_depth)
          /\ UNCHANGED <<total_submitted, total_completed, total_cancelled,
                         total_errors>>
      BY <1>6 DEF PopJob
    <2>4. active_workers' = active_workers + 1 /\ queue_depth' = queue_depth - 1
      BY <1>1, <1>2, <2>1, <2>3 DEF Inc, Dec
    <2> QED BY <1>1, <1>2, <2>1, <2>2, <2>3, <2>4 DEF StatsAddUp
  <1>7. ASSUME NEW w \in Workers, NEW outcome \in {"COMPLETED", "ERROR"},
               FinishJob(w, outcome)
        PROVE  StatsAddUp'
    <2>1. /\ Cardinality(Running') = Cardinality(Running) - 1
          /\ Cardinality(Running) >= 1
      BY <1>7, RunningChange, WorkerCount DEF Running
    <2>2. /\ active_workers' = Dec(active_workers)
          /\ UNCHANGED <<total_submitted, total_cancelled, queue_depth, fifo>>
          /\ \/ total_errors' = Inc(total_errors) /\ total_completed' = total_completed
             \/ total_completed' = Inc(total_completed) /\ total_errors' = total_errors
      BY <1>7 DEF FinishJob, CountOutcome, queue
    <2>3. /\ active_workers' = active_workers - 1
          /\ Inc(total_errors) = total_errors + 1
          /\ Inc(total_completed) = total_completed + 1
      BY <1>1, <1>2, <2>1, <2>2 DEF Inc, Dec
    <2>4. queue_depth' = Len(fifo') /\ active_workers' = Cardinality(Running')
      BY <1>2, <2>1, <2>2, <2>3
    <2>5. total_submitted' = total_completed' + total_errors' + total_cancelled'
                                 + queue_depth' + active_workers'
      <3>1. /\ total_submitted' = total_submitted /\ total_cancelled' = total_cancelled
            /\ queue_depth' = queue_depth
        BY <2>2
      <3>2. \/ total_errors' = total_errors + 1 /\ total_completed' = total_completed
            \/ total_completed' = total_completed + 1 /\ total_errors' = total_errors
        BY <2>2, <2>3
      <3>3. active_workers' = active_workers - 1
        BY <2>3
      <3>4. total_completed' + total_errors' = total_completed + total_errors + 1
        BY <1>1, <3>2
      <3>5. total_completed' \in Int /\ total_errors' \in Int
        BY <1>1, <3>2
      <3>6. total_submitted = total_completed' + total_errors' + total_cancelled
                                 + queue_depth + (active_workers - 1)
        <4>1. /\ total_submitted \in Nat /\ total_completed \in Nat
              /\ total_errors \in Nat /\ total_cancelled \in Nat
              /\ queue_depth \in Nat /\ active_workers \in Nat
          BY <1>1
        <4>2. total_submitted = total_completed + total_errors + total_cancelled
                                    + queue_depth + active_workers
          BY <1>2
        <4>3. PICK f \in Nat : f = total_completed + total_errors
          BY <4>1
        <4>4. total_submitted = f + total_cancelled + queue_depth + active_workers
          BY <4>2, <4>3
        <4>5. total_submitted = (f + 1) + total_cancelled + queue_depth
                                    + (active_workers - 1)
          BY <4>1, <4>4
        <4>6. total_completed' + total_errors' = f + 1
          BY <3>4, <4>3
        <4> QED BY <4>5, <4>6
      <3> QED BY <3>1, <3>3, <3>6
    <2> QED BY <2>4, <2>5 DEF StatsAddUp
  <1>8. ASSUME Quiet PROVE StatsAddUp'
    BY <1>8, <1>2 DEF Quiet, queue, stats, StatsAddUp
  <1> QED BY <1>4, <1>5, <1>6, <1>7, <1>8, StepCases

-----------------------------------------------------------------------------
(* Semaphores *)

\* How the sets of locking and exited workers change.
LEMMA LockingChange ==
    ASSUME TypeOK, NEW w \in Workers
    PROVE  /\ CreateWorker(w) => Locking' = Locking /\ Exited' = Exited
           /\ TakeToken(w) => /\ w \notin Locking /\ Locking' = Locking \cup {w}
                              /\ Exited' = Exited
           /\ ExitLoop(w) => /\ w \in Locking /\ Locking' = Locking \ {w}
                             /\ w \notin Exited /\ Exited' = Exited \cup {w}
           /\ FindNoJob(w) => /\ w \in Locking /\ Locking' = Locking \ {w}
                              /\ Exited' = Exited
           /\ PopJob(w) => /\ w \in Locking /\ Locking' = Locking \ {w}
                           /\ Exited' = Exited
           /\ \A outcome \in {"COMPLETED", "ERROR"} : FinishJob(w, outcome) =>
                  Locking' = Locking /\ Exited' = Exited
  BY TypeOK DEF TypeOK, CreateWorker, TakeToken, ExitLoop, FindNoJob, PopJob,
                FinishJob, Locking, Exited

\* No step loses a token that a queued job needs.
LEMMA TokenStep ==
    ASSUME PoolInv, NoTokenLost, CancelStaleHead = FALSE, [Next]_vars
    PROVE  NoTokenLost'
  <1> USE PoolInv DEF PoolInv
  <1>1. /\ Cardinality(Locking) \in Nat /\ Len(fifo) \in Nat
        /\ queue_depth = Len(fifo)
        /\ work_sem \in Nat /\ work_sem <= SemMax
        /\ queue_depth \in 0 .. UintMax
        /\ QueueSize \in Nat /\ SemMax \in Nat /\ QueueSize <= SemMax
        /\ UintMax \in Nat
    BY CountTypes, SeqBasics, SizesAssumption DEF TypeOK, StatsAddUp
  <1>2. \A w \in Workers :
            /\ w \notin Locking => Cardinality(Locking \cup {w}) = Cardinality(Locking) + 1
            /\ w \in Locking => Cardinality(Locking \ {w}) = Cardinality(Locking) - 1
    BY WorkerCount DEF Locking
  <1>3. CASE shutdown'
    BY <1>3 DEF NoTokenLost
  <1>4. CASE ~shutdown'
    <2>1. ~shutdown
      <3>1. shutdown => shutdown'
        BY DEF Next, WorkerStep, CreateWorker, TakeToken, ExitLoop, FindNoJob,
               PopJob, FinishJob, CreateWorkerFails, CreateCompletion, Submit,
               Cancel, WaitBegins, WaitSucceeds, WaitFails, StopBegins,
               StopPosts, StopJoins, StopEnds, CompletionExits, vars
      <3> QED BY <1>4, <3>1
    <2>2. queue_depth <= work_sem + Cardinality(Locking)
      BY <2>1, NoTokenLost DEF NoTokenLost
    <2>3. ASSUME NEW w \in Workers, CreateWorker(w) PROVE NoTokenLost'
      <3>1. Locking' = Locking BY <2>3, LockingChange
      <3> QED BY <2>2, <2>3, <3>1 DEF CreateWorker, sems, stats, NoTokenLost
    <2>4. ASSUME NEW w \in Workers, TakeToken(w) PROVE NoTokenLost'
      <3>1. Cardinality(Locking') = Cardinality(Locking) + 1
        BY <1>2, <2>4, LockingChange
      <3>2. work_sem' = work_sem - 1 /\ queue_depth' = queue_depth
        BY <2>4 DEF TakeToken, stats
      <3> QED BY <1>1, <2>2, <3>1, <3>2 DEF NoTokenLost
    <2>5. ASSUME NEW w \in Workers, ExitLoop(w) PROVE NoTokenLost'
      BY <2>1, <2>5 DEF ExitLoop, MayTakeJob
    <2>6. ASSUME NEW w \in Workers, FindNoJob(w) PROVE NoTokenLost'
      <3>1. queue_depth' = 0
        <4>1. job_queue_head = NULL /\ queue_depth' = queue_depth
          BY <2>6 DEF FindNoJob, stats
        <4>2. \A i \in 1 .. Len(fifo) : fifo[i] \in Jobs
          BY SeqBasics DEF TypeOK
        <4>3. fifo # << >> => fifo[1] \in Jobs
          BY <1>1, <4>2, SeqBasics DEF TypeOK
        <4>4. fifo = << >>
          BY <4>1, <4>3, NullAssumption DEF ListIsFifo
        <4> QED BY <1>1, <4>1, <4>4, SeqBasics DEF TypeOK
      <3>2. Cardinality(Locking') = Cardinality(Locking) - 1
            /\ Cardinality(Locking') \in Nat
        <4>1. Locking' \in SUBSET Workers
          BY <2>6, LockingChange DEF Locking
        <4> QED BY <1>2, <2>6, <4>1, LockingChange, WorkersAssumption, FS_Subset,
                   FS_CardinalityType
      <3>3. work_sem' = work_sem
        BY <2>6 DEF FindNoJob, sems
      <3> QED BY <1>1, <3>1, <3>2, <3>3 DEF NoTokenLost
    <2>7. ASSUME NEW w \in Workers, PopJob(w) PROVE NoTokenLost'
      <3>1. Cardinality(Locking') = Cardinality(Locking) - 1
        BY <1>2, <2>7, LockingChange
      <3>2. Len(fifo) >= 1
        BY <2>7, PopList, SeqBasics DEF TypeOK, JobsHaveOnePlace, Distinct
      <3>3. work_sem' = work_sem /\ queue_depth' = queue_depth - 1
        BY <1>1, <2>7, <3>2 DEF PopJob, sems, Dec
      <3> QED BY <1>1, <2>2, <3>1, <3>3 DEF NoTokenLost
    <2>8. ASSUME NEW w \in Workers, NEW outcome \in {"COMPLETED", "ERROR"},
                 FinishJob(w, outcome)
          PROVE  NoTokenLost'
      <3>1. Locking' = Locking BY <2>8, LockingChange
      <3> QED BY <2>2, <2>8, <3>1 DEF FinishJob, NoTokenLost
    <2>9. ASSUME NEW j \in Jobs, Submit(j) PROVE NoTokenLost'
      <3>1. Locking' = Locking
        BY <2>9 DEF Submit, threads, Locking
      <3>2. /\ queue_depth < QueueSize
            /\ queue_depth' = Inc(queue_depth) /\ work_sem' = Post(work_sem)
        BY <2>9 DEF Submit, HasRoom, SignalWorkers
      <3>3. queue_depth' <= queue_depth + 1 /\ queue_depth' <= QueueSize
            /\ queue_depth' \in Nat
        BY <1>1, <3>2 DEF Inc
      <3>4. work_sem' = work_sem + 1 \/ work_sem' = SemMax
        BY <1>1, <3>2 DEF Post
      <3> QED BY <1>1, <2>2, <3>1, <3>3, <3>4 DEF NoTokenLost
    <2>10. ASSUME NEW j \in Jobs, Cancel(j) PROVE NoTokenLost'
      <3>1. Locking' = Locking /\ work_sem' = work_sem
        BY <2>10 DEF Cancel, threads, sems, Locking
      <3>2. Len(fifo) >= 1
        BY <2>10, CancelList DEF JobsHaveOnePlace, Distinct
      <3>3. queue_depth' = queue_depth - 1
        BY <1>1, <2>10, <3>2 DEF Cancel, Dec
      <3> QED BY <1>1, <2>2, <3>1, <3>3 DEF NoTokenLost
    <2>11. ASSUME NEW t \in Waiters,
                  (\E j \in Jobs : WaitBegins(t, j)) \/ WaitSucceeds(t) \/ WaitFails(t)
           PROVE  NoTokenLost'
      BY <2>2, <2>11
         DEF WaitBegins, WaitSucceeds, WaitFails, threads, sems, stats,
             Locking, NoTokenLost
    <2>12. ASSUME \/ CreateWorkerFails \/ CreateCompletion \/ StopJoins \/ StopEnds
                  \/ StopBegins \/ CompletionExits \/ UNCHANGED vars
           PROVE  NoTokenLost'
      BY <2>2, <2>12
         DEF CreateWorkerFails, CreateCompletion, StopJoins, StopEnds, StopBegins,
             CompletionExits, vars, sems, stats, Locking, NoTokenLost
    <2>13. ASSUME StopPosts PROVE NoTokenLost'
      <3>1. Locking' = Locking /\ queue_depth' = queue_depth
            /\ work_sem' = Post(work_sem)
        BY <2>13 DEF StopPosts, stats, Locking
      <3>2. work_sem' >= work_sem /\ work_sem' \in Nat
        BY <1>1, <3>1 DEF Post
      <3> QED BY <1>1, <2>2, <3>1, <3>2 DEF NoTokenLost
    <2> QED BY <2>3, <2>4, <2>5, <2>6, <2>7, <2>8, <2>9, <2>10, <2>11, <2>12,
               <2>13 DEF Next, WorkerStep
  <1> QED BY <1>3, <1>4

-----------------------------------------------------------------------------
(* Waiting for jobs *)

\* The completion semaphore and the waits it has let pass count finished jobs
\* and nothing else (osa_worker.c:173).
GrantsAreFinishes == granted + complete_sem <= total_completed + total_errors

\* The completion semaphore is only posted where a finished job is counted.
LEMMA GrantsStep ==
    ASSUME PoolInv, GrantsAreFinishes, CancelStaleHead = FALSE, [Next]_vars
    PROVE  GrantsAreFinishes'
  <1>1. /\ granted \in Nat /\ complete_sem \in 0 .. SemMax
        /\ total_completed \in Nat /\ total_errors \in Nat
        /\ SemMax \in Nat
        /\ granted + complete_sem <= total_completed + total_errors
    BY PoolInv, GrantsAreFinishes, SizesAssumption
       DEF PoolInv, TypeOK, GrantsAreFinishes
  <1>2. ASSUME NEW w \in Workers, NEW outcome \in {"COMPLETED", "ERROR"},
               FinishJob(w, outcome)
        PROVE  GrantsAreFinishes'
    <2>1. granted' = granted /\ complete_sem' = Post(complete_sem)
      BY <1>2 DEF FinishJob, SignalCompletion, clients
    <2>2. complete_sem' \in Nat /\ complete_sem' <= complete_sem + 1
      BY <1>1, <2>1, PostType
    <2>3. /\ total_submitted \in Nat /\ total_cancelled \in Nat
          /\ queue_depth \in Nat /\ active_workers \in Nat
          /\ total_submitted <= UintMax /\ UintMax \in Nat
          /\ total_submitted = total_completed + total_errors + total_cancelled
                                   + queue_depth + active_workers
          /\ active_workers >= 1
      <3>1. Cardinality(Running) >= 1
        BY <1>2, PoolInv, RunningChange, WorkerCount DEF PoolInv, Running
      <3> QED BY <3>1, PoolInv, SizesAssumption DEF PoolInv, TypeOK, StatsAddUp
    <2>4. total_completed < UintMax /\ total_errors < UintMax
      BY <1>1, <2>3
    <2>5. Inc(total_errors) = total_errors + 1 /\ Inc(total_completed) = total_completed + 1
      BY <1>1, <2>3, <2>4 DEF Inc
    <2>6. \/ total_errors' = total_errors + 1 /\ total_completed' = total_completed
          \/ total_completed' = total_completed + 1 /\ total_errors' = total_errors
      BY <1>2, <2>5 DEF FinishJob, CountOutcome
    <2>7. total_completed' + total_errors' = total_completed + total_errors + 1
      BY <1>1, <2>6
    <2> QED BY <1>1, <2>1, <2>2, <2>7 DEF GrantsAreFinishes
  <1>3. ASSUME NEW t \in Waiters, WaitSucceeds(t) PROVE GrantsAreFinishes'
    BY <1>1, <1>3 DEF WaitSucceeds, stats, GrantsAreFinishes
  <1>4. ASSUME UNCHANGED <<granted, complete_sem, total_completed, total_errors>>
        PROVE  GrantsAreFinishes'
    BY <1>1, <1>4 DEF GrantsAreFinishes
  <1>5. ASSUME NEW w \in Workers,
               \/ CreateWorker(w) \/ TakeToken(w) \/ ExitLoop(w) \/ FindNoJob(w)
               \/ PopJob(w)
        PROVE  UNCHANGED <<granted, complete_sem, total_completed, total_errors>>
    BY <1>5 DEF CreateWorker, TakeToken, ExitLoop, FindNoJob, PopJob, clients,
                sems, stats
  <1>6. ASSUME NEW j \in Jobs, Submit(j) \/ Cancel(j)
        PROVE  UNCHANGED <<granted, complete_sem, total_completed, total_errors>>
    BY <1>6 DEF Submit, Cancel, clients, sems
  <1>7. ASSUME NEW t \in Waiters, (\E j \in Jobs : WaitBegins(t, j)) \/ WaitFails(t)
        PROVE  UNCHANGED <<granted, complete_sem, total_completed, total_errors>>
    BY <1>7 DEF WaitBegins, WaitFails, sems, stats
  <1>8. ASSUME \/ CreateWorkerFails \/ CreateCompletion \/ StopJoins \/ StopEnds
               \/ StopBegins \/ StopPosts \/ CompletionExits \/ UNCHANGED vars
        PROVE  UNCHANGED <<granted, complete_sem, total_completed, total_errors>>
    BY <1>8 DEF CreateWorkerFails, CreateCompletion, StopJoins, StopEnds,
                StopBegins, StopPosts, CompletionExits, clients, sems, stats, vars
  <1> QED BY <1>2, <1>3, <1>4, <1>5, <1>6, <1>7, <1>8 DEF Next, WorkerStep

\* The barrier follows: when the grants reach the submissions nothing is left
\* for the queue or for the workers.
LEMMA BarrierFollows ==
    ASSUME PoolInv, GrantsAreFinishes
    PROVE  WaitBarrier
  <1>1. /\ granted \in Nat /\ complete_sem \in Nat
        /\ total_submitted \in Nat /\ total_completed \in Nat
        /\ total_errors \in Nat /\ total_cancelled \in Nat
        /\ queue_depth \in Nat /\ active_workers \in Nat
    BY PoolInv, SizesAssumption DEF PoolInv, TypeOK
  <1>2. SUFFICES ASSUME granted >= total_submitted
                 PROVE  /\ total_completed + total_errors = total_submitted
                        /\ \A j \in Jobs : holder[j] = "client"
    BY DEF WaitBarrier
  <1>3. granted + complete_sem <= total_completed + total_errors
    BY GrantsAreFinishes DEF GrantsAreFinishes
  <1>4. total_submitted = total_completed + total_errors + total_cancelled
                              + queue_depth + active_workers
    BY PoolInv DEF PoolInv, StatsAddUp
  <1>5. PICK f \in Nat : f = total_completed + total_errors
    BY <1>1
  <1>6. f >= total_submitted /\ total_submitted = f + total_cancelled
                                                   + queue_depth + active_workers
    BY <1>1, <1>2, <1>3, <1>4, <1>5
  <1>7. f = total_submitted /\ queue_depth = 0 /\ active_workers = 0
    BY <1>1, <1>6
  <1>8. Len(fifo) = 0 /\ Cardinality(Running) = 0
    BY <1>7, PoolInv DEF PoolInv, StatsAddUp
  <1>9. Running = {}
    <2>1. Running \in SUBSET Workers
      BY DEF Running
    <2>2. IsFiniteSet(Running)
      BY <2>1, WorkersAssumption, FS_Subset
    <2> QED BY <1>8, <2>2, FS_EmptySet
  <1>10. ASSUME NEW j \in Jobs PROVE holder[j] = "client"
    <2>1. holder[j] \in {"client", "pool"}
      BY PoolInv DEF PoolInv, TypeOK
    <2>2. holder[j] # "pool"
      BY <1>8, <1>9, PoolInv DEF PoolInv, JobsHaveOnePlace
    <2> QED BY <2>1, <2>2
  <1> QED BY <1>5, <1>7, <1>10

-----------------------------------------------------------------------------
(* Stopping the pool *)

\* Every wake-up post of osa_worker_pool_stop is still in the semaphore, or with
\* a worker that is about to see the shutdown flag, or has made a worker exit;
\* and the joins begin after the last post (osa_worker.c:317-329).
StopTokens ==
    /\ shutdown \/ (posted = 0 /\ ownerPc \notin {"posting", "joining", "stopped"})
    /\ ownerPc = "joining" => posted = Cardinality(Workers)
    /\ posted <= work_sem + Cardinality(Locking) + Cardinality(Exited)

\* No step loses a wake-up post, with or without cancelled stale heads.
LEMMA StopStep ==
    ASSUME TypeOK, StopTokens, [Next]_vars
    PROVE  StopTokens'
  <1> DEFINE L == Cardinality(Locking)
             E == Cardinality(Exited)
             N == Cardinality(Workers)
             Begun == shutdown \/ (posted = 0 /\ ownerPc \notin {"posting", "joining", "stopped"})
             Posted == ownerPc = "joining" => posted = N
             Kept == posted <= work_sem + L + E
  <1>1. /\ L \in Nat /\ E \in Nat /\ N \in Nat
        /\ posted \in 0 .. N /\ work_sem \in 0 .. SemMax /\ SemMax \in Nat
        /\ N <= SemMax
    BY TypeOK, CountTypes, WorkerCountType, SizesAssumption DEF TypeOK
  <1>2. \A w \in Workers :
            /\ w \notin Locking => Cardinality(Locking \cup {w}) = L + 1
            /\ w \in Locking => Cardinality(Locking \ {w}) = L - 1
            /\ w \notin Exited => Cardinality(Exited \cup {w}) = E + 1
    BY WorkerCount DEF Locking, Exited
  <1>3. Begun /\ Posted /\ Kept
    BY StopTokens DEF StopTokens
  <1>4. Begun' /\ Posted' /\ Kept' => StopTokens'
    BY DEF StopTokens
  <1> HIDE DEF L, E, N
  <1>5. ASSUME NEW w \in Workers, CreateWorker(w) PROVE StopTokens'
    <2>1. L' = L /\ E' = E
      BY <1>5, TypeOK, LockingChange DEF L, E
    <2> QED BY <1>1, <1>3, <1>4, <1>5, <2>1 DEF CreateWorker, sems, N
  <1>6. ASSUME NEW w \in Workers, TakeToken(w) PROVE StopTokens'
    <2>1. L' = L + 1 /\ E' = E
      BY <1>2, <1>6, TypeOK, LockingChange DEF L, E
    <2>2. /\ work_sem' = work_sem - 1 /\ N' = N
          /\ UNCHANGED <<shutdown, posted, ownerPc>>
      BY <1>6 DEF TakeToken, N
    <2> QED BY <1>1, <1>3, <1>4, <2>1, <2>2
  <1>7. ASSUME NEW w \in Workers, ExitLoop(w) PROVE StopTokens'
    <2>1. L' = L - 1 /\ E' = E + 1
      BY <1>2, <1>7, TypeOK, LockingChange DEF L, E
    <2>2. work_sem' = work_sem /\ N' = N /\ UNCHANGED <<shutdown, posted, ownerPc>>
      BY <1>7 DEF ExitLoop, sems, N
    <2> QED BY <1>1, <1>3, <1>4, <2>1, <2>2
  <1>8. ASSUME NEW w \in Workers, FindNoJob(w) \/ PopJob(w) PROVE StopTokens'
    <2>1. posted = 0 /\ posted' = 0
      BY <1>3, <1>8 DEF FindNoJob, PopJob, MayTakeJob
    <2>2. /\ work_sem' = work_sem /\ N' = N /\ E' = E
          /\ UNCHANGED <<shutdown, ownerPc, posted>>
      BY <1>8, TypeOK, LockingChange DEF FindNoJob, PopJob, sems, N, E
    <2>3. L' \in Nat
      <3>1. Locking' \in SUBSET Workers BY DEF Locking
      <3>2. \A S \in SUBSET Workers : Cardinality(S) \in Nat
        BY WorkersAssumption, FS_Subset, FS_CardinalityType
      <3> QED BY <3>1, <3>2 DEF L
    <2>4. Begun' /\ Posted'
      BY <1>3, <2>2
    <2>5. Kept'
      <3>1. work_sem' \in Nat /\ E' \in Nat
        BY <1>1, <2>2
      <3>2. \A a, b, c \in Nat : 0 <= a + b + c
        OBVIOUS
      <3>3. 0 <= work_sem' + L' + E'
        BY <2>3, <3>1, <3>2
      <3> QED BY <2>1, <3>3
    <2> QED BY <1>4, <2>4, <2>5
  <1>9. ASSUME NEW w \in Workers, NEW outcome \in {"COMPLETED", "ERROR"},
               FinishJob(w, outcome)
        PROVE  StopTokens'
    <2>1. L' = L /\ E' = E
      BY <1>9, TypeOK, LockingChange DEF L, E
    <2>2. work_sem' = work_sem /\ N' = N /\ UNCHANGED <<shutdown, posted, ownerPc>>
      BY <1>9 DEF FinishJob, N
    <2> QED BY <1>1, <1>3, <1>4, <2>1, <2>2
  <1>10. ASSUME NEW j \in Jobs, Submit(j) PROVE StopTokens'
    <2>1. /\ L' = L /\ E' = E /\ N' = N /\ work_sem' = Post(work_sem)
          /\ UNCHANGED <<shutdown, posted, ownerPc>>
      BY <1>10 DEF Submit, SignalWorkers, threads, L, E, N, Locking, Exited
    <2>2. work_sem' >= work_sem /\ work_sem' \in Nat
      BY <1>1, <2>1, PostType
    <2> QED BY <1>1, <1>3, <1>4, <2>1, <2>2
  <1>11. ASSUME StopPosts PROVE StopTokens'
    <2>1. /\ L' = L /\ E' = E /\ N' = N /\ work_sem' = Post(work_sem)
          /\ posted' = posted + 1 /\ posted < N
          /\ shutdown' = shutdown /\ ownerPc' = ownerPc /\ ownerPc = "posting"
      BY <1>11 DEF StopPosts, MorePosts, L, E, N, Locking, Exited
    <2>2. \/ work_sem' = work_sem + 1
          \/ work_sem = SemMax /\ work_sem' = SemMax
      BY <1>1, <2>1, PostType
    <2>3. Kept'
      BY <1>1, <1>3, <2>1, <2>2
    <2>4. Begun' /\ Posted'
      BY <1>3, <2>1
    <2> QED BY <1>4, <2>3, <2>4
  <1>12. ASSUME StopBegins PROVE StopTokens'
    <2>1. /\ L' = L /\ E' = E /\ N' = N
          /\ work_sem' = work_sem /\ posted' = posted
          /\ shutdown' /\ ownerPc' = "posting"
      BY <1>12 DEF StopBegins, sems, L, E, N, Locking, Exited
    <2> QED BY <1>3, <1>4, <2>1
  <1>13. ASSUME StopJoins PROVE StopTokens'
    <2>1. /\ L' = L /\ E' = E /\ N' = N
          /\ work_sem' = work_sem /\ posted' = posted /\ ~(posted < N)
          /\ shutdown' = shutdown /\ ownerPc' = "joining" /\ ownerPc = "posting"
      BY <1>13 DEF StopJoins, MorePosts, sems, L, E, N, Locking, Exited
    <2>2. posted = N
      BY <1>1, <2>1
    <2> QED BY <1>3, <1>4, <2>1, <2>2
  <1>14. ASSUME \/ CreateWorkerFails \/ CreateCompletion \/ StopEnds
                \/ CompletionExits
         PROVE  StopTokens'
    <2>1. /\ L' = L /\ E' = E /\ N' = N
          /\ work_sem' = work_sem /\ posted' = posted /\ shutdown' = shutdown
          /\ \/ ownerPc' = ownerPc
             \/ ownerPc' = "stopped" /\ ownerPc = "joining"
             \/ ownerPc' \in {"failed", "started"}
      BY <1>14 DEF CreateWorkerFails, CreateCompletion, StopEnds, CompletionExits,
                   sems, L, E, N, Locking, Exited
    <2> QED BY <1>3, <1>4, <2>1
  <1>15. ASSUME \/ \E j \in Jobs : Cancel(j)
                \/ \E t \in Waiters : \/ \E j \in Jobs : WaitBegins(t, j)
                                      \/ WaitSucceeds(t)
                                      \/ WaitFails(t)
                \/ UNCHANGED vars
         PROVE  StopTokens'
    <2>1. /\ L' = L /\ E' = E /\ N' = N
          /\ work_sem' = work_sem /\ posted' = posted /\ shutdown' = shutdown
          /\ ownerPc' = ownerPc
      BY <1>15 DEF Cancel, WaitBegins, WaitSucceeds, WaitFails, vars, sems,
                   threads, L, E, N, Locking, Exited
    <2> QED BY <1>3, <1>4, <2>1
  <1> QED BY <1>5, <1>6, <1>7, <1>8, <1>9, <1>10, <1>11, <1>12, <1>13, <1>14,
             <1>15 DEF Next, WorkerStep

\* Those of the workers that still wait or run are not among the ones that hold
\* a token or have exited, so at least as many posts are left as there are of
\* them.
LEMMA StopWakesFollows ==
    ASSUME TypeOK, StopTokens
    PROVE  StopWakesEveryone
  <1> DEFINE Rest == {w \in Workers : pc[w] \in {"wait", "run"}}
             Done == Locking \cup Exited
  <1>1. SUFFICES ASSUME ownerPc = "joining" PROVE Cardinality(Rest) <= work_sem
    BY DEF StopWakesEveryone
  <1>2. Cardinality(Workers) <= work_sem + Cardinality(Locking) + Cardinality(Exited)
    BY <1>1, StopTokens DEF StopTokens
  <1>3. /\ IsFiniteSet(Rest) /\ IsFiniteSet(Locking) /\ IsFiniteSet(Exited)
        /\ IsFiniteSet(Done) /\ IsFiniteSet(Rest \cup Done)
    <2>1. /\ Rest \in SUBSET Workers /\ Locking \in SUBSET Workers
          /\ Exited \in SUBSET Workers /\ Done \in SUBSET Workers
          /\ Rest \cup Done \in SUBSET Workers
      BY DEF Locking, Exited
    <2> QED BY <2>1, WorkersAssumption, FS_Subset
  <1>4. /\ Cardinality(Rest) \in Nat /\ Cardinality(Locking) \in Nat
        /\ Cardinality(Exited) \in Nat /\ Cardinality(Done) \in Nat
        /\ Cardinality(Workers) \in Nat
        /\ work_sem \in Nat
    BY <1>3, TypeOK, FS_CardinalityType, WorkerCountType, SizesAssumption DEF TypeOK
  <1>5. Cardinality(Done) = Cardinality(Locking) + Cardinality(Exited)
    <2>1. Locking \cap Exited = {}
      BY DEF Locking, Exited
    <2> HIDE DEF Rest
    <2>2. Cardinality(Locking \cap Exited) = 0
      BY <2>1, FS_EmptySet
    <2>3. Cardinality(Locking \cup Exited)
              = Cardinality(Locking) + Cardinality(Exited) - Cardinality(Locking \cap Exited)
      BY <1>3, FS_Union
    <2> QED BY <1>4, <2>2, <2>3
  <1>6. Cardinality(Rest \cup Done) = Cardinality(Rest) + Cardinality(Done)
    <2>1. Rest \cap Done = {}
      BY DEF Locking, Exited
    <2> HIDE DEF Rest, Done
    <2>2. Cardinality(Rest \cap Done) = 0
      BY <2>1, FS_EmptySet
    <2>3. Cardinality(Rest \cup Done)
              = Cardinality(Rest) + Cardinality(Done) - Cardinality(Rest \cap Done)
      BY <1>3, FS_Union
    <2> QED BY <1>4, <2>2, <2>3
  <1>7. Cardinality(Rest \cup Done) <= Cardinality(Workers)
    <2>1. Rest \cup Done \in SUBSET Workers
      BY DEF Locking, Exited
    <2> HIDE DEF Rest, Done
    <2> QED BY <2>1, WorkersAssumption, FS_Subset
  <1> HIDE DEF Rest, Done
  <1> QED BY <1>2, <1>4, <1>5, <1>6, <1>7

-----------------------------------------------------------------------------
(* The life of a job *)

\* The state in a job's structure says where the job is (osa_worker.c:126, 145,
\* 374, 442).
StateTellsPlace ==
    \A j \in Jobs :
        /\ state[j] = "RUNNING" <=> \E w \in Running : job[w] = j
        /\ holder[j] = "pool" => state[j] \in {"PENDING", "RUNNING"}

\* What the four job steps do to the state of the job they are about.
LEMMA StateChange ==
    ASSUME PoolInv, StateTellsPlace, CancelStaleHead = FALSE
    PROVE  /\ \A j \in Jobs : Submit(j) =>
                  /\ state' = [state EXCEPT ![j] = "PENDING"]
                  /\ state[j] # "RUNNING"
           /\ \A j \in Jobs : Cancel(j) =>
                  /\ state' = [state EXCEPT ![j] = "CANCELLED"]
                  /\ holder' = [holder EXCEPT ![j] = "client"]
                  /\ state[j] = "PENDING"
           /\ \A w \in Workers : PopJob(w) =>
                  /\ job_queue_head \in Jobs
                  /\ state' = [state EXCEPT ![job_queue_head] = "RUNNING"]
                  /\ job' = [job EXCEPT ![w] = job_queue_head]
                  /\ state[job_queue_head] = "PENDING"
           /\ \A w \in Workers, outcome \in {"COMPLETED", "ERROR"} :
                  FinishJob(w, outcome) =>
                      /\ job[w] \in Jobs
                      /\ state' = [state EXCEPT ![job[w]] = outcome]
                      /\ holder' = [holder EXCEPT ![job[w]] = "client"]
                      /\ state[job[w]] = "RUNNING"
  <1>1. /\ TypeOK /\ ListIsFifo /\ JobsHaveOnePlace /\ Distinct
    BY PoolInv DEF PoolInv, JobsHaveOnePlace, Distinct
  <1>2. /\ \A i \in 1 .. Len(fifo) : fifo[i] \in Jobs
        /\ fifo # << >> => 1 \in 1 .. Len(fifo)
    BY <1>1, SeqBasics DEF TypeOK
  <1>3. \A i \in 1 .. Len(fifo) : state[fifo[i]] = "PENDING"
    BY <1>1, <1>2, StateTellsPlace DEF JobsHaveOnePlace, StateTellsPlace
  <1>4. ASSUME NEW j \in Jobs, Submit(j)
        PROVE  state' = [state EXCEPT ![j] = "PENDING"] /\ state[j] # "RUNNING"
    <2>1. holder[j] = "client"
      BY <1>4 DEF Submit
    <2> QED BY <1>1, <1>4, <2>1, StateTellsPlace
            DEF Submit, JobsHaveOnePlace, StateTellsPlace
  <1>5. ASSUME NEW j \in Jobs, Cancel(j)
        PROVE  /\ state' = [state EXCEPT ![j] = "CANCELLED"]
               /\ holder' = [holder EXCEPT ![j] = "client"]
               /\ state[j] = "PENDING"
    <2>1. \E p \in 1 .. Len(fifo) : fifo[p] = j
      BY <1>1, <1>5, CancelList
    <2> QED BY <1>3, <1>5, <2>1 DEF Cancel
  <1>6. ASSUME NEW w \in Workers, PopJob(w)
        PROVE  /\ job_queue_head \in Jobs
               /\ state' = [state EXCEPT ![job_queue_head] = "RUNNING"]
               /\ job' = [job EXCEPT ![w] = job_queue_head]
               /\ state[job_queue_head] = "PENDING"
    <2>1. fifo # << >> /\ job_queue_head = fifo[1]
      BY <1>1, <1>6, PopList
    <2> QED BY <1>2, <1>3, <1>6, <2>1 DEF PopJob
  <1>7. ASSUME NEW w \in Workers, NEW outcome \in {"COMPLETED", "ERROR"},
               FinishJob(w, outcome)
        PROVE  /\ job[w] \in Jobs
               /\ state' = [state EXCEPT ![job[w]] = outcome]
               /\ holder' = [holder EXCEPT ![job[w]] = "client"]
               /\ state[job[w]] = "RUNNING"
    <2>1. w \in Running
      BY <1>1, <1>7, RunningChange
    <2>2. job[w] \in Jobs
      BY <1>1, <2>1 DEF TypeOK, JobsHaveOnePlace
    <2> QED BY <1>7, <2>1, <2>2, StateTellsPlace DEF FinishJob, StateTellsPlace
  <1> QED BY <1>4, <1>5, <1>6, <1>7

\* Every step keeps the state in step with the place.
LEMMA StateStep ==
    ASSUME PoolInv, StateTellsPlace, CancelStaleHead = FALSE, [Next]_vars
    PROVE  StateTellsPlace'
  <1>1. /\ TypeOK /\ JobsHaveOnePlace
        /\ \A w \in Running : w \in Workers
    BY PoolInv DEF PoolInv, Running
  <1>2. /\ \A j \in Jobs : state[j] = "RUNNING" <=> \E w \in Running : job[w] = j
        /\ \A j \in Jobs : holder[j] = "pool" => state[j] \in {"PENDING", "RUNNING"}
    BY StateTellsPlace DEF StateTellsPlace
  <1>3. ASSUME NEW j \in Jobs, Submit(j) PROVE StateTellsPlace'
    <2>1. state' = [state EXCEPT ![j] = "PENDING"] /\ state[j] # "RUNNING"
      BY <1>3, StateChange, PoolInv, StateTellsPlace
    <2>2. /\ job' = job /\ Running' = Running
          /\ \A k \in Jobs : k # j => holder'[k] = holder[k]
      BY <1>1, <1>3 DEF Submit, threads, Running, TypeOK
    <2> QED BY <1>1, <1>2, <2>1, <2>2 DEF StateTellsPlace, TypeOK
  <1>4. ASSUME NEW j \in Jobs, Cancel(j) PROVE StateTellsPlace'
    <2>1. /\ state' = [state EXCEPT ![j] = "CANCELLED"] /\ state[j] = "PENDING"
          /\ holder' = [holder EXCEPT ![j] = "client"]
      BY <1>4, StateChange, PoolInv, StateTellsPlace
    <2>2. job' = job /\ Running' = Running
      BY <1>4 DEF Cancel, threads, Running
    <2> QED BY <1>1, <1>2, <2>1, <2>2 DEF StateTellsPlace, TypeOK
  <1>5. ASSUME NEW w \in Workers, PopJob(w) PROVE StateTellsPlace'
    <2>1. /\ job_queue_head \in Jobs
          /\ state' = [state EXCEPT ![job_queue_head] = "RUNNING"]
          /\ job' = [job EXCEPT ![w] = job_queue_head]
          /\ state[job_queue_head] = "PENDING"
          /\ w \notin Running /\ Running' = Running \cup {w}
      BY <1>1, <1>5, StateChange, RunningChange, PoolInv, StateTellsPlace
    <2>2. holder' = holder
      BY <1>5 DEF PopJob
    <2>3. /\ job'[w] = job_queue_head
          /\ \A v \in Running : job'[v] = job[v]
      BY <1>1, <2>1 DEF TypeOK
    <2>4. ASSUME NEW j \in Jobs
          PROVE  state'[j] = "RUNNING" <=> \E v \in Running' : job'[v] = j
      <3>1. CASE j = job_queue_head
        BY <1>1, <2>1, <2>3, <3>1 DEF TypeOK
      <3>2. CASE j # job_queue_head
        <4>1. state'[j] = state[j]
          BY <1>1, <2>1, <3>2 DEF TypeOK
        <4>2. (\E v \in Running' : job'[v] = j) <=> \E v \in Running : job[v] = j
          BY <2>1, <2>3, <3>2
        <4> QED BY <1>2, <4>1, <4>2
      <3> QED BY <3>1, <3>2
    <2>5. ASSUME NEW j \in Jobs, holder'[j] = "pool"
          PROVE  state'[j] \in {"PENDING", "RUNNING"}
      BY <1>1, <1>2, <2>1, <2>2, <2>5 DEF TypeOK
    <2> QED BY <2>4, <2>5 DEF StateTellsPlace
  <1>6. ASSUME NEW w \in Workers, NEW outcome \in {"COMPLETED", "ERROR"},
               FinishJob(w, outcome)
        PROVE  StateTellsPlace'
    <2>1. /\ job[w] \in Jobs
          /\ state' = [state EXCEPT ![job[w]] = outcome]
          /\ holder' = [holder EXCEPT ![job[w]] = "client"]
          /\ w \in Running /\ Running' = Running \ {w}
      BY <1>1, <1>6, StateChange, RunningChange, PoolInv, StateTellsPlace
    <2>2. \A v \in Running' : job'[v] = job[v] /\ job[v] # job[w]
      BY <1>1, <1>6, <2>1 DEF FinishJob, TypeOK, JobsHaveOnePlace
    <2>3. ASSUME NEW j \in Jobs
          PROVE  state'[j] = "RUNNING" <=> \E v \in Running' : job'[v] = j
      <3>1. CASE j = job[w]
        BY <1>1, <2>1, <2>2, <3>1 DEF TypeOK
      <3>2. CASE j # job[w]
        <4>1. state'[j] = state[j]
          BY <1>1, <2>1, <3>2 DEF TypeOK
        <4>2. (\E v \in Running' : job'[v] = j) <=> \E v \in Running : job[v] = j
          BY <2>1, <2>2, <3>2
        <4> QED BY <1>2, <4>1, <4>2
      <3> QED BY <3>1, <3>2
    <2>4. ASSUME NEW j \in Jobs, holder'[j] = "pool"
          PROVE  state'[j] \in {"PENDING", "RUNNING"}
      BY <1>1, <1>2, <2>1, <2>4 DEF TypeOK
    <2> QED BY <2>3, <2>4 DEF StateTellsPlace
  <1>7. ASSUME Quiet PROVE StateTellsPlace'
    <2>1. state' = state /\ job' = job /\ holder' = holder /\ Running' = Running
      BY <1>7 DEF Quiet
    <2> QED BY <1>2, <2>1 DEF StateTellsPlace
  <1> QED BY <1>1, <1>3, <1>4, <1>5, <1>6, <1>7, StepCases

-----------------------------------------------------------------------------
(* Theorems *)

\* The inductive invariant of the pool, when no head that has a stale prev link
\* is cancelled: the list and the places of the jobs, the statistics, the tokens
\* of the queued jobs, the grants of the waits and the states of the jobs.
PoolIInv ==
    /\ PoolInv
    /\ NoTokenLost
    /\ GrantsAreFinishes
    /\ StateTellsPlace

\* What osa_worker_pool_init leaves behind satisfies every part of it.
LEMMA InitEstablishes == Init => PoolIInv /\ StopTokens
  <1> SUFFICES ASSUME Init PROVE PoolIInv /\ StopTokens
    OBVIOUS
  <1>1. /\ Cardinality(Workers) \in Nat /\ UintMax \in Nat /\ SemMax \in Nat
        /\ MaxSubmits \in Nat /\ << >> \in Seq(Jobs) /\ Len(<< >>) = 0
    BY WorkerCountType, SizesAssumption
  <1>2. Running = {} /\ Locking = {} /\ Exited = {}
    BY Init DEF Init, Running, Locking, Exited
  <1>3. Cardinality({}) = 0
    BY FS_EmptySet
  <1>4. TypeOK
    <2>1. /\ work_sem \in 0 .. SemMax /\ complete_sem \in 0 .. SemMax
          /\ total_submitted \in 0 .. MaxSubmits /\ total_completed \in 0 .. UintMax
          /\ total_cancelled \in 0 .. UintMax /\ total_errors \in 0 .. UintMax
          /\ queue_depth \in 0 .. UintMax /\ active_workers \in 0 .. UintMax
          /\ posted \in 0 .. Cardinality(Workers) /\ granted \in Nat
      BY <1>1, Init DEF Init
    <2>2. /\ job_queue_head \in Jobs \cup {NULL} /\ job_queue_tail \in Jobs \cup {NULL}
          /\ next \in [Jobs -> Jobs \cup {NULL}] /\ prev \in [Jobs -> Jobs \cup {NULL}]
          /\ fifo \in Seq(Jobs)
      BY <1>1, Init DEF Init
    <2>3. shutdown \in BOOLEAN
      BY Init DEF Init
    <2>4. /\ state \in [Jobs -> JobStates]
          /\ pc \in [Workers -> {"off", "wait", "locking", "run", "exited"}]
          /\ job \in [Workers -> Jobs \cup {NULL}]
          /\ waiting \in [Waiters -> Jobs \cup {NULL}]
          /\ holder \in [Jobs -> {"client", "pool"}]
      BY Init DEF Init, JobStates
    <2>5. /\ completion \in {"off", "loop", "exited"}
          /\ ownerPc \in {"initialized", "starting", "started", "failed", "posting",
                          "joining", "stopped"}
      BY Init DEF Init
    <2> QED BY <2>1, <2>2, <2>3, <2>4, <2>5 DEF TypeOK
  <1>5. ListIsFifo
    BY <1>1, Init DEF Init, ListIsFifo
  <1>6. JobsHaveOnePlace
    BY <1>1, <1>2, Init DEF Init, JobsHaveOnePlace
  <1>7. StatsAddUp
    BY <1>1, <1>2, <1>3, Init DEF Init, StatsAddUp
  <1>8. NoTokenLost /\ GrantsAreFinishes
    BY <1>2, <1>3, Init DEF Init, NoTokenLost, GrantsAreFinishes
  <1>9. StateTellsPlace
    BY <1>2, Init DEF Init, StateTellsPlace
  <1>10. StopTokens
    BY <1>2, <1>3, Init DEF Init, StopTokens
  <1> QED BY <1>4, <1>5, <1>6, <1>7, <1>8, <1>9, <1>10 DEF PoolIInv, PoolInv

\* Types, for every pool, cancelled heads included: no counter leaves the range
\* of uint32_t and the posts of a stop never exceed the number of workers.
THEOREM TypeCorrect == Spec => []TypeOK
  <1>1. Init => TypeOK
    BY InitEstablishes DEF PoolIInv, PoolInv
  <1>2. TypeOK /\ [Next]_vars => TypeOK'
    BY TypeStep
  <1> QED BY <1>1, <1>2, PTL DEF Spec

\* The stop of every pool, cancelled heads included, leaves a token for every
\* worker that has still to see the shutdown flag (osa_worker.c:322-329): a join
\* never waits for a worker that sleeps for ever.
THEOREM StopWakesAll == Spec => []StopWakesEveryone
  <1>1. Init => TypeOK /\ StopTokens
    BY InitEstablishes DEF PoolIInv, PoolInv
  <1>2. TypeOK /\ StopTokens /\ [Next]_vars => TypeOK' /\ StopTokens'
    BY TypeStep, StopStep
  <1>3. TypeOK /\ StopTokens => StopWakesEveryone
    BY StopWakesFollows
  <1> QED BY <1>1, <1>2, <1>3, PTL DEF Spec

\* The inductive invariant holds while no client cancels a stale head.
LEMMA PoolInvariance ==
    ASSUME CancelStaleHead = FALSE
    PROVE  Spec => []PoolIInv
  <1>1. Init => PoolIInv
    BY InitEstablishes
  <1>2. PoolIInv /\ [Next]_vars => PoolIInv'
    <2> SUFFICES ASSUME PoolIInv, [Next]_vars PROVE PoolIInv'
      OBVIOUS
    <2>1. PoolInv /\ NoTokenLost /\ GrantsAreFinishes /\ StateTellsPlace
      BY PoolIInv DEF PoolIInv
    <2>2. TypeOK /\ ListIsFifo /\ JobsHaveOnePlace
      BY <2>1 DEF PoolInv
    <2>3. TypeOK'
      BY <2>2, TypeStep
    <2>4. ListIsFifo' /\ JobsHaveOnePlace'
      BY <2>2, CancelStaleHead = FALSE, PlaceStep
    <2>5. StatsAddUp'
      BY <2>1, CancelStaleHead = FALSE, StatsStep
    <2>6. NoTokenLost'
      BY <2>1, CancelStaleHead = FALSE, TokenStep
    <2>7. GrantsAreFinishes'
      BY <2>1, CancelStaleHead = FALSE, GrantsStep
    <2>8. StateTellsPlace'
      BY <2>1, CancelStaleHead = FALSE, StateStep
    <2> QED BY <2>3, <2>4, <2>5, <2>6, <2>7, <2>8 DEF PoolIInv, PoolInv
  <1> QED BY <1>1, <1>2, PTL DEF Spec

\* The linked list of osa_worker_pool_submit, _cancel and the worker loop is the
\* queue in the order of submission.
THEOREM QueueIsFifo ==
    ASSUME CancelStaleHead = FALSE
    PROVE  Spec => []ListIsFifo
  <1>1. PoolIInv => ListIsFifo
    BY DEF PoolIInv, PoolInv
  <1> QED BY <1>1, PoolInvariance, CancelStaleHead = FALSE, PTL

\* A job the pool holds is queued once or run by one worker, and the pool runs
\* no job that it has given back.
THEOREM NoJobRunsTwice ==
    ASSUME CancelStaleHead = FALSE
    PROVE  Spec => []JobsHaveOnePlace
  <1>1. PoolIInv => JobsHaveOnePlace
    BY DEF PoolIInv, PoolInv
  <1> QED BY <1>1, PoolInvariance, CancelStaleHead = FALSE, PTL

\* The statistics of osa_worker_pool_get_stats are consistent at every moment
\* and none of them wraps around.
THEOREM StatisticsAddUp ==
    ASSUME CancelStaleHead = FALSE
    PROVE  Spec => []StatsAddUp
  <1>1. PoolIInv => StatsAddUp
    BY DEF PoolIInv, PoolInv
  <1> QED BY <1>1, PoolInvariance, CancelStaleHead = FALSE, PTL

\* No queued job is without a token that brings a worker to it.
THEOREM NoJobIsForgotten ==
    ASSUME CancelStaleHead = FALSE
    PROVE  Spec => []NoTokenLost
  <1>1. PoolIInv => NoTokenLost
    BY DEF PoolIInv
  <1> QED BY <1>1, PoolInvariance, CancelStaleHead = FALSE, PTL

\* As many successful waits as submissions are a barrier.
THEOREM WaitsAreABarrier ==
    ASSUME CancelStaleHead = FALSE
    PROVE  Spec => []WaitBarrier
  <1>1. PoolIInv => WaitBarrier
    BY BarrierFollows DEF PoolIInv
  <1> QED BY <1>1, PoolInvariance, CancelStaleHead = FALSE, PTL

\* A poll that succeeds finds the pool done with the job (osa_worker.c:510-514).
THEOREM PollsAreTrue ==
    ASSUME CancelStaleHead = FALSE
    PROVE  Spec => []PollMeansDone
  <1>1. PoolIInv => PollMeansDone
    <2> SUFFICES ASSUME PoolIInv, NEW j \in Jobs, PollResult(j) = 0
                 PROVE  holder[j] = "client"
      BY DEF PollMeansDone
    <2>1. state[j] \in {"COMPLETED", "CANCELLED"}
      BY DEF PollResult
    <2>2. holder[j] = "pool" => state[j] \in {"PENDING", "RUNNING"}
      BY DEF PoolIInv, StateTellsPlace
    <2>3. holder[j] \in {"client", "pool"}
      BY DEF PoolIInv, PoolInv, TypeOK
    <2> QED BY <2>1, <2>2, <2>3
  <1> QED BY <1>1, CancelStaleHead = FALSE, PoolInvariance, PTL

\* Jobs are taken in the order of their submission.
THEOREM JobsStartInOrder ==
    ASSUME CancelStaleHead = FALSE
    PROVE  Spec => StartsInOrder
  <1>1. ASSUME PoolIInv, NEW w \in Workers, PopJob(w)
        PROVE  fifo # << >> /\ job'[w] = fifo[1]
    <2>1. TypeOK /\ ListIsFifo /\ Distinct
      BY <1>1 DEF PoolIInv, PoolInv, JobsHaveOnePlace, Distinct
    <2>2. fifo # << >> /\ job_queue_head = fifo[1]
      BY <1>1, <2>1, PopList
    <2> QED BY <1>1, <2>1, <2>2 DEF PopJob, TypeOK
  <1>2. PoolIInv => [\A w \in Workers : PopJob(w) =>
                         fifo # << >> /\ job'[w] = fifo[1]]_vars
    BY <1>1
  <1> QED BY <1>2, PoolInvariance, CancelStaleHead = FALSE, PTL DEF StartsInOrder

\* The states of a job follow the documented diagram: no cancelled job runs, no
\* running job is cancelled, no job ends without having run.
THEOREM JobsFollowTheDiagram ==
    ASSUME CancelStaleHead = FALSE
    PROVE  Spec => DocumentedTransitions
  <1> DEFINE Allowed(x, y) ==
          <<x, y>> \in
               {<<"PENDING", "RUNNING">>, <<"PENDING", "CANCELLED">>,
                <<"RUNNING", "COMPLETED">>, <<"RUNNING", "ERROR">>,
                <<"COMPLETED", "PENDING">>, <<"CANCELLED", "PENDING">>,
                <<"ERROR", "PENDING">>}
             Legal == \A j \in Jobs : state'[j] # state[j] => Allowed(state[j], state'[j])
  <1>1. ASSUME PoolIInv, [Next]_vars PROVE Legal
    <2>1. PoolInv /\ StateTellsPlace /\ TypeOK
      BY <1>1 DEF PoolIInv, PoolInv
    <2>2. state \in [Jobs -> JobStates]
      BY <2>1 DEF TypeOK
    <2>3. ASSUME NEW j \in Jobs, Submit(j) PROVE Legal
      <3>1. state' = [state EXCEPT ![j] = "PENDING"] /\ state[j] # "RUNNING"
        BY <2>1, <2>3, CancelStaleHead = FALSE, StateChange
      <3> QED BY <2>2, <3>1 DEF JobStates
    <2>4. ASSUME NEW j \in Jobs, Cancel(j) PROVE Legal
      <3>1. state' = [state EXCEPT ![j] = "CANCELLED"] /\ state[j] = "PENDING"
        BY <2>1, <2>4, CancelStaleHead = FALSE, StateChange
      <3> QED BY <2>2, <3>1
    <2>5. ASSUME NEW w \in Workers, PopJob(w) PROVE Legal
      <3>1. /\ job_queue_head \in Jobs /\ state[job_queue_head] = "PENDING"
            /\ state' = [state EXCEPT ![job_queue_head] = "RUNNING"]
        BY <2>1, <2>5, CancelStaleHead = FALSE, StateChange
      <3> QED BY <2>2, <3>1
    <2>6. ASSUME NEW w \in Workers, NEW outcome \in {"COMPLETED", "ERROR"},
                 FinishJob(w, outcome)
          PROVE  Legal
      <3>1. /\ job[w] \in Jobs /\ state[job[w]] = "RUNNING"
            /\ state' = [state EXCEPT ![job[w]] = outcome]
        BY <2>1, <2>6, CancelStaleHead = FALSE, StateChange
      <3> QED BY <2>2, <3>1
    <2>7. ASSUME Quiet PROVE Legal
      BY <2>7 DEF Quiet
    <2> QED BY <1>1, <2>1, <2>3, <2>4, <2>5, <2>6, <2>7, StepCases
  <1>2. PoolIInv /\ [Next]_vars => [Legal]_vars
    BY <1>1
  <1>3. Spec => [][Legal]_vars
    BY <1>2, PoolInvariance, CancelStaleHead = FALSE, PTL DEF Spec
  <1> QED BY <1>3 DEF DocumentedTransitions
=============================================================================
