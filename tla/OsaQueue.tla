------------------------------ MODULE OsaQueue ------------------------------
(***************************************************************************)
(* The Linux message queue (platform/linux/osa_queue.c): a ring buffer     *)
(* guarded by one mutex, with a condition variable for the senders that    *)
(* wait for room and one for the receivers that wait for a message.        *)
(*                                                                         *)
(* All of the queue's fields are read and written with the mutex held, so  *)
(* one action is one critical section: from pthread_mutex_lock, or from    *)
(* the return of a condition wait, to pthread_mutex_unlock or to the next  *)
(* condition wait.  osa_queue_destroy is two actions, because it releases  *)
(* the mutex between closing the queue and freeing it.                     *)
(***************************************************************************)
EXTENDS Integers, Sequences, FiniteSets

CONSTANTS
    Threads,    \* the threads that send and receive
    Msgs,       \* the messages they send
    MaxMsgs,    \* max_msgs of osa_queue_create
    NoMsg       \* the zeroed contents of a slot never written

ASSUME ThreadsAssumption == IsFiniteSet(Threads)
ASSUME MaxMsgsAssumption == MaxMsgs \in Nat \ {0}  \* else -EINVAL (line 54)
ASSUME NoMsgAssumption   == NoMsg \notin Msgs

VARIABLES
    buffer,     \* the ring buffer, positions 0 .. MaxMsgs-1
    head,       \* read position
    tail,       \* write position
    count,      \* current message count
    closed,     \* queue closed flag
    freed,      \* the structure has been destroyed and freed
    condSend,   \* threads blocked in a wait on cond_send
    condRecv,   \* threads blocked in a wait on cond_recv
    wokenSend,  \* woken from cond_send, about to take the mutex again
    wokenRecv,  \* woken from cond_recv, about to take the mutex again
    call,       \* call[t]: the arguments of the last call of t
    res         \* res[t]: its result, code "PENDING" while it is blocked

ring  == <<buffer, head, tail, count>>
conds == <<condSend, condRecv, wokenSend, wokenRecv>>
vars  == <<buffer, head, tail, count, closed, freed, condSend, condRecv,
           wokenSend, wokenRecv, call, res>>

\* timeout_ms = 0, > 0 and < 0
Timeouts == {"nonblocking", "timed", "infinite"}

Codes == {"OK", "EPIPE", "EAGAIN", "ETIMEDOUT", "PENDING"}

Blocked == condSend \cup condRecv \cup wokenSend \cup wokenRecv

Full  == count >= MaxMsgs
Empty == count = 0

-----------------------------------------------------------------------------

Init ==
    /\ buffer = [i \in 0 .. MaxMsgs - 1 |-> NoMsg]
    /\ head = 0
    /\ tail = 0
    /\ count = 0
    /\ closed = FALSE
    /\ freed = FALSE
    /\ condSend = {} /\ condRecv = {}
    /\ wokenSend = {} /\ wokenRecv = {}
    /\ call = [t \in Threads |-> [msg |-> NoMsg, timeout |-> "nonblocking"]]
    /\ res = [t \in Threads |-> [code |-> "OK", msg |-> NoMsg]]

\* The owner of a freed queue makes no further call on it, and a thread is in
\* at most one call.
Calls(t, m, timeout) ==
    /\ ~freed
    /\ t \notin Blocked
    /\ call' = [call EXCEPT ![t] = [msg |-> m, timeout |-> timeout]]

Returns(t, code, m) == res' = [res EXCEPT ![t] = [code |-> code, msg |-> m]]

MutantSignalRecv == UNCHANGED <<condRecv, wokenRecv>>

\* pthread_cond_signal(&q->cond_recv) wakes one of the waiting receivers, if
\* there is one.
SignalRecv ==
    \/ condRecv = {} /\ UNCHANGED <<condRecv, wokenRecv>>
    \/ \E w \in condRecv :
           /\ condRecv' = condRecv \ {w}
           /\ wokenRecv' = wokenRecv \cup {w}

MutantSignalSend ==
    \/ count < MaxMsgs /\ UNCHANGED <<condSend, wokenSend>>
    \/ /\ count = MaxMsgs
       /\ \/ condSend = {} /\ UNCHANGED <<condSend, wokenSend>>
          \/ \E w \in condSend :
                 /\ condSend' = condSend \ {w}
                 /\ wokenSend' = wokenSend \cup {w}

\* pthread_cond_signal(&q->cond_send), likewise.
SignalSend ==
    \/ condSend = {} /\ UNCHANGED <<condSend, wokenSend>>
    \/ \E w \in condSend :
           /\ condSend' = condSend \ {w}
           /\ wokenSend' = wokenSend \cup {w}

MutantAdvanceNoWrap(pos) == pos + 1

MutantAdvance(pos) == IF pos = MaxMsgs - 1 THEN pos ELSE pos + 1

\* The next position of the ring.
Advance(pos) == (pos + 1) % MaxMsgs

-----------------------------------------------------------------------------
(* osa_queue_send *)

\* From "check again if queue is closed" to the return: t holds the mutex and
\* has passed its waiting loop.
SendTail(t, m) ==
    IF closed \/ Full
    THEN /\ Returns(t, IF closed THEN "EPIPE" ELSE "EAGAIN", NoMsg)
         /\ wokenSend' = wokenSend \ {t}
         /\ UNCHANGED <<ring, condSend, condRecv, wokenRecv>>
    ELSE /\ buffer' = [buffer EXCEPT ![tail] = m]
         /\ tail' = Advance(tail)
         /\ count' = count + 1
         /\ SignalRecv
         /\ Returns(t, "OK", NoMsg)
         /\ wokenSend' = wokenSend \ {t}
         /\ UNCHANGED <<head, condSend>>

\* The call finds the queue full and waits for room.
SendBlocks(t, timeout) ==
    /\ ~closed
    /\ Full
    /\ timeout # "nonblocking"
    /\ condSend' = condSend \cup {t}
    /\ Returns(t, "PENDING", NoMsg)
    /\ UNCHANGED <<ring, condRecv, wokenSend, wokenRecv>>

\* The call returns without waiting.
SendAtOnce(t, m, timeout) ==
    /\ closed \/ ~Full \/ timeout = "nonblocking"
    /\ SendTail(t, m)

Send(t, m, timeout) ==
    /\ Calls(t, m, timeout)
    /\ SendBlocks(t, timeout) \/ SendAtOnce(t, m, timeout)
    /\ UNCHANGED <<closed, freed>>

\* A woken sender has the mutex again: it waits on while the queue is full and
\* not closed.
ResumeSend(t) ==
    /\ t \in wokenSend
    /\ ~freed
    /\ IF Full /\ ~closed
       THEN /\ condSend' = condSend \cup {t}
            /\ wokenSend' = wokenSend \ {t}
            /\ UNCHANGED <<ring, condRecv, wokenRecv, res>>
       ELSE SendTail(t, call[t].msg)
    /\ UNCHANGED <<closed, freed, call>>

\* The deadline of a timed send passes while it waits.  From then on no signal
\* is spent on it, and it returns as soon as it has the mutex.
ExpireSend(t) ==
    /\ t \in condSend
    /\ ~freed
    /\ call[t].timeout = "timed"
    /\ condSend' = condSend \ {t}
    /\ Returns(t, "ETIMEDOUT", NoMsg)
    /\ UNCHANGED <<ring, closed, freed, condRecv, wokenSend, wokenRecv, call>>

-----------------------------------------------------------------------------
(* osa_queue_receive *)

MutantOldest == buffer[Advance(head)]

\* The message at the read position.
Oldest == buffer[head]

\* From "check if queue is closed and empty after waiting" to the return.  A
\* closed queue still hands out the messages it holds.
ReceiveTail(t) ==
    IF Empty
    THEN /\ Returns(t, IF closed THEN "EPIPE" ELSE "EAGAIN", NoMsg)
         /\ wokenRecv' = wokenRecv \ {t}
         /\ UNCHANGED <<ring, condSend, condRecv, wokenSend>>
    ELSE /\ head' = Advance(head)
         /\ count' = count - 1
         /\ SignalSend
         /\ Returns(t, "OK", Oldest)
         /\ wokenRecv' = wokenRecv \ {t}
         /\ UNCHANGED <<buffer, tail, condRecv>>

\* The call finds the queue empty and waits for a message.
ReceiveBlocks(t, timeout) ==
    /\ ~closed
    /\ Empty
    /\ timeout # "nonblocking"
    /\ condRecv' = condRecv \cup {t}
    /\ Returns(t, "PENDING", NoMsg)
    /\ UNCHANGED <<ring, condSend, wokenSend, wokenRecv>>

ReceiveAtOnce(t, timeout) ==
    /\ closed \/ ~Empty \/ timeout = "nonblocking"
    /\ ReceiveTail(t)

Receive(t, timeout) ==
    /\ Calls(t, NoMsg, timeout)
    /\ ReceiveBlocks(t, timeout) \/ ReceiveAtOnce(t, timeout)
    /\ UNCHANGED <<closed, freed>>

\* A woken receiver has the mutex again: it waits on while the queue is empty
\* and not closed.
ResumeReceive(t) ==
    /\ t \in wokenRecv
    /\ ~freed
    /\ IF Empty /\ ~closed
       THEN /\ condRecv' = condRecv \cup {t}
            /\ wokenRecv' = wokenRecv \ {t}
            /\ UNCHANGED <<ring, condSend, wokenSend, res>>
       ELSE ReceiveTail(t)
    /\ UNCHANGED <<closed, freed, call>>

ExpireReceive(t) ==
    /\ t \in condRecv
    /\ ~freed
    /\ call[t].timeout = "timed"
    /\ condRecv' = condRecv \ {t}
    /\ Returns(t, "ETIMEDOUT", NoMsg)
    /\ UNCHANGED <<ring, closed, freed, condSend, wokenSend, wokenRecv, call>>

-----------------------------------------------------------------------------

\* POSIX allows a condition wait to return without a signal.
SpuriousWakeup(t) ==
    /\ ~freed
    /\ \/ /\ t \in condSend
          /\ condSend' = condSend \ {t}
          /\ wokenSend' = wokenSend \cup {t}
          /\ UNCHANGED <<condRecv, wokenRecv>>
       \/ /\ t \in condRecv
          /\ condRecv' = condRecv \ {t}
          /\ wokenRecv' = wokenRecv \cup {t}
          /\ UNCHANGED <<condSend, wokenSend>>
    /\ UNCHANGED <<ring, closed, freed, call, res>>

MutantClose ==
    /\ ~closed
    /\ closed' = TRUE
    /\ wokenSend' = wokenSend \cup condSend
    /\ condSend' = {}
    /\ UNCHANGED <<ring, freed, condRecv, wokenRecv, call, res>>

\* osa_queue_destroy, first half: with the mutex held, close the queue and
\* wake every waiting thread.
Close ==
    /\ ~closed
    /\ closed' = TRUE
    /\ wokenSend' = wokenSend \cup condSend
    /\ wokenRecv' = wokenRecv \cup condRecv
    /\ condSend' = {}
    /\ condRecv' = {}
    /\ UNCHANGED <<ring, freed, call, res>>

\* osa_queue_destroy, second half: destroy the condition variables and the
\* mutex, free the buffer and the structure.  Nothing is waited for.
Free ==
    /\ closed
    /\ ~freed
    /\ freed' = TRUE
    /\ UNCHANGED <<ring, closed, conds, call, res>>

Next ==
    \/ \E t \in Threads :
           \/ \E timeout \in Timeouts :
                  \/ \E m \in Msgs : Send(t, m, timeout)
                  \/ Receive(t, timeout)
           \/ ResumeSend(t)
           \/ ExpireSend(t)
           \/ ResumeReceive(t)
           \/ ExpireReceive(t)
           \/ SpuriousWakeup(t)
    \/ Close
    \/ Free

Spec == Init /\ [][Next]_vars

\* A thread that has been woken is scheduled and gets the mutex, which every
\* other thread gives back at the end of its critical section.
Fairness ==
    \A t \in Threads : WF_vars(ResumeSend(t)) /\ WF_vars(ResumeReceive(t))

FairSpec == Spec /\ Fairness

-----------------------------------------------------------------------------
(* Correctness *)

TypeOK ==
    /\ buffer \in [0 .. MaxMsgs - 1 -> Msgs \cup {NoMsg}]
    /\ head \in 0 .. MaxMsgs - 1
    /\ tail \in 0 .. MaxMsgs - 1
    /\ count \in 0 .. MaxMsgs
    /\ closed \in BOOLEAN
    /\ freed \in BOOLEAN
    /\ condSend \subseteq Threads /\ condRecv \subseteq Threads
    /\ wokenSend \subseteq Threads /\ wokenRecv \subseteq Threads
    /\ call \in [Threads -> [msg : Msgs \cup {NoMsg}, timeout : Timeouts]]
    /\ res \in [Threads -> [code : Codes, msg : Msgs \cup {NoMsg}]]

\* The ring (osa_queue.c:28-30): the write position is count positions ahead
\* of the read position, through every wrap-around of the two.
RingConsistent == tail = (head + count) % MaxMsgs

\* Each message signals one thread and each thread leaves one slot
\* (osa_queue.c:183 and 257), while fresh callers may overtake the woken ones,
\* waits may expire and wake-ups may be spurious.  Even so, while a sender
\* sleeps there is a woken sender for every free slot, and while a receiver
\* sleeps there is a woken receiver for every message: no wake-up is lost.
NoLostWakeup ==
    /\ condSend # {} => Cardinality(wokenSend) >= MaxMsgs - count
    /\ condRecv # {} => Cardinality(wokenRecv) >= count

\* osa_queue_destroy wakes the waiting threads of both sides
\* (osa_queue.c:101-102) and no call waits on a closed queue again: nobody is
\* left asleep on a queue that no one will ever signal.
NobodySleepsOnClosed == closed => condSend = {} /\ condRecv = {}

\* The loops around the condition waits (osa_queue.c:150 and 159, 224 and 233)
\* hold a blocking call until its condition is true, so a caller that was
\* ready to wait never sees -EAGAIN, whatever overtakes it.
AgainOnlyIfNonblocking ==
    \A t \in Threads :
        res[t].code = "EAGAIN" => call[t].timeout = "nonblocking"

\* osa_queue_destroy frees the mutex and the condition variables
\* (osa_queue.c:106-111) only when no thread is still inside a call on them.
NoUseAfterFree == freed => Blocked = {}

\* The messages held, oldest first.
Contents == [i \in 1 .. count |-> buffer[(head + i - 1) % MaxMsgs]]

\* What each thread has asked for: a message to send, or NoMsg to receive.
Asked == [t \in Threads |-> call[t].msg]

\* The queue of messages that the callers see (osa_queue.h): bounded, first in
\* first out, nothing lost, duplicated or invented, and every result justified
\* by the queue's state at one moment of the call.
Abstract == INSTANCE BoundedQueue WITH
                msgs <- Contents, open <- ~closed, asked <- Asked, result <- res

ImplementsBoundedQueue == Abstract!Spec

\* A message never lies in the queue while receivers stay blocked, and a slot
\* never stays free while senders stay blocked: the signals of
\* osa_queue.c:183 and 257 reach a thread that uses them.
MessageIsTaken ==
    \A h \in 0 .. MaxMsgs - 1 :
        (head = h /\ ~Empty /\ condRecv \cup wokenRecv # {})
            ~> (head # h \/ condRecv \cup wokenRecv = {} \/ freed)

SlotIsFilled ==
    \A p \in 0 .. MaxMsgs - 1 :
        (tail = p /\ ~Full /\ condSend \cup wokenSend # {})
            ~> (tail # p \/ condSend \cup wokenSend = {} \/ freed)

\* Every call that is blocked when the queue is closed returns, unless the
\* queue is freed first.
ClosedCallsReturn ==
    \A t \in Threads : (closed /\ t \in Blocked) ~> (t \notin Blocked \/ freed)
=============================================================================
