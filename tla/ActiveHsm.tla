----------------------------- MODULE ActiveHsm -----------------------------
(***************************************************************************)
(* Active state machines (core/osa_hsm.c): each has a dispatcher thread    *)
(* that takes events from a message queue and calls the handler of the     *)
(* current state, and a periodic timer (platform/linux/osa_timer.c).       *)
(* Events are posted by other threads, by timer callbacks and by the       *)
(* handlers of the machines themselves, which may have to wait for room in *)
(* a full queue, their own included.                                       *)
(*                                                                         *)
(* A message queue is known by its length here: OsaQueue shows that it is  *)
(* a bounded first-in first-out queue.  Hsm models what a handler does to  *)
(* the state of its machine; here a handler posts, sets timers and         *)
(* returns.                                                                *)
(***************************************************************************)
EXTENDS Integers, FiniteSets

CONSTANTS
    Hsms,         \* the active state machines
    Timers,       \* the timer structures that osa_timer_create can allocate
    NULL,         \* the null pointer
    msgq_size,    \* capacity of each message queue
    ResetPeriod,  \* TRUE: a period is also set while the timer is running
    MaxPosts      \* bound: how often one run of a handler posts

ASSUME HsmsAssumption == IsFiniteSet(Hsms) /\ NULL \notin Hsms \cup Timers
ASSUME SizesAssumption == msgq_size \in Nat \ {0} /\ MaxPosts \in Nat
ASSUME UsersAssumption == ResetPeriod \in BOOLEAN

VARIABLES
    pc,           \* pc[h]: where the dispatcher thread of h is
    budget,       \* how many posts the running handler of h may still make
    target,       \* target[h]: whose queue h waits for in a post, or NULL
    forever,      \* the machines that wait there without a timeout
    msg_q,        \* msg_q[h]: the queue handle in h's structure, or NULL
    queued,       \* the number of events in the queue of h
    timer_id,     \* timer_id[h]: the timer handle in h's structure, or NULL
    tick_period,  \* tick_period[h]: 0, or 1 for a period
    owner,        \* owner[t]: the machine given to osa_timer_create, or NULL
    armed,        \* the timers that will expire
    fired         \* the timers whose callback thread has started

dispatchers == <<pc, budget, target, forever>>
queues == <<msg_q, queued>>
timers == <<timer_id, tick_period, owner, armed, fired>>
vars == <<pc, budget, target, forever, msg_q, queued, timer_id, tick_period,
          owner, armed, fired>>

MutantHasRoom(h) == msg_q[h] # NULL /\ queued[h] <= msgq_size

\* A post is accepted at once.
HasRoom(h) == msg_q[h] # NULL /\ queued[h] < msgq_size

MutantFull(h) == msg_q[h] = NULL \/ queued[h] = msgq_size

\* A post has to wait.
Full(h) == msg_q[h] # NULL /\ queued[h] = msgq_size

\* A handler is running: for HSM_SIG_ENTRY of the initial state, or for an
\* event from the queue.
Running(h) == pc[h] \in {"entering", "handling"}

\* osa_hsm_active_init; the structures are zero before.
Init ==
    /\ pc = [h \in Hsms |-> "off"]
    /\ budget = [h \in Hsms |-> 0]
    /\ target = [h \in Hsms |-> NULL]
    /\ forever = {}
    /\ msg_q = [h \in Hsms |-> NULL]
    /\ queued = [h \in Hsms |-> 0]
    /\ timer_id = [h \in Hsms |-> NULL]
    /\ tick_period = [h \in Hsms |-> 0]
    /\ owner = [t \in Timers |-> NULL]
    /\ armed = {}
    /\ fired = {}

-----------------------------------------------------------------------------
(* osa_hsm_active_start and osa_hsm_active_run *)

\* The dispatcher thread is created and runs STATE_INIT: the handler of the
\* initial state.
Start(h) ==
    /\ pc[h] = "off"
    /\ pc' = [pc EXCEPT ![h] = "entering"]
    /\ budget' = [budget EXCEPT ![h] = MaxPosts]
    /\ UNCHANGED <<target, forever, queues, timers>>

\* The handler returns.  After the first one the thread creates its queue.
HandlerReturns(h) ==
    /\ Running(h)
    /\ pc' = [pc EXCEPT ![h] = IF @ = "entering" THEN "creating" ELSE "receiving"]
    /\ budget' = [budget EXCEPT ![h] = 0]
    /\ UNCHANGED <<target, forever, queues, timers>>

CreateQueue(h) ==
    /\ pc[h] = "creating"
    /\ pc' = [pc EXCEPT ![h] = "receiving"]
    /\ msg_q' = [msg_q EXCEPT ![h] = h]
    /\ UNCHANGED <<budget, target, forever, queued, timers>>

\* osa_queue_create fails: the thread exits, the machine stays without a queue.
CreateQueueFails(h) ==
    /\ pc[h] = "creating"
    /\ pc' = [pc EXCEPT ![h] = "exited"]
    /\ UNCHANGED <<budget, target, forever, queues, timers>>

\* osa_queue_receive returns an event, and the handler is called with it.
ReceiveEvent(h) ==
    /\ pc[h] = "receiving"
    /\ queued[h] > 0
    /\ queued' = [queued EXCEPT ![h] = @ - 1]
    /\ pc' = [pc EXCEPT ![h] = "handling"]
    /\ budget' = [budget EXCEPT ![h] = MaxPosts]
    /\ UNCHANGED <<target, forever, msg_q, timers>>

-----------------------------------------------------------------------------
(* osa_hsm_active_event_post *)

\* An event is accepted.  A post to a machine without a queue, or a post that
\* does not wait to one whose queue is full, fails and changes nothing.
Put(g) == queued' = [queued EXCEPT ![g] = @ + 1]

\* Any other thread posts, with any timeout.
ClientPosts(g) ==
    /\ HasRoom(g)
    /\ Put(g)
    /\ UNCHANGED <<dispatchers, msg_q, timers>>

\* The running handler of h posts to g (g = h is allowed).
HandlerPosts(h, g) ==
    /\ Running(h)
    /\ budget[h] > 0
    /\ HasRoom(g)
    /\ Put(g)
    /\ budget' = [budget EXCEPT ![h] = @ - 1]
    /\ UNCHANGED <<pc, target, forever, msg_q, timers>>

\* The queue of g is full, and the handler of h waits for room: with a timeout,
\* or with the timeout -1 (osa_hsm.h:106) until there is room.
HandlerWaits(h, g) ==
    /\ Running(h)
    /\ budget[h] > 0
    /\ Full(g)
    /\ target' = [target EXCEPT ![h] = g]
    /\ budget' = [budget EXCEPT ![h] = @ - 1]
    /\ pc' = [pc EXCEPT ![h] = IF @ = "entering" THEN "entering, waits"
                                                 ELSE "handling, waits"]
    /\ forever' \in {forever, forever \cup {h}}
    /\ UNCHANGED <<queues, timers>>

Waiting(h) == pc[h] \in {"entering, waits", "handling, waits"}

\* The handler goes on.
Resume(h) ==
    /\ target' = [target EXCEPT ![h] = NULL]
    /\ forever' = forever \ {h}
    /\ pc' = [pc EXCEPT ![h] = IF @ = "entering, waits" THEN "entering"
                                                        ELSE "handling"]

WaitSucceeds(h) ==
    /\ Waiting(h)
    /\ HasRoom(target[h])
    /\ Put(target[h])
    /\ Resume(h)
    /\ UNCHANGED <<budget, msg_q, timers>>

MutantWaitExpires(h) ==
    /\ Waiting(h)
    /\ h \notin forever
    /\ ~Full(target[h])
    /\ Resume(h)
    /\ UNCHANGED <<budget, queues, timers>>

\* -ETIMEDOUT: a wait with a timeout ends, full as the queue may be.
WaitExpires(h) ==
    /\ Waiting(h)
    /\ h \notin forever
    /\ Resume(h)
    /\ UNCHANGED <<budget, queues, timers>>

-----------------------------------------------------------------------------
(* osa_hsm_active_period, and the timer.  Each call is one step: nobody     *)
(* reads tick_period, the callback does not read timer_id, and one thread  *)
(* sets the period of a machine, so that no other thread can tell the      *)
(* order of the two stores.                                                *)

\* period # 0: a new timer is created and armed, whatever timer_id held.
SetPeriod(h, t) ==
    /\ owner[t] = NULL
    /\ ResetPeriod \/ timer_id[h] \notin armed
    /\ owner' = [owner EXCEPT ![t] = h]
    /\ armed' = armed \cup {t}
    /\ timer_id' = [timer_id EXCEPT ![h] = t]
    /\ tick_period' = [tick_period EXCEPT ![h] = 1]
    /\ UNCHANGED <<dispatchers, queues, fired>>

\* osa_timer_create fails; the period is stored all the same.
SetPeriodFails(h) ==
    /\ ResetPeriod \/ timer_id[h] \notin armed
    /\ tick_period' = [tick_period EXCEPT ![h] = 1]
    /\ UNCHANGED <<dispatchers, queues, timer_id, owner, armed, fired>>

MutantDisarm(h) == UNCHANGED armed

\* osa_timer_stop; without a timer it returns -EINVAL.  The timer's structure
\* is kept: osa_timer_delete is never called.
Disarm(h) == armed' = armed \ {timer_id[h]}

\* period = 0
ClearPeriod(h) ==
    /\ Disarm(h)
    /\ tick_period' = [tick_period EXCEPT ![h] = 0]
    /\ UNCHANGED <<dispatchers, queues, timer_id, owner, fired>>

\* A timer expires and a thread for its callback starts (SIGEV_THREAD).  Bound:
\* at most one callback of a timer is on its way at a time.
Expire(t) ==
    /\ t \in armed
    /\ fired' = fired \cup {t}
    /\ UNCHANGED <<dispatchers, queues, timer_id, tick_period, owner, armed>>

\* oas_hsm_timer_handler posts HSM_SIG_PERIOD with timeout 0 and is done, even
\* if the timer has been stopped since.
TimerPosts(t) ==
    /\ t \in fired
    /\ fired' = fired \ {t}
    /\ IF HasRoom(owner[t]) THEN Put(owner[t]) ELSE UNCHANGED queued
    /\ UNCHANGED <<dispatchers, msg_q, timer_id, tick_period, owner, armed>>

-----------------------------------------------------------------------------

Dispatcher(h) ==
    \/ HandlerReturns(h)
    \/ CreateQueue(h)
    \/ CreateQueueFails(h)
    \/ ReceiveEvent(h)
    \/ WaitSucceeds(h)
    \/ WaitExpires(h)

Next ==
    \/ \E h \in Hsms :
           \/ Start(h)
           \/ Dispatcher(h)
           \/ ClientPosts(h)
           \/ \E g \in Hsms : HandlerPosts(h, g) \/ HandlerWaits(h, g)
           \/ \E t \in Timers : SetPeriod(h, t)
           \/ SetPeriodFails(h)
           \/ ClearPeriod(h)
    \/ \E t \in Timers : Expire(t) \/ TimerPosts(t)

Spec == Init /\ [][Next]_vars

\* Dispatcher threads are scheduled, handlers that do not wait return, and the
\* clock of a wait with a timeout runs.  A thread that waits without one gets no
\* turn for being woken: others may take the room first, again and again.
Fairness == \A h \in Hsms : WF_vars(Dispatcher(h))

FairSpec == Spec /\ Fairness

-----------------------------------------------------------------------------
(* Correctness *)

TypeOK ==
    /\ pc \in [Hsms -> {"off", "entering", "entering, waits", "creating",
                        "receiving", "handling", "handling, waits", "exited"}]
    /\ budget \in [Hsms -> 0 .. MaxPosts]
    /\ target \in [Hsms -> Hsms \cup {NULL}]
    /\ forever \subseteq Hsms
    /\ msg_q \in [Hsms -> Hsms \cup {NULL}]
    /\ queued \in [Hsms -> 0 .. msgq_size]
    /\ timer_id \in [Hsms -> Timers \cup {NULL}]
    /\ tick_period \in [Hsms -> {0, 1}]
    /\ owner \in [Timers -> Hsms \cup {NULL}]
    /\ armed \subseteq Timers
    /\ fired \subseteq Timers

\* After osa_hsm_active_period(hsm, 0) no timer goes on posting to the machine
\* (osa_hsm.c:167-174): the handle it keeps is the handle of the one timer that
\* may be running.
NoTickWhenDisabled ==
    \A h \in Hsms : tick_period[h] = 0 => \A t \in armed : owner[t] # h

\* A handler that posts waits only for a machine whose dispatcher exists and
\* has opened its queue (osa_hsm.c:134), so that room can appear at all; and it
\* never waits in its initial state for its own queue, which is not there yet.
WaitsForALiveMachine ==
    \A h \in Hsms : Waiting(h) =>
        /\ pc[target[h]] \in {"receiving", "handling", "handling, waits"}
        /\ pc[h] = "entering, waits" => target[h] # h

\* A circle of waits without a timeout, which h is in or leads to: every machine
\* of the circle waits for room that only another of them, or itself, can make.
Jam(h) ==
    \E S \in SUBSET Hsms :
        /\ h \in S
        /\ \A g \in S : /\ g \in forever
                        /\ target[g] \in S
                        /\ msg_q[target[g]] # NULL
                        /\ queued[target[g]] = msgq_size

\* A wait without a timeout never ends although there is room again and again:
\* other callers take it before the thread that was woken (osa_queue.c:157).
Starves(h) ==
    /\ <>[](h \in forever)
    /\ []<>(h \in forever /\ HasRoom(target[h]))

\* Machines that post to each other and to themselves (hsm_simulate.c:114-142)
\* block each other for good in one way only: by a circle of waits without a
\* timeout.  A full queue gets room again, whatever waits with a timeout and
\* waits of the other kind its machine and the others are in, or its machine is
\* caught in such a circle, or some wait starves.
FullQueueDrains ==
    \/ \E g \in Hsms : Starves(g)
    \/ \A h \in Hsms : Full(h) ~> (~Full(h) \/ Jam(h))

\* A machine that is started opens its queue, so that posts to it are accepted
\* (osa_hsm.c:58-76), or its thread exits.  Its initial handler may post and
\* wait before; it is held up for good only behind a circle of waits without a
\* timeout, which it cannot be part of, or by a wait that starves.
QueueOpens ==
    \/ \E g \in Hsms : Starves(g)
    \/ \A h \in Hsms :
           pc[h] = "entering" ~> (msg_q[h] # NULL \/ pc[h] = "exited" \/ Jam(h))
=============================================================================
