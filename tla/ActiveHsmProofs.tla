-------------------------- MODULE ActiveHsmProofs --------------------------
(***************************************************************************)
(* Proofs about the active state machines, for any number of machines and  *)
(* timers and any queue size.                                              *)
(***************************************************************************)
EXTENDS ActiveHsm, TLAPS

\* A zeroed machine has the right types.
LEMMA TypeInit == Init => TypeOK
  BY HsmsAssumption, SizesAssumption DEF Init, TypeOK

\* TypeOK in three parts: the control points and links of the dispatchers, the
\* two counters, and the timers.  Few steps change two of them.
PointersOK ==
    /\ pc \in [Hsms -> {"off", "entering", "entering, waits", "creating",
                        "receiving", "handling", "handling, waits", "exited"}]
    /\ target \in [Hsms -> Hsms \cup {NULL}]
    /\ forever \subseteq Hsms
    /\ msg_q \in [Hsms -> Hsms \cup {NULL}]

CountersOK == /\ budget \in [Hsms -> 0 .. MaxPosts]
              /\ queued \in [Hsms -> 0 .. msgq_size]

TimersOK == /\ timer_id \in [Hsms -> Timers \cup {NULL}]
            /\ tick_period \in [Hsms -> {0, 1}]
            /\ owner \in [Timers -> Hsms \cup {NULL}]
            /\ armed \subseteq Timers
            /\ fired \subseteq Timers

\* The parts are TypeOK, before a step and after it.
LEMMA Parts == /\ TypeOK <=> PointersOK /\ CountersOK /\ TimersOK
               /\ TypeOK' <=> PointersOK' /\ CountersOK' /\ TimersOK'
  <1>1. TypeOK <=> PointersOK /\ CountersOK /\ TimersOK
    BY DEF TypeOK, PointersOK, CountersOK, TimersOK
  <1>2. TypeOK' <=> PointersOK' /\ CountersOK' /\ TimersOK'
    BY DEF TypeOK, PointersOK, CountersOK, TimersOK
  <1> QED BY <1>1, <1>2

\* No step stores anything but a control point, a machine or NULL.
LEMMA PointersStep ==
    ASSUME PointersOK, Next PROVE PointersOK'
  <1> USE PointersOK DEF PointersOK
  <1>1. ASSUME NEW h \in Hsms, Start(h) \/ HandlerReturns(h) PROVE PointersOK'
    BY <1>1 DEF Start, HandlerReturns, queues
  <1>2. ASSUME NEW h \in Hsms, CreateQueue(h) \/ CreateQueueFails(h)
        PROVE  PointersOK'
    BY <1>2 DEF CreateQueue, CreateQueueFails, queues
  <1>3. ASSUME NEW h \in Hsms, ReceiveEvent(h) \/ ClientPosts(h)
        PROVE  PointersOK'
    BY <1>3 DEF ReceiveEvent, ClientPosts, dispatchers
  <1>4. ASSUME NEW h \in Hsms, NEW g \in Hsms, HandlerPosts(h, g) \/ HandlerWaits(h, g)
        PROVE  PointersOK'
    <2>1. CASE HandlerPosts(h, g)
      BY <2>1 DEF HandlerPosts
    <2>2. CASE HandlerWaits(h, g)
      <3>1. forever' \subseteq Hsms
        BY <2>2 DEF HandlerWaits
      <3>2. /\ msg_q' = msg_q
            /\ target' = [target EXCEPT ![h] = g]
            /\ pc' = [pc EXCEPT ![h] = IF pc[h] = "entering" THEN "entering, waits"
                                                            ELSE "handling, waits"]
        BY <2>2 DEF HandlerWaits, queues
      <3> QED BY <3>1, <3>2
    <2> QED BY <1>4, <2>1, <2>2
  <1>5. ASSUME NEW h \in Hsms, WaitSucceeds(h) \/ WaitExpires(h) PROVE PointersOK'
    BY <1>5 DEF WaitSucceeds, WaitExpires, Resume, queues
  <1>6. ASSUME NEW h \in Hsms,
               \/ \E t \in Timers : SetPeriod(h, t)
               \/ SetPeriodFails(h)
               \/ ClearPeriod(h)
        PROVE  PointersOK'
    BY <1>6 DEF SetPeriod, SetPeriodFails, ClearPeriod, dispatchers, queues
  <1>7. ASSUME NEW t \in Timers, Expire(t) \/ TimerPosts(t) PROVE PointersOK'
    BY <1>7 DEF Expire, TimerPosts, dispatchers, queues
  <1> QED BY <1>1, <1>2, <1>3, <1>4, <1>5, <1>6, <1>7, Next DEF Next, Dispatcher

\* A post that is accepted finds room, and puts nothing outside the machines.
LEMMA PutStep ==
    ASSUME CountersOK, NEW g, HasRoom(g), Put(g)
    PROVE  queued' \in [Hsms -> 0 .. msgq_size]
  <1>1. queued \in [Hsms -> 0 .. msgq_size] BY CountersOK DEF CountersOK
  <1>2. queued[g] < msgq_size BY HasRoom(g) DEF HasRoom
  <1>3. queued' = [queued EXCEPT ![g] = queued[g] + 1] BY Put(g) DEF Put
  <1>4. CASE g \in Hsms
    <2>1. queued[g] + 1 \in 0 .. msgq_size
      BY <1>1, <1>2, <1>4, SizesAssumption
    <2> QED BY <1>1, <1>3, <2>1
  <1>5. CASE g \notin Hsms
    BY <1>1, <1>3, <1>5
  <1> QED BY <1>4, <1>5

\* The counters stay within their bounds.
LEMMA CountersStep ==
    ASSUME CountersOK, Next PROVE CountersOK'
  <1>1. /\ budget \in [Hsms -> 0 .. MaxPosts]
        /\ queued \in [Hsms -> 0 .. msgq_size]
    BY CountersOK DEF CountersOK
  <1>2. 0 \in 0 .. MaxPosts /\ MaxPosts \in 0 .. MaxPosts
    BY SizesAssumption
  <1>3. \A n \in 0 .. MaxPosts : n > 0 => n - 1 \in 0 .. MaxPosts
    BY SizesAssumption
  <1>4. \A n \in 0 .. msgq_size : n > 0 => n - 1 \in 0 .. msgq_size
    BY SizesAssumption
  <1>5. ASSUME NEW h \in Hsms, Start(h) \/ HandlerReturns(h) PROVE CountersOK'
    BY <1>1, <1>2, <1>5 DEF Start, HandlerReturns, queues, CountersOK
  <1>6. ASSUME NEW h \in Hsms, CreateQueue(h) \/ CreateQueueFails(h) \/ WaitExpires(h)
        PROVE  CountersOK'
    BY <1>1, <1>6 DEF CreateQueue, CreateQueueFails, WaitExpires, queues, CountersOK
  <1>7. ASSUME NEW h \in Hsms, ReceiveEvent(h) PROVE CountersOK'
    <2>1. queued[h] - 1 \in 0 .. msgq_size
      BY <1>1, <1>4, <1>7 DEF ReceiveEvent
    <2> QED BY <1>1, <1>2, <1>7, <2>1 DEF ReceiveEvent, CountersOK
  <1>8. ASSUME NEW h \in Hsms, ClientPosts(h) PROVE CountersOK'
    BY <1>1, <1>8, PutStep, CountersOK DEF ClientPosts, dispatchers, CountersOK
  <1>9. ASSUME NEW h \in Hsms, NEW g \in Hsms, HandlerPosts(h, g) \/ HandlerWaits(h, g)
        PROVE  CountersOK'
    <2>1. budget[h] - 1 \in 0 .. MaxPosts
      BY <1>1, <1>3, <1>9 DEF HandlerPosts, HandlerWaits
    <2>2. budget' \in [Hsms -> 0 .. MaxPosts]
      BY <1>1, <1>9, <2>1 DEF HandlerPosts, HandlerWaits
    <2>3. queued' \in [Hsms -> 0 .. msgq_size]
      BY <1>1, <1>9, PutStep, CountersOK DEF HandlerPosts, HandlerWaits, queues
    <2> QED BY <2>2, <2>3 DEF CountersOK
  <1>10. ASSUME NEW h \in Hsms, WaitSucceeds(h) PROVE CountersOK'
    BY <1>1, <1>10, PutStep, CountersOK DEF WaitSucceeds, CountersOK
  <1>11. ASSUME NEW h \in Hsms,
                \/ \E t \in Timers : SetPeriod(h, t)
                \/ SetPeriodFails(h)
                \/ ClearPeriod(h)
         PROVE  CountersOK'
    BY <1>1, <1>11 DEF SetPeriod, SetPeriodFails, ClearPeriod, dispatchers,
                       queues, CountersOK
  <1>12. ASSUME NEW t \in Timers, Expire(t) PROVE CountersOK'
    BY <1>1, <1>12 DEF Expire, dispatchers, queues, CountersOK
  <1>13. ASSUME NEW t \in Timers, TimerPosts(t) PROVE CountersOK'
    <2>1. budget' = budget BY <1>13 DEF TimerPosts, dispatchers
    <2>2. CASE HasRoom(owner[t])
      BY <1>1, <1>13, <2>1, <2>2, PutStep, CountersOK DEF TimerPosts, CountersOK
    <2>3. CASE ~HasRoom(owner[t])
      BY <1>1, <1>13, <2>1, <2>3 DEF TimerPosts, CountersOK
    <2> QED BY <2>2, <2>3
  <1> QED BY <1>5, <1>6, <1>7, <1>8, <1>9, <1>10, <1>11, <1>12, <1>13, Next
          DEF Next, Dispatcher

\* No step stores anything but a machine, a timer or NULL in the timers.
LEMMA TimerTypesStep ==
    ASSUME TimersOK, Next PROVE TimersOK'
  <1> USE TimersOK DEF TimersOK
  <1>1. ASSUME UNCHANGED timers PROVE TimersOK'
    BY <1>1 DEF timers
  <1>2. ASSUME NEW h \in Hsms, NEW t \in Timers, SetPeriod(h, t) PROVE TimersOK'
    BY <1>2 DEF SetPeriod
  <1>3. ASSUME NEW h \in Hsms, SetPeriodFails(h) \/ ClearPeriod(h) PROVE TimersOK'
    BY <1>3 DEF SetPeriodFails, ClearPeriod, Disarm
  <1>4. ASSUME NEW t \in Timers, Expire(t) \/ TimerPosts(t) PROVE TimersOK'
    BY <1>4 DEF Expire, TimerPosts
  <1> QED BY <1>1, <1>2, <1>3, <1>4, Next
          DEF Next, Dispatcher, Start, HandlerReturns, CreateQueue,
              CreateQueueFails, ReceiveEvent, WaitSucceeds, WaitExpires,
              ClientPosts, HandlerPosts, HandlerWaits

\* Every step keeps the types.
LEMMA TypeStep == TypeOK /\ [Next]_vars => TypeOK'
  <1> SUFFICES ASSUME TypeOK, [Next]_vars PROVE TypeOK'
    OBVIOUS
  <1>1. PointersOK /\ CountersOK /\ TimersOK
    BY TypeOK, Parts
  <1>2. CASE Next
    BY <1>1, <1>2, PointersStep, CountersStep, TimerTypesStep, Parts
  <1>3. CASE UNCHANGED vars
    BY <1>3, TypeOK DEF vars, TypeOK
  <1> QED BY <1>2, <1>3, [Next]_vars

\* Types, for every number of machines and timers; the length of a queue never
\* exceeds its capacity.
THEOREM TypeCorrect == Spec => []TypeOK
  BY TypeInit, TypeStep, PTL DEF Spec

-----------------------------------------------------------------------------
(* The timers *)

\* Every running timer is the one whose handle its machine keeps, and that
\* machine has a period.
TimersAreKnown ==
    \A t \in armed : /\ owner[t] \in Hsms
                     /\ timer_id[owner[t]] = t
                     /\ tick_period[owner[t]] = 1

\* If a period is only set while no timer is running, osa_hsm_active_period
\* never loses the handle of a running timer.
LEMMA TimersStep ==
    ASSUME ResetPeriod = FALSE
    PROVE  TypeOK /\ TimersAreKnown /\ [Next]_vars => TimersAreKnown'
  <1> SUFFICES ASSUME TypeOK, TimersAreKnown, [Next]_vars PROVE TimersAreKnown'
    OBVIOUS
  <1>1. /\ timer_id \in [Hsms -> Timers \cup {NULL}]
        /\ tick_period \in [Hsms -> {0, 1}]
        /\ owner \in [Timers -> Hsms \cup {NULL}] /\ armed \subseteq Timers
        /\ NULL \notin Hsms \cup Timers
    BY HsmsAssumption DEF TypeOK
  <1>2. \A t \in armed : /\ owner[t] \in Hsms
                         /\ timer_id[owner[t]] = t
                         /\ tick_period[owner[t]] = 1
    BY DEF TimersAreKnown
  <1>3. ASSUME NEW h \in Hsms, NEW t \in Timers, SetPeriod(h, t)
        PROVE  TimersAreKnown'
    <2>1. /\ owner[t] = NULL /\ timer_id[h] \notin armed
          /\ owner' = [owner EXCEPT ![t] = h] /\ armed' = armed \cup {t}
          /\ timer_id' = [timer_id EXCEPT ![h] = t]
          /\ tick_period' = [tick_period EXCEPT ![h] = 1]
      BY <1>3, ResetPeriod = FALSE DEF SetPeriod
    <2>2. t \notin armed
      BY <1>1, <1>2, <2>1
    <2>3. \A u \in armed : owner[u] # h
      BY <1>2, <2>1
    <2>4. ASSUME NEW u \in armed'
          PROVE  /\ owner'[u] \in Hsms /\ timer_id'[owner'[u]] = u
                 /\ tick_period'[owner'[u]] = 1
      <3>1. CASE u = t
        BY <1>1, <2>1, <3>1
      <3>2. CASE u # t
        <4>1. u \in armed /\ owner'[u] = owner[u] /\ owner[u] # h
          BY <1>1, <2>1, <2>3, <3>2
        <4> QED BY <1>1, <1>2, <2>1, <4>1
      <3> QED BY <3>1, <3>2
    <2> QED BY <2>4 DEF TimersAreKnown
  <1>4. ASSUME NEW h \in Hsms, SetPeriodFails(h) PROVE TimersAreKnown'
    <2>1. /\ tick_period' = [tick_period EXCEPT ![h] = 1]
          /\ UNCHANGED <<timer_id, owner, armed>>
      BY <1>4 DEF SetPeriodFails
    <2> QED BY <1>1, <1>2, <2>1 DEF TimersAreKnown
  <1>5. ASSUME NEW h \in Hsms, ClearPeriod(h) PROVE TimersAreKnown'
    <2>1. /\ armed' = armed \ {timer_id[h]}
          /\ tick_period' = [tick_period EXCEPT ![h] = 0]
          /\ UNCHANGED <<timer_id, owner>>
      BY <1>5 DEF ClearPeriod, Disarm
    <2>2. \A u \in armed' : u \in armed /\ owner[u] # h
      BY <1>2, <2>1
    <2> QED BY <1>1, <1>2, <2>1, <2>2 DEF TimersAreKnown
  <1>6. ASSUME UNCHANGED <<timer_id, tick_period, owner, armed>>
        PROVE  TimersAreKnown'
    BY <1>2, <1>6 DEF TimersAreKnown
  <1>7. ASSUME NEW h \in Hsms,
               \/ Start(h) \/ Dispatcher(h) \/ ClientPosts(h)
               \/ \E g \in Hsms : HandlerPosts(h, g) \/ HandlerWaits(h, g)
        PROVE  UNCHANGED <<timer_id, tick_period, owner, armed>>
    BY <1>7 DEF Start, Dispatcher, HandlerReturns, CreateQueue,
                CreateQueueFails, ReceiveEvent, WaitSucceeds, WaitExpires,
                ClientPosts, HandlerPosts, HandlerWaits, timers
  <1>8. ASSUME NEW t \in Timers, Expire(t) \/ TimerPosts(t)
        PROVE  UNCHANGED <<timer_id, tick_period, owner, armed>>
    BY <1>8 DEF Expire, TimerPosts
  <1>9. CASE UNCHANGED vars
    BY <1>6, <1>9 DEF vars
  <1> QED BY <1>3, <1>4, <1>5, <1>6, <1>7, <1>8, <1>9 DEF Next

\* Clearing the period stops the ticks, for machines that clear it before they
\* set it again.
THEOREM ClearedPeriodIsSilent ==
    ASSUME ResetPeriod = FALSE
    PROVE  Spec => []NoTickWhenDisabled
  <1>1. Init => TypeOK /\ TimersAreKnown
    BY TypeInit DEF Init, TimersAreKnown
  <1>2. TypeOK /\ TimersAreKnown /\ [Next]_vars => TypeOK' /\ TimersAreKnown'
    BY TypeStep, TimersStep, ResetPeriod = FALSE
  <1>3. TimersAreKnown => NoTickWhenDisabled
    BY DEF TimersAreKnown, NoTickWhenDisabled
  <1> QED BY <1>1, <1>2, <1>3, PTL DEF Spec

-----------------------------------------------------------------------------
(* Waiting for room *)

\* A queue exists exactly while its dispatcher is in its loop.
QueueHasReader ==
    /\ \A h \in Hsms :
           msg_q[h] # NULL <=> pc[h] \in {"receiving", "handling", "handling, waits"}
    /\ \A h \in Hsms : Waiting(h) => /\ target[h] \in Hsms
                                     /\ msg_q[target[h]] # NULL

\* No step takes a queue's reader away.
LEMMA ReaderStep == TypeOK /\ QueueHasReader /\ [Next]_vars => QueueHasReader'
  <1> SUFFICES ASSUME TypeOK, QueueHasReader, [Next]_vars PROVE QueueHasReader'
    OBVIOUS
  <1>1. /\ pc \in [Hsms -> {"off", "entering", "entering, waits", "creating",
                            "receiving", "handling", "handling, waits", "exited"}]
        /\ target \in [Hsms -> Hsms \cup {NULL}]
        /\ msg_q \in [Hsms -> Hsms \cup {NULL}] /\ NULL \notin Hsms
    BY HsmsAssumption DEF TypeOK
  <1>2. /\ \A h \in Hsms :
               msg_q[h] # NULL <=> pc[h] \in {"receiving", "handling", "handling, waits"}
        /\ \A h \in Hsms : pc[h] \in {"entering, waits", "handling, waits"} =>
               target[h] \in Hsms /\ msg_q[target[h]] # NULL
    BY DEF QueueHasReader, Waiting
  <1> USE <1>1, <1>2 DEF QueueHasReader, Waiting
  <1>3. ASSUME NEW h \in Hsms, Start(h) PROVE QueueHasReader'
    BY <1>3 DEF Start, queues
  <1>4. ASSUME NEW h \in Hsms, HandlerReturns(h) PROVE QueueHasReader'
    BY <1>4 DEF HandlerReturns, Running, queues
  <1>5. ASSUME NEW h \in Hsms, CreateQueue(h) PROVE QueueHasReader'
    BY <1>5 DEF CreateQueue
  <1>6. ASSUME NEW h \in Hsms, CreateQueueFails(h) PROVE QueueHasReader'
    BY <1>6 DEF CreateQueueFails, queues
  <1>7. ASSUME NEW h \in Hsms, ReceiveEvent(h) PROVE QueueHasReader'
    BY <1>7 DEF ReceiveEvent
  <1>8. ASSUME NEW h \in Hsms, NEW g \in Hsms, HandlerWaits(h, g) PROVE QueueHasReader'
    <2>1. /\ msg_q' = msg_q /\ msg_q[g] # NULL
          /\ pc[h] \in {"entering", "handling"}
          /\ pc' = [pc EXCEPT ![h] = IF pc[h] = "entering" THEN "entering, waits"
                                                          ELSE "handling, waits"]
          /\ target' = [target EXCEPT ![h] = g]
      BY <1>8 DEF HandlerWaits, Running, Full, queues
    <2>2. \A i \in Hsms :
              msg_q'[i] # NULL <=> pc'[i] \in {"receiving", "handling", "handling, waits"}
      BY <2>1
    <2>3. ASSUME NEW i \in Hsms, pc'[i] \in {"entering, waits", "handling, waits"}
          PROVE  target'[i] \in Hsms /\ msg_q'[target'[i]] # NULL
      <3>1. CASE i = h
        BY <2>1, <3>1
      <3>2. CASE i # h
        BY <2>1, <2>3, <3>2
      <3> QED BY <3>1, <3>2
    <2> QED BY <2>2, <2>3
  <1>9. ASSUME NEW h \in Hsms, WaitSucceeds(h) \/ WaitExpires(h) PROVE QueueHasReader'
    <2>1. /\ msg_q' = msg_q
          /\ pc[h] \in {"entering, waits", "handling, waits"}
          /\ pc' = [pc EXCEPT ![h] = IF pc[h] = "entering, waits" THEN "entering"
                                                                 ELSE "handling"]
          /\ target' = [target EXCEPT ![h] = NULL]
      BY <1>9 DEF WaitSucceeds, WaitExpires, Resume, queues
    <2>2. \A i \in Hsms :
              msg_q'[i] # NULL <=> pc'[i] \in {"receiving", "handling", "handling, waits"}
      BY <2>1
    <2>3. ASSUME NEW i \in Hsms, pc'[i] \in {"entering, waits", "handling, waits"}
          PROVE  target'[i] \in Hsms /\ msg_q'[target'[i]] # NULL
      <3>1. i # h
        BY <2>1, <2>3
      <3> QED BY <2>1, <2>3, <3>1
    <2> QED BY <2>2, <2>3
  <1>10. ASSUME UNCHANGED <<pc, target, msg_q>> PROVE QueueHasReader'
    BY <1>10
  <1>11. ASSUME NEW h \in Hsms,
                \/ ClientPosts(h) \/ \E g \in Hsms : HandlerPosts(h, g)
                \/ \E t \in Timers : SetPeriod(h, t)
                \/ SetPeriodFails(h) \/ ClearPeriod(h)
         PROVE  UNCHANGED <<pc, target, msg_q>>
    BY <1>11 DEF ClientPosts, HandlerPosts, SetPeriod, SetPeriodFails,
                 ClearPeriod, dispatchers, queues
  <1>12. ASSUME NEW t \in Timers, Expire(t) \/ TimerPosts(t)
         PROVE  UNCHANGED <<pc, target, msg_q>>
    BY <1>12 DEF Expire, TimerPosts, dispatchers, queues
  <1>13. CASE UNCHANGED vars
    BY <1>10, <1>13 DEF vars
  <1> QED BY <1>3, <1>4, <1>5, <1>6, <1>7, <1>8, <1>9, <1>10, <1>11, <1>12,
             <1>13 DEF Next, Dispatcher

\* A handler waits only for a queue that has a reader.
THEOREM WaitsHaveAReader == Spec => []WaitsForALiveMachine
  <1>1. Init => TypeOK /\ QueueHasReader
    <2>1. Init => QueueHasReader
      BY DEF Init, QueueHasReader, Waiting
    <2> QED BY <2>1, TypeInit
  <1>2. TypeOK /\ QueueHasReader /\ [Next]_vars => TypeOK' /\ QueueHasReader'
    BY TypeStep, ReaderStep
  <1>3. QueueHasReader => WaitsForALiveMachine
    BY DEF QueueHasReader, WaitsForALiveMachine, Waiting
  <1> QED BY <1>1, <1>2, <1>3, PTL DEF Spec

-----------------------------------------------------------------------------
(* The circle of waits *)

\* Only a machine that waits waits for ever.
ForeverWaits == \A h \in forever : Waiting(h)

\* A handler stops waiting when it goes on.
LEMMA ForeverStep == TypeOK /\ ForeverWaits /\ [Next]_vars => ForeverWaits'
  <1> SUFFICES ASSUME TypeOK, ForeverWaits, [Next]_vars PROVE ForeverWaits'
    OBVIOUS
  <1>1. /\ pc \in [Hsms -> {"off", "entering", "entering, waits", "creating",
                            "receiving", "handling", "handling, waits", "exited"}]
        /\ forever \subseteq Hsms
    BY DEF TypeOK
  <1>2. \A h \in forever : pc[h] \in {"entering, waits", "handling, waits"}
    BY DEF ForeverWaits, Waiting
  <1> USE <1>1, <1>2 DEF ForeverWaits, Waiting
  <1>3. ASSUME NEW h \in Hsms, Start(h) \/ HandlerReturns(h) PROVE ForeverWaits'
    BY <1>3 DEF Start, HandlerReturns, Running
  <1>4. ASSUME NEW h \in Hsms,
               CreateQueue(h) \/ CreateQueueFails(h) \/ ReceiveEvent(h)
        PROVE  ForeverWaits'
    BY <1>4 DEF CreateQueue, CreateQueueFails, ReceiveEvent
  <1>5. ASSUME NEW h \in Hsms, NEW g \in Hsms, HandlerWaits(h, g) PROVE ForeverWaits'
    <2>1. /\ forever' \subseteq forever \cup {h}
          /\ pc[h] \in {"entering", "handling"}
          /\ pc' = [pc EXCEPT ![h] = IF pc[h] = "entering" THEN "entering, waits"
                                                          ELSE "handling, waits"]
      BY <1>5 DEF HandlerWaits, Running
    <2> QED BY <2>1
  <1>6. ASSUME NEW h \in Hsms, WaitSucceeds(h) \/ WaitExpires(h) PROVE ForeverWaits'
    BY <1>6 DEF WaitSucceeds, WaitExpires, Resume
  <1>7. ASSUME UNCHANGED <<pc, forever>> PROVE ForeverWaits'
    BY <1>7
  <1>8. ASSUME NEW h \in Hsms,
               \/ ClientPosts(h) \/ \E g \in Hsms : HandlerPosts(h, g)
               \/ \E t \in Timers : SetPeriod(h, t)
               \/ SetPeriodFails(h) \/ ClearPeriod(h)
        PROVE  UNCHANGED <<pc, forever>>
    BY <1>8 DEF ClientPosts, HandlerPosts, SetPeriod, SetPeriodFails,
                ClearPeriod, dispatchers
  <1>9. ASSUME NEW t \in Timers, Expire(t) \/ TimerPosts(t)
        PROVE  UNCHANGED <<pc, forever>>
    BY <1>9 DEF Expire, TimerPosts, dispatchers
  <1>10. CASE UNCHANGED vars
    BY <1>7, <1>10 DEF vars
  <1> QED BY <1>3, <1>4, <1>5, <1>6, <1>7, <1>8, <1>9, <1>10 DEF Next, Dispatcher

\* The machines of S wait in a circle without a timeout.
Circle(S) == \A g \in S : /\ g \in forever
                          /\ target[g] \in S
                          /\ msg_q[target[g]] # NULL
                          /\ queued[target[g]] = msgq_size

\* No machine of a circle ends its wait, and nobody changes the queues of the
\* circle: they have no room for a post, and their readers wait.
LEMMA CircleStep ==
    ASSUME TypeOK, ForeverWaits, [Next]_vars,
           NEW S \in SUBSET Hsms, Circle(S)
    PROVE  Circle(S)'
  <1>1. /\ pc \in [Hsms -> {"off", "entering", "entering, waits", "creating",
                            "receiving", "handling", "handling, waits", "exited"}]
        /\ forever \subseteq Hsms
        /\ target \in [Hsms -> Hsms \cup {NULL}]
        /\ msg_q \in [Hsms -> Hsms \cup {NULL}]
        /\ queued \in [Hsms -> 0 .. msgq_size]
    BY TypeOK DEF TypeOK
  <1>2. \A g \in S : /\ g \in Hsms /\ g \in forever
                     /\ pc[g] \in {"entering, waits", "handling, waits"}
                     /\ target[g] \in S /\ target[g] \in Hsms
                     /\ msg_q[target[g]] # NULL
                     /\ queued[target[g]] = msgq_size
    BY ForeverWaits, Circle(S) DEF ForeverWaits, Waiting, Circle
  <1>3. \A g \in S : ~HasRoom(target[g])
    <2>1. \A g \in S : queued[target[g]] = msgq_size BY <1>2
    <2>2. ~(msgq_size < msgq_size) BY SizesAssumption
    <2> QED BY <2>1, <2>2, Zenon DEF HasRoom
  <1>4. ASSUME NEW f \in Hsms, f \notin S,
               \A g \in Hsms \ {f} : target'[g] = target[g],
               forever \ {f} \subseteq forever', msg_q' = msg_q, queued' = queued
        PROVE  Circle(S)'
    BY <1>2, <1>4 DEF Circle
  <1>5. ASSUME UNCHANGED <<target, forever>>,
               \A g \in S : /\ msg_q'[target[g]] = msg_q[target[g]]
                            /\ queued'[target[g]] = queued[target[g]]
        PROVE  Circle(S)'
    BY <1>2, <1>5 DEF Circle
  <1>6. ASSUME NEW f \in Hsms, Put(f), HasRoom(f)
        PROVE  \A g \in S : queued'[target[g]] = queued[target[g]]
    <2>1. \A g \in S : target[g] # f BY <1>3, <1>6
    <2> QED BY <1>1, <1>2, <1>6, <2>1 DEF Put
  <1>7. ASSUME NEW h \in Hsms, Start(h) \/ HandlerReturns(h) \/ CreateQueueFails(h)
        PROVE  Circle(S)'
    BY <1>5, <1>7 DEF Start, HandlerReturns, CreateQueueFails, queues
  <1>8. ASSUME NEW h \in Hsms, CreateQueue(h) PROVE Circle(S)'
    <2>1. \A g \in S : target[g] # h
      BY <1>2, <1>8 DEF CreateQueue
    <2>2. \A g \in S : msg_q'[target[g]] = msg_q[target[g]]
      BY <1>1, <1>2, <1>8, <2>1 DEF CreateQueue
    <2> QED BY <1>5, <1>8, <2>2 DEF CreateQueue
  <1>9. ASSUME NEW h \in Hsms, ReceiveEvent(h) PROVE Circle(S)'
    <2>1. \A g \in S : target[g] # h
      BY <1>2, <1>9 DEF ReceiveEvent
    <2>2. \A g \in S : queued'[target[g]] = queued[target[g]]
      BY <1>1, <1>2, <1>9, <2>1 DEF ReceiveEvent
    <2> QED BY <1>5, <1>9, <2>2 DEF ReceiveEvent
  <1>10. ASSUME NEW h \in Hsms, ClientPosts(h) PROVE Circle(S)'
    BY <1>5, <1>6, <1>10 DEF ClientPosts, dispatchers
  <1>11. ASSUME NEW h \in Hsms, NEW g \in Hsms, HandlerPosts(h, g) PROVE Circle(S)'
    BY <1>5, <1>6, <1>11 DEF HandlerPosts
  <1>12. ASSUME NEW h \in Hsms, NEW g \in Hsms, HandlerWaits(h, g) PROVE Circle(S)'
    <2>1. h \notin S
      BY <1>2, <1>12 DEF HandlerWaits, Running
    <2>2. /\ \A i \in Hsms \ {h} : target'[i] = target[i]
          /\ forever \ {h} \subseteq forever'
      BY <1>1, <1>12 DEF HandlerWaits
    <2>3. msg_q' = msg_q /\ queued' = queued
      BY <1>12 DEF HandlerWaits, queues
    <2> QED BY <1>4, <2>1, <2>2, <2>3
  <1>13. ASSUME NEW h \in Hsms, WaitExpires(h) PROVE Circle(S)'
    <2>1. h \notin S
      BY <1>2, <1>13 DEF WaitExpires
    <2>2. /\ \A i \in Hsms \ {h} : target'[i] = target[i]
          /\ forever \ {h} \subseteq forever'
      BY <1>1, <1>13 DEF WaitExpires, Resume
    <2>3. msg_q' = msg_q /\ queued' = queued
      BY <1>13 DEF WaitExpires, queues
    <2> QED BY <1>4, <2>1, <2>2, <2>3
  <1>14. ASSUME NEW h \in Hsms, WaitSucceeds(h) PROVE Circle(S)'
    <2>1. h \notin S
      BY <1>3, <1>14 DEF WaitSucceeds
    <2>2. /\ \A i \in S : target'[i] = target[i]
          /\ \A i \in S : i \in forever'
      BY <1>1, <1>2, <1>14, <2>1 DEF WaitSucceeds, Resume
    <2>3. \A i \in S : queued'[target[i]] = queued[target[i]]
      <3>1. Put(target[h]) /\ HasRoom(target[h])
        BY <1>14 DEF WaitSucceeds
      <3>2. \A i \in S : target[i] # target[h] BY <1>3, <3>1
      <3> QED BY <1>1, <1>2, <3>1, <3>2 DEF Put
    <2>4. msg_q' = msg_q BY <1>14 DEF WaitSucceeds
    <2> QED BY <1>2, <2>2, <2>3, <2>4 DEF Circle
  <1>15. ASSUME NEW h \in Hsms,
                \/ \E t \in Timers : SetPeriod(h, t)
                \/ SetPeriodFails(h) \/ ClearPeriod(h)
         PROVE  Circle(S)'
    BY <1>5, <1>15 DEF SetPeriod, SetPeriodFails, ClearPeriod, dispatchers, queues
  <1>16. ASSUME NEW t \in Timers, Expire(t) PROVE Circle(S)'
    BY <1>5, <1>16 DEF Expire, dispatchers, queues
  <1>17. ASSUME NEW t \in Timers, TimerPosts(t) PROVE Circle(S)'
    <2>1. \A g \in S : queued'[target[g]] = queued[target[g]]
      <3>1. CASE HasRoom(owner[t])
        <4>1. Put(owner[t]) BY <1>17, <3>1 DEF TimerPosts
        <4>2. \A g \in S : target[g] # owner[t] BY <1>3, <3>1
        <4> QED BY <1>1, <1>2, <4>1, <4>2 DEF Put
      <3>2. CASE ~HasRoom(owner[t])
        BY <1>17, <3>2 DEF TimerPosts
      <3> QED BY <3>1, <3>2
    <2> QED BY <1>5, <1>17, <2>1 DEF TimerPosts, dispatchers
  <1>18. CASE UNCHANGED vars
    BY <1>5, <1>18 DEF vars
  <1> QED BY <1>7, <1>8, <1>9, <1>10, <1>11, <1>12, <1>13, <1>14, <1>15, <1>16,
             <1>17, <1>18, [Next]_vars DEF Next, Dispatcher

\* The exception FullQueueDrains makes is a deadlock: a machine caught behind a
\* circle of waits without a timeout never gets out, whatever the others do.
THEOREM JamIsForGood ==
    Spec => [][\A h \in Hsms : Jam(h) => Jam(h)']_vars
  <1>1. Init => TypeOK /\ ForeverWaits
    <2>1. Init => ForeverWaits
      BY DEF Init, ForeverWaits
    <2> QED BY <2>1, TypeInit
  <1>2. TypeOK /\ ForeverWaits /\ [Next]_vars => TypeOK' /\ ForeverWaits'
    BY TypeStep, ForeverStep
  <1>3. TypeOK /\ ForeverWaits /\ [Next]_vars
            => [\A h \in Hsms : Jam(h) => Jam(h)']_vars
    <2> SUFFICES ASSUME TypeOK, ForeverWaits, [Next]_vars, NEW h \in Hsms, Jam(h)
                 PROVE  Jam(h)'
      OBVIOUS
    <2>1. PICK S \in SUBSET Hsms : h \in S /\ Circle(S)
      BY Jam(h) DEF Jam, Circle
    <2>2. Circle(S)' BY <2>1, CircleStep
    <2> QED BY <2>1, <2>2 DEF Jam, Circle
  <1> QED BY <1>1, <1>2, <1>3, PTL DEF Spec
=============================================================================
