--------------------------- MODULE OsaQueueProofs ---------------------------
(***************************************************************************)
(* Proofs about the Linux message queue, for any number of threads, any    *)
(* messages and any capacity.  The inductive invariant is IInv: the types, *)
(* the shape of the ring, where each thread is, and the count of woken     *)
(* threads that NoLostWakeup speaks of.                                    *)
(***************************************************************************)
EXTENDS OsaQueue, SequenceFacts, FiniteSetTheorems, TLAPS

\* A thread is blocked in exactly the calls that have not returned, and in one
\* place only: no result is delivered twice and no wake-up is kept by a thread
\* that has already returned (osa_queue.c:116-262).
BlockedIffPending ==
    /\ \A t \in Threads : t \in Blocked <=> res[t].code = "PENDING"
    /\ condSend \cap wokenSend = {} /\ condRecv \cap wokenRecv = {}
    /\ (condSend \cup wokenSend) \cap (condRecv \cup wokenRecv) = {}

\* Taking the remainder by MaxMsgs is one subtraction at most, for the
\* positions that the code computes (osa_queue.c:179 and 253).
LEMMA ModuloMaxMsgs ==
    ASSUME NEW a \in 0 .. 2 * MaxMsgs - 1
    PROVE  a % MaxMsgs = IF a < MaxMsgs THEN a ELSE a - MaxMsgs
  BY MaxMsgsAssumption

\* The position after a position of the ring is a position of the ring.
LEMMA AdvanceType ==
    ASSUME NEW p \in 0 .. MaxMsgs - 1
    PROVE  /\ Advance(p) \in 0 .. MaxMsgs - 1
           /\ Advance(p) = IF p = MaxMsgs - 1 THEN 0 ELSE p + 1
  BY MaxMsgsAssumption, ModuloMaxMsgs DEF Advance

\* The common end of a send keeps the types and the ring.
LEMMA SendTailStep ==
    ASSUME TypeOK, RingConsistent, NEW t \in Threads,
           NEW m \in Msgs \cup {NoMsg}, SendTail(t, m)
    PROVE  /\ buffer' \in [0 .. MaxMsgs - 1 -> Msgs \cup {NoMsg}]
           /\ head' = head
           /\ tail' \in 0 .. MaxMsgs - 1
           /\ count' \in 0 .. MaxMsgs
           /\ tail' = (head' + count') % MaxMsgs
           /\ condSend' = condSend
           /\ condRecv' \subseteq Threads /\ wokenRecv' \subseteq Threads
           /\ wokenSend' = wokenSend \ {t}
           /\ res' \in [Threads -> [code : Codes, msg : Msgs \cup {NoMsg}]]
  <1> USE TypeOK, RingConsistent, MaxMsgsAssumption
  <1>1. CASE closed \/ Full
    <2>1. /\ Returns(t, IF closed THEN "EPIPE" ELSE "EAGAIN", NoMsg)
          /\ wokenSend' = wokenSend \ {t}
          /\ UNCHANGED <<ring, condSend, condRecv, wokenRecv>>
      BY <1>1, SendTail(t, m) DEF SendTail
    <2>2. res' \in [Threads -> [code : Codes, msg : Msgs \cup {NoMsg}]]
      BY <2>1 DEF Returns, Codes, TypeOK
    <2> QED BY <2>1, <2>2 DEF TypeOK, RingConsistent, ring
  <1>2. CASE ~(closed \/ Full)
    <2>1. /\ buffer' = [buffer EXCEPT ![tail] = m]
          /\ tail' = Advance(tail)
          /\ count' = count + 1
          /\ SignalRecv
          /\ Returns(t, "OK", NoMsg)
          /\ wokenSend' = wokenSend \ {t}
          /\ head' = head /\ condSend' = condSend
      BY <1>2, SendTail(t, m) DEF SendTail
    <2>2. condRecv' \subseteq Threads /\ wokenRecv' \subseteq Threads
      BY <2>1 DEF SignalRecv, TypeOK
    <2>3. tail' \in 0 .. MaxMsgs - 1
      BY <2>1, AdvanceType DEF TypeOK
    <2>4. count' \in 0 .. MaxMsgs
      BY <2>1, <1>2 DEF TypeOK, Full
    <2>5. Advance(tail) = (head + (count + 1)) % MaxMsgs
      <3>1. /\ head \in 0 .. MaxMsgs - 1 /\ tail \in 0 .. MaxMsgs - 1
            /\ count \in 0 .. MaxMsgs - 1
        BY <1>2 DEF TypeOK, Full
      <3>2. tail = IF head + count < MaxMsgs THEN head + count
                                             ELSE head + count - MaxMsgs
        BY <3>1, ModuloMaxMsgs, head + count \in 0 .. 2 * MaxMsgs - 1
           DEF RingConsistent
      <3>3. (head + (count + 1)) % MaxMsgs =
                IF head + (count + 1) < MaxMsgs THEN head + (count + 1)
                                        ELSE head + (count + 1) - MaxMsgs
        BY <3>1, ModuloMaxMsgs, head + (count + 1) \in 0 .. 2 * MaxMsgs - 1
      <3>4. Advance(tail) = IF tail = MaxMsgs - 1 THEN 0 ELSE tail + 1
        BY <3>1, AdvanceType
      <3> QED BY <3>1, <3>2, <3>3, <3>4
    <2>6. res' \in [Threads -> [code : Codes, msg : Msgs \cup {NoMsg}]]
      BY <2>1 DEF Returns, Codes, TypeOK
    <2>7. buffer' \in [0 .. MaxMsgs - 1 -> Msgs \cup {NoMsg}]
      BY <2>1 DEF TypeOK
    <2> QED BY <2>1, <2>2, <2>3, <2>4, <2>5, <2>6, <2>7
  <1> QED BY <1>1, <1>2

\* So does the common end of a receive.
LEMMA ReceiveTailStep ==
    ASSUME TypeOK, RingConsistent, NEW t \in Threads, ReceiveTail(t)
    PROVE  /\ buffer' = buffer
           /\ tail' = tail
           /\ head' \in 0 .. MaxMsgs - 1
           /\ count' \in 0 .. MaxMsgs
           /\ tail' = (head' + count') % MaxMsgs
           /\ condRecv' = condRecv
           /\ condSend' \subseteq Threads /\ wokenSend' \subseteq Threads
           /\ wokenRecv' = wokenRecv \ {t}
           /\ res' \in [Threads -> [code : Codes, msg : Msgs \cup {NoMsg}]]
  <1> USE TypeOK, RingConsistent, MaxMsgsAssumption
  <1>1. CASE Empty
    BY <1>1 DEF TypeOK, RingConsistent, ReceiveTail, Returns, Codes, ring
  <1>2. CASE ~Empty
    <2>1. /\ head' = Advance(head)
          /\ count' = count - 1
          /\ SignalSend
          /\ Returns(t, "OK", Oldest)
          /\ wokenRecv' = wokenRecv \ {t}
          /\ buffer' = buffer /\ tail' = tail /\ condRecv' = condRecv
      BY <1>2, ReceiveTail(t) DEF ReceiveTail
    <2>2. condSend' \subseteq Threads /\ wokenSend' \subseteq Threads
      BY <2>1 DEF SignalSend, TypeOK
    <2>3. head' \in 0 .. MaxMsgs - 1
      BY <2>1, AdvanceType DEF TypeOK
    <2>4. count' \in 0 .. MaxMsgs
      BY <2>1, <1>2 DEF TypeOK, Empty
    <2>5. tail = (Advance(head) + (count - 1)) % MaxMsgs
      <3>1. /\ head \in 0 .. MaxMsgs - 1 /\ tail \in 0 .. MaxMsgs - 1
            /\ count \in 1 .. MaxMsgs
        BY <1>2 DEF TypeOK, Empty
      <3>2. tail = IF head + count < MaxMsgs THEN head + count
                                             ELSE head + count - MaxMsgs
        BY <3>1, ModuloMaxMsgs, head + count \in 0 .. 2 * MaxMsgs - 1
           DEF RingConsistent
      <3>3. Advance(head) = IF head = MaxMsgs - 1 THEN 0 ELSE head + 1
        BY <3>1, AdvanceType
      <3>4. CASE head = MaxMsgs - 1
        <4>1. Advance(head) + (count - 1) = count - 1
          BY <3>1, <3>3, <3>4
        <4>2. (count - 1) % MaxMsgs = count - 1
          BY <3>1, ModuloMaxMsgs, count - 1 \in 0 .. 2 * MaxMsgs - 1
        <4> QED BY <3>1, <3>2, <3>4, <4>1, <4>2
      <3>5. CASE head # MaxMsgs - 1
        <4>1. Advance(head) + (count - 1) = head + count
          BY <3>1, <3>3, <3>5
        <4> QED BY <4>1 DEF RingConsistent
      <3> QED BY <3>4, <3>5
    <2>6. res' \in [Threads -> [code : Codes, msg : Msgs \cup {NoMsg}]]
      BY <2>1 DEF Returns, Codes, TypeOK, Oldest
    <2> QED BY <2>1, <2>2, <2>3, <2>4, <2>5, <2>6
  <1> QED BY <1>1, <1>2

\* Every step keeps the types and the ring (osa_queue.c:19-33): in particular
\* head and tail stay inside the buffer and count between 0 and max_msgs.
LEMMA TypeRingStep ==
    ASSUME TypeOK, RingConsistent, [Next]_vars
    PROVE  TypeOK' /\ RingConsistent'
  <1> USE TypeOK, RingConsistent
  <1>1. ASSUME NEW t \in Threads, NEW m \in Msgs, NEW timeout \in Timeouts,
               Send(t, m, timeout)
        PROVE  TypeOK' /\ RingConsistent'
    <2>1. call' \in [Threads -> [msg : Msgs \cup {NoMsg}, timeout : Timeouts]]
          /\ closed' = closed /\ freed' = freed
      BY <1>1 DEF Send, Calls, TypeOK
    <2>2. CASE SendBlocks(t, timeout)
      BY <2>1, <2>2 DEF SendBlocks, Returns, TypeOK, RingConsistent, Codes, ring
    <2>3. CASE SendAtOnce(t, m, timeout)
      <3>1. SendTail(t, m) /\ m \in Msgs \cup {NoMsg}
        BY <2>3 DEF SendAtOnce
      <3> QED BY <2>1, <3>1, SendTailStep DEF TypeOK, RingConsistent
    <2> QED BY <1>1, <2>2, <2>3 DEF Send
  <1>2. ASSUME NEW t \in Threads, NEW timeout \in Timeouts, Receive(t, timeout)
        PROVE  TypeOK' /\ RingConsistent'
    <2>1. call' \in [Threads -> [msg : Msgs \cup {NoMsg}, timeout : Timeouts]]
          /\ closed' = closed /\ freed' = freed
      BY <1>2 DEF Receive, Calls, TypeOK
    <2>2. CASE ReceiveBlocks(t, timeout)
      BY <2>1, <2>2
         DEF ReceiveBlocks, Returns, TypeOK, RingConsistent, Codes, ring
    <2>3. CASE ReceiveAtOnce(t, timeout)
      <3>1. ReceiveTail(t) BY <2>3 DEF ReceiveAtOnce
      <3> QED BY <2>1, <3>1, ReceiveTailStep DEF TypeOK, RingConsistent
    <2> QED BY <1>2, <2>2, <2>3 DEF Receive
  <1>3. ASSUME NEW t \in Threads, ResumeSend(t)
        PROVE  TypeOK' /\ RingConsistent'
    <2>1. CASE Full /\ ~closed
      BY <1>3, <2>1 DEF ResumeSend, TypeOK, RingConsistent, ring
    <2>2. CASE ~(Full /\ ~closed)
      <3>1. SendTail(t, call[t].msg) /\ UNCHANGED <<closed, freed, call>>
        BY <1>3, <2>2 DEF ResumeSend
      <3>2. call[t].msg \in Msgs \cup {NoMsg}
        BY DEF TypeOK
      <3> QED BY <3>1, <3>2, SendTailStep DEF TypeOK, RingConsistent
    <2> QED BY <2>1, <2>2
  <1>4. ASSUME NEW t \in Threads, ExpireSend(t)
        PROVE  TypeOK' /\ RingConsistent'
    BY <1>4 DEF ExpireSend, Returns, TypeOK, RingConsistent, Codes, ring
  <1>5. ASSUME NEW t \in Threads, ResumeReceive(t)
        PROVE  TypeOK' /\ RingConsistent'
    <2>1. CASE Empty /\ ~closed
      BY <1>5, <2>1 DEF ResumeReceive, TypeOK, RingConsistent, ring
    <2>2. CASE ~(Empty /\ ~closed)
      <3>1. ReceiveTail(t) /\ UNCHANGED <<closed, freed, call>>
        BY <1>5, <2>2 DEF ResumeReceive
      <3> QED BY <3>1, ReceiveTailStep DEF TypeOK, RingConsistent
    <2> QED BY <2>1, <2>2
  <1>6. ASSUME NEW t \in Threads, ExpireReceive(t)
        PROVE  TypeOK' /\ RingConsistent'
    BY <1>6 DEF ExpireReceive, Returns, TypeOK, RingConsistent, Codes, ring
  <1>7. ASSUME NEW t \in Threads, SpuriousWakeup(t)
        PROVE  TypeOK' /\ RingConsistent'
    BY <1>7 DEF SpuriousWakeup, TypeOK, RingConsistent, ring
  <1>8. ASSUME Close PROVE TypeOK' /\ RingConsistent'
    BY <1>8 DEF Close, TypeOK, RingConsistent, ring
  <1>9. ASSUME Free PROVE TypeOK' /\ RingConsistent'
    BY <1>9 DEF Free, TypeOK, RingConsistent, ring, conds
  <1>10. ASSUME UNCHANGED vars PROVE TypeOK' /\ RingConsistent'
    BY <1>10 DEF vars, TypeOK, RingConsistent
  <1> QED BY <1>1, <1>2, <1>3, <1>4, <1>5, <1>6, <1>7, <1>8, <1>9, <1>10
          DEF Next

\* Every step keeps a thread in one place, and blocked exactly while its call
\* is pending.
LEMMA BlockedStep ==
    ASSUME TypeOK, BlockedIffPending, [Next]_vars
    PROVE  BlockedIffPending'
  <1> USE TypeOK, BlockedIffPending
  <1>1. ASSUME NEW t \in Threads, NEW m \in Msgs, NEW timeout \in Timeouts, Send(t, m, timeout)
       PROVE  BlockedIffPending'
    BY <1>1 DEF TypeOK, BlockedIffPending, Blocked, Send, Calls, SendBlocks, SendAtOnce, SendTail, SignalRecv, Returns, ring, conds
  <1>2. ASSUME NEW t \in Threads, NEW timeout \in Timeouts, Receive(t, timeout)
       PROVE  BlockedIffPending'
    BY <1>2 DEF TypeOK, BlockedIffPending, Blocked, Receive, Calls, ReceiveBlocks, ReceiveAtOnce, ReceiveTail, SignalSend, Returns, ring, conds
  <1>3. ASSUME NEW t \in Threads, ResumeSend(t)
       PROVE  BlockedIffPending'
    BY <1>3 DEF TypeOK, BlockedIffPending, Blocked, ResumeSend, SendTail, SignalRecv, Returns, ring, conds
  <1>4. ASSUME NEW t \in Threads, ExpireSend(t)
       PROVE  BlockedIffPending'
    BY <1>4 DEF TypeOK, BlockedIffPending, Blocked, ExpireSend, Returns, ring, conds
  <1>5. ASSUME NEW t \in Threads, ResumeReceive(t)
       PROVE  BlockedIffPending'
    BY <1>5 DEF TypeOK, BlockedIffPending, Blocked, ResumeReceive, ReceiveTail, SignalSend, Returns, ring, conds
  <1>6. ASSUME NEW t \in Threads, ExpireReceive(t)
       PROVE  BlockedIffPending'
    BY <1>6 DEF TypeOK, BlockedIffPending, Blocked, ExpireReceive, Returns, ring, conds
  <1>7. ASSUME NEW t \in Threads, SpuriousWakeup(t)
       PROVE  BlockedIffPending'
    BY <1>7 DEF TypeOK, BlockedIffPending, Blocked, SpuriousWakeup, ring, conds
  <1>8. ASSUME Close PROVE BlockedIffPending'
    BY <1>8 DEF TypeOK, BlockedIffPending, Blocked, Close, ring
  <1>9. ASSUME Free PROVE BlockedIffPending'
    BY <1>9 DEF TypeOK, BlockedIffPending, Blocked, Free, ring, conds
  <1>10. ASSUME UNCHANGED vars PROVE BlockedIffPending'
    BY <1>10 DEF TypeOK, BlockedIffPending, Blocked, vars
  <1> QED BY <1>1, <1>2, <1>3, <1>4, <1>5, <1>6, <1>7, <1>8, <1>9, <1>10 DEF Next


\* How many threads a set holds when one joins or leaves it.
LEMMA ThreadCount ==
    ASSUME NEW S \in SUBSET Threads, NEW x \in Threads
    PROVE  /\ Cardinality(S) \in Nat
           /\ x \notin S => Cardinality(S \cup {x}) = Cardinality(S) + 1
           /\ x \in S => Cardinality(S \ {x}) = Cardinality(S) - 1
           /\ Cardinality(S \ {x}) \in Nat
           /\ Cardinality(S \ {x}) >= Cardinality(S) - 1
  <1>1. IsFiniteSet(S)
    BY ThreadsAssumption, FS_Subset
  <1>2. Cardinality(S) \in Nat
    BY <1>1, FS_CardinalityType
  <1>3. x \notin S => Cardinality(S \cup {x}) = Cardinality(S) + 1
    BY <1>1, FS_AddElement
  <1>4. /\ IsFiniteSet(S \ {x})
        /\ Cardinality(S \ {x}) = IF x \in S THEN Cardinality(S) - 1
                                             ELSE Cardinality(S)
    BY <1>1, FS_RemoveElement
  <1>5. Cardinality(S \ {x}) \in Nat
    BY <1>4, FS_CardinalityType
  <1> QED BY <1>2, <1>3, <1>4, <1>5

\* The facts that make the count of woken threads an invariant.
WakeupInv ==
    /\ TypeOK
    /\ RingConsistent
    /\ BlockedIffPending
    /\ NobodySleepsOnClosed
    /\ NoLostWakeup

\* A send that does not wait keeps the counts: it uses up one slot, and the
\* receiver it signals is one more woken receiver for one more message.
LEMMA SendTailWakeup ==
    ASSUME WakeupInv, NEW t \in Threads, NEW m, SendTail(t, m),
           t \in wokenSend \/ t \notin Blocked,
           t \in wokenSend => closed \/ ~Full
    PROVE  NoLostWakeup'
  <1> USE WakeupInv, MaxMsgsAssumption
  <1>1. CASE closed \/ Full
    <2>1. /\ condSend' = condSend /\ condRecv' = condRecv
          /\ wokenRecv' = wokenRecv /\ count' = count
          /\ wokenSend' = wokenSend \ {t}
      BY <1>1, SendTail(t, m) DEF SendTail, ring
    <2>2. CASE closed
      BY <2>1, <2>2 DEF WakeupInv, NobodySleepsOnClosed, NoLostWakeup
    <2>3. CASE ~closed
      <3>1. t \notin wokenSend
        BY <1>1, <2>3
      <3> QED BY <2>1, <3>1, wokenSend \ {t} = wokenSend
              DEF WakeupInv, NoLostWakeup
    <2> QED BY <2>2, <2>3
  <1>2. CASE ~(closed \/ Full)
    <2>1. /\ count' = count + 1
          /\ SignalRecv
          /\ wokenSend' = wokenSend \ {t}
          /\ condSend' = condSend
      BY <1>2, SendTail(t, m) DEF SendTail
    <2>2. condSend' # {} => Cardinality(wokenSend') >= MaxMsgs - count'
      <3>1. Cardinality(wokenSend \ {t}) >= Cardinality(wokenSend) - 1
        BY ThreadCount DEF WakeupInv, TypeOK
      <3>2. Cardinality(wokenSend) \in Nat /\ Cardinality(wokenSend \ {t}) \in Nat
        BY ThreadCount DEF WakeupInv, TypeOK
      <3> QED BY <2>1, <3>1, <3>2 DEF WakeupInv, NoLostWakeup, TypeOK
    <2>3. condRecv' # {} => Cardinality(wokenRecv') >= count'
      <3>1. CASE condRecv = {} /\ UNCHANGED <<condRecv, wokenRecv>>
        BY <3>1
      <3>2. ASSUME NEW w \in condRecv,
                   wokenRecv' = wokenRecv \cup {w}
            PROVE  Cardinality(wokenRecv') >= count'
        <4>1. w \in Threads /\ w \notin wokenRecv
          BY DEF WakeupInv, TypeOK, BlockedIffPending
        <4>2. Cardinality(wokenRecv') = Cardinality(wokenRecv) + 1
          BY <3>2, <4>1, ThreadCount DEF WakeupInv, TypeOK
        <4>3. Cardinality(wokenRecv) \in Nat
          BY <4>1, ThreadCount DEF WakeupInv, TypeOK
        <4> QED BY <2>1, <4>2, <4>3 DEF WakeupInv, NoLostWakeup, TypeOK
      <3> QED BY <2>1, <3>1, <3>2 DEF SignalRecv
    <2> QED BY <2>2, <2>3 DEF NoLostWakeup
  <1> QED BY <1>1, <1>2

\* A receive that does not wait keeps the counts, in the same way.
LEMMA ReceiveTailWakeup ==
    ASSUME WakeupInv, NEW t \in Threads, ReceiveTail(t),
           t \in wokenRecv \/ t \notin Blocked,
           t \in wokenRecv => closed \/ ~Empty
    PROVE  NoLostWakeup'
  <1> USE WakeupInv, MaxMsgsAssumption
  <1>1. CASE Empty
    <2>1. /\ condSend' = condSend /\ condRecv' = condRecv
          /\ wokenSend' = wokenSend /\ count' = count
          /\ wokenRecv' = wokenRecv \ {t}
      BY <1>1, ReceiveTail(t) DEF ReceiveTail, ring
    <2>2. CASE closed
      BY <2>1, <2>2 DEF WakeupInv, NobodySleepsOnClosed, NoLostWakeup
    <2>3. CASE ~closed
      <3>1. t \notin wokenRecv
        BY <1>1, <2>3
      <3> QED BY <2>1, <3>1, wokenRecv \ {t} = wokenRecv
              DEF WakeupInv, NoLostWakeup
    <2> QED BY <2>2, <2>3
  <1>2. CASE ~Empty
    <2>1. /\ count' = count - 1
          /\ SignalSend
          /\ wokenRecv' = wokenRecv \ {t}
          /\ condRecv' = condRecv
      BY <1>2, ReceiveTail(t) DEF ReceiveTail
    <2>2. condRecv' # {} => Cardinality(wokenRecv') >= count'
      <3>1. Cardinality(wokenRecv \ {t}) >= Cardinality(wokenRecv) - 1
        BY ThreadCount DEF WakeupInv, TypeOK
      <3>2. Cardinality(wokenRecv) \in Nat /\ Cardinality(wokenRecv \ {t}) \in Nat
        BY ThreadCount DEF WakeupInv, TypeOK
      <3> QED BY <2>1, <3>1, <3>2 DEF WakeupInv, NoLostWakeup, TypeOK
    <2>3. condSend' # {} => Cardinality(wokenSend') >= MaxMsgs - count'
      <3>1. CASE condSend = {} /\ UNCHANGED <<condSend, wokenSend>>
        BY <3>1
      <3>2. ASSUME NEW w \in condSend,
                   wokenSend' = wokenSend \cup {w}
            PROVE  Cardinality(wokenSend') >= MaxMsgs - count'
        <4>1. w \in Threads /\ w \notin wokenSend
          BY DEF WakeupInv, TypeOK, BlockedIffPending
        <4>2. Cardinality(wokenSend') = Cardinality(wokenSend) + 1
          BY <3>2, <4>1, ThreadCount DEF WakeupInv, TypeOK
        <4>3. Cardinality(wokenSend) \in Nat
          BY <4>1, ThreadCount DEF WakeupInv, TypeOK
        <4> QED BY <2>1, <4>2, <4>3 DEF WakeupInv, NoLostWakeup, TypeOK
      <3> QED BY <2>1, <3>1, <3>2 DEF SignalSend
    <2> QED BY <2>2, <2>3 DEF NoLostWakeup
  <1> QED BY <1>1, <1>2

\* Every step keeps the counts.
LEMMA WakeupStep ==
    ASSUME WakeupInv, [Next]_vars
    PROVE  NoLostWakeup'
  <1> USE WakeupInv, MaxMsgsAssumption
  <1>1. ASSUME NEW t \in Threads, NEW m \in Msgs, NEW timeout \in Timeouts,
               Send(t, m, timeout)
        PROVE  NoLostWakeup'
    <2>1. t \notin Blocked BY <1>1 DEF Send, Calls
    <2>2. CASE SendBlocks(t, timeout)
      <3>1. Cardinality(wokenSend) \in Nat
        BY ThreadCount DEF WakeupInv, TypeOK
      <3> QED BY <2>2, <3>1
              DEF SendBlocks, WakeupInv, NoLostWakeup, Full, TypeOK, ring
    <2>3. CASE SendAtOnce(t, m, timeout)
      BY <2>1, <2>3, SendTailWakeup DEF SendAtOnce, Blocked
    <2> QED BY <1>1, <2>2, <2>3 DEF Send
  <1>2. ASSUME NEW t \in Threads, NEW timeout \in Timeouts, Receive(t, timeout)
        PROVE  NoLostWakeup'
    <2>1. t \notin Blocked BY <1>2 DEF Receive, Calls
    <2>2. CASE ReceiveBlocks(t, timeout)
      <3>1. Cardinality(wokenRecv) \in Nat
        BY ThreadCount DEF WakeupInv, TypeOK
      <3> QED BY <2>2, <3>1
              DEF ReceiveBlocks, WakeupInv, NoLostWakeup, Empty, TypeOK, ring
    <2>3. CASE ReceiveAtOnce(t, timeout)
      BY <2>1, <2>3, ReceiveTailWakeup DEF ReceiveAtOnce, Blocked
    <2> QED BY <1>2, <2>2, <2>3 DEF Receive
  <1>3. ASSUME NEW t \in Threads, ResumeSend(t) PROVE NoLostWakeup'
    <2>1. CASE Full /\ ~closed
      <3>1. Cardinality(wokenSend \ {t}) \in Nat
        BY ThreadCount DEF WakeupInv, TypeOK
      <3>2. /\ count' = count
            /\ wokenSend' = wokenSend \ {t}
            /\ UNCHANGED <<condRecv, wokenRecv>>
        BY <1>3, <2>1 DEF ResumeSend, ring
      <3> QED BY <2>1, <3>1, <3>2 DEF WakeupInv, NoLostWakeup, Full, TypeOK
    <2>2. CASE ~(Full /\ ~closed)
      BY <1>3, <2>2, SendTailWakeup DEF ResumeSend
    <2> QED BY <2>1, <2>2
  <1>4. ASSUME NEW t \in Threads, ExpireSend(t) PROVE NoLostWakeup'
    BY <1>4 DEF ExpireSend, WakeupInv, NoLostWakeup, ring
  <1>5. ASSUME NEW t \in Threads, ResumeReceive(t) PROVE NoLostWakeup'
    <2>1. CASE Empty /\ ~closed
      <3>1. Cardinality(wokenRecv \ {t}) \in Nat
        BY ThreadCount DEF WakeupInv, TypeOK
      <3>2. /\ count' = count
            /\ wokenRecv' = wokenRecv \ {t}
            /\ UNCHANGED <<condSend, wokenSend>>
        BY <1>5, <2>1 DEF ResumeReceive, ring
      <3> QED BY <2>1, <3>1, <3>2 DEF WakeupInv, NoLostWakeup, Empty, TypeOK
    <2>2. CASE ~(Empty /\ ~closed)
      BY <1>5, <2>2, ReceiveTailWakeup DEF ResumeReceive
    <2> QED BY <2>1, <2>2
  <1>6. ASSUME NEW t \in Threads, ExpireReceive(t) PROVE NoLostWakeup'
    BY <1>6 DEF ExpireReceive, WakeupInv, NoLostWakeup, ring
  <1>7. ASSUME NEW t \in Threads, SpuriousWakeup(t) PROVE NoLostWakeup'
    <2>1. CASE t \in condSend /\ wokenSend' = wokenSend \cup {t}
               /\ condSend' = condSend \ {t} /\ UNCHANGED <<condRecv, wokenRecv>>
      <3>1. /\ Cardinality(wokenSend) \in Nat
            /\ Cardinality(wokenSend \cup {t}) = Cardinality(wokenSend) + 1
        BY <2>1, ThreadCount DEF WakeupInv, TypeOK, BlockedIffPending
      <3>2. count' = count BY <1>7 DEF SpuriousWakeup, ring
      <3> QED BY <2>1, <3>1, <3>2 DEF WakeupInv, NoLostWakeup, TypeOK
    <2>2. CASE t \in condRecv /\ wokenRecv' = wokenRecv \cup {t}
               /\ condRecv' = condRecv \ {t} /\ UNCHANGED <<condSend, wokenSend>>
      <3>1. /\ Cardinality(wokenRecv) \in Nat
            /\ Cardinality(wokenRecv \cup {t}) = Cardinality(wokenRecv) + 1
        BY <2>2, ThreadCount DEF WakeupInv, TypeOK, BlockedIffPending
      <3>2. count' = count BY <1>7 DEF SpuriousWakeup, ring
      <3> QED BY <2>2, <3>1, <3>2 DEF WakeupInv, NoLostWakeup, TypeOK
    <2> QED BY <1>7, <2>1, <2>2 DEF SpuriousWakeup
  <1>8. ASSUME Close PROVE NoLostWakeup'
    BY <1>8 DEF Close, NoLostWakeup
  <1>9. ASSUME Free PROVE NoLostWakeup'
    BY <1>9 DEF Free, WakeupInv, NoLostWakeup, ring, conds
  <1>10. ASSUME UNCHANGED vars PROVE NoLostWakeup'
    BY <1>10 DEF vars, WakeupInv, NoLostWakeup
  <1> QED BY <1>1, <1>2, <1>3, <1>4, <1>5, <1>6, <1>7, <1>8, <1>9, <1>10
          DEF Next

\* Every step keeps the waiting sets of a closed queue empty.
LEMMA ClosedStep ==
    ASSUME NobodySleepsOnClosed, [Next]_vars
    PROVE  NobodySleepsOnClosed'
  <1> USE NobodySleepsOnClosed
  <1>1. ASSUME NEW t \in Threads, NEW m \in Msgs, NEW timeout \in Timeouts,
               Send(t, m, timeout)
        PROVE  NobodySleepsOnClosed'
    BY <1>1 DEF NobodySleepsOnClosed, Send, Calls, SendBlocks, SendAtOnce, SendTail, SignalRecv
  <1>2. ASSUME NEW t \in Threads, NEW timeout \in Timeouts,
               Receive(t, timeout)
        PROVE  NobodySleepsOnClosed'
    BY <1>2 DEF NobodySleepsOnClosed, Receive, Calls, ReceiveBlocks, ReceiveAtOnce, ReceiveTail, SignalSend
  <1>3. ASSUME NEW t \in Threads, ResumeSend(t)
        PROVE  NobodySleepsOnClosed'
    BY <1>3 DEF NobodySleepsOnClosed, ResumeSend, SendTail, SignalRecv
  <1>4. ASSUME NEW t \in Threads, ExpireSend(t)
        PROVE  NobodySleepsOnClosed'
    BY <1>4 DEF NobodySleepsOnClosed, ExpireSend
  <1>5. ASSUME NEW t \in Threads, ResumeReceive(t)
        PROVE  NobodySleepsOnClosed'
    BY <1>5 DEF NobodySleepsOnClosed, ResumeReceive, ReceiveTail, SignalSend
  <1>6. ASSUME NEW t \in Threads, ExpireReceive(t)
        PROVE  NobodySleepsOnClosed'
    BY <1>6 DEF NobodySleepsOnClosed, ExpireReceive
  <1>7. ASSUME NEW t \in Threads, SpuriousWakeup(t)
        PROVE  NobodySleepsOnClosed'
    BY <1>7 DEF NobodySleepsOnClosed, SpuriousWakeup
  <1>8. ASSUME Close PROVE NobodySleepsOnClosed'
    BY <1>8 DEF NobodySleepsOnClosed, Close
  <1>9. ASSUME Free PROVE NobodySleepsOnClosed'
    BY <1>9 DEF NobodySleepsOnClosed, Free, conds
  <1>10. ASSUME UNCHANGED vars PROVE NobodySleepsOnClosed'
    BY <1>10 DEF NobodySleepsOnClosed, vars
  <1> QED BY <1>1, <1>2, <1>3, <1>4, <1>5, <1>6, <1>7, <1>8, <1>9, <1>10
          DEF Next

\* Every step keeps -EAGAIN to the calls that do not wait: a thread that is
\* blocked did not ask for a nonblocking call, and it passes its loop only when
\* it has what it waits for or the queue is closed.
LEMMA AgainStep ==
    ASSUME TypeOK, BlockedIffPending, AgainOnlyIfNonblocking, [Next]_vars
    PROVE  AgainOnlyIfNonblocking'
  <1> USE TypeOK, BlockedIffPending, AgainOnlyIfNonblocking
  <1>1. ASSUME NEW t \in Threads, NEW m \in Msgs, NEW timeout \in Timeouts,
               Send(t, m, timeout)
        PROVE  AgainOnlyIfNonblocking'
    BY <1>1 DEF TypeOK, AgainOnlyIfNonblocking, Blocked, BlockedIffPending, Send, Calls, SendBlocks, SendAtOnce, SendTail, SignalRecv, Returns, Full, Empty
  <1>2. ASSUME NEW t \in Threads, NEW timeout \in Timeouts,
               Receive(t, timeout)
        PROVE  AgainOnlyIfNonblocking'
    BY <1>2 DEF TypeOK, AgainOnlyIfNonblocking, Blocked, BlockedIffPending, Receive, Calls, ReceiveBlocks, ReceiveAtOnce, ReceiveTail, SignalSend, Returns, Full, Empty
  <1>3. ASSUME NEW t \in Threads, ResumeSend(t)
        PROVE  AgainOnlyIfNonblocking'
    BY <1>3 DEF TypeOK, AgainOnlyIfNonblocking, Blocked, BlockedIffPending, ResumeSend, SendTail, SignalRecv, Returns, Full, Empty
  <1>4. ASSUME NEW t \in Threads, ExpireSend(t)
        PROVE  AgainOnlyIfNonblocking'
    BY <1>4 DEF TypeOK, AgainOnlyIfNonblocking, Blocked, BlockedIffPending, ExpireSend, Returns, Full, Empty
  <1>5. ASSUME NEW t \in Threads, ResumeReceive(t)
        PROVE  AgainOnlyIfNonblocking'
    BY <1>5 DEF TypeOK, AgainOnlyIfNonblocking, Blocked, BlockedIffPending, ResumeReceive, ReceiveTail, SignalSend, Returns, Full, Empty
  <1>6. ASSUME NEW t \in Threads, ExpireReceive(t)
        PROVE  AgainOnlyIfNonblocking'
    BY <1>6 DEF TypeOK, AgainOnlyIfNonblocking, Blocked, BlockedIffPending, ExpireReceive, Returns, Full, Empty
  <1>7. ASSUME NEW t \in Threads, SpuriousWakeup(t)
        PROVE  AgainOnlyIfNonblocking'
    BY <1>7 DEF TypeOK, AgainOnlyIfNonblocking, Blocked, BlockedIffPending, SpuriousWakeup, Returns, Full, Empty
  <1>8. ASSUME Close PROVE AgainOnlyIfNonblocking'
    BY <1>8 DEF TypeOK, AgainOnlyIfNonblocking, Blocked, BlockedIffPending, Close, Returns, Full, Empty
  <1>9. ASSUME Free PROVE AgainOnlyIfNonblocking'
    BY <1>9 DEF TypeOK, AgainOnlyIfNonblocking, Blocked, BlockedIffPending, Free, conds, Returns, Full, Empty
  <1>10. ASSUME UNCHANGED vars PROVE AgainOnlyIfNonblocking'
    BY <1>10 DEF TypeOK, AgainOnlyIfNonblocking, Blocked, BlockedIffPending, vars
  <1> QED BY <1>1, <1>2, <1>3, <1>4, <1>5, <1>6, <1>7, <1>8, <1>9, <1>10
          DEF Next

\* A sender that is blocked still has the message it was called with, and a
\* receiver that is blocked has none.
CallersAsk ==
    /\ \A t \in condSend \cup wokenSend : call[t].msg \in Msgs
    /\ \A t \in condRecv \cup wokenRecv : call[t].msg = NoMsg

\* The inductive invariant of the queue.
IInv ==
    /\ WakeupInv
    /\ AgainOnlyIfNonblocking
    /\ CallersAsk

\* The arguments of a blocked call do not change (osa_queue.c:116-262).
LEMMA AskStep ==
    ASSUME TypeOK, BlockedIffPending, CallersAsk, [Next]_vars
    PROVE  CallersAsk'
  <1> USE TypeOK, BlockedIffPending, CallersAsk
  <1>1. ASSUME NEW t \in Threads, NEW m \in Msgs, NEW timeout \in Timeouts,
               Send(t, m, timeout)
        PROVE  CallersAsk'
    BY <1>1 DEF TypeOK, CallersAsk, Blocked, BlockedIffPending, Send, Calls, SendBlocks, SendAtOnce, SendTail, SignalRecv
  <1>2. ASSUME NEW t \in Threads, NEW timeout \in Timeouts,
               Receive(t, timeout)
        PROVE  CallersAsk'
    BY <1>2 DEF TypeOK, CallersAsk, Blocked, BlockedIffPending, Receive, Calls, ReceiveBlocks, ReceiveAtOnce, ReceiveTail, SignalSend
  <1>3. ASSUME NEW t \in Threads, ResumeSend(t)
        PROVE  CallersAsk'
    BY <1>3 DEF TypeOK, CallersAsk, Blocked, BlockedIffPending, ResumeSend, SendTail, SignalRecv
  <1>4. ASSUME NEW t \in Threads, ExpireSend(t)
        PROVE  CallersAsk'
    BY <1>4 DEF TypeOK, CallersAsk, Blocked, BlockedIffPending, ExpireSend
  <1>5. ASSUME NEW t \in Threads, ResumeReceive(t)
        PROVE  CallersAsk'
    BY <1>5 DEF TypeOK, CallersAsk, Blocked, BlockedIffPending, ResumeReceive, ReceiveTail, SignalSend
  <1>6. ASSUME NEW t \in Threads, ExpireReceive(t)
        PROVE  CallersAsk'
    BY <1>6 DEF TypeOK, CallersAsk, Blocked, BlockedIffPending, ExpireReceive
  <1>7. ASSUME NEW t \in Threads, SpuriousWakeup(t)
        PROVE  CallersAsk'
    BY <1>7 DEF TypeOK, CallersAsk, Blocked, BlockedIffPending, SpuriousWakeup
  <1>8. ASSUME Close PROVE CallersAsk'
    BY <1>8 DEF TypeOK, CallersAsk, Blocked, BlockedIffPending, Close
  <1>9. ASSUME Free PROVE CallersAsk'
    BY <1>9 DEF TypeOK, CallersAsk, Blocked, BlockedIffPending, Free, conds
  <1>10. ASSUME UNCHANGED vars PROVE CallersAsk'
    BY <1>10 DEF TypeOK, CallersAsk, Blocked, BlockedIffPending, vars
  <1> QED BY <1>1, <1>2, <1>3, <1>4, <1>5, <1>6, <1>7, <1>8, <1>9, <1>10
          DEF Next
\* The inductive invariant holds in every reachable state of the queue.
THEOREM Invariance == Spec => []IInv
  <1>1. Init => IInv
    <2> SUFFICES ASSUME Init PROVE IInv
      OBVIOUS
    <2>1. TypeOK
      <3>1. /\ head \in 0 .. MaxMsgs - 1 /\ tail \in 0 .. MaxMsgs - 1
            /\ count \in 0 .. MaxMsgs
        BY MaxMsgsAssumption DEF Init
      <3>2. buffer \in [0 .. MaxMsgs - 1 -> Msgs \cup {NoMsg}]
        BY DEF Init
      <3>3. call \in [Threads -> [msg : Msgs \cup {NoMsg}, timeout : Timeouts]]
        BY DEF Init, Timeouts
      <3>4. res \in [Threads -> [code : Codes, msg : Msgs \cup {NoMsg}]]
        BY DEF Init, Codes
      <3> QED BY <3>1, <3>2, <3>3, <3>4 DEF Init, TypeOK
    <2>2. RingConsistent
      <3>1. 0 % MaxMsgs = 0 /\ 0 + 0 = 0
        BY MaxMsgsAssumption
      <3> QED BY <3>1 DEF Init, RingConsistent
    <2>3. BlockedIffPending /\ NobodySleepsOnClosed /\ NoLostWakeup
      BY DEF Init, BlockedIffPending, NobodySleepsOnClosed, NoLostWakeup,
             Blocked
    <2>4. AgainOnlyIfNonblocking /\ CallersAsk
      BY DEF Init, AgainOnlyIfNonblocking, CallersAsk
    <2> QED BY <2>1, <2>2, <2>3, <2>4 DEF IInv, WakeupInv
  <1>2. IInv /\ [Next]_vars => IInv'
    BY TypeRingStep, BlockedStep, ClosedStep, WakeupStep, AgainStep, AskStep
       DEF IInv, WakeupInv
  <1> QED BY <1>1, <1>2, PTL DEF Spec

\* The fields of the queue keep their ranges: no access outside the buffer
\* (osa_queue.c:178 and 252), no count below 0 or above max_msgs.
THEOREM TypeCorrect == Spec => []TypeOK
  <1>1. IInv => TypeOK BY DEF IInv, WakeupInv
  <1> QED BY <1>1, Invariance, PTL

\* The read and write positions never drift apart (osa_queue.c:178-180 and
\* 252-254).
THEOREM RingStaysConsistent == Spec => []RingConsistent
  <1>1. IInv => RingConsistent BY DEF IInv, WakeupInv
  <1> QED BY <1>1, Invariance, PTL

\* No wake-up is lost: signalling one thread for each message and for each slot
\* (osa_queue.c:183 and 257) is enough, for any number of threads.
THEOREM NoWakeupIsLost == Spec => []NoLostWakeup
  <1>1. IInv => NoLostWakeup BY DEF IInv, WakeupInv
  <1> QED BY <1>1, Invariance, PTL

\* Closing wakes every thread and nobody waits on a closed queue again
\* (osa_queue.c:98-103), for any number of threads.
THEOREM ClosedQueueIsAwake == Spec => []NobodySleepsOnClosed
  <1>1. IInv => NobodySleepsOnClosed BY DEF IInv, WakeupInv
  <1> QED BY <1>1, Invariance, PTL

\* A call that was ready to wait never returns -EAGAIN: the re-checks behind
\* the waiting loops (osa_queue.c:172-175 and 246-249) are never taken by it.
THEOREM NoSpuriousAgain == Spec => []AgainOnlyIfNonblocking
  <1>1. IInv => AgainOnlyIfNonblocking BY DEF IInv
  <1> QED BY <1>1, Invariance, PTL

-----------------------------------------------------------------------------
(* Refinement *)

\* The contents of the ring are a sequence as long as the count.
LEMMA ContentsType ==
    ASSUME TypeOK
    PROVE  /\ Contents \in Seq(Msgs \cup {NoMsg})
           /\ Len(Contents) = count
           /\ DOMAIN Contents = 1 .. count
  <1>1. ASSUME NEW i \in 1 .. count
        PROVE  (head + i - 1) % MaxMsgs \in 0 .. MaxMsgs - 1
    BY MaxMsgsAssumption, TypeOK DEF TypeOK
  <1>2. Contents \in [1 .. count -> Msgs \cup {NoMsg}]
    BY <1>1, TypeOK DEF Contents, TypeOK
  <1>3. count \in Nat BY TypeOK, MaxMsgsAssumption DEF TypeOK
  <1>4. Contents \in Seq(Msgs \cup {NoMsg})
    BY <1>2, <1>3
  <1>5. DOMAIN Contents = 1 .. count
    BY <1>2
  <1>6. Len(Contents) = count
    BY <1>3, <1>4, <1>5
  <1> QED BY <1>4, <1>5, <1>6

\* Steps that leave the ring alone leave its contents alone.
LEMMA ContentsUnchanged ==
    ASSUME UNCHANGED ring
    PROVE  Contents' = Contents
  BY DEF ring, Contents

\* A call that starts is not waiting, and asks for what it was called with.
LEMMA NewCallAsks ==
    ASSUME TypeOK, BlockedIffPending, NEW t \in Threads,
           NEW m \in Msgs \cup {NoMsg}, NEW timeout, Calls(t, m, timeout)
    PROVE  Abstract!Asks(t, m) /\ ~Abstract!Waiting(t)
  <1>1. ~Abstract!Waiting(t)
    BY DEF BlockedIffPending, Calls, Abstract!Waiting
  <1>2. Asked' = [Asked EXCEPT ![t] = m]
    BY DEF Asked, Calls, TypeOK
  <1> QED BY <1>1, <1>2 DEF Abstract!Asks

\* A call that goes on asks for what it was called with.
LEMMA OldCallAsks ==
    ASSUME NEW t \in Threads, UNCHANGED call
    PROVE  Abstract!Asks(t, call[t].msg) /\ Asked' = Asked
  <1>1. Asked' = [Asked EXCEPT ![t] = call[t].msg] /\ Asked[t] = call[t].msg
    BY DEF Asked
  <1> QED BY <1>1 DEF Abstract!Asks, Asked

\* The end of a send appends its message to the contents, or fails for a reason
\* that the contents justify (osa_queue.c:165-187).
LEMMA SendTailRefines ==
    ASSUME TypeOK, RingConsistent, NEW t \in Threads, NEW m \in Msgs,
           SendTail(t, m), closed' = closed, Abstract!Asks(t, m),
           ~closed /\ Full => ~Abstract!Waiting(t)
    PROVE  Abstract!Next
  <1> USE TypeOK, RingConsistent, MaxMsgsAssumption
  <1>0. m \in Msgs \cup {NoMsg} /\ m # NoMsg
    BY NoMsgAssumption
  <1>1. CASE closed \/ Full
    <2>1. /\ Returns(t, IF closed THEN "EPIPE" ELSE "EAGAIN", NoMsg)
          /\ UNCHANGED ring
      BY <1>1, SendTail(t, m) DEF SendTail
    <2>2. CASE closed
      <3>1. Abstract!NoEffect(t, m, "EPIPE")
        BY <1>0, <2>1, <2>2, ContentsUnchanged
           DEF Abstract!NoEffect, Abstract!Returns, Abstract!Outcome, Returns
      <3> QED BY <1>0, <3>1 DEF Abstract!Next, Abstract!Codes
    <2>3. CASE ~closed
      <3>1. Len(Contents) = MaxMsgs
        BY <1>1, <2>3, ContentsType DEF Full, TypeOK
      <3>2. ~Abstract!Waiting(t)
        BY <1>1, <2>3
      <3>3. Abstract!NoEffect(t, m, "EAGAIN")
        BY <1>0, <2>1, <2>3, <3>1, <3>2, ContentsUnchanged
           DEF Abstract!NoEffect, Abstract!Stuck, Abstract!Returns,
               Abstract!Outcome, Returns
      <3> QED BY <1>0, <3>3 DEF Abstract!Next, Abstract!Codes
    <2> QED BY <2>2, <2>3
  <1>2. CASE ~(closed \/ Full)
    <2>1. /\ buffer' = [buffer EXCEPT ![tail] = m]
          /\ count' = count + 1
          /\ head' = head
          /\ Returns(t, "OK", NoMsg)
      BY <1>2, SendTail(t, m) DEF SendTail
    <2>2. /\ head \in 0 .. MaxMsgs - 1 /\ tail \in 0 .. MaxMsgs - 1
          /\ count \in 0 .. MaxMsgs - 1
      BY <1>2 DEF TypeOK, Full
    <2>3. Contents' = Append(Contents, m)
      <3>1. Contents' = [i \in 1 .. count + 1 |-> buffer'[(head + i - 1) % MaxMsgs]]
        BY <2>1 DEF Contents
      <3>2. /\ Contents \in Seq(Msgs \cup {NoMsg}) /\ Len(Contents) = count
        BY ContentsType
      <3>3. Append(Contents, m) =
                [i \in 1 .. count + 1 |-> IF i = count + 1 THEN m ELSE Contents[i]]
        BY <3>2, AppendAsFunction, m \in Msgs \cup {NoMsg}
      <3>4. ASSUME NEW i \in 1 .. count + 1
            PROVE  buffer'[(head + i - 1) % MaxMsgs] =
                       IF i = count + 1 THEN m ELSE Contents[i]
        <4>1. CASE i = count + 1
          <5>1. head + i - 1 = head + count
            BY <4>1, <2>2
          <5>2. (head + i - 1) % MaxMsgs = tail
            BY <5>1 DEF RingConsistent
          <5> QED BY <4>1, <5>2, <2>1, <2>2 DEF TypeOK
        <4>2. CASE i # count + 1
          <5>1. i \in 1 .. count
            BY <4>2, <2>2
          <5>2. Contents[i] = buffer[(head + i - 1) % MaxMsgs]
            BY <5>1 DEF Contents
          <5>3. (head + i - 1) % MaxMsgs # tail
            <6>1. tail = IF head + count < MaxMsgs THEN head + count
                                                   ELSE head + count - MaxMsgs
              BY <2>2, ModuloMaxMsgs, head + count \in 0 .. 2 * MaxMsgs - 1
                 DEF RingConsistent
            <6>2. (head + i - 1) % MaxMsgs =
                      IF head + i - 1 < MaxMsgs THEN head + i - 1
                                                ELSE head + i - 1 - MaxMsgs
              BY <2>2, <5>1, ModuloMaxMsgs, head + i - 1 \in 0 .. 2 * MaxMsgs - 1
            <6> QED BY <6>1, <6>2, <2>2, <5>1
          <5>4. (head + i - 1) % MaxMsgs \in 0 .. MaxMsgs - 1
            BY <2>2
          <5> QED BY <4>2, <5>2, <5>3, <5>4, <2>1 DEF TypeOK
        <4> QED BY <4>1, <4>2
      <3> QED BY <3>1, <3>3, <3>4
    <2>4. Len(Contents) < MaxMsgs
      BY <2>2, ContentsType
    <2>5. Abstract!Put(t, m)
      BY <1>2, <2>1, <2>3, <2>4
         DEF Abstract!Put, Abstract!Returns, Abstract!Outcome, Returns
    <2> QED BY <2>5 DEF Abstract!Next
  <1> QED BY <1>1, <1>2

\* The end of a receive takes the oldest message, or fails for a reason that
\* the contents justify (osa_queue.c:239-261).
LEMMA ReceiveTailRefines ==
    ASSUME TypeOK, RingConsistent, NEW t \in Threads, ReceiveTail(t),
           closed' = closed, Abstract!Asks(t, NoMsg),
           ~closed /\ Empty => ~Abstract!Waiting(t)
    PROVE  Abstract!Next
  <1> USE TypeOK, RingConsistent, MaxMsgsAssumption
  <1>0. Contents \in Seq(Msgs \cup {NoMsg}) /\ Len(Contents) = count
    BY ContentsType
  <1>1. CASE Empty
    <2>1. /\ Returns(t, IF closed THEN "EPIPE" ELSE "EAGAIN", NoMsg)
          /\ UNCHANGED ring
      BY <1>1, ReceiveTail(t) DEF ReceiveTail
    <2>2. Contents = << >>
      BY <1>0, <1>1 DEF Empty
    <2>3. CASE closed
      <3>1. Abstract!NoEffect(t, NoMsg, "EPIPE")
        BY <2>1, <2>2, <2>3, ContentsUnchanged
           DEF Abstract!NoEffect, Abstract!Stuck, Abstract!Returns,
               Abstract!Outcome, Returns
      <3> QED BY <3>1 DEF Abstract!Next, Abstract!Codes
    <2>4. CASE ~closed
      <3>1. Abstract!NoEffect(t, NoMsg, "EAGAIN")
        BY <1>1, <2>1, <2>2, <2>4, ContentsUnchanged
           DEF Abstract!NoEffect, Abstract!Stuck, Abstract!Returns,
               Abstract!Outcome, Returns
      <3> QED BY <3>1 DEF Abstract!Next, Abstract!Codes
    <2> QED BY <2>3, <2>4
  <1>2. CASE ~Empty
    <2>1. /\ head' = Advance(head)
          /\ count' = count - 1
          /\ buffer' = buffer
          /\ Returns(t, "OK", Oldest)
      BY <1>2, ReceiveTail(t) DEF ReceiveTail
    <2>2. /\ head \in 0 .. MaxMsgs - 1 /\ count \in 1 .. MaxMsgs
      BY <1>2 DEF TypeOK, Empty
    <2>3. Contents # << >>
      BY <1>0, <2>2
    <2>4. Head(Contents) = buffer[head]
      <3>1. (head + 1 - 1) % MaxMsgs = head
        BY <2>2, ModuloMaxMsgs, head \in 0 .. 2 * MaxMsgs - 1, head + 1 - 1 = head
      <3>2. Contents[1] = buffer[head]
        BY <2>2, <3>1 DEF Contents
      <3> QED BY <1>0, <2>3, <3>2
    <2>5. Contents' = Tail(Contents)
      <3>1. Contents' = [i \in 1 .. count - 1 |->
                             buffer[(Advance(head) + i - 1) % MaxMsgs]]
        BY <2>1 DEF Contents
      <3>2. Tail(Contents) = [i \in 1 .. count - 1 |-> Contents[i + 1]]
        BY <1>0, <2>3, TailAsFunction
      <3>3. ASSUME NEW i \in 1 .. count - 1
            PROVE  buffer[(Advance(head) + i - 1) % MaxMsgs] = Contents[i + 1]
        <4>1. Contents[i + 1] = buffer[(head + (i + 1) - 1) % MaxMsgs]
          BY <2>2, i + 1 \in 1 .. count DEF Contents
        <4>2. head + (i + 1) - 1 = head + i
          BY <2>2
        <4>3. Advance(head) = IF head = MaxMsgs - 1 THEN 0 ELSE head + 1
          BY <2>2, AdvanceType
        <4>4. CASE head = MaxMsgs - 1
          <5>1. Advance(head) + i - 1 = i - 1
            BY <4>3, <4>4
          <5>2. (i - 1) % MaxMsgs = i - 1
            BY <2>2, ModuloMaxMsgs, i - 1 \in 0 .. 2 * MaxMsgs - 1
          <5>3. (head + i) % MaxMsgs = i - 1
            BY <2>2, <4>4, ModuloMaxMsgs, head + i \in 0 .. 2 * MaxMsgs - 1
          <5> QED BY <4>1, <4>2, <5>1, <5>2, <5>3
        <4>5. CASE head # MaxMsgs - 1
          <5>1. Advance(head) + i - 1 = head + i
            BY <2>2, <4>3, <4>5
          <5> QED BY <4>1, <4>2, <5>1
        <4> QED BY <4>4, <4>5
      <3> QED BY <3>1, <3>2, <3>3
    <2>6. Abstract!Get(t)
      BY <2>1, <2>3, <2>4, <2>5
         DEF Abstract!Get, Abstract!Returns, Abstract!Outcome, Returns, Oldest
    <2> QED BY <2>6 DEF Abstract!Next
  <1> QED BY <1>1, <1>2

\* The Linux queue implements the bounded first-in first-out queue that its
\* callers rely on: every message sent is received once, in the order of
\* sending, and every failure is justified (osa_queue.c:116-262).
THEOREM Refinement == Spec => ImplementsBoundedQueue
  <1>1. Init => Abstract!Init
    <2> SUFFICES ASSUME Init PROVE Abstract!Init
      OBVIOUS
    <2>1. Contents = << >>
      BY DEF Init, Contents
    <2>2. Asked = [t \in Threads |-> NoMsg]
      BY DEF Init, Asked
    <2> QED BY <2>1, <2>2 DEF Init, Abstract!Init, Abstract!Outcome
  <1>2. IInv /\ [Next]_vars => [Abstract!Next]_(Abstract!qvars)
    <2> SUFFICES ASSUME IInv, [Next]_vars
                 PROVE  Abstract!Next \/ UNCHANGED <<Contents, closed, Asked, res>>
      BY DEF Abstract!qvars
    <2> USE IInv DEF IInv, WakeupInv
    <2>0. Contents \in Seq(Msgs \cup {NoMsg}) /\ Len(Contents) = count
      BY ContentsType
    <2>1. ASSUME NEW t \in Threads, NEW m \in Msgs, NEW timeout \in Timeouts,
                 Send(t, m, timeout)
          PROVE  Abstract!Next
      <3>0. Abstract!Asks(t, m) /\ ~Abstract!Waiting(t) /\ m # NoMsg
        BY <2>1, NewCallAsks, NoMsgAssumption DEF Send
      <3>1. CASE SendBlocks(t, timeout)
        <4>1. Len(Contents) = MaxMsgs
          BY <2>0, <3>1, MaxMsgsAssumption DEF SendBlocks, Full, TypeOK
        <4>2. Abstract!NoEffect(t, m, "PENDING")
          BY <2>1, <3>0, <3>1, <4>1, ContentsUnchanged
             DEF Send, SendBlocks, Returns, Abstract!NoEffect,
                 Abstract!Stuck, Abstract!Returns, Abstract!Outcome
        <4> QED BY <4>2 DEF Abstract!Next, Abstract!Codes
      <3>2. CASE SendAtOnce(t, m, timeout)
        BY <2>1, <3>0, <3>2, SendTailRefines DEF Send, SendAtOnce
      <3> QED BY <2>1, <3>1, <3>2 DEF Send
    <2>2. ASSUME NEW t \in Threads, NEW timeout \in Timeouts, Receive(t, timeout)
          PROVE  Abstract!Next
      <3>0. Abstract!Asks(t, NoMsg) /\ ~Abstract!Waiting(t)
        BY <2>2, NewCallAsks DEF Receive
      <3>1. CASE ReceiveBlocks(t, timeout)
        <4>1. Contents = << >>
          BY <2>0, <3>1 DEF ReceiveBlocks, Empty
        <4>2. Abstract!NoEffect(t, NoMsg, "PENDING")
          BY <2>2, <3>0, <3>1, <4>1, ContentsUnchanged
             DEF Receive, ReceiveBlocks, Returns, Abstract!NoEffect,
                 Abstract!Stuck, Abstract!Returns, Abstract!Outcome
        <4> QED BY <4>2 DEF Abstract!Next, Abstract!Codes
      <3>2. CASE ReceiveAtOnce(t, timeout)
        BY <2>2, <3>0, <3>2, ReceiveTailRefines DEF Receive, ReceiveAtOnce
      <3> QED BY <2>2, <3>1, <3>2 DEF Receive
    <2>3. ASSUME NEW t \in Threads, ResumeSend(t)
          PROVE  Abstract!Next \/ UNCHANGED <<Contents, closed, Asked, res>>
      <3>1. CASE Full /\ ~closed
        BY <2>3, <3>1, ContentsUnchanged, OldCallAsks DEF ResumeSend
      <3>2. CASE ~(Full /\ ~closed)
        <4>1. call[t].msg \in Msgs
          BY <2>3 DEF ResumeSend, CallersAsk
        <4>2. SendTail(t, call[t].msg) /\ closed' = closed
          BY <2>3, <3>2 DEF ResumeSend
        <4>3. Abstract!Asks(t, call[t].msg)
          BY <2>3, OldCallAsks DEF ResumeSend
        <4> QED BY <3>2, <4>1, <4>2, <4>3, SendTailRefines
      <3> QED BY <3>1, <3>2
    <2>4. ASSUME NEW t \in Threads, ResumeReceive(t)
          PROVE  Abstract!Next \/ UNCHANGED <<Contents, closed, Asked, res>>
      <3>1. CASE Empty /\ ~closed
        BY <2>4, <3>1, ContentsUnchanged, OldCallAsks DEF ResumeReceive
      <3>2. CASE ~(Empty /\ ~closed)
        <4>1. call[t].msg = NoMsg
          BY <2>4 DEF ResumeReceive, CallersAsk
        <4>2. ReceiveTail(t) /\ closed' = closed
          BY <2>4, <3>2 DEF ResumeReceive
        <4>3. Abstract!Asks(t, NoMsg)
          BY <2>4, <4>1, OldCallAsks DEF ResumeReceive
        <4> QED BY <3>2, <4>2, <4>3, ReceiveTailRefines
      <3> QED BY <3>1, <3>2
    <2>5. ASSUME NEW t \in Threads, ExpireSend(t) \/ ExpireReceive(t)
          PROVE  Abstract!Next
      <3>1. Abstract!Asks(t, call[t].msg) /\ call[t].msg \in Msgs \cup {NoMsg}
        BY <2>5, OldCallAsks DEF ExpireSend, ExpireReceive, TypeOK
      <3>2. Abstract!Waiting(t)
        BY <2>5 DEF ExpireSend, ExpireReceive, BlockedIffPending, Blocked,
                    Abstract!Waiting
      <3>3. Abstract!NoEffect(t, call[t].msg, "ETIMEDOUT")
        BY <2>5, <3>1, <3>2, ContentsUnchanged
           DEF ExpireSend, ExpireReceive, Returns, Abstract!NoEffect,
               Abstract!Returns, Abstract!Outcome
      <3> QED BY <3>1, <3>3 DEF Abstract!Next, Abstract!Codes
    <2>6. ASSUME NEW t \in Threads, SpuriousWakeup(t)
          PROVE  UNCHANGED <<Contents, closed, Asked, res>>
      BY <2>6, ContentsUnchanged, OldCallAsks DEF SpuriousWakeup
    <2>7. ASSUME Close PROVE Abstract!Next
      <3>1. Abstract!Close
        BY <2>7, ContentsUnchanged DEF Close, Asked, Abstract!Close
      <3> QED BY <3>1 DEF Abstract!Next
    <2>8. ASSUME Free PROVE UNCHANGED <<Contents, closed, Asked, res>>
      BY <2>8, ContentsUnchanged DEF Free, Asked
    <2>9. ASSUME UNCHANGED vars PROVE UNCHANGED <<Contents, closed, Asked, res>>
      BY <2>9, ContentsUnchanged DEF vars, ring, Asked
    <2> QED BY <2>1, <2>2, <2>3, <2>4, <2>5, <2>6, <2>7, <2>8, <2>9 DEF Next
  <1> QED BY <1>1, <1>2, Invariance, PTL
          DEF Spec, ImplementsBoundedQueue, Abstract!Spec
=============================================================================
