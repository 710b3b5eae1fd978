----------------------------- MODULE HsmProofs -----------------------------
(***************************************************************************)
(* Proofs about the state machine core, for any hierarchy of states, any   *)
(* set of signals and any depth of nested calls.                           *)
(***************************************************************************)
EXTENDS Hsm, SequenceFacts, TLAPS

\* What the innermost call's use of a macro does to the stack.
LEMMA NestBasics ==
    ASSUME TypeOK, stack # << >>, NEW c \in Calls, Nest(c)
    PROVE  /\ stack' \in Seq(Calls)
           /\ Len(stack) \in Nat /\ Len(stack) >= 1
           /\ Len(stack') = Len(stack) + 1
           /\ stack'[Len(stack) + 1] = c
           /\ \A i \in 1 .. Len(stack) :
                  /\ stack'[i].state = stack[i].state
                  /\ stack'[i].by = stack[i].by
                  /\ stack'[i].acted = (i = Len(stack) \/ stack[i].acted)
  <1> DEFINE n == Len(stack)
             marked == [stack EXCEPT ![n].acted = TRUE]
  <1>1. /\ stack \in Seq(Calls) /\ n \in Nat /\ n >= 1
        /\ DOMAIN stack = 1 .. n
        /\ \A i \in 1 .. n : stack[i] \in Calls
    BY TypeOK, SeqBasics DEF TypeOK
  <1>2. stack \in [1 .. n -> Calls]
    BY <1>1
  <1>3. marked \in [1 .. n -> Calls]
    BY <1>1, <1>2 DEF Calls
  <1>4. marked \in Seq(Calls) /\ Len(marked) = n
    BY <1>1, <1>3, FunctionIsSequence
  <1>5. stack' = Append(marked, c)
    BY Nest(c) DEF Nest
  <1>6. \A i \in 1 .. n : stack[i].acted \in BOOLEAN
    BY <1>1 DEF Calls
  <1>7. \A i \in 1 .. n :
            /\ marked[i].state = stack[i].state
            /\ marked[i].by = stack[i].by
            /\ marked[i].acted = (i = n \/ stack[i].acted)
    BY <1>1, <1>2, <1>6 DEF Calls
  <1> HIDE DEF marked, n
  <1>8. /\ Append(marked, c) \in Seq(Calls)
        /\ Len(Append(marked, c)) = n + 1
        /\ \A i \in 1 .. n : Append(marked, c)[i] = marked[i]
        /\ Append(marked, c)[n + 1] = c
    BY <1>4, AppendBasics
  <1> QED BY <1>1, <1>5, <1>7, <1>8 DEF n

\* What the return of the innermost handler does to the stack.
LEMMA ReturnBasics ==
    ASSUME TypeOK, NEW value, Return(value)
    PROVE  /\ stack' \in Seq(Calls)
           /\ Len(stack) \in Nat /\ Len(stack) >= 1
           /\ Len(stack') = Len(stack) - 1
           /\ \A i \in 1 .. Len(stack) - 1 : stack'[i] = stack[i]
  <1>1. /\ stack \in Seq(Calls) /\ Len(stack) \in Nat
        /\ stack = << >> <=> Len(stack) = 0
    BY TypeOK, SeqBasics DEF TypeOK
  <1>2. stack # << >> /\ stack' = SubSeq(stack, 1, Len(stack) - 1)
    BY Return(value) DEF Return
  <1>3. Len(stack) >= 1
    BY <1>1, <1>2
  <1> DEFINE m == Len(stack) - 1
             front == SubSeq(stack, 1, m)
  <1>4. m \in Nat /\ \A i \in 1 .. m : stack[i] \in Calls
    BY <1>1, <1>3, SeqBasics
  <1> HIDE DEF m
  <1>5. /\ front \in Seq(Calls)
        /\ Len(front) = IF 1 <= m THEN m - 1 + 1 ELSE 0
        /\ \A i \in 1 .. m - 1 + 1 : front[i] = stack[1 + i - 1]
    BY <1>4, SubSeqProperties
  <1>6. Len(front) = m /\ \A i \in 1 .. m : front[i] = stack[i]
    BY <1>4, <1>5
  <1> QED BY <1>1, <1>2, <1>3, <1>5, <1>6 DEF m

\* A new call is a call.
LEMMA CallType ==
    ASSUME NEW s \in States, NEW sig \in Signals \cup {"ENTRY"},
           NEW by \in {"dispatch", "transit", "super"}
    PROVE  /\ Call(s, sig, by) \in Calls
           /\ Call(s, sig, by).state = s /\ Call(s, sig, by).by = by
           /\ ~Call(s, sig, by).acted
  BY DEF Call, Calls

\* The calls below the innermost one have used their macro.
LowerHaveActed == \A i \in 1 .. Len(stack) - 1 : stack[i].acted

\* A handler that has not used its macro is the current state's or, called by
\* STATE_SUPER, its parent's.
ActsForCurrent ==
    (stack # << >> /\ ~Top.acted) =>
        Top.state = IF Top.by = "super" THEN parent[current] ELSE current

\* The inductive invariant.
CallInv == TypeOK /\ LowerHaveActed /\ ActsForCurrent

\* A stack that holds one fresh call for the current state.
LEMMA FreshStack ==
    ASSUME NEW s \in States, NEW sig \in Signals \cup {"ENTRY"}
    PROVE  LET one == <<Call(s, sig, "dispatch")>>
           IN  /\ one \in Seq(Calls) /\ Len(one) = 1 /\ one # << >>
               /\ one[1] = Call(s, sig, "dispatch")
  BY CallType

\* Every step of the machine keeps the invariant.
LEMMA CallStep == CallInv /\ [Next]_vars => CallInv'
  <1> SUFFICES ASSUME CallInv, [Next]_vars PROVE CallInv'
    OBVIOUS
  <1>1. TypeOK /\ LowerHaveActed /\ ActsForCurrent
    BY DEF CallInv
  <1>2. /\ current \in States /\ histroy \in States /\ error \in {0, -1}
        /\ stack \in Seq(Calls)
    BY <1>1 DEF TypeOK
  <1>3. /\ Len(stack) \in Nat
        /\ \A i \in 1 .. Len(stack) : stack[i] \in Calls
        /\ stack # << >> => Len(stack) >= 1
    BY <1>2, SeqBasics
  <1>4. ASSUME NEW sig \in Signals, Dispatch(sig) PROVE CallInv'
    <2>1. /\ stack' = <<Call(current, sig, "dispatch")>>
          /\ UNCHANGED <<current, histroy, error>>
      BY <1>4 DEF Dispatch
    <2>2. /\ stack' \in Seq(Calls) /\ Len(stack') = 1
          /\ stack'[1] = Call(current, sig, "dispatch")
      BY <1>2, <2>1, FreshStack
    <2>3. TypeOK'
      BY <1>2, <2>1, <2>2 DEF TypeOK
    <2>4. LowerHaveActed'
      BY <2>2 DEF LowerHaveActed
    <2>5. ActsForCurrent'
      BY <1>2, <2>1, <2>2, CallType DEF ActsForCurrent, Top
    <2> QED BY <2>3, <2>4, <2>5 DEF CallInv
  <1>5. ASSUME stack # << >>, NEW s \in States, NEW by \in {"transit", "super"},
               NEW sig \in Signals \cup {"ENTRY"}, Nest(Call(s, sig, by)),
               s = IF by = "super" THEN parent[current'] ELSE current',
               current' \in States, histroy' \in States,
               error' = error
        PROVE  CallInv'
    <2>1. Call(s, sig, by) \in Calls
      BY <1>5, CallType
    <2>2. /\ stack' \in Seq(Calls) /\ Len(stack') = Len(stack) + 1
          /\ stack'[Len(stack) + 1] = Call(s, sig, by)
          /\ \A i \in 1 .. Len(stack) :
                 stack'[i].acted = (i = Len(stack) \/ stack[i].acted)
      BY <1>1, <1>5, <2>1, NestBasics
    <2>3. TypeOK'
      BY <1>2, <1>5, <2>2 DEF TypeOK
    <2>4. LowerHaveActed'
      <3>1. ASSUME NEW i \in 1 .. Len(stack) PROVE stack'[i].acted
        <4>1. CASE i = Len(stack)
          BY <2>2, <4>1
        <4>2. CASE i # Len(stack)
          <5>1. i \in 1 .. Len(stack) - 1
            BY <1>3, <4>2
          <5> QED BY <1>1, <2>2, <5>1 DEF LowerHaveActed
        <4> QED BY <4>1, <4>2
      <3>2. Len(stack') - 1 = Len(stack)
        BY <1>3, <2>2
      <3> QED BY <3>1, <3>2 DEF LowerHaveActed
    <2>5. ActsForCurrent'
      <3>1. Top' = Call(s, sig, by)
        BY <2>2 DEF Top
      <3>2. Top'.state = s /\ Top'.by = by
        BY <1>5, <3>1, CallType
      <3> QED BY <1>5, <3>2 DEF ActsForCurrent
    <2> QED BY <2>3, <2>4, <2>5 DEF CallInv
  <1>6. ASSUME NEW s \in States, Transit(s) PROVE CallInv'
    <2>1. /\ stack # << >> /\ Nest(Call(s, "ENTRY", "transit"))
          /\ current' = s /\ histroy' = current /\ error' = error
      BY <1>6 DEF Transit, MayAct, Enter
    <2> QED BY <1>2, <1>5, <2>1
  <1>7. ASSUME Super PROVE CallInv'
    <2>1. /\ stack # << >> /\ parent[current] # NULL
          /\ Nest(Call(parent[current], Top.signal, "super"))
          /\ UNCHANGED <<current, histroy, error>>
      BY <1>7 DEF Super, MayAct, SuperState
    <2>2. parent[current] \in States
      BY <1>2, <2>1, HierarchyAssumption
    <2>3. Top.signal \in Signals \cup {"ENTRY"}
      BY <1>3, <2>1 DEF Top, Calls
    <2> QED BY <1>2, <1>5, <2>1, <2>2, <2>3
  <1>8. ASSUME NEW value \in {0, -1}, Return(value) PROVE CallInv'
    <2>1. /\ stack' \in Seq(Calls) /\ Len(stack) >= 1
          /\ Len(stack') = Len(stack) - 1
          /\ \A i \in 1 .. Len(stack) - 1 : stack'[i] = stack[i]
      BY <1>1, <1>8, ReturnBasics
    <2>2. /\ current' = current /\ histroy' = histroy
          /\ error' \in {error, value}
      BY <1>8 DEF Return
    <2>3. TypeOK'
      BY <1>2, <2>1, <2>2 DEF TypeOK
    <2>4. LowerHaveActed'
      BY <1>1, <1>3, <2>1 DEF LowerHaveActed
    <2>5. ActsForCurrent'
      <3>1. ASSUME stack' # << >> PROVE Top'.acted
        <4>1. Len(stack') \in Nat /\ Len(stack') # 0
          BY <2>1, <3>1, SeqBasics
        <4>2. Len(stack') \in 1 .. Len(stack) - 1
          BY <1>3, <2>1, <4>1
        <4> QED BY <1>1, <2>1, <4>2 DEF Top, LowerHaveActed
      <3> QED BY <3>1 DEF ActsForCurrent
    <2> QED BY <2>3, <2>4, <2>5 DEF CallInv
  <1>9. CASE UNCHANGED vars
    BY <1>1, <1>9 DEF vars, CallInv, TypeOK, LowerHaveActed, ActsForCurrent, Top
  <1> QED BY <1>4, <1>6, <1>7, <1>8, <1>9 DEF Next

\* The initial state satisfies the invariant.
LEMMA CallInit == Init => CallInv /\ DelegationClimbs
  <1> SUFFICES ASSUME Init PROVE CallInv /\ DelegationClimbs
    OBVIOUS
  <1>1. /\ stack \in Seq(Calls) /\ Len(stack) = 1
        /\ stack[1] = Call(initial, "ENTRY", "dispatch")
    BY Init, HierarchyAssumption, FreshStack DEF Init
  <1>2. TypeOK
    BY Init, <1>1, HierarchyAssumption DEF Init, TypeOK
  <1>3. LowerHaveActed /\ DelegationClimbs
    BY <1>1 DEF LowerHaveActed, DelegationClimbs
  <1>4. ActsForCurrent
    BY Init, <1>1, CallType, HierarchyAssumption DEF Init, ActsForCurrent, Top
  <1> QED BY <1>2, <1>3, <1>4 DEF CallInv

\* Types, for every hierarchy and every use of the macros.
THEOREM TypeCorrect == Spec => []TypeOK
  <1>1. CallInv => TypeOK
    BY DEF CallInv
  <1> QED BY <1>1, CallInit, CallStep, PTL DEF Spec

\* If only handlers that were not called by STATE_SUPER use STATE_SUPER, every
\* delegated event goes to the parent of the state that delegates it.
THEOREM DelegationIsToTheParent ==
    ASSUME Escalates = FALSE
    PROVE  Spec => []DelegationClimbs
  <1>1. CallInv /\ DelegationClimbs /\ [Next]_vars => DelegationClimbs'
    <2> SUFFICES ASSUME CallInv, DelegationClimbs, [Next]_vars
                 PROVE  DelegationClimbs'
      OBVIOUS
    <2>1. TypeOK /\ ActsForCurrent
      BY DEF CallInv
    <2>2. /\ Len(stack) \in Nat /\ current \in States
          /\ \A i \in 1 .. Len(stack) : stack[i] \in Calls
          /\ stack # << >> => Len(stack) >= 1
      BY <2>1, SeqBasics DEF TypeOK
    <2>3. \A i \in 2 .. Len(stack) :
              stack[i].by = "super" => stack[i].state = parent[stack[i - 1].state]
      BY DEF DelegationClimbs
    <2>4. ASSUME NEW sig \in Signals, Dispatch(sig) PROVE DelegationClimbs'
      <3>1. Len(stack') = 1
        BY <2>2, <2>4, FreshStack DEF Dispatch
      <3> QED BY <3>1 DEF DelegationClimbs
    <2>5. ASSUME stack # << >>, NEW c \in Calls, Nest(c),
                 c.by = "super" => c.state = parent[Top.state]
          PROVE  DelegationClimbs'
      <3>1. /\ Len(stack') = Len(stack) + 1
            /\ stack'[Len(stack) + 1] = c
            /\ \A i \in 1 .. Len(stack) : /\ stack'[i].state = stack[i].state
                                          /\ stack'[i].by = stack[i].by
        BY <2>1, <2>5, NestBasics
      <3>2. SUFFICES ASSUME NEW i \in 2 .. Len(stack'), stack'[i].by = "super"
                     PROVE  stack'[i].state = parent[stack'[i - 1].state]
        BY DEF DelegationClimbs
      <3>3. CASE i = Len(stack) + 1
        <4>1. i - 1 = Len(stack) /\ Len(stack) \in 1 .. Len(stack)
          BY <2>2, <2>5, <3>3
        <4>2. stack'[i - 1].state = Top.state
          BY <3>1, <4>1 DEF Top
        <4> QED BY <2>5, <3>1, <3>2, <3>3, <4>2
      <3>4. CASE i # Len(stack) + 1
        <4>1. i \in 2 .. Len(stack) /\ i \in 1 .. Len(stack)
              /\ i - 1 \in 1 .. Len(stack)
          BY <2>2, <3>1, <3>2, <3>4
        <4> QED BY <2>3, <3>1, <3>2, <4>1
      <3> QED BY <3>3, <3>4
    <2>6. ASSUME NEW s \in States, Transit(s) PROVE DelegationClimbs'
      <3>1. stack # << >> /\ Nest(Call(s, "ENTRY", "transit"))
        BY <2>6 DEF Transit, MayAct
      <3>2. /\ Call(s, "ENTRY", "transit") \in Calls
            /\ Call(s, "ENTRY", "transit").by = "transit"
        BY <2>6, CallType
      <3> QED BY <2>5, <3>1, <3>2
    <2>7. ASSUME Super PROVE DelegationClimbs'
      <3>1. /\ stack # << >> /\ ~Top.acted /\ Top.by # "super"
            /\ parent[current] # NULL
            /\ Nest(Call(parent[current], Top.signal, "super"))
        BY <2>7, Escalates = FALSE DEF Super, MayAct, SuperState
      <3>2. Top.state = current
        BY <2>1, <3>1 DEF ActsForCurrent
      <3>3. parent[current] \in States /\ Top.signal \in Signals \cup {"ENTRY"}
        BY <2>2, <3>1, HierarchyAssumption DEF Top, Calls
      <3>4. /\ Call(parent[current], Top.signal, "super") \in Calls
            /\ Call(parent[current], Top.signal, "super").state = parent[current]
        BY <3>3, CallType
      <3> QED BY <2>5, <3>1, <3>2, <3>4
    <2>8. ASSUME NEW value \in {0, -1}, Return(value) PROVE DelegationClimbs'
      <3>1. /\ Len(stack') = Len(stack) - 1
            /\ \A i \in 1 .. Len(stack) - 1 : stack'[i] = stack[i]
        BY <2>1, <2>8, ReturnBasics
      <3>2. ASSUME NEW i \in 2 .. Len(stack'), stack'[i].by = "super"
            PROVE  stack'[i].state = parent[stack'[i - 1].state]
        <4>1. /\ i \in 2 .. Len(stack) /\ i \in 1 .. Len(stack) - 1
              /\ i - 1 \in 1 .. Len(stack) - 1
          BY <2>2, <3>1, <3>2
        <4> QED BY <2>3, <3>1, <3>2, <4>1
      <3> QED BY <3>2 DEF DelegationClimbs
    <2>9. CASE UNCHANGED vars
      BY <2>3, <2>9 DEF vars, DelegationClimbs
    <2> QED BY <2>4, <2>6, <2>7, <2>8, <2>9 DEF Next
  <1> QED BY <1>1, CallInit, CallStep, PTL DEF Spec
=============================================================================
