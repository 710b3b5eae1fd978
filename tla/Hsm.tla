-------------------------------- MODULE Hsm --------------------------------
(***************************************************************************)
(* The state machine core (core/hsm.h): macros that a state's handler uses *)
(* to move the machine to another state or to pass an event to the parent  *)
(* state.  Both call another handler before they return, so a dispatched   *)
(* event grows a stack of handler calls.                                   *)
(*                                                                         *)
(* What a handler does is the user's: here each call of a handler uses at  *)
(* most one of the two macros, any one of them, and then returns, as the   *)
(* switch statements of the handlers in README.md and examples/ do.  One   *)
(* thread runs all of it.                                                  *)
(***************************************************************************)
EXTENDS Integers, Sequences

CONSTANTS
    States,      \* the states of the machine
    NULL,        \* "no parent"
    parent,      \* parent[s]: the state s is nested in, or NULL
    initial,     \* the state given to osa_hsm_active_init
    Signals,     \* the user's signals
    Escalates,   \* TRUE: a handler also delegates an event delegated to it
    MaxCalls     \* bound: the depth of nested handler calls

ASSUME HierarchyAssumption ==
    /\ NULL \notin States
    /\ parent \in [States -> States \cup {NULL}]
    /\ initial \in States
ASSUME SignalsAssumption == "ENTRY" \notin Signals
ASSUME UsersAssumption == Escalates \in BOOLEAN /\ MaxCalls \in Nat \ {0}

VARIABLES
    current, histroy,  \* the active state, and the one before it
    error,             \* what the last handler called by a macro returned
    stack              \* the handler calls, innermost last

vars == <<current, histroy, error, stack>>

\* A call of a state's handler: by "dispatch" (or STATE_INIT of the dispatcher
\* thread), "transit" or "super"; acted: it has used its macro.
Call(s, sig, by) == [state |-> s, signal |-> sig, by |-> by, acted |-> FALSE]

Top == stack[Len(stack)]

\* The innermost call uses its macro, which calls c.
Nest(c) == stack' = Append([stack EXCEPT ![Len(stack)].acted = TRUE], c)

\* osa_hsm_active_init, and STATE_INIT in the dispatcher thread.
Init ==
    /\ current = initial
    /\ histroy = initial
    /\ error = 0
    /\ stack = <<Call(initial, "ENTRY", "dispatch")>>

\* STATE_DISPATCH(hsm->super.current, &event): the dispatcher thread takes the
\* next event when the handling of the last one is over.
Dispatch(sig) ==
    /\ stack = << >>
    /\ stack' = <<Call(current, sig, "dispatch")>>
    /\ UNCHANGED <<current, histroy, error>>

\* The macros are used by a handler that is running and has not used one.
MayAct == stack # << >> /\ ~Top.acted /\ Len(stack) < MaxCalls

\* The assignments of STATE_TRANSIT.
Enter(s) ==
    /\ histroy' = current
    /\ current' = s

\* STATE_TRANSIT(s): the new state's handler is called with HSM_SIG_ENTRY when
\* the machine is already in it; no handler is called with HSM_SIG_EXIT.
Transit(s) ==
    /\ MayAct
    /\ Enter(s)
    /\ Nest(Call(s, "ENTRY", "transit"))
    /\ UNCHANGED error

MutantSuperState == parent[histroy]

\* The handler that STATE_SUPER calls belongs to the parent of the current
\* state, whichever state's handler uses the macro.
SuperState == parent[current]

MutantSuper ==
    /\ MayAct
    /\ Escalates \/ Top.by # "super"
    /\ Nest(Call(SuperState, Top.signal, "super"))
    /\ UNCHANGED <<current, histroy, error>>

\* STATE_SUPER(e); without a parent the macro does nothing.
Super ==
    /\ MayAct
    /\ Escalates \/ Top.by # "super"
    /\ SuperState # NULL
    /\ Nest(Call(SuperState, Top.signal, "super"))
    /\ UNCHANGED <<current, histroy, error>>

\* The innermost handler returns; the macro that called it keeps the value.
Return(value) ==
    /\ stack # << >>
    /\ stack' = SubSeq(stack, 1, Len(stack) - 1)
    /\ error' = IF Top.by = "dispatch" THEN error ELSE value
    /\ UNCHANGED <<current, histroy>>

Next ==
    \/ \E sig \in Signals : Dispatch(sig)
    \/ \E s \in States : Transit(s)
    \/ Super
    \/ \E value \in {0, -1} : Return(value)

Spec == Init /\ [][Next]_vars

-----------------------------------------------------------------------------
(* Correctness *)

Calls == [state : States, signal : Signals \cup {"ENTRY"},
          by : {"dispatch", "transit", "super"}, acted : BOOLEAN]

TypeOK ==
    /\ current \in States
    /\ histroy \in States
    /\ error \in {0, -1}
    /\ stack \in Seq(Calls)

\* STATE_SUPER passes an event to the parent of the state whose handler uses it
\* (hsm.h:123-126): delegation climbs the hierarchy one level at a time.
DelegationClimbs ==
    \A i \in 2 .. Len(stack) :
        stack[i].by = "super" => stack[i].state = parent[stack[i - 1].state]
=============================================================================
