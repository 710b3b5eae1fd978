---------------------------- MODULE BoundedQueue ----------------------------
(***************************************************************************)
(* What a message queue of the OS abstraction layer promises its callers:  *)
(* a bounded first-in first-out queue that can be closed.  Every call of   *)
(* osa_queue_send or osa_queue_receive takes effect in one step, between   *)
(* its call and its return, and leaves a result behind.  How the calls     *)
(* wait, and how the messages are laid out in memory, is not visible here. *)
(* OsaQueue (the Linux implementation) is shown to implement this module;  *)
(* ActiveHsm builds on it.                                                 *)
(***************************************************************************)
EXTENDS Integers, Sequences

CONSTANTS
    Threads,    \* the callers
    Msgs,       \* the messages they send
    MaxMsgs,    \* capacity given to osa_queue_create
    NoMsg       \* "no message": in a result, or what a receive sends

VARIABLES
    msgs,       \* the messages sent and not yet received, oldest first
    open,       \* FALSE once osa_queue_destroy has closed the queue
    asked,      \* asked[t]: the message t's last call sends, NoMsg for a receive
    result      \* result[t]: what that call has returned, PENDING while it waits

qvars == <<msgs, open, asked, result>>

Codes == {"OK", "EPIPE", "EAGAIN", "ETIMEDOUT", "PENDING"}

Results == [code : Codes, msg : Msgs \cup {NoMsg}]

Outcome(code, m) == [code |-> code, msg |-> m]

Init ==
    /\ msgs = << >>
    /\ open = TRUE
    /\ asked = [t \in Threads |-> NoMsg]
    /\ result = [t \in Threads |-> Outcome("OK", NoMsg)]

Returns(t, code, m) == result' = [result EXCEPT ![t] = Outcome(code, m)]

Waiting(t) == result[t].code = "PENDING"

\* The step belongs to a call of t that sends m, or receives if m is NoMsg: a
\* new one, or the one that t waits in.
Asks(t, m) ==
    /\ Waiting(t) => asked[t] = m
    /\ asked' = [asked EXCEPT ![t] = m]

\* A send that is accepted: the message goes behind all others.
Put(t, m) ==
    /\ open
    /\ Len(msgs) < MaxMsgs
    /\ Asks(t, m)
    /\ msgs' = Append(msgs, m)
    /\ Returns(t, "OK", NoMsg)
    /\ UNCHANGED open

\* A receive that is served: the oldest message, even if the queue is closed.
Get(t) ==
    /\ msgs # << >>
    /\ Asks(t, NoMsg)
    /\ msgs' = Tail(msgs)
    /\ Returns(t, "OK", Head(msgs))
    /\ UNCHANGED open

\* There is no room for m, or nothing to receive.
Stuck(m) == IF m = NoMsg THEN msgs = << >> ELSE Len(msgs) = MaxMsgs

\* A call that fails, or one that begins to wait, changes no message.  EPIPE is
\* only given by a closed queue, to a receiver only if it is empty as well.
\* EAGAIN and waiting are only for a sender that finds the open queue full and
\* a receiver that finds it empty, EAGAIN not for a call that has waited, and
\* ETIMEDOUT only for a call that has.
NoEffect(t, m, code) ==
    /\ code = "EPIPE" => ~open /\ (m = NoMsg => Stuck(m))
    /\ code \in {"EAGAIN", "PENDING"} => open /\ Stuck(m) /\ ~Waiting(t)
    /\ code = "ETIMEDOUT" => Waiting(t)
    /\ code # "OK"
    /\ Asks(t, m)
    /\ Returns(t, code, NoMsg)
    /\ UNCHANGED <<msgs, open>>

Close ==
    /\ open' = FALSE
    /\ UNCHANGED <<msgs, asked, result>>

Next ==
    \/ \E t \in Threads :
           \/ \E m \in Msgs : Put(t, m)
           \/ Get(t)
           \/ \E m \in Msgs \cup {NoMsg}, code \in Codes : NoEffect(t, m, code)
    \/ Close

Spec == Init /\ [][Next]_qvars
=============================================================================
