---------------------------- MODULE DoubleOptIn ----------------------------
(***************************************************************************)
(* What the subscription service promises, without sagas, timers, messages *)
(* or processes: a subscription is stored for its pair of email and        *)
(* repository at most once, its tokens are mailed only after it is stored, *)
(* it becomes active only through a mailed token, it never comes back once *)
(* it is gone, and a client is told "confirmation email sent" only after   *)
(* it was.                                                                 *)
(***************************************************************************)
CONSTANTS
    Subscription,   \* subscriptions anybody may ask for
    PairOf          \* the email and repository of each

VARIABLES
    state,          \* "absent", "pending", "active" or "gone"
    mailed,         \* subscriptions whose tokens were mailed
    answered        \* subscriptions whose request was answered "created"

vars == <<state, mailed, answered>>

Alive(s) == state[s] \in {"pending", "active"}

Init ==
    /\ state = [s \in Subscription |-> "absent"]
    /\ mailed = {}
    /\ answered = {}

Store(s) ==
    /\ state[s] = "absent"
    /\ \A t \in Subscription : PairOf[t] = PairOf[s] => ~Alive(t)
    /\ state' = [state EXCEPT ![s] = "pending"]
    /\ UNCHANGED <<mailed, answered>>

Mail(s) ==
    /\ state[s] # "absent"
    /\ mailed' = mailed \cup {s}
    /\ UNCHANGED <<state, answered>>

Activate(s) ==
    /\ s \in mailed
    /\ state[s] = "pending"
    /\ state' = [state EXCEPT ![s] = "active"]
    /\ UNCHANGED <<mailed, answered>>

Remove(s) ==
    /\ Alive(s)
    /\ state' = [state EXCEPT ![s] = "gone"]
    /\ UNCHANGED <<mailed, answered>>

AnswerCreated(s) ==
    /\ s \in mailed
    /\ answered' = answered \cup {s}
    /\ UNCHANGED <<state, mailed>>

Next == \E s \in Subscription :
            Store(s) \/ Mail(s) \/ Activate(s) \/ Remove(s) \/ AnswerCreated(s)

Spec == Init /\ [][Next]_vars
=============================================================================
