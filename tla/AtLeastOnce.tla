---------------------------- MODULE AtLeastOnce ----------------------------
(***************************************************************************)
(* What an outbox promises, without tables, polls, channels or processes:  *)
(* a message is sent only once it is due, any number of times until it is  *)
(* settled and never again; it is settled only after it was sent; and      *)
(* nothing is received that was not sent.                                  *)
(***************************************************************************)
EXTENDS Naturals

CONSTANT Message

VARIABLES
    fate,       \* "unknown", "due" once its transaction commits, or "settled"
    sent,       \* how often each was sent
    received    \* how often it was received

vars == <<fate, sent, received>>

Never == [m \in Message |-> 0]

Init == fate = [m \in Message |-> "unknown"] /\ sent = Never /\ received = Never

Due(batch) == \A m \in batch : fate[m] = "due"

Accept(m) ==
    /\ fate[m] = "unknown"
    /\ fate' = [fate EXCEPT ![m] = "due"]
    /\ UNCHANGED <<sent, received>>

Send(batch) ==
    /\ Due(batch)
    /\ sent' = [m \in Message |-> sent[m] + (IF m \in batch THEN 1 ELSE 0)]
    /\ UNCHANGED <<fate, received>>

Receive(m) ==
    /\ received[m] < sent[m]
    /\ received' = [received EXCEPT ![m] = @ + 1]
    /\ UNCHANGED <<fate, sent>>

Settle(batch) ==
    /\ Due(batch) /\ \A m \in batch : sent[m] > 0
    /\ fate' = [m \in Message |-> IF m \in batch THEN "settled" ELSE fate[m]]
    /\ UNCHANGED <<sent, received>>

Next ==
    \/ \E m \in Message : Accept(m) \/ Receive(m)
    \/ \E batch \in SUBSET Message : Send(batch) \/ Settle(batch)

Spec == Init /\ [][Next]_vars
=============================================================================
