------------------------------ MODULE Mailing ------------------------------
(***************************************************************************)
(* What the two services promise the subscribers of a repository, without  *)
(* queues, sockets, processes or copies.  An event is closed only once     *)
(* everybody who was confirmed when it was announced, and has been since,  *)
(* has been promised an email; it is promised while the event is open, and *)
(* to nobody who was never confirmed or had left before the event.  Only   *)
(* promised emails are sent, and only who was sent a confirmation email    *)
(* gets confirmed.                                                         *)
(***************************************************************************)
CONSTANTS Subscriber, Event, Confirmation

VARIABLES
    row,        \* subscriptions: unconfirmed, confirmed, gone
    fate,       \* each event: none, open, closed, or refused
    due,        \* who was confirmed when an event was announced, and since
    late,       \* who was gone when it was announced
    email       \* each email: none, promised (or reported as lost), or sent

vars == <<row, fate, due, late, email>>

Mail == (Event \cup {Confirmation}) \X Subscriber

Those(status) == {s \in Subscriber : row[s] = status}

Init ==
    /\ row = [s \in Subscriber |-> "unconfirmed"]
    /\ fate = [e \in Event |-> "none"]
    /\ due = [e \in Event |-> {}] /\ late = [e \in Event |-> {}]
    /\ email = [m \in Mail |-> "none"]

\* Without confirmed subscribers there is nothing to wait for.
Announce(e) ==
    /\ fate[e] = "none"
    /\ \/ fate' = [fate EXCEPT ![e] = "open"]
       \/ Those("confirmed") = {} /\ fate' = [fate EXCEPT ![e] = "closed"]
    /\ due' = [due EXCEPT ![e] = Those("confirmed")]
    /\ late' = [late EXCEPT ![e] = Those("gone")]
    /\ UNCHANGED <<row, email>>

Promise(about, s) ==
    /\ email[<<about, s>>] = "none"
    /\ about \in Event =>
          fate[about] = "open" /\ row[s] # "unconfirmed" /\ s \notin late[about]
    /\ email' = [email EXCEPT ![<<about, s>>] = "promised"]
    /\ UNCHANGED <<row, fate, due, late>>

Send(about, s) ==
    /\ email[<<about, s>>] = "promised"
    /\ email' = [email EXCEPT ![<<about, s>>] = "sent"]
    /\ UNCHANGED <<row, fate, due, late>>

Close(e) ==
    /\ fate[e] = "open"
    /\ \A s \in due[e] : email[<<e, s>>] # "none"
    /\ fate' = [fate EXCEPT ![e] = "closed"]
    /\ UNCHANGED <<row, due, late, email>>

Refuse(e) ==
    /\ fate[e] = "open"
    /\ fate' = [fate EXCEPT ![e] = "refused"]
    /\ UNCHANGED <<row, due, late, email>>

Confirm(s) ==
    /\ row[s] = "unconfirmed"
    /\ email[<<Confirmation, s>>] = "sent"
    /\ row' = [row EXCEPT ![s] = "confirmed"]
    /\ UNCHANGED <<fate, due, late, email>>

Leave(s) ==
    /\ row[s] # "gone"
    /\ \E m \in Mail : m[2] = s /\ email[m] = "sent"
    /\ row' = [row EXCEPT ![s] = "gone"]
    /\ due' = [e \in Event |-> IF fate[e] = "closed" THEN due[e] ELSE due[e] \ {s}]
    /\ UNCHANGED <<fate, late, email>>

Next ==
    \/ \E e \in Event : Announce(e) \/ Close(e) \/ Refuse(e)
    \/ \E s \in Subscriber :
           \/ Confirm(s) \/ Leave(s)
           \/ \E about \in Event \cup {Confirmation} : Promise(about, s) \/ Send(about, s)

Spec == Init /\ [][Next]_vars
=============================================================================
