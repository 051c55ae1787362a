------------------------------ MODULE Notifier ------------------------------
(***************************************************************************)
(* From a release to the mailboxes: the subscription service's consumer of *)
(* release events, which fans one event out to the confirmed subscribers   *)
(* of the repository; the email queue; and the email service's consumer,   *)
(* which hands each message to the SMTP server.  Confirmation emails take  *)
(* the same way.                                                           *)
(*                                                                         *)
(* The rows are those of one repository.  How a row comes to be there, and *)
(* what a click does besides changing it, is SubscriptionService; what     *)
(* makes the scanner announce a release is RepoManager.                    *)
(***************************************************************************)
EXTENDS Integers, Sequences

CONSTANTS
    Subscriber,     \* the rows of the repository
    Event,          \* the release.published messages, a repeated one anew
    Confirmation,   \* what a confirmation email is about, in place of an event
    MaxRequests,    \* bound on the confirmation emails asked for, per row
    MaxFailures     \* bound on the failures of either service

ASSUME ConstantsAssumption ==
    Confirmation \notin Event /\ MaxRequests \in Nat /\ MaxFailures \in Nat

VARIABLES
    row,        \* subscriptions: unconfirmed, confirmed, deleted
    requests,   \* how many confirmation emails each was asked for
    event,      \* each event, as the broker sees it
    handlers,   \* the events whose subscribers are being read
    wire,       \* what the subscription service has written to its socket
    ready,      \* copies of each email message in the queue
    unacked,    \* copies the email service was given and has not acknowledged
    sending,    \* copies its handlers are rendering or sending
    inbox,      \* how often the SMTP server accepted each email
    lost,       \* emails given up, because the dialogue with the SMTP server failed
    stage,      \* how far the process of each service has come
    channel,    \* its AMQP channel is open
    queues,     \* the services whose queue is declared and bound
    failures,   \* how often each has failed
    due,        \* who was confirmed when an event was announced, and since
    late        \* who was gone when it was announced

events  == <<event, handlers, wire>>
mails   == <<ready, unacked, sending, inbox, lost>>
process == <<stage, channel, queues>>
history == <<due, late>>
vars    == <<row, requests, events, mails, process, failures, history>>

Service == {"subscription", "email"}
Mail    == (Event \cup {Confirmation}) \X Subscriber

\* A write of one handler: the recipients it published to, and then what it
\* answered the broker about its event.
Write == [about : Event \cup {Confirmation}, to : SUBSET Subscriber,
          end : {"none", "acked", "rejected"}]

TypeOK ==
    /\ row \in [Subscriber -> {"unconfirmed", "confirmed", "gone"}]
    /\ requests \in [Subscriber -> 0..MaxRequests]
    /\ event \in [Event -> {"none", "dropped", "queued", "taken", "acked", "rejected"}]
    /\ handlers \subseteq Event
    /\ wire \in Seq(Write)
    /\ ready \in [Mail -> Nat] /\ unacked \in [Mail -> Nat]
    /\ sending \in [Mail -> Nat] /\ inbox \in [Mail -> Nat]
    /\ lost \subseteq Mail
    /\ stage \in [Service -> {"down", "bound", "up"}]
    /\ channel \in [Service -> BOOLEAN]
    /\ queues \subseteq Service
    /\ failures \in [Service -> 0..MaxFailures]
    /\ due \in [Event -> SUBSET Subscriber]
    /\ late \in [Event -> SUBSET Subscriber]

\* The first start of both services.  The rows' sagas are under way.
Init ==
    /\ row = [s \in Subscriber |-> "unconfirmed"]
    /\ requests = [s \in Subscriber |-> 0]
    /\ event = [e \in Event |-> "none"] /\ handlers = {} /\ wire = <<>>
    /\ ready = [m \in Mail |-> 0] /\ unacked = ready /\ sending = ready
    /\ inbox = ready /\ lost = {}
    /\ stage = [p \in Service |-> "down"]
    /\ channel = [p \in Service |-> FALSE]
    /\ queues = {}
    /\ failures = [p \in Service |-> 0]
    /\ due = [e \in Event |-> {}] /\ late = due

-----------------------------------------------------------------------------
(* Vocabulary *)

Up(p) == stage[p] = "up" /\ channel[p]

Confirmed == {s \in Subscriber : row[s] = "confirmed"}

Fail(p) ==
    /\ failures[p] < MaxFailures
    /\ failures' = [failures EXCEPT ![p] = @ + 1]

\* The broker takes back what a closed channel has not acknowledged.
Requeued == [e \in Event |-> IF event[e] = "taken" THEN "queued" ELSE event[e]]

TakesBack ==
    /\ ready' = [m \in Mail |-> ready[m] + unacked[m]]
    /\ unacked' = [m \in Mail |-> 0]

\* The process of a service ends, with its handlers and what is in its socket.
Die(p) ==
    /\ stage' = [stage EXCEPT ![p] = "down"]
    /\ channel' = [channel EXCEPT ![p] = FALSE]
    /\ UNCHANGED queues
    /\ IF p = "subscription"
       THEN /\ event' = Requeued /\ handlers' = {} /\ wire' = <<>>
            /\ UNCHANGED <<ready, unacked, sending>>
       ELSE /\ TakesBack
            /\ sending' = [m \in Mail |-> 0]
            /\ UNCHANGED events

\* publish() of the recipients, one by one, and the answer to the broker, with
\* nothing in between that waits.  On a closed channel every publish() throws
\* and is caught; then ack throws, nack throws, and nothing catches that.
WriteOut(e, to, end) ==
    /\ handlers' = handlers \ {e}
    /\ wire' = Append(wire, [about |-> e, to |-> to, end |-> end])
    /\ UNCHANGED <<event, ready, unacked, sending, process>>

HandlerReturns(e, to, end) ==
    \/ channel["subscription"] /\ WriteOut(e, to, end)
    \/ ~channel["subscription"] /\ Die("subscription")

-----------------------------------------------------------------------------
(* Slips a change to the code could make: each takes the place of the        *)
(* definition it is named after, to see that a property notices.             *)

\* AND confirmed = true is forgotten.
FanOutAll(e) ==
    /\ e \in handlers
    /\ HandlerReturns(e, {s \in Subscriber : row[s] # "gone"}, "acked")
    /\ UNCHANGED <<row, requests, inbox, lost, failures, history>>

\* The loop returns behind the first recipient.
FanOutFirst(e) ==
    /\ e \in handlers
    /\ HandlerReturns(e, {CHOOSE s \in Subscriber : s \in Confirmed \/ Confirmed = {}}
                          \cap Confirmed, "acked")
    /\ UNCHANGED <<row, requests, inbox, lost, failures, history>>

\* Events are consumed with noAck.
TakeEventNoAck(e) ==
    /\ Up("subscription")
    /\ event[e] = "queued"
    /\ event' = [event EXCEPT ![e] = "acked"]
    /\ handlers' = handlers \cup {e}
    /\ UNCHANGED <<row, requests, wire, mails, process, failures, history>>

\* A failed event is nacked and requeued.
FanOutFailsRequeued(e) ==
    /\ e \in handlers
    /\ Fail("subscription")
    /\ HandlerReturns(e, {}, "queued")
    /\ UNCHANGED <<row, requests, inbox, lost, history>>

\* The email queue is declared to be deleted with its last consumer.
RouteAutoDeleted(s) ==
    /\ wire # <<>> /\ s \in Head(wire).to
    /\ wire' = [wire EXCEPT ![1].to = @ \ {s}]
    /\ IF channel["email"] THEN ready' = [ready EXCEPT ![<<Head(wire).about, s>>] = @ + 1]
                           ELSE UNCHANGED ready
    /\ UNCHANGED <<row, requests, event, handlers, unacked, sending, inbox, lost,
                   process, failures, history>>

\* The answer to a message sent is a nack that requeues.
ReadAckRequeue(m) ==
    /\ Up("email")
    /\ unacked[m] > sending[m]
    /\ unacked' = [unacked EXCEPT ![m] = @ - 1]
    /\ ready' = [ready EXCEPT ![m] = @ + 1]
    /\ UNCHANGED <<row, requests, events, sending, inbox, lost, process, failures, history>>

-----------------------------------------------------------------------------
(* Starting a service: its queue is declared before it is consumed, and      *)
(* before its server listens.                                                *)

\* connect() and setupQueue().  When the attempts to connect are used up, or the
\* declaration fails, the process ends and is started anew.
SetupQueue(p) ==
    /\ stage[p] = "down"
    /\ stage' = [stage EXCEPT ![p] = "bound"]
    /\ channel' = [channel EXCEPT ![p] = TRUE]
    /\ queues' = queues \cup {p}
    /\ UNCHANGED <<row, requests, events, mails, failures, history>>

Consume(p) ==
    /\ stage[p] = "bound"
    /\ stage' = [stage EXCEPT ![p] = "up"]
    /\ UNCHANGED <<row, requests, events, mails, channel, queues, failures, history>>

-----------------------------------------------------------------------------
(* The subscription service *)

\* The scanner publishes release.published.  The exchange drops what no queue
\* is bound to.
Announce(e) ==
    /\ event[e] = "none"
    /\ event' = [event EXCEPT ![e] = IF "subscription" \in queues THEN "queued" ELSE "dropped"]
    /\ due' = [due EXCEPT ![e] = Confirmed]
    /\ late' = [late EXCEPT ![e] = {s \in Subscriber : row[s] = "gone"}]
    /\ UNCHANGED <<row, requests, handlers, wire, mails, process, failures>>

TakeEvent(e) ==
    /\ Up("subscription")
    /\ event[e] = "queued"
    /\ event' = [event EXCEPT ![e] = "taken"]
    /\ handlers' = handlers \cup {e}
    /\ UNCHANGED <<row, requests, wire, mails, process, failures, history>>

\* getConfirmedSubscriptionsByRepoName, and the loop over what it returns.
FanOut(e) ==
    /\ e \in handlers
    /\ HandlerReturns(e, Confirmed, "acked")
    /\ UNCHANGED <<row, requests, inbox, lost, failures, history>>

\* The statement fails: the event is nacked, and not requeued.
FanOutFails(e) ==
    /\ e \in handlers
    /\ Fail("subscription")
    /\ HandlerReturns(e, {}, "rejected")
    /\ UNCHANGED <<row, requests, inbox, lost, history>>

\* sendConfirmationEmail, for a saga or for a client who asks again.
SendConfirmation(s) ==
    /\ Up("subscription")
    /\ row[s] = "unconfirmed"
    /\ requests[s] < MaxRequests
    /\ requests' = [requests EXCEPT ![s] = @ + 1]
    /\ wire' = Append(wire, [about |-> Confirmation, to |-> {s}, end |-> "none"])
    /\ UNCHANGED <<row, event, handlers, mails, process, failures, history>>

Clicks(s) == stage["subscription"] = "up" /\ \E m \in Mail : m[2] = s /\ inbox[m] > 0

\* Only a confirmation email has the token.
Confirm(s) ==
    /\ Clicks(s) /\ inbox[<<Confirmation, s>>] > 0
    /\ row[s] = "unconfirmed"
    /\ row' = [row EXCEPT ![s] = "confirmed"]
    /\ UNCHANGED <<requests, events, mails, process, failures, history>>

\* Every email has the token.
Unsubscribe(s) ==
    /\ Clicks(s)
    /\ row[s] # "gone"
    /\ row' = [row EXCEPT ![s] = "gone"]
    /\ due' = [e \in Event |-> IF event[e] = "acked" THEN due[e] ELSE due[e] \ {s}]
    /\ UNCHANGED <<requests, events, mails, process, failures, late>>

-----------------------------------------------------------------------------
(* The broker reads the subscription service's socket, in order *)

Without(w, s) == [about |-> w.about, to |-> w.to \ {s}, end |-> w.end]

\* One recipient's message of the write at the head; the order of the rows is
\* the query's.  The exchange drops it as long as there is no queue.
Route(s) ==
    /\ wire # <<>> /\ s \in Head(wire).to
    /\ wire' = [wire EXCEPT ![1] = Without(@, s)]
    /\ \/ /\ "email" \in queues
          /\ ready' = [ready EXCEPT ![<<Head(wire).about, s>>] = @ + 1]
       \/ /\ "email" \notin queues
          /\ UNCHANGED ready
    /\ UNCHANGED <<row, requests, event, handlers, unacked, sending, inbox, lost,
                   process, failures, history>>

\* Its answer comes behind its messages.
ReadEnd ==
    /\ wire # <<>> /\ Head(wire).to = {}
    /\ wire' = Tail(wire)
    /\ event' = [e \in Event |-> IF Head(wire).about = e THEN Head(wire).end ELSE event[e]]
    /\ UNCHANGED <<row, requests, handlers, mails, process, failures, history>>

-----------------------------------------------------------------------------
(* The email service *)

\* No prefetch: any number of messages at once.
TakeMail(m) ==
    /\ Up("email")
    /\ ready[m] > 0
    /\ ready' = [ready EXCEPT ![m] = @ - 1]
    /\ unacked' = [unacked EXCEPT ![m] = @ + 1]
    /\ sending' = [sending EXCEPT ![m] = @ + 1]
    /\ UNCHANGED <<row, requests, events, inbox, lost, process, failures, history>>

\* The handler returns, and acks or nacks: that is in the socket, until ReadAck.
MailHandlerReturns(m) ==
    \/ /\ channel["email"]
       /\ sending' = [sending EXCEPT ![m] = @ - 1]
       /\ UNCHANGED <<events, ready, unacked, process>>
    \/ ~channel["email"] /\ Die("email")

\* render(), and a dialogue with the SMTP server to its end.
SendMail(m) ==
    /\ sending[m] > 0
    /\ inbox' = [inbox EXCEPT ![m] = @ + 1]
    /\ MailHandlerReturns(m)
    /\ UNCHANGED <<row, requests, lost, failures, history>>

\* The dialogue fails, or its last reply does: a nack that does not requeue.
SendFails(m) ==
    /\ sending[m] > 0
    /\ Fail("email")
    /\ inbox' \in {inbox, [inbox EXCEPT ![m] = @ + 1]}
    /\ lost' = lost \cup {m}
    /\ MailHandlerReturns(m)
    /\ UNCHANGED <<row, requests, history>>

\* The broker reads an ack or a nack: the copies unacknowledged and no longer
\* with a handler.
ReadAck(m) ==
    /\ Up("email")
    /\ unacked[m] > sending[m]
    /\ unacked' = [unacked EXCEPT ![m] = @ - 1]
    /\ UNCHANGED <<row, requests, events, ready, sending, inbox, lost, process, failures, history>>

-----------------------------------------------------------------------------
(* Channels and processes *)

\* A process without its channel.  Its handlers go on, too.
GoesOn(p) ==
    /\ channel' = [channel EXCEPT ![p] = FALSE]
    /\ IF p = "subscription"
       THEN event' = Requeued /\ wire' = <<>> /\ UNCHANGED <<ready, unacked>>
       ELSE TakesBack /\ UNCHANGED <<event, wire>>
    /\ UNCHANGED <<handlers, sending, stage, queues>>

\* The broker closes the connection, or shutdown() does; no other is opened.
\* A process that is still starting ends.
CloseChannel(p) ==
    /\ channel[p]
    /\ Fail(p)
    /\ \/ stage[p] # "up" /\ Die(p)
       \/ stage[p] = "up" /\ GoesOn(p)
    /\ UNCHANGED <<row, requests, inbox, lost, history>>

Crash(p) ==
    /\ stage[p] # "down"
    /\ Fail(p)
    /\ Die(p)
    /\ UNCHANGED <<row, requests, inbox, lost, history>>

-----------------------------------------------------------------------------
StartStep(p) == SetupQueue(p) \/ Consume(p)

\* What is done without anybody asking for it.
EventStep(e) == TakeEvent(e) \/ FanOut(e)
MailStep(m)  == TakeMail(m) \/ SendMail(m)
BrokerStep   == ReadEnd \/ \E s \in Subscriber : Route(s)

Next ==
    \/ \E p \in Service : StartStep(p) \/ CloseChannel(p) \/ Crash(p)
    \/ \E e \in Event : Announce(e) \/ EventStep(e) \/ FanOutFails(e)
    \/ \E s \in Subscriber : SendConfirmation(s) \/ Confirm(s) \/ Unsubscribe(s)
    \/ BrokerStep
    \/ \E m \in Mail : MailStep(m) \/ SendFails(m) \/ ReadAck(m)

Spec == Init /\ [][Next]_vars

\* The broker reads its sockets and delivers to its consumers; statements and
\* the SMTP server answer: as long as one of them can go on, one does.
FairSpec ==
    /\ Spec
    /\ WF_vars(BrokerStep \/ (\E e \in Event : EventStep(e)) \/ (\E m \in Mail : MailStep(m)))

-----------------------------------------------------------------------------
(* Properties *)

\* The email is in the queue, with the email service, or sent.
UnderWay(m) == ready[m] + unacked[m] + inbox[m] > 0

Served(m) == UnderWay(m) \/ m \in lost

\* Once the broker is done with a release event, acknowledged or without a queue
\* to put it in, everybody who was confirmed when it came, and has been since,
\* has an email in the queue, with the email service or sent, or lost in a broken
\* dialogue with the SMTP server, whatever crashed or closed: the acknowledgement
\* travels behind the messages, a queue that exists keeps them, there is a queue
\* for events before the first token is asked for, and one for emails before the
\* first token is mailed.
NobodyForgotten ==
    \A e \in Event : event[e] \in {"acked", "dropped"} =>
        \A s \in due[e] : Served(<<e, s>>)

\* Nobody is notified who has not been sent the confirmation email first, nor
\* of a release announced after the subscription was deleted: redelivered events
\* read the subscribers anew.
OnlyInvited ==
    \A e \in Event, s \in Subscriber : inbox[<<e, s>>] > 0 =>
        inbox[<<Confirmation, s>>] > 0 /\ s \notin late[e]

\* Emails are repeated, but only so often: a failure of the subscription service
\* repeats the messages of an event, a failure of the email service each message.
FewRepeats ==
    \A s \in Subscriber :
        LET Repeated == 1 + failures["email"] IN
        /\ inbox[<<Confirmation, s>>] <= requests[s] * Repeated
        /\ \A e \in Event :
               inbox[<<e, s>>] <= (1 + failures["subscription"]) * Repeated

\* Both services together are a Mailing: redelivered events, closed channels and
\* dead processes repeat emails, and close no event before its emails are queued.
\* An event is open from its announcement to the broker's reading of its answer.
Fate(e) ==
    CASE event[e] = "none" -> "none"
      [] event[e] \in {"queued", "taken"} -> "open"
      [] event[e] = "rejected" -> "refused"
      [] OTHER -> "closed"

Delivery(m) ==
    IF inbox[m] > 0 THEN "sent" ELSE IF Served(m) THEN "promised" ELSE "none"

Promised == INSTANCE Mailing WITH
    fate <- [e \in Event |-> Fate(e)],
    email <- [m \in Mail |-> Delivery(m)]

KeepsMailing == Promised!Spec

\* When both services run with open channels from some time on, everybody who is
\* due an email about a queued event gets it, unless the event was nacked, the
\* dialogue with the SMTP server failed or the subscription is deleted before the
\* event is handled.
EverybodyHears ==
    <>[](\A p \in Service : Up(p)) =>
        \A e \in Event :
            event[e] = "queued" ~>
                \/ event[e] = "rejected"
                \/ \A s \in due[e] : inbox[<<e, s>>] > 0 \/ <<e, s>> \in lost

-----------------------------------------------------------------------------
(* Why the first two hold: the inductive invariant of NotifierProofs.        *)

Writes == {wire[i] : i \in DOMAIN wire}

\* A process that is down has no channel and no handlers; one that is not has
\* declared its queue.
ProcessesInOrder ==
    /\ \A p \in Service : stage[p] # "down" => p \in queues
    /\ \A p \in Service : channel[p] => stage[p] # "down"
    /\ stage["subscription"] = "down" => handlers = {}
    /\ stage["email"] = "down" => \A m \in Mail : sending[m] = 0

\* Whoever is due an email stays confirmed until the event is acknowledged, and
\* nobody is confirmed before there is a queue for events.
DueInOrder ==
    /\ "subscription" \notin queues => Confirmed = {}
    /\ \A e \in Event : event[e] \notin {"acked", "rejected"} => due[e] \subseteq Confirmed
    /\ \A e \in Event : \A s \in late[e] : row[s] = "gone"

\* A handler's event is the broker's to wait for, as long as there is a channel.
HandlersInOrder ==
    \A e \in handlers : event[e] # "none" /\ (channel["subscription"] => event[e] = "taken")

\* What is on the wire about an event is the only thing said of it, and an
\* acknowledgement has the messages to everybody due in front of it.
WireInOrder ==
    \A w \in Writes : w.about \in Event =>
        /\ event[w.about] \in {"taken", "acked", "rejected"} /\ w.about \notin handlers
        /\ w.end # "none"
        /\ w.end = "acked" => \A s \in due[w.about] \ w.to : Served(<<w.about, s>>)

\* A message that no handler has any more, and the broker still waits for, has
\* been sent or has failed.
MailInOrder ==
    \A m \in Mail :
        /\ ~channel["email"] => unacked[m] = 0
        /\ channel["email"] => sending[m] <= unacked[m]
        /\ unacked[m] > sending[m] => inbox[m] > 0 \/ m \in lost

\* Only those who clicked in a confirmation email are confirmed, and messages
\* are for them alone.
InvitedInOrder ==
    /\ \A s \in Confirmed : inbox[<<Confirmation, s>>] > 0
    /\ \A w \in Writes : w.about \in Event => \A s \in w.to :
           inbox[<<Confirmation, s>>] > 0 /\ s \notin late[w.about]
    /\ \A e \in Event, s \in Subscriber :
           UnderWay(<<e, s>>) \/ sending[<<e, s>>] > 0 =>
               inbox[<<Confirmation, s>>] > 0 /\ s \notin late[e] /\ event[e] # "none"

\* Before there is a queue for emails there is none anywhere.
QueueInOrder ==
    "email" \notin queues => \A m \in Mail : ~UnderWay(m) /\ sending[m] = 0

Invariant ==
    /\ TypeOK /\ NobodyForgotten
    /\ ProcessesInOrder /\ DueInOrder /\ HandlersInOrder /\ WireInOrder
    /\ MailInOrder /\ InvitedInOrder /\ QueueInOrder

=============================================================================
