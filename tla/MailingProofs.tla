---------------------------- MODULE MailingProofs ----------------------------
(***************************************************************************)
(* Both services together implement Mailing, for any subscribers, events   *)
(* and bounds.                                                             *)
(***************************************************************************)
EXTENDS RepeatsProofs

USE ConstantsAssumption DEF events, mails, process, history

-----------------------------------------------------------------------------
(* What the invariants of the two proofs before do not say *)

\* An event is dropped at a time when nobody is confirmed.
DroppedConcernsNobody == \A e \in Event : event[e] = "dropped" => due[e] = {}

\* A handler's email is in the queue's books, was sent, or is reported as lost,
\* although its channel may be closed.
SendingIsServed == \A m \in Mail : sending[m] > 0 => Served(m)

\* Recipients of a release were confirmed when they were read.
RecipientsConfirmed ==
    \A w \in Writes : w.about \in Event => \A s \in w.to : row[s] # "unconfirmed"

MailingInOrder == DroppedConcernsNobody /\ SendingIsServed /\ RecipientsConfirmed

LEMMA DroppedStep ==
    ASSUME TypeOK, DueInOrder, WireInOrder, DroppedConcernsNobody, [Next]_vars
    PROVE  DroppedConcernsNobody'
  <1> SUFFICES ASSUME NEW e \in Event, event'[e] = "dropped" PROVE due'[e] = {}
    BY DEF DroppedConcernsNobody
  <1> USE DEF DroppedConcernsNobody
  <1>1. CASE event[e] = event'[e] /\ due'[e] \subseteq due[e]
    BY <1>1
  <1>2. ASSUME NEW p \in Service, Die(p) \/ GoesOn(p) PROVE event[e] = event'[e]
    BY <1>2 DEF Die, GoesOn, Requeued, TypeOK
  <1>3. ASSUME NEW p \in Service, StartStep(p) \/ CloseChannel(p) \/ Crash(p)
        PROVE  event[e] = event'[e] /\ due' = due
    BY <1>2, <1>3 DEF StartStep, SetupQueue, Consume, CloseChannel, Crash
  <1>4. ASSUME NEW x \in Event, Announce(x) PROVE due'[e] = {}
    <2>1. CASE x = e
      BY <1>4, <2>1 DEF Announce, DueInOrder, TypeOK
    <2>2. CASE x # e
      BY <1>4, <2>2 DEF Announce, TypeOK
    <2> QED
      BY <2>1, <2>2
  <1>5. ASSUME NEW x \in Event, TakeEvent(x) PROVE event[e] = event'[e] /\ due' = due
    BY <1>5 DEF TakeEvent, TypeOK
  <1>6. ASSUME NEW x \in Event, FanOut(x) \/ FanOutFails(x)
        PROVE  event[e] = event'[e] /\ due' = due
    BY <1>2, <1>6 DEF FanOut, FanOutFails, HandlerReturns, WriteOut, Service
  <1>7. ASSUME NEW s \in Subscriber,
               SendConfirmation(s) \/ Confirm(s) \/ Unsubscribe(s) \/ Route(s)
        PROVE  event[e] = event'[e] /\ due'[e] \subseteq due[e]
    BY <1>7 DEF SendConfirmation, Confirm, Unsubscribe, Route
  <1>8. CASE ReadEnd
    <2>1. PICK h \in Writes : h = Head(wire) /\ h \in Write
      BY <1>8, FirstWrite DEF ReadEnd, TypeOK
    <2>2. CASE h.about = e
      BY <1>8, <2>1, <2>2 DEF ReadEnd, Write
    <2>3. CASE h.about # e
      BY <1>8, <2>1, <2>3 DEF ReadEnd
    <2> QED
      BY <2>2, <2>3
  <1>9. ASSUME NEW m \in Mail, MailStep(m) \/ SendFails(m) \/ ReadAck(m)
        PROVE  event[e] = event'[e] /\ due' = due
    BY <1>2, <1>9
       DEF MailStep, TakeMail, SendMail, SendFails, ReadAck, MailHandlerReturns, Service
  <1>10. CASE UNCHANGED vars
    BY <1>10 DEF vars
  <1> QED
    BY <1>1, <1>3, <1>4, <1>5, <1>6, <1>7, <1>8, <1>9, <1>10 DEF Next, EventStep, BrokerStep

LEMMA SendingStep ==
    ASSUME TypeOK, MailInOrder, SendingIsServed, [Next]_vars
    PROVE  SendingIsServed'
  <1> SUFFICES ASSUME NEW n \in Mail, sending'[n] > 0 PROVE Served(n)'
    BY DEF SendingIsServed
  <1>1. CASE sending[n] > 0
    BY <1>1, ServedStays DEF SendingIsServed
  <1>2. ASSUME NEW m \in Mail, TakeMail(m), ~(sending[n] > 0) PROVE Served(n)'
    <2>1. CASE n = m
      BY <1>2, <2>1 DEF TakeMail, TypeOK, Served, UnderWay
    <2>2. CASE n # m
      BY <1>2, <2>2 DEF TakeMail, TypeOK
    <2> QED
      BY <2>1, <2>2
  <1>3. CASE UNCHANGED sending
    BY <1>1, <1>3
  <1>4. ASSUME NEW p \in Service, Die(p) \/ GoesOn(p) PROVE sending[n] > 0
    BY <1>4 DEF Die, GoesOn, TypeOK
  <1>5. ASSUME NEW m \in Mail, SendMail(m) \/ SendFails(m) PROVE sending[n] > 0
    <2>1. CASE n = m
      BY <1>5, <2>1 DEF SendMail, SendFails
    <2>2. CASE n # m
      BY <1>4, <1>5, <2>2 DEF SendMail, SendFails, MailHandlerReturns, TypeOK, Service
    <2> QED
      BY <2>1, <2>2
  <1>6. ASSUME NEW p \in Service, StartStep(p) \/ CloseChannel(p) \/ Crash(p)
        PROVE  UNCHANGED sending \/ sending[n] > 0
    BY <1>4, <1>6 DEF StartStep, SetupQueue, Consume, CloseChannel, Crash
  <1>7. ASSUME NEW e \in Event, Announce(e) \/ EventStep(e) \/ FanOutFails(e)
        PROVE  UNCHANGED sending \/ sending[n] > 0
    BY <1>4, <1>7
       DEF Announce, EventStep, TakeEvent, FanOut, FanOutFails, HandlerReturns, WriteOut, Service
  <1>8. ASSUME NEW s \in Subscriber,
               SendConfirmation(s) \/ Confirm(s) \/ Unsubscribe(s) \/ Route(s)
        PROVE  UNCHANGED sending
    BY <1>8 DEF SendConfirmation, Confirm, Unsubscribe, Route
  <1>9. ASSUME NEW m \in Mail, ReadAck(m) PROVE UNCHANGED sending
    BY <1>9 DEF ReadAck
  <1>10. ReadEnd \/ UNCHANGED vars => UNCHANGED sending
    BY DEF ReadEnd, vars
  <1> QED
    BY <1>1, <1>2, <1>3, <1>5, <1>6, <1>7, <1>8, <1>9, <1>10 DEF Next, BrokerStep, MailStep

LEMMA RecipientsStep ==
    ASSUME TypeOK, HandlersInOrder, ProcessesInOrder, RecipientsConfirmed, [Next]_vars
    PROVE  RecipientsConfirmed'
  <1>1. ASSUME NEW s \in Subscriber, row[s] # "unconfirmed" PROVE row'[s] # "unconfirmed"
    <2>1. ASSUME NEW x \in Subscriber, Confirm(x) \/ Unsubscribe(x)
          PROVE  row'[s] # "unconfirmed"
      BY <1>1, <2>1 DEF Confirm, Unsubscribe, TypeOK
    <2>2. CASE UNCHANGED row
      BY <1>1, <2>2
    <2> QED
      BY <2>1, <2>2
         DEF Next, vars, StartStep, SetupQueue, Consume, CloseChannel, Crash, Announce,
             EventStep, TakeEvent, FanOut, FanOutFails, SendConfirmation, BrokerStep,
             Route, ReadEnd, MailStep, TakeMail, SendMail, SendFails, ReadAck
  <1> SUFFICES ASSUME NEW v \in Writes', v.about \in Event, NEW s \in v.to
               PROVE  row'[s] # "unconfirmed"
    BY DEF RecipientsConfirmed
  <1>2. \A w \in Writes : w.to \subseteq Subscriber
    <2>1. \A i \in DOMAIN wire : wire[i] \in Write
      BY DEF TypeOK
    <2> QED
      BY <2>1 DEF Writes, Write
  <1>3. \/ \E w \in Writes : w.about = v.about /\ s \in w.to
        \/ s \in Confirmed
    BY RecipientsComeFromRows
  <1> QED
    BY <1>1, <1>2, <1>3 DEF RecipientsConfirmed, Confirmed

-----------------------------------------------------------------------------
(* What each step does to what Mailing speaks of *)

Fates      == [e \in Event |-> Fate(e)]
Deliveries == [m \in Mail |-> Delivery(m)]

\* Giving an event out, or taking it back, leaves it open.
LEMMA FatesKept ==
    ASSUME \A e \in Event : event'[e] = event[e] \/ {event[e], event'[e]} \subseteq {"queued", "taken"}
    PROVE  Fates' = Fates
  <1>1. \A e \in Event : Fate(e)' = Fate(e)
    BY DEF Fate
  <1> QED
    BY <1>1 DEF Fates

LEMMA FateMoves ==
    ASSUME NEW e \in Event, \A x \in Event : x # e => event'[x] = event[x]
    PROVE  Fates' = [Fates EXCEPT ![e] = Fate(e)']
  <1>1. \A x \in Event : x # e => Fate(x)' = Fate(x)
    BY DEF Fate
  <1> QED
    BY <1>1 DEF Fates

LEMMA DeliveriesKept ==
    ASSUME \A m \in Mail : (inbox'[m] > 0 <=> inbox[m] > 0) /\ (Served(m)' <=> Served(m))
    PROVE  Deliveries' = Deliveries
  <1>1. \A m \in Mail : Delivery(m)' = Delivery(m)
    BY DEF Delivery
  <1> QED
    BY <1>1 DEF Deliveries

LEMMA DeliveryMoves ==
    ASSUME NEW n \in Mail,
           \A m \in Mail : m # n => (inbox'[m] > 0 <=> inbox[m] > 0) /\ (Served(m)' <=> Served(m))
    PROVE  Deliveries' = [Deliveries EXCEPT ![n] = Delivery(n)']
  <1>1. \A m \in Mail : m # n => Delivery(m)' = Delivery(m)
    BY DEF Delivery
  <1> QED
    BY <1>1 DEF Deliveries

\* The broker moves copies from one book to another.
LEMMA BooksKept ==
    ASSUME TypeOK, UNCHANGED <<inbox, lost>>, TakesBack \/ UNCHANGED <<ready, unacked>>
    PROVE  Deliveries' = Deliveries
  <1>1. \A m \in Mail : Served(m)' <=> Served(m)
    BY DEF Served, UnderWay, TakesBack, TypeOK
  <1> QED
    BY <1>1, DeliveriesKept

LEMMA MailingFrame ==
    ASSUME UNCHANGED <<row, history>>, Fates' = Fates, Deliveries' = Deliveries
    PROVE  UNCHANGED Promised!vars
  <1>1. [e \in Event |-> Fate(e)]' = [e \in Event |-> Fate(e)]
    BY DEF Fates
  <1>2. [m \in Mail |-> Delivery(m)]' = [m \in Mail |-> Delivery(m)]
    BY DEF Deliveries
  <1> QED
    BY <1>1, <1>2 DEF Promised!vars

\* Starts, failures, and what goes on between the broker and the services.
LEMMA HiddenSteps ==
    ASSUME Invariant
    PROVE  /\ \A p \in Service : StartStep(p) \/ CloseChannel(p) \/ Crash(p)
                  => UNCHANGED Promised!vars
           /\ \A e \in Event : EventStep(e) \/ FanOutFails(e) => UNCHANGED Promised!vars
           /\ \A s \in Subscriber : SendConfirmation(s) => UNCHANGED Promised!vars
           /\ \A m \in Mail : TakeMail(m) \/ ReadAck(m) => UNCHANGED Promised!vars
  <1>t. TypeOK /\ MailInOrder
    BY DEF Invariant
  <1>1. ASSUME UNCHANGED <<row, event, history>>, Deliveries' = Deliveries
        PROVE  UNCHANGED Promised!vars
    BY <1>1, FatesKept, MailingFrame
  <1>2. ASSUME UNCHANGED mails PROVE Deliveries' = Deliveries
    BY <1>2, BooksKept, <1>t
  <1>3. ASSUME NEW p \in Service, Die(p) \/ GoesOn(p), UNCHANGED <<row, inbox, lost, history>>
        PROVE  UNCHANGED Promised!vars
    <2>1. event' = event \/ event' = Requeued
      BY <1>3 DEF Die, GoesOn
    <2>2. TakesBack \/ UNCHANGED <<ready, unacked>>
      BY <1>3 DEF Die, GoesOn
    <2>3. Fates' = Fates
      BY <2>1, FatesKept DEF Requeued
    <2>4. Deliveries' = Deliveries
      BY <1>3, <1>t, <2>2, BooksKept
    <2> QED
      BY <1>3, <2>3, <2>4, MailingFrame
  <1>4. ASSUME NEW p \in Service, StartStep(p) \/ CloseChannel(p) \/ Crash(p)
        PROVE  UNCHANGED Promised!vars
    BY <1>1, <1>2, <1>3, <1>4 DEF StartStep, SetupQueue, Consume, CloseChannel, Crash
  <1>5. ASSUME NEW e \in Event, TakeEvent(e) PROVE UNCHANGED Promised!vars
    <2>1. Fates' = Fates
      BY <1>5, <1>t, FatesKept DEF TakeEvent, TypeOK
    <2> QED
      BY <1>2, <1>5, <2>1, MailingFrame DEF TakeEvent
  <1>6. ASSUME NEW e \in Event, FanOut(e) \/ FanOutFails(e) PROVE UNCHANGED Promised!vars
    <2>1. UNCHANGED <<row, inbox, lost, history>>
      BY <1>6 DEF FanOut, FanOutFails
    <2>2. Die("subscription") \/ UNCHANGED <<event, ready, unacked, sending>>
      BY <1>6 DEF FanOut, FanOutFails, HandlerReturns, WriteOut
    <2> QED
      BY <1>1, <1>2, <1>3, <2>1, <2>2 DEF Service
  <1>7. ASSUME NEW s \in Subscriber, SendConfirmation(s) PROVE UNCHANGED Promised!vars
    BY <1>1, <1>2, <1>7 DEF SendConfirmation
  <1>8. ASSUME NEW m \in Mail, TakeMail(m) \/ ReadAck(m), NEW n \in Mail
        PROVE  Served(n)' <=> Served(n)
    <2>1. CASE TakeMail(m)
      <3>1. ready'[n] + unacked'[n] = ready[n] + unacked[n]
        <4>1. CASE n = m
          BY <1>t, <2>1, <4>1 DEF TakeMail, TypeOK
        <4>2. CASE n # m
          BY <1>t, <2>1, <4>2 DEF TakeMail, TypeOK
        <4> QED
          BY <4>1, <4>2
      <3> QED
        BY <2>1, <3>1 DEF TakeMail, Served, UnderWay
    <2>2. CASE ReadAck(m)
      <3>1. CASE n = m
        BY <1>t, <2>2, <3>1 DEF ReadAck, Served, UnderWay, TypeOK, MailInOrder
      <3>2. CASE n # m
        BY <1>t, <2>2, <3>2 DEF ReadAck, Served, UnderWay, TypeOK
      <3> QED
        BY <3>1, <3>2
    <2> QED
      BY <1>8, <2>1, <2>2
  <1>9. ASSUME NEW m \in Mail, TakeMail(m) \/ ReadAck(m) PROVE UNCHANGED Promised!vars
    <2>1. inbox' = inbox
      BY <1>9 DEF TakeMail, ReadAck
    <2>2. Deliveries' = Deliveries
      BY <1>8, <1>9, <2>1, DeliveriesKept
    <2> QED
      BY <1>1, <1>9, <2>2 DEF TakeMail, ReadAck
  <1> QED
    BY <1>4, <1>5, <1>6, <1>7, <1>9 DEF EventStep

\* An event without a queue comes at a time when nobody is confirmed.
LEMMA AnnounceMaps ==
    ASSUME Invariant, NEW e \in Event, Announce(e) PROVE Promised!Announce(e)
  <1>1. TypeOK /\ DueInOrder
    BY DEF Invariant
  <1>2. Deliveries' = Deliveries
    BY <1>1, BooksKept DEF Announce
  <1>3. Fates' = [Fates EXCEPT ![e] = Fate(e)']
    BY <1>1, FateMoves DEF Announce, TypeOK
  <1>4. \/ Fate(e)' = "open"
        \/ Fate(e)' = "closed" /\ Confirmed = {}
    <2>1. CASE "subscription" \in queues
      <3>1. event'[e] = "queued"
        BY <1>1, <2>1 DEF Announce, TypeOK
      <3> QED
        BY <3>1 DEF Fate
    <2>2. CASE "subscription" \notin queues
      <3>1. event'[e] = "dropped" /\ Confirmed = {}
        BY <1>1, <2>2 DEF Announce, TypeOK, DueInOrder
      <3> QED
        BY <3>1 DEF Fate
    <2> QED
      BY <2>1, <2>2
  <1>5. Fates[e] = "none"
    BY DEF Announce, Fate, Fates
  <1>6. Promised!Those("confirmed") = Confirmed
    BY DEF Promised!Those, Confirmed
  <1>7. /\ due' = [due EXCEPT ![e] = Promised!Those("confirmed")]
        /\ late' = [late EXCEPT ![e] = Promised!Those("gone")]
        /\ UNCHANGED row
    BY <1>6 DEF Announce, Promised!Those
  <1>8. \/ Fates' = [Fates EXCEPT ![e] = "open"]
        \/ Promised!Those("confirmed") = {} /\ Fates' = [Fates EXCEPT ![e] = "closed"]
    BY <1>3, <1>4, <1>6
  <1> QED
    BY <1>2, <1>5, <1>7, <1>8 DEF Promised!Announce, Fates, Deliveries

\* Clicks.
LEMMA ClickMaps ==
    ASSUME Invariant, MailingInOrder, NEW s \in Subscriber
    PROVE  /\ Confirm(s) => Promised!Confirm(s)
           /\ Unsubscribe(s) => Promised!Leave(s)
  <1>1. TypeOK
    BY DEF Invariant
  <1>2. ASSUME UNCHANGED <<events, mails>> PROVE Fates' = Fates /\ Deliveries' = Deliveries
    BY <1>1, <1>2, FatesKept, BooksKept
  <1>3. \A m \in Mail : inbox[m] > 0 => Deliveries[m] = "sent"
    BY DEF Delivery, Deliveries
  <1>4. ASSUME Confirm(s) PROVE Promised!Confirm(s)
    <2>1. <<Confirmation, s>> \in Mail
      BY DEF Mail
    <2>2. Deliveries[<<Confirmation, s>>] = "sent"
      BY <1>3, <1>4, <2>1 DEF Confirm
    <2> QED
      BY <1>2, <1>4, <2>2 DEF Confirm, Promised!Confirm, Fates, Deliveries
  <1>5. ASSUME Unsubscribe(s) PROVE Promised!Leave(s)
    <2>1. \E m \in Mail : m[2] = s /\ Deliveries[m] = "sent"
      BY <1>3, <1>5 DEF Unsubscribe, Clicks
    <2>2. \A e \in Event :
              (IF event[e] = "acked" THEN due[e] ELSE due[e] \ {s}) =
              (IF Fates[e] = "closed" THEN due[e] ELSE due[e] \ {s})
      <3> TAKE e \in Event
      <3>1. CASE event[e] = "dropped"
        BY <3>1 DEF MailingInOrder, DroppedConcernsNobody
      <3>2. CASE event[e] # "dropped"
        BY <1>1, <3>2 DEF Fates, Fate, TypeOK
      <3> QED
        BY <3>1, <3>2
    <2>3. due' = [e \in Event |-> IF Fates[e] = "closed" THEN due[e] ELSE due[e] \ {s}]
      BY <1>5, <2>2 DEF Unsubscribe
    <2>4. Promised!Mail = Mail
      BY DEF Promised!Mail, Mail
    <2> QED
      BY <1>2, <1>5, <2>1, <2>3, <2>4 DEF Unsubscribe, Promised!Leave, Fates, Deliveries
  <1> QED
    BY <1>4, <1>5

\* The broker reads a message: the first copy of an email is its promise.
LEMMA RouteMaps ==
    ASSUME Invariant, AnswersInOrder, MailingInOrder, NEW s \in Subscriber, Route(s)
    PROVE  (\E about \in Event \cup {Confirmation} : Promised!Promise(about, s))
           \/ UNCHANGED Promised!vars
  <1>t. TypeOK /\ wire \in Seq(Write)
    BY DEF Invariant, TypeOK
  <1>1. PICK h \in Writes : h = Head(wire) /\ h \in Write /\ h = wire[1] /\ 1 \in DOMAIN wire
    BY <1>t, FirstWrite DEF Route
  <1>2. PICK m \in Mail : m = <<h.about, s>>
    BY <1>1 DEF Mail, Write
  <1>3. UNCHANGED <<row, event, handlers, unacked, sending, inbox, lost, process, history>>
    BY DEF Route
  <1>4. ready' = [ready EXCEPT ![m] = @ + 1] \/ ready' = ready
    BY <1>1, <1>2 DEF Route
  <1>5. /\ \A n \in Mail : n # m => ready'[n] = ready[n]
        /\ ready' # ready => ready'[m] = ready[m] + 1
    BY <1>t, <1>4 DEF TypeOK
  <1>6. ready' # ready => Served(m)'
    <2>1. ready[m] \in Nat /\ unacked[m] \in Nat /\ inbox[m] \in Nat
      BY <1>t DEF TypeOK
    <2> QED
      BY <1>3, <1>5, <2>1 DEF Served, UnderWay
  <1>7. \A n \in Mail : n # m => (Served(n)' <=> Served(n))
    BY <1>3, <1>5 DEF Served, UnderWay
  <1>8. Fates' = Fates
    BY <1>3, FatesKept
  <1>9. CASE Served(m) \/ ready' = ready
    <2>1. \A n \in Mail : (Served(n)' <=> Served(n))
      BY <1>3, <1>6, <1>7, <1>9 DEF Served, UnderWay
    <2>2. Deliveries' = Deliveries
      BY <1>3, <2>1, DeliveriesKept
    <2> QED
      BY <1>3, <1>8, <2>2, MailingFrame
  <1>10. CASE ~Served(m) /\ ready' # ready
    <2>1. inbox[m] = 0
      BY <1>t, <1>10 DEF Served, UnderWay, TypeOK
    <2>2. Deliveries[m] = "none"
      BY <1>10, <2>1 DEF Deliveries, Delivery
    <2>3. Delivery(m)' = "promised"
      BY <1>3, <1>6, <1>10, <2>1 DEF Delivery
    <2>4. Deliveries' = [Deliveries EXCEPT ![m] = Delivery(m)']
      BY <1>3, <1>7, DeliveryMoves
    <2>5. Deliveries' = [Deliveries EXCEPT ![m] = "promised"]
      BY <2>3, <2>4
    <2>6. h.about \in Event =>
              Fates[h.about] = "open" /\ row[s] # "unconfirmed" /\ s \notin late[h.about]
      <3> SUFFICES ASSUME h.about \in Event
                   PROVE  Fates[h.about] = "open" /\ row[s] # "unconfirmed"
                          /\ s \notin late[h.about]
        OBVIOUS
      <3>1. event[h.about] = "taken"
        BY <1>1 DEF AnswersInOrder
      <3>2. s \in h.to
        BY <1>1 DEF Route
      <3>3. row[s] # "unconfirmed" /\ s \notin late[h.about]
        BY <1>1, <3>2 DEF MailingInOrder, RecipientsConfirmed, Invariant, InvitedInOrder
      <3> QED
        BY <3>1, <3>3 DEF Fates, Fate
    <2>7. h.about \in Event \cup {Confirmation}
      BY <1>1 DEF Write
    <2>8. Promised!Promise(h.about, s)
      BY <1>2, <1>3, <1>8, <2>2, <2>5, <2>6 DEF Promised!Promise, Fates, Deliveries
    <2> QED
      BY <2>7, <2>8
  <1> QED
    BY <1>9, <1>10

\* The broker reads an answer, which comes behind the messages.
LEMMA AnswerMaps ==
    ASSUME Invariant, AnswersInOrder, ReadEnd
    PROVE  (\E e \in Event : Promised!Close(e) \/ Promised!Refuse(e))
           \/ UNCHANGED Promised!vars
  <1>t. TypeOK /\ wire \in Seq(Write) /\ WireInOrder
    BY DEF Invariant, TypeOK
  <1>1. PICK h \in Writes : h = Head(wire) /\ h \in Write /\ h = wire[1] /\ 1 \in DOMAIN wire
    BY <1>t, FirstWrite DEF ReadEnd
  <1>2. h.to = {} /\ event' = [e \in Event |-> IF h.about = e THEN h.end ELSE event[e]]
    BY <1>1 DEF ReadEnd
  <1>3. UNCHANGED <<row, history>> /\ Deliveries' = Deliveries
    BY <1>t, BooksKept DEF ReadEnd
  <1>4. CASE h.about \notin Event
    <2>1. Fates' = Fates
      BY <1>2, <1>4, FatesKept
    <2> QED
      BY <1>3, <2>1, MailingFrame
  <1>5. ASSUME NEW e \in Event, h.about = e PROVE Promised!Close(e) \/ Promised!Refuse(e)
    <2>1. event[e] = "taken" /\ h.end \in {"acked", "rejected"} /\ event'[e] = h.end
      BY <1>t, <1>1, <1>2, <1>5 DEF AnswersInOrder, WireInOrder, Write
    <2>2. Fates' = [Fates EXCEPT ![e] = Fate(e)']
      BY <1>2, <1>5, FateMoves
    <2>3. Fates[e] = "open"
      BY <2>1 DEF Fates, Fate
    <2>4. CASE h.end = "acked"
      <3>1. \A s \in due[e] : Deliveries[<<e, s>>] # "none"
        <4> TAKE s \in due[e]
        <4>1. Served(<<e, s>>) /\ <<e, s>> \in Mail
          BY <1>t, <1>1, <1>2, <1>5, <2>4 DEF WireInOrder, Mail, TypeOK
        <4> QED
          BY <4>1 DEF Deliveries, Delivery
      <3>2. Fate(e)' = "closed"
        BY <2>1, <2>4 DEF Fate
      <3>3. Fates' = [Fates EXCEPT ![e] = "closed"]
        BY <2>2, <3>2
      <3> QED
        BY <1>3, <2>3, <3>1, <3>3 DEF Promised!Close, Fates, Deliveries
    <2>5. CASE h.end = "rejected"
      <3>1. Fate(e)' = "refused"
        BY <2>1, <2>5 DEF Fate
      <3>2. Fates' = [Fates EXCEPT ![e] = "refused"]
        BY <2>2, <3>1
      <3> QED
        BY <1>3, <2>3, <3>2 DEF Promised!Refuse, Fates, Deliveries
    <2> QED
      BY <2>1, <2>4, <2>5
  <1> QED
    BY <1>4, <1>5

\* The SMTP server accepts an email for the first time, or again, or not at all.
LEMMA SendMaps ==
    ASSUME Invariant, MailingInOrder, NEW m \in Mail, SendMail(m) \/ SendFails(m)
    PROVE  (\E about \in Event \cup {Confirmation}, s \in Subscriber : Promised!Send(about, s))
           \/ UNCHANGED Promised!vars
  <1>t. TypeOK
    BY DEF Invariant
  <1>1. UNCHANGED <<row, history>> /\ Served(m)
    BY DEF SendMail, SendFails, MailingInOrder, SendingIsServed
  <1>2. TakesBack \/ UNCHANGED <<ready, unacked>>
    BY DEF SendMail, SendFails, MailHandlerReturns, Die
  <1>3. inbox' = inbox \/ inbox' = [inbox EXCEPT ![m] = @ + 1]
    BY DEF SendMail, SendFails
  <1>4. lost' = lost \/ lost' = lost \cup {m}
    BY DEF SendMail, SendFails
  <1>5. event' = event
    BY DEF SendMail, SendFails, MailHandlerReturns, Die
  <1>6. Fates' = Fates
    BY <1>5, FatesKept
  <1>7. \A n \in Mail : ready'[n] + unacked'[n] = ready[n] + unacked[n]
    BY <1>t, <1>2 DEF TakesBack, TypeOK
  <1>8. \A n \in Mail : n # m => inbox'[n] = inbox[n]
    BY <1>3, <1>t DEF TypeOK
  <1>9. inbox'[m] = inbox[m] \/ inbox'[m] = inbox[m] + 1
    BY <1>3, <1>t DEF TypeOK
  <1>10. \A n \in Mail : n # m => (Served(n)' <=> Served(n))
    BY <1>4, <1>7, <1>8 DEF Served, UnderWay
  <1>11. Served(m)'
    <2>1. /\ inbox[m] \in Nat /\ ready[m] \in Nat /\ unacked[m] \in Nat
          /\ ready'[m] + unacked'[m] = ready[m] + unacked[m]
      BY <1>t, <1>7 DEF TypeOK
    <2>2. UnderWay(m) => UnderWay(m)'
      BY <1>9, <2>1 DEF UnderWay
    <2> QED
      BY <1>1, <1>4, <2>2 DEF Served
  <1>12. CASE inbox'[m] > 0 <=> inbox[m] > 0
    <2>1. \A n \in Mail : (inbox'[n] > 0 <=> inbox[n] > 0) /\ (Served(n)' <=> Served(n))
      BY <1>1, <1>8, <1>10, <1>11, <1>12
    <2>2. Deliveries' = Deliveries
      BY <2>1, DeliveriesKept
    <2> QED
      BY <1>1, <1>6, <2>2, MailingFrame
  <1>13. CASE ~(inbox'[m] > 0 <=> inbox[m] > 0)
    <2>1. ~(inbox[m] > 0) /\ inbox'[m] > 0
      BY <1>9, <1>13, <1>t DEF TypeOK
    <2>2. Deliveries[m] = "promised" /\ Delivery(m)' = "sent"
      BY <1>1, <2>1 DEF Deliveries, Delivery
    <2>3. Deliveries' = [Deliveries EXCEPT ![m] = Delivery(m)']
      BY <1>8, <1>10, DeliveryMoves
    <2>4. Deliveries' = [Deliveries EXCEPT ![m] = "sent"]
      BY <2>2, <2>3
    <2>5. PICK about \in Event \cup {Confirmation}, s \in Subscriber : m = <<about, s>>
      BY DEF Mail
    <2>6. Promised!Send(about, s)
      BY <1>1, <1>6, <2>2, <2>4, <2>5 DEF Promised!Send, Fates, Deliveries
    <2> QED
      BY <2>6
  <1> QED
    BY <1>12, <1>13

-----------------------------------------------------------------------------
(* The theorem *)

LEMMA MailingStep ==
    ASSUME Invariant, AnswersInOrder, MailingInOrder, [Next]_vars
    PROVE  [Promised!Next]_(Promised!vars)
  <1>1. ASSUME NEW e \in Event, Announce(e) PROVE Promised!Next
    <2>1. Promised!Announce(e)
      BY <1>1, AnnounceMaps
    <2> QED
      BY <2>1 DEF Promised!Next, Promised!Announce
  <1>2. ASSUME NEW s \in Subscriber, Confirm(s) \/ Unsubscribe(s) PROVE Promised!Next
    <2>1. Promised!Confirm(s) \/ Promised!Leave(s)
      BY <1>2, ClickMaps
    <2> QED
      BY <2>1 DEF Promised!Next, Promised!Confirm, Promised!Leave
  <1>3. ASSUME NEW s \in Subscriber, Route(s) PROVE Promised!Next \/ UNCHANGED Promised!vars
    <2>1. CASE UNCHANGED Promised!vars
      BY <2>1
    <2>2. ASSUME NEW about \in Event \cup {Confirmation}, Promised!Promise(about, s)
          PROVE  Promised!Next
      BY <2>2 DEF Promised!Next, Promised!Promise
    <2> QED
      BY <1>3, <2>1, <2>2, RouteMaps
  <1>4. CASE ReadEnd
    <2>1. ASSUME NEW e \in Event, Promised!Close(e) \/ Promised!Refuse(e)
          PROVE  Promised!Next
      BY <2>1 DEF Promised!Next, Promised!Close, Promised!Refuse
    <2> QED
      BY <1>4, <2>1, AnswerMaps
  <1>5. ASSUME NEW m \in Mail, SendMail(m) \/ SendFails(m)
        PROVE  Promised!Next \/ UNCHANGED Promised!vars
    <2>1. ASSUME NEW about \in Event \cup {Confirmation}, NEW s \in Subscriber,
                 Promised!Send(about, s)
          PROVE  Promised!Next
      BY <2>1 DEF Promised!Next, Promised!Send
    <2> QED
      BY <1>5, <2>1, SendMaps
  <1>6. CASE UNCHANGED vars
    <2>1. Fates' = Fates /\ Deliveries' = Deliveries
      BY <1>6, FatesKept, BooksKept DEF vars, Invariant
    <2> QED
      BY <1>6, <2>1, MailingFrame DEF vars
  <1>7. \/ Promised!Next \/ UNCHANGED Promised!vars
    BY <1>1, <1>2, <1>3, <1>4, <1>5, <1>6, HiddenSteps DEF Next, BrokerStep, MailStep
  <1> QED
    BY <1>7

\* What Mailing relies on holds in every state.
THEOREM MailingIsInOrder == Spec => []MailingInOrder
  <1>1. Init => MailingInOrder
    BY DEF Init, MailingInOrder, DroppedConcernsNobody, SendingIsServed, RecipientsConfirmed,
           Writes
  <1>2. Invariant /\ MailingInOrder /\ [Next]_vars => MailingInOrder'
    BY DroppedStep, SendingStep, RecipientsStep DEF Invariant, MailingInOrder
  <1> QED
    BY <1>1, <1>2, InvariantHolds, PTL DEF Spec

\* Both services together promise an email to everybody who is due one before an
\* event is closed, to nobody else, and send what was promised: redelivered
\* events, closed channels and dead processes only repeat.
THEOREM MailingImplemented == Spec => KeepsMailing
  <1>1. Init => Promised!Init
    <2> SUFFICES ASSUME Init PROVE Promised!Init
      OBVIOUS
    <2>1. \A e \in Event : Fate(e) = "none"
      BY DEF Init, Fate
    <2>2. \A m \in Mail : Delivery(m) = "none"
      BY DEF Init, Delivery, Served, UnderWay
    <2>3. Promised!Mail = Mail
      BY DEF Promised!Mail, Mail
    <2> QED
      BY <2>1, <2>2, <2>3 DEF Init, Promised!Init
  <1>2. Invariant /\ AnswersInOrder /\ MailingInOrder /\ [Next]_vars
        => [Promised!Next]_(Promised!vars)
    BY MailingStep
  <1> QED
    BY <1>1, <1>2, InvariantHolds, CopiesAreCounted, MailingIsInOrder, PTL
       DEF Spec, KeepsMailing, Promised!Spec

=============================================================================
