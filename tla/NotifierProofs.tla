--------------------------- MODULE NotifierProofs ---------------------------
(***************************************************************************)
(* NobodyForgotten and OnlyInvited, for any subscribers, events and bounds.  *)
(***************************************************************************)
EXTENDS Notifier, TLAPS

USE ConstantsAssumption

-----------------------------------------------------------------------------
(* What the broker and the service do to the wire *)

LEMMA AppendedWrites ==
    ASSUME wire \in Seq(Write), NEW x \in Write, wire' = Append(wire, x)
    PROVE  wire' \in Seq(Write) /\ Writes' \subseteq Writes \cup {x}
  <1>1. wire' \in Seq(Write) /\ DOMAIN wire' = 1..(Len(wire) + 1)
    OBVIOUS
  <1>2. \A i \in DOMAIN wire' : wire'[i] = IF i <= Len(wire) THEN wire[i] ELSE x
    OBVIOUS
  <1>3. \A i \in DOMAIN wire' : i <= Len(wire) => i \in DOMAIN wire
    OBVIOUS
  <1> QED
    BY <1>1, <1>2, <1>3 DEF Writes

LEMMA FirstWrite ==
    ASSUME wire \in Seq(Write), wire # <<>>
    PROVE  1 \in DOMAIN wire /\ Head(wire) = wire[1]
           /\ Head(wire) \in Write /\ Head(wire) \in Writes
  <1>1. 1 \in DOMAIN wire /\ Head(wire) = wire[1]
    OBVIOUS
  <1>2. wire[1] \in Write
    BY <1>1
  <1> QED
    BY <1>1, <1>2 DEF Writes

LEMMA DroppedWrites ==
    ASSUME wire \in Seq(Write), wire # <<>>, wire' = Tail(wire)
    PROVE  wire' \in Seq(Write) /\ Writes' \subseteq Writes
  <1>1. wire' \in Seq(Write)
    OBVIOUS
  <1>2. \A i \in DOMAIN wire' : wire'[i] = wire[i + 1] /\ i + 1 \in DOMAIN wire
    OBVIOUS
  <1> QED
    BY <1>1, <1>2 DEF Writes

LEMMA RoutedWrites ==
    ASSUME wire \in Seq(Write), wire # <<>>, NEW s,
           wire' = [wire EXCEPT ![1] = Without(@, s)]
    PROVE  /\ Without(Head(wire), s) \in Write
           /\ wire' \in Seq(Write)
           /\ Writes' \subseteq Writes \cup {Without(Head(wire), s)}
  <1> DEFINE x == Without(wire[1], s)
  <1>1. 1 \in DOMAIN wire /\ Head(wire) = wire[1] /\ wire[1] \in Write
    BY FirstWrite
  <1>2. x \in Write
    BY <1>1 DEF Write, Without
  <1>3. wire' = [wire EXCEPT ![1] = x]
    OBVIOUS
  <1> HIDE DEF x
  <1>4. wire' \in Seq(Write) /\ DOMAIN wire' = DOMAIN wire
    BY <1>1, <1>2, <1>3
  <1>5. \A i \in DOMAIN wire' : wire'[i] = IF i = 1 THEN x ELSE wire[i]
    BY <1>1, <1>3
  <1>6. Writes' \subseteq Writes \cup {x}
    BY <1>4, <1>5 DEF Writes
  <1> QED
    BY <1>1, <1>2, <1>4, <1>6 DEF x

-----------------------------------------------------------------------------
(* Types *)

USE DEF events, mails, process, history

\* The end of a process.
LEMMA DieType ==
    ASSUME TypeOK, NEW p \in Service, Die(p)
    PROVE  /\ stage' \in [Service -> {"down", "bound", "up"}]
           /\ channel' \in [Service -> BOOLEAN] /\ queues' \subseteq Service
           /\ event' \in [Event -> {"none", "dropped", "queued", "taken", "acked", "rejected"}]
           /\ handlers' \subseteq Event /\ wire' \in Seq(Write)
           /\ ready' \in [Mail -> Nat] /\ unacked' \in [Mail -> Nat]
           /\ sending' \in [Mail -> Nat]
  <1>1. stage' \in [Service -> {"down", "bound", "up"}]
        /\ channel' \in [Service -> BOOLEAN] /\ queues' \subseteq Service
    BY DEF Die, TypeOK
  <1>2. CASE p = "subscription"
    BY <1>1, <1>2 DEF Die, TypeOK, Requeued
  <1>3. CASE p = "email"
    BY <1>1, <1>3 DEF Die, TypeOK, TakesBack
  <1> QED
    BY <1>2, <1>3 DEF Service

\* A handler of a release event that returns.
LEMMA ReturnType ==
    ASSUME TypeOK, NEW e \in Event, NEW to \in SUBSET Subscriber,
           NEW end \in {"acked", "rejected"}, HandlerReturns(e, to, end)
    PROVE  /\ stage' \in [Service -> {"down", "bound", "up"}]
           /\ channel' \in [Service -> BOOLEAN] /\ queues' \subseteq Service
           /\ event' \in [Event -> {"none", "dropped", "queued", "taken", "acked", "rejected"}]
           /\ handlers' \subseteq Event /\ wire' \in Seq(Write)
           /\ ready' \in [Mail -> Nat] /\ unacked' \in [Mail -> Nat]
           /\ sending' \in [Mail -> Nat]
  <1>1. CASE WriteOut(e, to, end)
    <2>1. [about |-> e, to |-> to, end |-> end] \in Write
      BY DEF Write
    <2>2. wire' \in Seq(Write)
      BY <1>1, <2>1, AppendedWrites DEF WriteOut, TypeOK
    <2> QED
      BY <1>1, <2>2 DEF WriteOut, TypeOK
  <1>2. CASE Die("subscription")
    BY <1>2, DieType DEF Service
  <1> QED
    BY <1>1, <1>2 DEF HandlerReturns

LEMMA MailReturnType ==
    ASSUME TypeOK, NEW m \in Mail, sending[m] > 0, MailHandlerReturns(m)
    PROVE  /\ stage' \in [Service -> {"down", "bound", "up"}]
           /\ channel' \in [Service -> BOOLEAN] /\ queues' \subseteq Service
           /\ event' \in [Event -> {"none", "dropped", "queued", "taken", "acked", "rejected"}]
           /\ handlers' \subseteq Event /\ wire' \in Seq(Write)
           /\ ready' \in [Mail -> Nat] /\ unacked' \in [Mail -> Nat]
           /\ sending' \in [Mail -> Nat]
  <1>1. CASE Die("email")
    BY <1>1, DieType DEF Service
  <1>2. CASE channel["email"]
    <2>1. sending' = [sending EXCEPT ![m] = @ - 1]
      BY <1>2 DEF MailHandlerReturns
    <2>2. sending[m] - 1 \in Nat
      BY DEF TypeOK
    <2>3. sending' \in [Mail -> Nat]
      BY <2>1, <2>2 DEF TypeOK
    <2> QED
      BY <1>2, <2>3 DEF MailHandlerReturns, TypeOK
  <1> QED
    BY <1>1, <1>2 DEF MailHandlerReturns

\* Every step keeps every variable within its type.
LEMMA TypeStep == ASSUME TypeOK, [Next]_vars PROVE TypeOK'
  <1>1. CASE UNCHANGED vars
    BY <1>1 DEF vars, TypeOK
  <1>2. ASSUME NEW p \in Service, SetupQueue(p) \/ Consume(p) PROVE TypeOK'
    <2>1. CASE SetupQueue(p)
      BY <2>1 DEF SetupQueue, TypeOK
    <2>2. CASE Consume(p)
      BY <2>2 DEF Consume, TypeOK
    <2> QED
      BY <1>2, <2>1, <2>2
  <1>3. ASSUME NEW p \in Service, CloseChannel(p) PROVE TypeOK'
    <2>1. failures' \in [Service -> 0..MaxFailures]
      BY <1>3 DEF CloseChannel, Fail, TypeOK
    <2>2. CASE Die(p)
      BY <1>3, <2>1, <2>2, DieType DEF CloseChannel, TypeOK
    <2>3. CASE GoesOn(p)
      <3>1. channel' \in [Service -> BOOLEAN]
        BY <2>3 DEF GoesOn, TypeOK
      <3>2. event' \in [Event -> {"none", "dropped", "queued", "taken", "acked", "rejected"}]
            /\ wire' \in Seq(Write)
        <4>1. CASE p = "subscription"
          <5>1. <<>> \in Seq(Write)
            OBVIOUS
          <5> QED
            BY <2>3, <4>1, <5>1 DEF GoesOn, Requeued, TypeOK
        <4>2. CASE p # "subscription"
          BY <2>3, <4>2 DEF GoesOn, TypeOK
        <4> QED
          BY <4>1, <4>2
      <3>3. ready' \in [Mail -> Nat] /\ unacked' \in [Mail -> Nat]
        <4>1. \A m \in Mail : ready[m] + unacked[m] \in Nat
          BY DEF TypeOK
        <4>2. TakesBack \/ UNCHANGED <<ready, unacked>>
          BY <2>3 DEF GoesOn
        <4>3. CASE TakesBack
          BY <4>1, <4>3 DEF TakesBack
        <4>4. CASE UNCHANGED <<ready, unacked>>
          BY <4>4 DEF TypeOK
        <4> QED
          BY <4>2, <4>3, <4>4
      <3> QED
        BY <1>3, <2>1, <2>3, <3>1, <3>2, <3>3 DEF CloseChannel, GoesOn, TypeOK
    <2> QED
      BY <1>3, <2>2, <2>3 DEF CloseChannel
  <1>4. ASSUME NEW p \in Service, Crash(p) PROVE TypeOK'
    <2>1. failures' \in [Service -> 0..MaxFailures]
      BY <1>4 DEF Crash, Fail, TypeOK
    <2> QED
      BY <1>4, <2>1, DieType DEF Crash, TypeOK
  <1>5. ASSUME NEW e \in Event, Announce(e) PROVE TypeOK'
    BY <1>5 DEF Announce, Confirmed, TypeOK
  <1>6. ASSUME NEW e \in Event, TakeEvent(e) PROVE TypeOK'
    BY <1>6 DEF TakeEvent, TypeOK
  <1>7. ASSUME NEW e \in Event, FanOut(e) PROVE TypeOK'
    <2>1. Confirmed \in SUBSET Subscriber
      BY DEF Confirmed
    <2> QED
      BY <1>7, <2>1, ReturnType DEF FanOut, TypeOK
  <1>8. ASSUME NEW e \in Event, FanOutFails(e) PROVE TypeOK'
    <2>1. failures' \in [Service -> 0..MaxFailures]
      BY <1>8 DEF FanOutFails, Fail, TypeOK, Service
    <2>2. {} \in SUBSET Subscriber
      OBVIOUS
    <2> QED
      BY <1>8, <2>1, <2>2, ReturnType DEF FanOutFails, TypeOK
  <1>9. ASSUME NEW s \in Subscriber, SendConfirmation(s) PROVE TypeOK'
    <2>1. [about |-> Confirmation, to |-> {s}, end |-> "none"] \in Write
      BY DEF Write
    <2>2. wire' \in Seq(Write)
      BY <1>9, <2>1, AppendedWrites DEF SendConfirmation, TypeOK
    <2>3. requests' \in [Subscriber -> 0..MaxRequests]
      BY <1>9 DEF SendConfirmation, TypeOK
    <2> QED
      BY <1>9, <2>2, <2>3 DEF SendConfirmation, TypeOK
  <1>10. ASSUME NEW s \in Subscriber, Confirm(s) \/ Unsubscribe(s) PROVE TypeOK'
    <2>1. CASE Confirm(s)
      BY <2>1 DEF Confirm, TypeOK
    <2>2. CASE Unsubscribe(s)
      <3>1. due' \in [Event -> SUBSET Subscriber] /\ row' \in [Subscriber -> {"unconfirmed", "confirmed", "gone"}]
        BY <2>2 DEF Unsubscribe, TypeOK
      <3> QED
        BY <2>2, <3>1 DEF Unsubscribe, TypeOK
    <2> QED
      BY <1>10, <2>1, <2>2
  <1>11. ASSUME NEW s \in Subscriber, Route(s) PROVE TypeOK'
    <2>1. wire' \in Seq(Write)
      BY <1>11, RoutedWrites DEF Route, TypeOK
    <2>2. <<Head(wire).about, s>> \in Mail
      BY <1>11, FirstWrite DEF Route, TypeOK, Mail, Write
    <2>3. ready' \in [Mail -> Nat]
      <3>1. PICK m \in Mail : ready' = ready \/ ready' = [ready EXCEPT ![m] = @ + 1]
        BY <1>11, <2>2 DEF Route
      <3>2. [ready EXCEPT ![m] = @ + 1] \in [Mail -> Nat]
        BY DEF TypeOK
      <3> QED
        BY <3>1, <3>2 DEF TypeOK
    <2>4. lost' \subseteq Mail
      BY <1>11, <2>2 DEF Route, TypeOK
    <2> QED
      BY <1>11, <2>1, <2>3, <2>4 DEF Route, TypeOK
  <1>12. CASE ReadEnd
    <2>1. wire' \in Seq(Write) /\ Head(wire) \in Write
      BY <1>12, DroppedWrites, FirstWrite DEF ReadEnd, TypeOK
    <2> QED
      BY <1>12, <2>1 DEF ReadEnd, TypeOK, Write
  <1>13. ASSUME NEW m \in Mail, TakeMail(m) \/ ReadAck(m) PROVE TypeOK'
    <2>1. CASE TakeMail(m)
      <3>1. ready' \in [Mail -> Nat] /\ unacked' \in [Mail -> Nat] /\ sending' \in [Mail -> Nat]
        BY <2>1 DEF TakeMail, TypeOK
      <3> QED
        BY <2>1, <3>1 DEF TakeMail, TypeOK
    <2>2. CASE ReadAck(m)
      <3>1. unacked' \in [Mail -> Nat]
        BY <2>2 DEF ReadAck, TypeOK
      <3> QED
        BY <2>2, <3>1 DEF ReadAck, TypeOK
    <2> QED
      BY <1>13, <2>1, <2>2
  <1>14. ASSUME NEW m \in Mail, SendMail(m) PROVE TypeOK'
    <2>1. inbox' \in [Mail -> Nat]
      BY <1>14 DEF SendMail, TypeOK
    <2> QED
      BY <1>14, <2>1, MailReturnType DEF SendMail, TypeOK
  <1>15. ASSUME NEW m \in Mail, SendFails(m) PROVE TypeOK'
    <2>1. failures' \in [Service -> 0..MaxFailures]
      BY <1>15 DEF SendFails, Fail, TypeOK, Service
    <2>2. inbox' \in [Mail -> Nat]
      <3>1. [inbox EXCEPT ![m] = @ + 1] \in [Mail -> Nat]
        BY DEF TypeOK
      <3> QED
        BY <1>15, <3>1 DEF SendFails, TypeOK
    <2>3. lost' \subseteq Mail
      BY <1>15 DEF SendFails, TypeOK
    <2> QED
      BY <1>15, <2>1, <2>2, <2>3, MailReturnType DEF SendFails, TypeOK
  <1> QED
    BY <1>1, <1>2, <1>3, <1>4, <1>5, <1>6, <1>7, <1>8, <1>9, <1>10, <1>11, <1>12,
       <1>13, <1>14, <1>15
       DEF Next, StartStep, EventStep, MailStep, BrokerStep

-----------------------------------------------------------------------------
(* Each part of the invariant *)

\* A process that is down has no channel and no handlers; one that is not has
\* declared its queue.
LEMMA ProcessesStep ==
    ASSUME TypeOK, ProcessesInOrder, [Next]_vars PROVE ProcessesInOrder'
  <1> USE DEF ProcessesInOrder
  <1>1. CASE UNCHANGED <<stage, channel, handlers, sending, queues>>
    BY <1>1
  <1>2. ASSUME NEW p \in Service, Die(p) PROVE ProcessesInOrder'
    <2>1. CASE p = "subscription"
      BY <1>2, <2>1 DEF Die, TypeOK, Service
    <2>2. CASE p = "email"
      BY <1>2, <2>2 DEF Die, TypeOK, Service
    <2> QED
      BY <2>1, <2>2 DEF Service
  <1>3. ASSUME NEW p \in Service, SetupQueue(p) \/ Consume(p) PROVE ProcessesInOrder'
    BY <1>3 DEF SetupQueue, Consume, TypeOK, Service
  <1>4. ASSUME NEW p \in Service, GoesOn(p) PROVE ProcessesInOrder'
    BY <1>4 DEF GoesOn, TypeOK, Service
  <1>5. ASSUME NEW e \in Event, TakeEvent(e) PROVE ProcessesInOrder'
    BY <1>5 DEF TakeEvent, Up
  <1>6. ASSUME NEW e \in Event, NEW to, NEW end, HandlerReturns(e, to, end)
        PROVE  ProcessesInOrder'
    BY <1>2, <1>6 DEF HandlerReturns, WriteOut, Service
  <1>7. ASSUME NEW m \in Mail, TakeMail(m) PROVE ProcessesInOrder'
    BY <1>7 DEF TakeMail, Up
  <1>8. ASSUME NEW m \in Mail, sending[m] > 0, MailHandlerReturns(m)
        PROVE  ProcessesInOrder'
    <2>1. CASE channel["email"]
      BY <1>8, <2>1 DEF MailHandlerReturns, Service
    <2> QED
      BY <1>2, <1>8, <2>1 DEF MailHandlerReturns, Service
  <1>9. ASSUME NEW p \in Service, CloseChannel(p) \/ Crash(p) PROVE ProcessesInOrder'
    BY <1>2, <1>4, <1>9 DEF CloseChannel, Crash
  <1>10. ASSUME NEW e \in Event, Announce(e) \/ EventStep(e) \/ FanOutFails(e)
         PROVE  ProcessesInOrder'
    BY <1>1, <1>5, <1>6, <1>10 DEF Announce, EventStep, FanOut, FanOutFails
  <1>11. ASSUME NEW s \in Subscriber, SendConfirmation(s) \/ Confirm(s) \/ Unsubscribe(s)
         PROVE  ProcessesInOrder'
    BY <1>1, <1>11 DEF SendConfirmation, Confirm, Unsubscribe
  <1>12. CASE BrokerStep
    BY <1>1, <1>12 DEF BrokerStep, Route, ReadEnd
  <1>13. ASSUME NEW m \in Mail, MailStep(m) \/ SendFails(m) \/ ReadAck(m)
         PROVE  ProcessesInOrder'
    BY <1>1, <1>7, <1>8, <1>13 DEF MailStep, SendMail, SendFails, ReadAck
  <1> QED
    BY <1>1, <1>3, <1>9, <1>10, <1>11, <1>12, <1>13 DEF Next, StartStep, vars

\* A message no handler has any more has been sent or has failed.
LEMMA MailStepInOrder ==
    ASSUME TypeOK, ProcessesInOrder, MailInOrder, [Next]_vars PROVE MailInOrder'
  <1> USE DEF MailInOrder
  <1>1. CASE UNCHANGED <<channel, unacked, sending, inbox>> /\ lost \subseteq lost'
    BY <1>1
  <1>2. ASSUME NEW p \in Service, Die(p), lost \subseteq lost',
               UNCHANGED inbox \/ p = "email"
        PROVE  MailInOrder'
    <2>1. CASE p = "subscription"
      BY <1>2, <2>1 DEF Die, TypeOK, Service
    <2>2. CASE p = "email"
      BY <1>2, <2>2 DEF Die, TakesBack, TypeOK, Service
    <2> QED
      BY <2>1, <2>2 DEF Service
  <1>3. ASSUME NEW p \in Service, SetupQueue(p) PROVE MailInOrder'
    BY <1>3 DEF SetupQueue, ProcessesInOrder, TypeOK, Service
  <1>4. ASSUME NEW p \in Service, GoesOn(p), UNCHANGED <<inbox, lost>> PROVE MailInOrder'
    BY <1>4 DEF GoesOn, TakesBack, TypeOK, Service
  <1>5. ASSUME NEW e \in Event, NEW to, NEW end, HandlerReturns(e, to, end),
               UNCHANGED <<inbox, lost>>
        PROVE  MailInOrder'
    BY <1>1, <1>2, <1>5 DEF HandlerReturns, WriteOut, Service
  <1>6. ASSUME NEW m \in Mail, TakeMail(m) PROVE MailInOrder'
    BY <1>6 DEF TakeMail, Up, TypeOK
  <1>7. ASSUME NEW m \in Mail, sending[m] > 0, MailHandlerReturns(m), lost \subseteq lost',
               \/ inbox' = [inbox EXCEPT ![m] = @ + 1]
               \/ inbox' = inbox /\ m \in lost'
        PROVE  MailInOrder'
    <2>1. CASE channel["email"]
      <3>1. sending' = [sending EXCEPT ![m] = @ - 1] /\ UNCHANGED <<unacked, channel>>
        BY <1>7, <2>1 DEF MailHandlerReturns
      <3>2. inbox'[m] > 0 \/ m \in lost'
        BY <1>7 DEF TypeOK
      <3>3. \A n \in Mail : n # m => sending'[n] = sending[n] /\ inbox'[n] = inbox[n]
        BY <1>7, <3>1 DEF TypeOK
      <3>4. sending'[m] <= sending[m]
        BY <3>1 DEF TypeOK
      <3>5. \A n \in Mail : sending[n] \in Nat /\ unacked[n] \in Nat /\ sending'[n] \in Int
        BY <3>1 DEF TypeOK
      <3> QED
        BY <1>7, <2>1, <3>1, <3>2, <3>3, <3>4, <3>5
    <2>2. CASE Die("email")
      BY <1>2, <1>7, <2>2 DEF Service
    <2> QED
      BY <1>7, <2>1, <2>2 DEF MailHandlerReturns
  <1>8. ASSUME NEW m \in Mail, ReadAck(m) PROVE MailInOrder'
    BY <1>8 DEF ReadAck, Up, TypeOK
  <1>9. ASSUME NEW p \in Service, StartStep(p) \/ CloseChannel(p) \/ Crash(p)
        PROVE  MailInOrder'
    BY <1>1, <1>2, <1>3, <1>4, <1>9 DEF StartStep, Consume, CloseChannel, Crash
  <1>10. ASSUME NEW e \in Event, Announce(e) \/ EventStep(e) \/ FanOutFails(e)
         PROVE  MailInOrder'
    BY <1>1, <1>5, <1>10 DEF Announce, EventStep, TakeEvent, FanOut, FanOutFails
  <1>11. ASSUME NEW s \in Subscriber, SendConfirmation(s) \/ Confirm(s) \/ Unsubscribe(s)
         PROVE  MailInOrder'
    BY <1>1, <1>11 DEF SendConfirmation, Confirm, Unsubscribe
  <1>12. CASE BrokerStep
    BY <1>1, <1>12 DEF BrokerStep, Route, ReadEnd
  <1>13. ASSUME NEW m \in Mail, MailStep(m) \/ SendFails(m) PROVE MailInOrder'
    BY <1>6, <1>7, <1>13 DEF MailStep, SendMail, SendFails
  <1> QED
    BY <1>1, <1>8, <1>9, <1>10, <1>11, <1>12, <1>13 DEF Next, vars

\* An email that is under way, or has failed, stays so.
LEMMA ServedStays ==
    ASSUME TypeOK, MailInOrder, [Next]_vars, NEW n \in Mail, Served(n)
    PROVE  Served(n)'
  <1> USE DEF Served, UnderWay, TypeOK
  <1>1. CASE UNCHANGED <<ready, unacked, inbox>> /\ lost \subseteq lost'
    BY <1>1
  <1>2. ASSUME lost \subseteq lost', inbox[n] <= inbox'[n], inbox'[n] \in Nat,
               TakesBack \/ UNCHANGED <<ready, unacked>>
        PROVE  Served(n)'
    <2>1. CASE TakesBack
      <3>1. ready'[n] = ready[n] + unacked[n] /\ unacked'[n] = 0
        BY <2>1 DEF TakesBack
      <3> QED
        BY <1>2, <3>1
    <2>2. CASE UNCHANGED <<ready, unacked>>
      BY <1>2, <2>2
    <2> QED
      BY <1>2, <2>1, <2>2
  <1>3. ASSUME NEW p \in Service, Die(p) \/ GoesOn(p)
        PROVE  TakesBack \/ UNCHANGED <<ready, unacked>>
    BY <1>3 DEF Die, GoesOn
  <1>4. ASSUME NEW p \in Service, StartStep(p) \/ CloseChannel(p) \/ Crash(p)
        PROVE  Served(n)'
    BY <1>1, <1>2, <1>3, <1>4 DEF StartStep, SetupQueue, Consume, CloseChannel, Crash
  <1>5. ASSUME NEW e \in Event, Announce(e) \/ TakeEvent(e) PROVE Served(n)'
    BY <1>1, <1>5 DEF Announce, TakeEvent
  <1>6. ASSUME NEW e \in Event, FanOut(e) \/ FanOutFails(e) PROVE Served(n)'
    BY <1>1, <1>2, <1>3, <1>6 DEF FanOut, FanOutFails, HandlerReturns, WriteOut, Service
  <1>7. ASSUME NEW s \in Subscriber, SendConfirmation(s) \/ Confirm(s) \/ Unsubscribe(s)
        PROVE  Served(n)'
    BY <1>1, <1>7 DEF SendConfirmation, Confirm, Unsubscribe
  <1>8. ASSUME NEW s \in Subscriber, Route(s) PROVE Served(n)'
    <2>1. <<Head(wire).about, s>> \in Mail
      BY <1>8, FirstWrite DEF Route, Mail, Write
    <2>2. PICK m \in Mail : ready' = ready \/ ready' = [ready EXCEPT ![m] = @ + 1]
      BY <1>8, <2>1 DEF Route
    <2>3. ready[n] <= ready'[n] /\ ready'[n] \in Nat
      <3>1. CASE n = m
        BY <2>2, <3>1
      <3>2. CASE n # m
        BY <2>2, <3>2
      <3> QED
        BY <3>1, <3>2
    <2>4. lost \subseteq lost' /\ UNCHANGED <<unacked, inbox>>
      BY <1>8 DEF Route
    <2> QED
      BY <2>3, <2>4
  <1>9. CASE ReadEnd
    BY <1>1, <1>9 DEF ReadEnd
  <1>10. ASSUME NEW m \in Mail, TakeMail(m) PROVE Served(n)'
    BY <1>10 DEF TakeMail
  <1>11. ASSUME NEW m \in Mail, SendMail(m) \/ SendFails(m) PROVE Served(n)'
    <2>1. TakesBack \/ UNCHANGED <<ready, unacked>>
      BY <1>3, <1>11 DEF SendMail, SendFails, MailHandlerReturns, Service
    <2>2. inbox' = inbox \/ inbox' = [inbox EXCEPT ![m] = @ + 1]
      BY <1>11 DEF SendMail, SendFails
    <2>3. inbox[n] <= inbox'[n] /\ inbox'[n] \in Nat
      <3>1. CASE n = m
        BY <2>2, <3>1
      <3>2. CASE n # m
        BY <2>2, <3>2
      <3> QED
        BY <3>1, <3>2
    <2>4. lost \subseteq lost'
      BY <1>11 DEF SendMail, SendFails
    <2> QED
      BY <1>2, <2>1, <2>3, <2>4
  <1>12. ASSUME NEW m \in Mail, ReadAck(m) PROVE Served(n)'
    <2>1. CASE n = m
      BY <1>12, <2>1 DEF ReadAck, MailInOrder
    <2>2. CASE n # m
      BY <1>12, <2>2 DEF ReadAck
    <2> QED
      BY <2>1, <2>2
  <1> QED
    BY <1>1, <1>4, <1>5, <1>6, <1>7, <1>8, <1>9, <1>10, <1>11, <1>12
       DEF Next, EventStep, BrokerStep, MailStep, vars

\* Whoever is due an email stays confirmed until the event is acknowledged.
LEMMA DueStep ==
    ASSUME TypeOK, ProcessesInOrder, DueInOrder, WireInOrder, [Next]_vars PROVE DueInOrder'
  <1> USE DEF DueInOrder, Confirmed
  <1>1. CASE /\ UNCHANGED <<row, due, late>> /\ (event' = event \/ event' = Requeued)
             /\ queues \subseteq queues'
    BY <1>1 DEF Requeued, TypeOK
  <1>2. ASSUME NEW p \in Service, Die(p) \/ GoesOn(p)
        PROVE  (event' = event \/ event' = Requeued) /\ queues' = queues
    BY <1>2 DEF Die, GoesOn
  <1>3. ASSUME NEW p \in Service, StartStep(p) \/ CloseChannel(p) \/ Crash(p)
        PROVE  DueInOrder'
    BY <1>1, <1>2, <1>3 DEF StartStep, SetupQueue, Consume, CloseChannel, Crash
  <1>4. ASSUME NEW e \in Event, Announce(e) PROVE DueInOrder'
    BY <1>4 DEF Announce, TypeOK
  <1>5. ASSUME NEW e \in Event, TakeEvent(e) PROVE DueInOrder'
    BY <1>5 DEF TakeEvent, TypeOK
  <1>6. ASSUME NEW e \in Event, FanOut(e) \/ FanOutFails(e) PROVE DueInOrder'
    BY <1>1, <1>2, <1>6 DEF FanOut, FanOutFails, HandlerReturns, WriteOut, Service
  <1>7. ASSUME NEW s \in Subscriber, Confirm(s) PROVE DueInOrder'
    BY <1>7 DEF Confirm, Clicks, ProcessesInOrder, Service, TypeOK
  <1>8. ASSUME NEW s \in Subscriber, Unsubscribe(s) PROVE DueInOrder'
    <2>1. \A e \in Event : event[e] # "acked" => due'[e] = due[e] \ {s}
      BY <1>8 DEF Unsubscribe
    <2>2. \A x \in Subscriber : row'[x] = IF x = s THEN "gone" ELSE row[x]
      BY <1>8 DEF Unsubscribe, TypeOK
    <2>3. UNCHANGED <<event, late, queues>>
      BY <1>8 DEF Unsubscribe
    <2>4. \A e \in Event : event[e] \notin {"acked", "rejected"} => due'[e] \subseteq Confirmed'
      <3>1. \A e \in Event : event[e] \notin {"acked", "rejected"} =>
                due'[e] = due[e] \ {s} /\ due[e] \subseteq Confirmed
        BY <2>1
      <3>2. Confirmed' = Confirmed \ {s}
        BY <2>2
      <3> HIDE DEF Confirmed
      <3> QED
        BY <3>1, <3>2
    <2>5. \A e \in Event : \A x \in late[e] : x \in Subscriber /\ row[x] = "gone"
      BY DEF TypeOK
    <2> QED
      BY <2>2, <2>3, <2>4, <2>5
  <1>9. ASSUME NEW s \in Subscriber, SendConfirmation(s) \/ Route(s) PROVE DueInOrder'
    BY <1>1, <1>9 DEF SendConfirmation, Route
  <1>10. CASE ReadEnd
    <2>1. Head(wire) \in Write /\ Head(wire) \in Writes
      BY <1>10, FirstWrite DEF ReadEnd, TypeOK
    <2>2. \A e \in Event : Head(wire).about = e => event'[e] \in {"acked", "rejected"}
      BY <1>10, <2>1 DEF ReadEnd, WireInOrder, Write
    <2>3. \A e \in Event : Head(wire).about # e => event'[e] = event[e]
      BY <1>10 DEF ReadEnd
    <2> QED
      BY <1>10, <2>2, <2>3 DEF ReadEnd
  <1>11. ASSUME NEW m \in Mail, TakeMail(m) \/ ReadAck(m) PROVE DueInOrder'
    BY <1>1, <1>11 DEF TakeMail, ReadAck
  <1>12. ASSUME NEW m \in Mail, SendMail(m) \/ SendFails(m) PROVE DueInOrder'
    BY <1>1, <1>2, <1>12 DEF SendMail, SendFails, MailHandlerReturns, Service
  <1>13. CASE UNCHANGED vars
    BY <1>1, <1>13 DEF vars
  <1> QED
    BY <1>3, <1>4, <1>5, <1>6, <1>7, <1>8, <1>9, <1>10, <1>11, <1>12, <1>13
       DEF Next, EventStep, BrokerStep, MailStep

\* Without its wire, the broker takes back what the service was given.
LEMMA Cut ==
    ASSUME TypeOK, ProcessesInOrder, HandlersInOrder,
           Die("subscription") \/ GoesOn("subscription")
    PROVE  Writes' = {} /\ HandlersInOrder'
  <1>1. wire' = <<>> /\ event' = Requeued /\ handlers' \subseteq handlers
    BY DEF Die, GoesOn
  <1>2. Writes' = {}
    BY <1>1 DEF Writes
  <1>3. handlers' = {} \/ channel'["subscription"] = FALSE
    BY DEF Die, GoesOn, TypeOK, Service
  <1>4. \A e \in handlers' : event'[e] # "none"
    BY <1>1 DEF Requeued, HandlersInOrder, TypeOK
  <1> QED
    BY <1>2, <1>3, <1>4 DEF HandlersInOrder

\* What a step of the email service leaves alone.
LEMMA EmailFrame ==
    ASSUME Die("email") \/ GoesOn("email")
    PROVE  UNCHANGED events /\ (TypeOK => UNCHANGED channel["subscription"])
  BY DEF Die, GoesOn, TypeOK, Service

\* A handler's event is the broker's to wait for, as long as there is a channel.
LEMMA HandlersStep ==
    ASSUME TypeOK, ProcessesInOrder, HandlersInOrder, WireInOrder, [Next]_vars
    PROVE  HandlersInOrder'
  <1>1. CASE UNCHANGED <<event, handlers>> /\ UNCHANGED channel["subscription"]
    BY <1>1 DEF HandlersInOrder
  <1>2. ASSUME NEW p \in Service, Die(p) \/ GoesOn(p) PROVE HandlersInOrder'
    BY <1>1, <1>2, Cut, EmailFrame DEF Service
  <1>3. ASSUME NEW p \in Service, SetupQueue(p) PROVE HandlersInOrder'
    <2>1. CASE p = "subscription"
      BY <1>3, <2>1 DEF SetupQueue, ProcessesInOrder, HandlersInOrder
    <2>2. CASE p = "email"
      BY <1>1, <1>3, <2>2 DEF SetupQueue, TypeOK, Service
    <2> QED
      BY <2>1, <2>2 DEF Service
  <1>4. ASSUME NEW p \in Service, StartStep(p) \/ CloseChannel(p) \/ Crash(p)
        PROVE  HandlersInOrder'
    BY <1>1, <1>2, <1>3, <1>4 DEF StartStep, Consume, CloseChannel, Crash
  <1>5. ASSUME NEW e \in Event, Announce(e) PROVE HandlersInOrder'
    BY <1>5 DEF Announce, HandlersInOrder, TypeOK
  <1>6. ASSUME NEW e \in Event, TakeEvent(e) PROVE HandlersInOrder'
    BY <1>6 DEF TakeEvent, HandlersInOrder, TypeOK
  <1>7. ASSUME NEW e \in Event, FanOut(e) \/ FanOutFails(e) PROVE HandlersInOrder'
    BY <1>2, <1>7 DEF FanOut, FanOutFails, HandlerReturns, WriteOut, HandlersInOrder, Service
  <1>8. ASSUME NEW s \in Subscriber,
               SendConfirmation(s) \/ Confirm(s) \/ Unsubscribe(s) \/ Route(s)
        PROVE  HandlersInOrder'
    BY <1>1, <1>8 DEF SendConfirmation, Confirm, Unsubscribe, Route
  <1>9. CASE ReadEnd
    <2>1. Head(wire) \in Writes
      BY <1>9, FirstWrite DEF ReadEnd, TypeOK
    <2>2. \A e \in handlers : event'[e] = event[e]
      BY <1>9, <2>1 DEF ReadEnd, WireInOrder, TypeOK
    <2> QED
      BY <1>9, <2>2 DEF ReadEnd, HandlersInOrder
  <1>10. ASSUME NEW m \in Mail, MailStep(m) \/ SendFails(m) \/ ReadAck(m)
         PROVE  HandlersInOrder'
    BY <1>1, <1>2, <1>10
       DEF MailStep, TakeMail, SendMail, SendFails, ReadAck, MailHandlerReturns, Service
  <1>11. CASE UNCHANGED vars
    BY <1>1, <1>11 DEF vars
  <1> QED
    BY <1>4, <1>5, <1>6, <1>7, <1>8, <1>9, <1>10, <1>11 DEF Next, EventStep, BrokerStep

\* The writes on the wire keep their promises.
LEMMA WireStep ==
    ASSUME TypeOK, ProcessesInOrder, DueInOrder, HandlersInOrder, WireInOrder,
           MailInOrder, InvitedInOrder, QueueInOrder, [Next]_vars
    PROVE  WireInOrder'
  <1> DEFINE Kept(w) == w.about \in Event =>
               /\ event[w.about] \in {"taken", "acked", "rejected"} /\ w.about \notin handlers
               /\ w.end # "none"
               /\ w.end = "acked" => \A s \in due[w.about] \ w.to : Served(<<w.about, s>>)
  <1>1. \A w \in Writes : Kept(w)
    BY DEF WireInOrder
  <1>2. (\A w \in Writes' : Kept(w)') => WireInOrder'
    BY DEF WireInOrder
  <1>3. \A m \in Mail : Served(m) => Served(m)'
    BY ServedStays
  <1>4. \A w \in Writes : w \in Write
    BY DEF Writes, TypeOK
  <1>5. \A e \in Event : due[e] \subseteq Subscriber
    BY DEF TypeOK
  \* Whatever leaves the event and its handler alone keeps a write's promise.
  <1>6. ASSUME NEW w \in Writes,
               w.about \in Event => /\ UNCHANGED event[w.about] /\ w.about \notin handlers'
                                    /\ due'[w.about] \subseteq due[w.about]
        PROVE  Kept(w)'
    <2> SUFFICES ASSUME w.about \in Event PROVE Kept(w)'
      OBVIOUS
    <2>1. ASSUME NEW s \in due[w.about] \ w.to, w.end = "acked" PROVE Served(<<w.about, s>>)'
      <3>1. <<w.about, s>> \in Mail
        BY <1>5, <2>1 DEF Mail
      <3> QED
        BY <1>1, <1>3, <2>1, <3>1
    <2> QED
      BY <1>1, <1>6, <2>1
  <1> HIDE DEF Kept
  <1>7. CASE UNCHANGED <<wire, event, handlers, due>>
    <2>1. Writes' = Writes
      BY <1>7 DEF Writes
    <2>2. \A w \in Writes : w.about \in Event => w.about \notin handlers
      BY <1>1 DEF Kept
    <2> QED
      BY <1>2, <1>6, <1>7, <2>1, <2>2
  <1>8. ASSUME NEW p \in Service, Die(p) \/ GoesOn(p), UNCHANGED due PROVE WireInOrder'
    <2>1. CASE p = "subscription"
      BY <1>8, <2>1, Cut DEF WireInOrder
    <2>2. CASE p = "email"
      BY <1>7, <1>8, <2>2, EmailFrame
    <2> QED
      BY <2>1, <2>2 DEF Service
  <1>9. ASSUME NEW p \in Service, StartStep(p) \/ CloseChannel(p) \/ Crash(p)
        PROVE  WireInOrder'
    BY <1>7, <1>8, <1>9 DEF StartStep, SetupQueue, Consume, CloseChannel, Crash
  <1>10. ASSUME NEW e \in Event, Announce(e) \/ TakeEvent(e) PROVE WireInOrder'
    <2>1. event[e] \in {"none", "queued"} /\ wire' = wire /\ handlers' \subseteq handlers \cup {e}
      BY <1>10 DEF Announce, TakeEvent
    <2>2. \A x \in Event : x # e => event'[x] = event[x] /\ due'[x] = due[x]
      BY <1>10 DEF Announce, TakeEvent, TypeOK
    <2>3. \A w \in Writes : w.about \in Event => w.about # e /\ w.about \notin handlers
      BY <1>1, <2>1 DEF Kept
    <2>4. Writes' = Writes
      BY <2>1 DEF Writes
    <2> QED
      BY <1>2, <1>6, <2>1, <2>2, <2>3, <2>4
  <1>11. ASSUME NEW e \in Event, NEW to \in SUBSET Subscriber, NEW end \in {"acked", "rejected"},
                e \in handlers, HandlerReturns(e, to, end), UNCHANGED due,
                end = "acked" => Confirmed \subseteq to
         PROVE  WireInOrder'
    <2>1. CASE Die("subscription")
      BY <1>8, <1>11, <2>1 DEF Service
    <2>2. CASE channel["subscription"] /\ WriteOut(e, to, end)
      <3> DEFINE x == [about |-> e, to |-> to, end |-> end]
      <3>1. x \in Write
        BY DEF Write
      <3>2. Writes' \subseteq Writes \cup {x}
        BY <2>2, <3>1, AppendedWrites DEF WriteOut, TypeOK
      <3>3. event' = event /\ handlers' = handlers \ {e}
        BY <2>2 DEF WriteOut
      <3>4. \A w \in Writes : Kept(w)'
        BY <1>1, <1>6, <1>11, <3>3 DEF Kept
      <3>5. event[e] = "taken"
        BY <1>11, <2>2 DEF HandlersInOrder
      <3>6. end = "acked" => due[e] \subseteq to
        BY <1>11, <3>5 DEF DueInOrder
      <3>7. Kept(x)'
        BY <1>11, <3>3, <3>5, <3>6 DEF Kept
      <3> QED
        BY <1>2, <3>2, <3>4, <3>7
    <2> QED
      BY <1>11, <2>1, <2>2 DEF HandlerReturns
  <1>12. ASSUME NEW e \in Event, FanOut(e) PROVE WireInOrder'
    <2>1. Confirmed \in SUBSET Subscriber
      BY DEF Confirmed
    <2> QED
      BY <1>11, <1>12, <2>1 DEF FanOut
  <1>13. ASSUME NEW e \in Event, FanOutFails(e) PROVE WireInOrder'
    <2>1. {} \in SUBSET Subscriber
      OBVIOUS
    <2> QED
      BY <1>11, <1>13, <2>1 DEF FanOutFails
  <1>14. ASSUME NEW s \in Subscriber, SendConfirmation(s) PROVE WireInOrder'
    <2> DEFINE x == [about |-> Confirmation, to |-> {s}, end |-> "none"]
    <2>1. x \in Write
      BY DEF Write
    <2>2. Writes' \subseteq Writes \cup {x}
      BY <1>14, <2>1, AppendedWrites DEF SendConfirmation, TypeOK
    <2>3. Kept(x)'
      BY DEF Kept
    <2>4. \A w \in Writes : Kept(w)'
      BY <1>1, <1>6, <1>14 DEF SendConfirmation, Kept
    <2> QED
      BY <1>2, <2>2, <2>3, <2>4
  <1>15. CASE \E s \in Subscriber : Confirm(s)
    BY <1>7, <1>15 DEF Confirm
  <1>16. ASSUME NEW s \in Subscriber, Unsubscribe(s) PROVE WireInOrder'
    <2>1. \A e \in Event : due'[e] \subseteq due[e]
      BY <1>16 DEF Unsubscribe
    <2>2. Writes' = Writes /\ UNCHANGED <<event, handlers>>
      BY <1>16 DEF Unsubscribe, Writes
    <2>3. \A w \in Writes : w.about \in Event => w.about \notin handlers
      BY <1>1 DEF Kept
    <2> QED
      BY <1>2, <1>6, <2>1, <2>2, <2>3
  <1>17. ASSUME NEW s \in Subscriber, Route(s) PROVE WireInOrder'
    <2>1. PICK h \in Writes : h = Head(wire) /\ h \in Write
      BY <1>17, FirstWrite DEF Route, TypeOK
    <2>2. PICK x \in Write : x = Without(h, s) /\ Writes' \subseteq Writes \cup {x}
      BY <1>17, <2>1, RoutedWrites DEF Route, TypeOK
    <2>3. UNCHANGED <<event, handlers, due>>
      BY <1>17 DEF Route
    <2>4. \A w \in Writes : Kept(w)'
      BY <1>1, <1>6, <2>3 DEF Kept
    \* The recipient has been sent an email before, so that there is a queue.
    <2>5. ASSUME h.about \in Event PROVE Served(<<h.about, s>>)'
      <3>1. <<h.about, s>> \in Mail /\ <<Confirmation, s>> \in Mail
        BY <2>1 DEF Write, Mail
      <3>2. inbox[<<Confirmation, s>>] > 0
        BY <1>17, <2>1, <2>5 DEF Route, InvitedInOrder
      <3>3. "email" \in queues
        BY <3>1, <3>2 DEF QueueInOrder, UnderWay, TypeOK
      <3>4. ready' = [ready EXCEPT ![<<h.about, s>>] = @ + 1] /\ UNCHANGED <<unacked, inbox>>
        BY <1>17, <2>1, <3>3 DEF Route
      <3> QED
        BY <3>1, <3>4 DEF Served, UnderWay, TypeOK
    <2>6. x.about = h.about /\ x.end = h.end /\ x.to = h.to \ {s}
      BY <2>2 DEF Without
    <2>7. Kept(x)'
      BY <2>1, <2>3, <2>4, <2>5, <2>6 DEF Kept
    <2> QED
      BY <1>2, <2>2, <2>4, <2>7
  <1>18. CASE ReadEnd
    <2>1. Head(wire) \in Write /\ Head(wire) \in Writes
      BY <1>18, FirstWrite DEF ReadEnd, TypeOK
    <2>2. Writes' \subseteq Writes
      BY <1>18, DroppedWrites DEF ReadEnd, TypeOK
    <2>3. \A e \in Event : event'[e] = event[e] \/ event'[e] \in {"acked", "rejected"}
      BY <1>1, <1>18, <2>1 DEF ReadEnd, Kept, Write
    <2>4. UNCHANGED <<handlers, due>>
      BY <1>18 DEF ReadEnd
    <2>5. ASSUME NEW w \in Writes PROVE Kept(w)'
      <3>1. CASE w.about \in Event /\ event'[w.about] \in {"acked", "rejected"}
        <4>1. ASSUME NEW s \in due[w.about] \ w.to, w.end = "acked"
              PROVE  Served(<<w.about, s>>)'
          <5>1. <<w.about, s>> \in Mail
            BY <1>5, <3>1, <4>1 DEF Mail
          <5> QED
            BY <1>1, <1>3, <3>1, <4>1, <5>1 DEF Kept
        <4> QED
          BY <1>1, <2>4, <3>1, <4>1 DEF Kept
      <3>2. CASE w.about \in Event => event'[w.about] = event[w.about]
        BY <1>1, <1>6, <2>4, <3>2 DEF Kept
      <3> QED
        BY <2>3, <3>1, <3>2
    <2> QED
      BY <1>2, <2>2, <2>5
  <1>19. ASSUME NEW m \in Mail, MailStep(m) \/ SendFails(m) \/ ReadAck(m)
         PROVE  WireInOrder'
    BY <1>7, <1>8, <1>19
       DEF MailStep, TakeMail, SendMail, SendFails, ReadAck, MailHandlerReturns, Service
  <1>20. CASE UNCHANGED vars
    BY <1>7, <1>20 DEF vars
  <1> QED
    BY <1>9, <1>10, <1>12, <1>13, <1>14, <1>15, <1>16, <1>17, <1>18, <1>19, <1>20
       DEF Next, EventStep, BrokerStep

\* Events that are over stay so, with whoever is due an email; those acknowledged
\* come from a write whose recipients have all been read, and those dropped from
\* a time when nobody was confirmed.
LEMMA AckedStep ==
    ASSUME TypeOK, DueInOrder, WireInOrder, MailInOrder, NobodyForgotten, [Next]_vars
    PROVE  NobodyForgotten'
  <1>1. \A m \in Mail : Served(m) => Served(m)'
    BY ServedStays
  <1>2. ASSUME NEW e \in Event, event'[e] \in {"acked", "dropped"}
        PROVE  \/ event[e] = event'[e] /\ due'[e] \subseteq due[e]
               \/ \A s \in due'[e] : Served(<<e, s>>)
    <2>1. CASE event' = event /\ due' = due
      BY <1>2, <2>1
    <2>2. ASSUME NEW p \in Service, Die(p) \/ GoesOn(p)
          PROVE  event[e] = event'[e]
      BY <1>2, <2>2 DEF Die, GoesOn, Requeued, TypeOK
    <2>3. ASSUME NEW p \in Service, StartStep(p) \/ CloseChannel(p) \/ Crash(p)
          PROVE  event[e] = event'[e] /\ due'[e] \subseteq due[e]
      BY <1>2, <2>2, <2>3 DEF StartStep, SetupQueue, Consume, CloseChannel, Crash
    <2>4. ASSUME NEW x \in Event, TakeEvent(x)
          PROVE  event[e] = event'[e] /\ due'[e] \subseteq due[e]
      BY <1>2, <2>4 DEF TakeEvent, TypeOK
    <2>5. ASSUME NEW x \in Event, FanOut(x) \/ FanOutFails(x)
          PROVE  event[e] = event'[e] /\ due'[e] \subseteq due[e]
      BY <1>2, <2>2, <2>5 DEF FanOut, FanOutFails, HandlerReturns, WriteOut, Service
    <2>6. ASSUME NEW s \in Subscriber, SendConfirmation(s) \/ Confirm(s) \/ Route(s)
          PROVE  event[e] = event'[e] /\ due'[e] \subseteq due[e]
      BY <1>2, <2>6 DEF SendConfirmation, Confirm, Route
    <2>7. ASSUME NEW s \in Subscriber, Unsubscribe(s)
          PROVE  event[e] = event'[e] /\ due'[e] \subseteq due[e]
      BY <1>2, <2>7 DEF Unsubscribe
    <2>8. CASE ReadEnd
      <3>1. PICK h \in Writes : h = Head(wire) /\ h \in Write
        BY <2>8, FirstWrite DEF ReadEnd, TypeOK
      <3>2. CASE h.about = e
        BY <1>2, <2>8, <3>1, <3>2 DEF ReadEnd, WireInOrder, Write
      <3>3. CASE h.about # e
        BY <1>2, <2>8, <3>1, <3>3 DEF ReadEnd
      <3> QED
        BY <3>2, <3>3
    <2>9. ASSUME NEW m \in Mail, MailStep(m) \/ SendFails(m) \/ ReadAck(m)
          PROVE  event[e] = event'[e] /\ due'[e] \subseteq due[e]
      BY <1>2, <2>2, <2>9
         DEF MailStep, TakeMail, SendMail, SendFails, ReadAck, MailHandlerReturns, Service
    <2>10. CASE UNCHANGED vars
      BY <1>2, <2>10 DEF vars
    <2>11. ASSUME NEW x \in Event, Announce(x), x # e
           PROVE  event[e] = event'[e] /\ due'[e] \subseteq due[e]
      BY <2>11 DEF Announce, TypeOK
    <2>12. ASSUME Announce(e)
           PROVE  due'[e] = {}
      BY <1>2, <2>12 DEF Announce, DueInOrder, TypeOK
    <2> QED
      BY <2>3, <2>4, <2>5, <2>6, <2>7, <2>8, <2>9, <2>10, <2>11, <2>12
         DEF Next, EventStep, BrokerStep
  <1>3. \A e \in Event : due'[e] \subseteq Subscriber
    BY TypeStep DEF TypeOK
  <1> SUFFICES ASSUME NEW e \in Event, event'[e] \in {"acked", "dropped"}, NEW s \in due'[e]
               PROVE  Served(<<e, s>>)'
    BY DEF NobodyForgotten
  <1>4. <<e, s>> \in Mail
    BY <1>3 DEF Mail
  <1>5. Served(<<e, s>>)
    BY <1>2 DEF NobodyForgotten
  <1> QED
    BY <1>1, <1>4, <1>5

\* An email sent stays sent.
LEMMA InboxGrows ==
    ASSUME TypeOK, [Next]_vars, NEW n \in Mail, inbox[n] > 0 PROVE inbox'[n] > 0
  <1>1. CASE inbox' = inbox
    BY <1>1
  <1>2. ASSUME NEW m \in Mail, inbox' = [inbox EXCEPT ![m] = @ + 1] PROVE inbox'[n] > 0
    <2>1. CASE n = m
      BY <1>2, <2>1 DEF TypeOK
    <2>2. CASE n # m
      BY <1>2, <2>2 DEF TypeOK
    <2> QED
      BY <2>1, <2>2
  <1>3. \A m \in Mail : SendMail(m) \/ SendFails(m) =>
            inbox' = inbox \/ inbox' = [inbox EXCEPT ![m] = @ + 1]
    BY DEF SendMail, SendFails
  <1>4. \/ inbox' = inbox
        \/ \E m \in Mail : SendMail(m) \/ SendFails(m)
    BY DEF Next, vars, StartStep, SetupQueue, Consume, CloseChannel, Crash, Announce,
           EventStep, TakeEvent, FanOut, FanOutFails, SendConfirmation, Confirm,
           Unsubscribe, BrokerStep, Route, ReadEnd, MailStep, TakeMail, ReadAck
  <1> QED
    BY <1>1, <1>2, <1>3, <1>4

\* Who was late for an event is settled when it is announced.
LEMMA AnnouncedStays ==
    ASSUME TypeOK, WireInOrder, [Next]_vars, NEW e \in Event, event[e] # "none"
    PROVE  event'[e] # "none" /\ late'[e] = late[e]
  <1>1. CASE event' = event /\ late' = late
    BY <1>1
  <1>2. ASSUME NEW p \in Service, Die(p) \/ GoesOn(p) PROVE event'[e] # "none"
    BY <1>2 DEF Die, GoesOn, Requeued
  <1>3. ASSUME NEW p \in Service, StartStep(p) \/ CloseChannel(p) \/ Crash(p)
        PROVE  event'[e] # "none" /\ late' = late
    BY <1>2, <1>3 DEF StartStep, SetupQueue, Consume, CloseChannel, Crash
  <1>4. ASSUME NEW x \in Event, Announce(x) \/ TakeEvent(x)
        PROVE  event'[e] # "none" /\ late'[e] = late[e]
    BY <1>4 DEF Announce, TakeEvent, TypeOK
  <1>5. ASSUME NEW x \in Event, FanOut(x) \/ FanOutFails(x)
        PROVE  event'[e] # "none" /\ late' = late
    BY <1>2, <1>5 DEF FanOut, FanOutFails, HandlerReturns, WriteOut, Service
  <1>6. ASSUME NEW s \in Subscriber,
               SendConfirmation(s) \/ Confirm(s) \/ Unsubscribe(s) \/ Route(s)
        PROVE  event' = event /\ late' = late
    BY <1>6 DEF SendConfirmation, Confirm, Unsubscribe, Route
  <1>7. CASE ReadEnd
    <2>1. PICK h \in Writes : h = Head(wire) /\ h \in Write
      BY <1>7, FirstWrite DEF ReadEnd, TypeOK
    <2> QED
      BY <1>7, <2>1 DEF ReadEnd, WireInOrder
  <1>8. ASSUME NEW m \in Mail, MailStep(m) \/ SendFails(m) \/ ReadAck(m)
        PROVE  event'[e] # "none" /\ late' = late
    BY <1>2, <1>8
       DEF MailStep, TakeMail, SendMail, SendFails, ReadAck, MailHandlerReturns, Service
  <1>9. CASE UNCHANGED vars
    BY <1>9 DEF vars
  <1> QED
    BY <1>1, <1>3, <1>4, <1>5, <1>6, <1>7, <1>8, <1>9 DEF Next, EventStep, BrokerStep

\* There is a copy of the message somewhere behind the wire.
Copied(m) == UnderWay(m) \/ sending[m] > 0

\* Messages come off the wire, and from nowhere else.
LEMMA CopiesComeFromWire ==
    ASSUME TypeOK, [Next]_vars, NEW n \in Mail, Copied(n)'
    PROVE  \/ Copied(n)
           \/ "email" \in queues /\ \E w \in Writes : n[1] = w.about /\ n[2] \in w.to
  <1> USE DEF Copied, UnderWay, TypeOK
  <1>1. CASE UNCHANGED <<ready, unacked, sending, inbox>>
    BY <1>1
  <1>2. ASSUME NEW p \in Service, Die(p) \/ GoesOn(p), inbox'[n] = inbox[n]
        PROVE  Copied(n)
    <2>1. CASE p = "subscription"
      BY <1>2, <2>1 DEF Die, GoesOn
    <2>2. CASE p = "email"
      BY <1>2, <2>2 DEF Die, GoesOn, TakesBack, Service
    <2> QED
      BY <2>1, <2>2 DEF Service
  <1>3. ASSUME NEW p \in Service, StartStep(p) \/ CloseChannel(p) \/ Crash(p)
        PROVE  Copied(n)
    BY <1>1, <1>2, <1>3 DEF StartStep, SetupQueue, Consume, CloseChannel, Crash
  <1>4. ASSUME NEW e \in Event, Announce(e) \/ TakeEvent(e) PROVE Copied(n)
    BY <1>1, <1>4 DEF Announce, TakeEvent
  <1>5. ASSUME NEW e \in Event, FanOut(e) \/ FanOutFails(e) PROVE Copied(n)
    BY <1>1, <1>2, <1>5 DEF FanOut, FanOutFails, HandlerReturns, WriteOut, Service
  <1>6. ASSUME NEW s \in Subscriber, SendConfirmation(s) \/ Confirm(s) \/ Unsubscribe(s)
        PROVE  Copied(n)
    BY <1>1, <1>6 DEF SendConfirmation, Confirm, Unsubscribe
  <1>7. ASSUME NEW s \in Subscriber, Route(s)
        PROVE  \/ Copied(n)
               \/ "email" \in queues /\ \E w \in Writes : n[1] = w.about /\ n[2] \in w.to
    <2>1. PICK h \in Writes : h = Head(wire) /\ h \in Write
      BY <1>7, FirstWrite DEF Route
    <2>2. CASE n = <<h.about, s>> /\ "email" \in queues
      BY <1>7, <2>1, <2>2 DEF Route
    <2>3. CASE n # <<h.about, s>> \/ "email" \notin queues
      <3>1. ready'[n] = ready[n]
        BY <1>7, <2>1, <2>3 DEF Route
      <3> QED
        BY <1>7, <3>1 DEF Route
    <2> QED
      BY <2>2, <2>3
  <1>8. CASE ReadEnd
    BY <1>1, <1>8 DEF ReadEnd
  <1>9. ASSUME NEW m \in Mail, TakeMail(m) PROVE Copied(n)
    <2>1. CASE n = m
      BY <1>9, <2>1 DEF TakeMail
    <2>2. CASE n # m
      BY <1>9, <2>2 DEF TakeMail
    <2> QED
      BY <2>1, <2>2
  <1>10. ASSUME NEW m \in Mail, SendMail(m) \/ SendFails(m) PROVE Copied(n)
    <2>1. sending[m] > 0
      BY <1>10 DEF SendMail, SendFails
    <2>2. CASE n = m
      BY <2>1, <2>2
    <2>3. CASE n # m
      <3>1. inbox' = inbox \/ inbox' = [inbox EXCEPT ![m] = @ + 1]
        BY <1>10 DEF SendMail, SendFails
      <3>2. inbox'[n] = inbox[n]
        BY <2>3, <3>1
      <3>3. CASE Die("email")
        BY <1>2, <3>2, <3>3 DEF Service
      <3>4. CASE sending' = [sending EXCEPT ![m] = @ - 1] /\ UNCHANGED <<ready, unacked>>
        <4>1. sending'[n] = sending[n]
          BY <2>3, <3>4
        <4> QED
          BY <3>2, <3>4, <4>1
      <3> QED
        BY <1>10, <3>3, <3>4 DEF SendMail, SendFails, MailHandlerReturns
    <2> QED
      BY <2>2, <2>3
  <1>11. ASSUME NEW m \in Mail, ReadAck(m) PROVE Copied(n)
    <2>1. CASE n = m
      BY <1>11, <2>1 DEF ReadAck
    <2>2. CASE n # m
      BY <1>11, <2>2 DEF ReadAck
    <2> QED
      BY <2>1, <2>2
  <1>12. CASE UNCHANGED vars
    BY <1>1, <1>12 DEF vars
  <1> QED
    BY <1>3, <1>4, <1>5, <1>6, <1>7, <1>8, <1>9, <1>10, <1>11, <1>12
       DEF Next, EventStep, BrokerStep, MailStep

\* The wire has what it had, or a fan-out to confirmed subscribers.
LEMMA RecipientsComeFromRows ==
    ASSUME TypeOK, HandlersInOrder, ProcessesInOrder, [Next]_vars,
           NEW v \in Writes', v.about \in Event, NEW s \in v.to
    PROVE  \/ \E w \in Writes : w.about = v.about /\ s \in w.to
           \/ s \in Confirmed /\ event[v.about] # "none"
  <1> DEFINE Goal == \/ \E w \in Writes : w.about = v.about /\ s \in w.to
                     \/ s \in Confirmed /\ event[v.about] # "none"
  <1>1. CASE Writes' \subseteq Writes
    BY <1>1
  <1>2. wire' = wire => Writes' \subseteq Writes
    BY DEF Writes
  <1>3. wire' = <<>> => Writes' \subseteq Writes
    BY DEF Writes
  <1>4. ASSUME NEW p \in Service, Die(p) \/ GoesOn(p) PROVE wire' = wire \/ wire' = <<>>
    BY <1>4 DEF Die, GoesOn
  <1>5. ASSUME NEW e \in Event, FanOut(e) \/ FanOutFails(e) PROVE Goal
    <2>1. PICK to \in {Confirmed, {}}, end \in {"acked", "rejected"} :
              e \in handlers /\ HandlerReturns(e, to, end)
      BY <1>5 DEF FanOut, FanOutFails
    <2>2. CASE Die("subscription")
      BY <1>1, <1>2, <1>3, <1>4, <2>2 DEF Service
    <2>3. CASE WriteOut(e, to, end)
      <3> DEFINE x == [about |-> e, to |-> to, end |-> end]
      <3>1. x \in Write
        BY <2>1 DEF Write, Confirmed
      <3>2. Writes' \subseteq Writes \cup {x}
        BY <2>3, <3>1, AppendedWrites DEF WriteOut, TypeOK
      <3>3. to \subseteq Confirmed /\ event[e] # "none"
        BY <2>1 DEF HandlersInOrder
      <3> QED
        BY <3>2, <3>3
    <2> QED
      BY <2>1, <2>2, <2>3 DEF HandlerReturns
  <1>6. ASSUME NEW x \in Subscriber, SendConfirmation(x) PROVE Goal
    <2> DEFINE y == [about |-> Confirmation, to |-> {x}, end |-> "none"]
    <2>1. y \in Write
      BY DEF Write
    <2>2. Writes' \subseteq Writes \cup {y}
      BY <1>6, <2>1, AppendedWrites DEF SendConfirmation, TypeOK
    <2> QED
      BY <2>2
  <1>7. ASSUME NEW x \in Subscriber, Route(x) PROVE Goal
    <2>1. PICK h \in Writes : h = Head(wire) /\ h \in Write
      BY <1>7, FirstWrite DEF Route, TypeOK
    <2>2. Writes' \subseteq Writes \cup {Without(h, x)}
      BY <1>7, <2>1, RoutedWrites DEF Route, TypeOK
    <2> QED
      BY <2>1, <2>2 DEF Without
  <1>8. CASE ReadEnd
    BY <1>1, <1>8, DroppedWrites DEF ReadEnd, TypeOK
  <1>9. \/ wire' = wire
        \/ \E p \in Service : Die(p) \/ GoesOn(p)
        \/ \E e \in Event : FanOut(e) \/ FanOutFails(e)
        \/ \E x \in Subscriber : SendConfirmation(x) \/ Route(x)
        \/ ReadEnd
    BY DEF Next, vars, StartStep, SetupQueue, Consume, CloseChannel, Crash, Announce,
           EventStep, TakeEvent, Confirm, Unsubscribe, BrokerStep, MailStep, TakeMail,
           SendMail, SendFails, MailHandlerReturns, ReadAck, Service
  <1> QED
    BY <1>1, <1>2, <1>3, <1>4, <1>5, <1>6, <1>7, <1>8, <1>9

\* Only who clicked is confirmed, and messages are for the confirmed alone.
LEMMA InvitedStep ==
    ASSUME TypeOK, ProcessesInOrder, DueInOrder, HandlersInOrder, WireInOrder,
           InvitedInOrder, [Next]_vars
    PROVE  InvitedInOrder'
  <1> DEFINE Invited(e, s) ==
        inbox[<<Confirmation, s>>] > 0 /\ s \notin late[e] /\ event[e] # "none"
  <1>1. ASSUME NEW s \in Subscriber, inbox[<<Confirmation, s>>] > 0
        PROVE  inbox'[<<Confirmation, s>>] > 0
    <2>1. <<Confirmation, s>> \in Mail
      BY DEF Mail
    <2> QED
      BY <1>1, <2>1, InboxGrows
  <1>2. ASSUME NEW e \in Event, NEW s \in Subscriber, Invited(e, s) PROVE Invited(e, s)'
    BY <1>1, <1>2, AnnouncedStays
  <1>3. ASSUME NEW s \in Confirmed' PROVE inbox'[<<Confirmation, s>>] > 0
    <2>1. s \in Subscriber
      BY DEF Confirmed
    <2>2. CASE s \in Confirmed
      BY <1>1, <2>1, <2>2 DEF InvitedInOrder
    <2>3. CASE s \notin Confirmed
      <3>1. row' = row \/ \E x \in Subscriber : Confirm(x) \/ Unsubscribe(x)
        BY DEF Next, vars, StartStep, SetupQueue, Consume, CloseChannel, Crash, Announce,
               EventStep, TakeEvent, FanOut, FanOutFails, SendConfirmation, BrokerStep,
               Route, ReadEnd, MailStep, TakeMail, SendMail, SendFails, ReadAck
      <3>2. ASSUME NEW x \in Subscriber, Unsubscribe(x) PROVE s \in Confirmed
        BY <2>1, <3>2 DEF Unsubscribe, Confirmed, TypeOK
      <3>3. ASSUME NEW x \in Subscriber, Confirm(x) PROVE inbox[<<Confirmation, s>>] > 0
        BY <2>1, <2>3, <3>3 DEF Confirm, Confirmed, TypeOK
      <3>4. row' = row => s \in Confirmed
        BY DEF Confirmed
      <3> QED
        BY <1>1, <2>1, <2>3, <3>1, <3>2, <3>3, <3>4
    <2> QED
      BY <2>2, <2>3
  <1>4. ASSUME NEW e \in Event, NEW s \in Confirmed, event[e] # "none" PROVE Invited(e, s)
    <2>1. s \notin late[e]
      BY DEF DueInOrder, Confirmed
    <2> QED
      BY <1>4, <2>1 DEF InvitedInOrder
  <1>5. ASSUME NEW w \in Writes, w.about \in Event, NEW s \in w.to PROVE Invited(w.about, s)
    BY <1>5 DEF InvitedInOrder, WireInOrder
  <1>6. \A w \in Writes : w \in Write
    BY DEF Writes, TypeOK
  <1>7. ASSUME NEW v \in Writes', v.about \in Event, NEW s \in v.to
        PROVE  Invited(v.about, s)'
    <2>1. s \in Subscriber /\ Invited(v.about, s)
      BY <1>4, <1>5, <1>6, <1>7, RecipientsComeFromRows DEF Write, Confirmed
    <2> QED
      BY <1>2, <1>7, <2>1
  <1>8. ASSUME NEW e \in Event, NEW s \in Subscriber, Copied(<<e, s>>)'
        PROVE  Invited(e, s)'
    <2>1. <<e, s>> \in Mail
      BY DEF Mail
    <2>2. CASE Copied(<<e, s>>)
      BY <1>2, <2>2 DEF InvitedInOrder, Copied
    <2>3. ASSUME NEW w \in Writes, e = w.about, s \in w.to PROVE Invited(e, s)'
      BY <1>2, <1>5, <2>3
    <2> QED
      BY <1>8, <2>1, <2>2, <2>3, CopiesComeFromWire
  <1> QED
    BY <1>3, <1>7, <1>8 DEF InvitedInOrder, Copied

\* Emails come from a queue.
LEMMA QueueStep ==
    ASSUME TypeOK, QueueInOrder, [Next]_vars
    PROVE  QueueInOrder'
  <1>1. queues \subseteq queues'
    BY DEF Next, vars, StartStep, SetupQueue, Consume, CloseChannel, Crash, GoesOn, Die,
           Announce, EventStep, TakeEvent, FanOut, FanOutFails, HandlerReturns, WriteOut,
           SendConfirmation, Confirm, Unsubscribe, BrokerStep, Route, ReadEnd, MailStep,
           TakeMail, SendMail, SendFails, MailHandlerReturns, ReadAck
  <1>2. ASSUME "email" \notin queues', NEW m \in Mail PROVE ~Copied(m)'
    BY <1>1, <1>2, CopiesComeFromWire DEF QueueInOrder, Copied, TypeOK
  <1>3. sending' \in [Mail -> Nat]
    BY TypeStep DEF TypeOK
  <1> QED BY <1>2, <1>3 DEF QueueInOrder, Copied

-----------------------------------------------------------------------------
(* The theorems *)

LEMMA InitInvariant == Init => Invariant
  <1> SUFFICES ASSUME Init PROVE Invariant
    OBVIOUS
  <1>1. \A m \in Mail : ready[m] = 0 /\ unacked[m] = 0 /\ sending[m] = 0 /\ inbox[m] = 0
    BY DEF Init
  <1>2. Writes = {} /\ Confirmed = {}
    BY DEF Init, Writes, Confirmed
  <1>3. TypeOK
    BY DEF Init, TypeOK, Mail
  <1>4. NobodyForgotten /\ ProcessesInOrder /\ DueInOrder /\ HandlersInOrder /\ WireInOrder
    BY <1>1, <1>2
       DEF Init, NobodyForgotten, ProcessesInOrder, DueInOrder, HandlersInOrder, WireInOrder
  <1>5. MailInOrder
    BY <1>1 DEF MailInOrder
  <1>6. InvitedInOrder
    <2>1. \A e \in Event, s \in Subscriber : <<e, s>> \in Mail
      BY DEF Mail
    <2> QED
      BY <1>1, <1>2, <2>1 DEF InvitedInOrder, UnderWay
  <1>7. QueueInOrder
    BY <1>1 DEF QueueInOrder, UnderWay
  <1> QED
    BY <1>3, <1>4, <1>5, <1>6, <1>7 DEF Invariant

\* The inductive invariant of the way from a release to the mailboxes.
THEOREM InvariantHolds == Spec => []Invariant
  <1>1. Invariant /\ [Next]_vars => Invariant'
    BY TypeStep, ProcessesStep, MailStepInOrder, DueStep, HandlersStep, WireStep,
       AckedStep, InvitedStep, QueueStep
       DEF Invariant
  <1> QED
    BY InitInvariant, <1>1, PTL DEF Spec

\* Every variable stays within its type.
THEOREM TypeCorrect == Spec => []TypeOK
  <1>1. Invariant => TypeOK
    BY DEF Invariant
  <1> QED
    BY InvariantHolds, <1>1, PTL

\* An event acknowledged, or dropped for want of a queue, has an email queued,
\* with the email service or sent for everybody due, but for those lost in a broken
\* dialogue with the SMTP server.
THEOREM NobodyIsForgotten == Spec => []NobodyForgotten
  <1>1. Invariant => NobodyForgotten
    BY DEF Invariant
  <1> QED
    BY InvariantHolds, <1>1, PTL

\* Nobody is notified uninvited, nor of what came after they left.
THEOREM OnlyTheInvited == Spec => []OnlyInvited
  <1>1. Invariant => OnlyInvited
    <2> SUFFICES ASSUME Invariant, NEW e \in Event, NEW s \in Subscriber, inbox[<<e, s>>] > 0
                 PROVE  inbox[<<Confirmation, s>>] > 0 /\ s \notin late[e]
      BY DEF OnlyInvited
    <2>1. <<e, s>> \in Mail
      BY DEF Mail
    <2>2. UnderWay(<<e, s>>)
      BY <2>1 DEF Invariant, TypeOK, UnderWay
    <2> QED
      BY <2>2 DEF Invariant, InvitedInOrder
  <1> QED
    BY InvariantHolds, <1>1, PTL

=============================================================================
