---------------------------- MODULE RepeatsProofs ----------------------------
(***************************************************************************)
(* FewRepeats, for any subscribers, events and bounds.                     *)
(*                                                                         *)
(* Copies are counted where they are made: the email queue is given one    *)
(* copy of a message for each request, or for each time an event was       *)
(* handled, and each copy is sent once, and once more for each failure of  *)
(* the email service.                                                      *)
(***************************************************************************)
EXTENDS NotifierProofs, FiniteSets, FiniteSetTheorems

-----------------------------------------------------------------------------
(* The invariant *)

\* Without its channel the subscription service has nothing on the wire and no
\* event, and there is one answer to each event.
AnswersInOrder ==
    /\ ~channel["subscription"] => wire = <<>> /\ \A e \in Event : event[e] # "taken"
    /\ \A i, j \in DOMAIN wire :
           wire[i].about \in Event =>
               /\ event[wire[i].about] = "taken"
               /\ wire[i].about = wire[j].about => i = j

\* The confirmation emails of a subscriber that are on the wire.
Asked(s) == {i \in DOMAIN wire : wire[i].about = Confirmation /\ s \in wire[i].to}

\* The queue has not been given this subscriber's email since the event was last
\* delivered.
Unpublished(e, s) ==
    \/ event[e] \in {"none", "dropped", "queued"} \/ e \in handlers
    \/ \E w \in Writes : w.about = e /\ s \in w.to

\* How many copies of an email the queue can have been given.
Copies(m) ==
    IF m[1] = Confirmation THEN requests[m[2]] - Cardinality(Asked(m[2]))
    ELSE failures["subscription"] + (IF Unpublished(m[1], m[2]) THEN 0 ELSE 1)

\* How often an email can be sent yet, unless the email service fails: handlers
\* that have lost their channel end with the first that returns.
Sendable(m) ==
    ready[m] + (IF channel["email"] THEN sending[m] ELSE IF sending[m] > 0 THEN 1 ELSE 0)

CopiesInOrder ==
    \A m \in Mail :
        /\ ready[m] + unacked[m] <= Copies(m)
        /\ inbox[m] + Sendable(m) <= Copies(m) * (1 + failures["email"])

-----------------------------------------------------------------------------
(* One answer to each event *)

LEMMA Appended ==
    ASSUME wire \in Seq(Write), NEW x, wire' = Append(wire, x)
    PROVE  /\ Len(wire) + 1 \notin DOMAIN wire
           /\ DOMAIN wire' = DOMAIN wire \cup {Len(wire) + 1}
           /\ \A i \in DOMAIN wire : wire'[i] = wire[i]
           /\ wire'[Len(wire) + 1] = x
  <1>1. DOMAIN wire = 1..Len(wire) /\ Len(wire) \in Nat
    OBVIOUS
  <1>2. DOMAIN wire' = 1..(Len(wire) + 1)
    OBVIOUS
  <1>3. \A i \in 1..(Len(wire) + 1) : wire'[i] = IF i <= Len(wire) THEN wire[i] ELSE x
    OBVIOUS
  <1> QED
    BY <1>1, <1>2, <1>3

LEMMA AnswersStep ==
    ASSUME Invariant, AnswersInOrder, [Next]_vars PROVE AnswersInOrder'
  <1> USE DEF AnswersInOrder
  <1>t. TypeOK /\ HandlersInOrder /\ WireInOrder
    BY DEF Invariant
  <1>w. wire \in Seq(Write) /\ \A i \in DOMAIN wire : wire[i] \in Writes
    BY <1>t DEF TypeOK, Writes
  <1>1. CASE UNCHANGED <<wire, event, channel>>
    BY <1>1
  <1>2. ASSUME NEW p \in Service, Die(p) \/ GoesOn(p) PROVE AnswersInOrder'
    <2>1. CASE p = "subscription"
      <3>1. wire' = <<>> /\ event' = Requeued
        BY <1>2, <2>1 DEF Die, GoesOn
      <3> QED
        BY <3>1 DEF Requeued
    <2>2. CASE p = "email"
      <3>1. UNCHANGED <<wire, event>> /\ channel'["subscription"] = channel["subscription"]
        BY <1>2, <1>t, <2>2 DEF Die, GoesOn, events, TypeOK, Service
      <3> QED
        BY <3>1
    <2> QED
      BY <2>1, <2>2 DEF Service
  <1>3. ASSUME NEW p \in Service, SetupQueue(p) PROVE AnswersInOrder'
    <2>1. UNCHANGED <<wire, event>> /\ (channel["subscription"] => channel'["subscription"])
      BY <1>3, <1>t DEF SetupQueue, events, TypeOK, Service
    <2> QED
      BY <2>1
  <1>4. ASSUME NEW e \in Event, Announce(e) PROVE AnswersInOrder'
    <2>1. \A x \in Event : event'[x] = "taken" <=> event[x] = "taken"
      BY <1>4, <1>t DEF Announce, TypeOK
    <2> QED
      BY <1>4, <1>w, <2>1 DEF Announce, process
  <1>5. ASSUME NEW e \in Event, TakeEvent(e) PROVE AnswersInOrder'
    <2>1. channel'["subscription"] /\ wire' = wire
      BY <1>5 DEF TakeEvent, Up, process
    <2>2. \A x \in Event : event[x] = "taken" => event'[x] = "taken"
      BY <1>5, <1>t DEF TakeEvent, TypeOK
    <2> QED
      BY <2>1, <2>2
  <1>6. ASSUME NEW e \in handlers, NEW to \in SUBSET Subscriber,
               NEW end \in {"acked", "rejected"}, HandlerReturns(e, to, end)
        PROVE  AnswersInOrder'
    <2>1. CASE channel["subscription"]
      <3> DEFINE x == [about |-> e, to |-> to, end |-> end]
      <3>1. wire' = Append(wire, x) /\ UNCHANGED <<event, channel>>
        BY <1>6, <2>1 DEF HandlerReturns, WriteOut, process
      <3>2. e \in Event /\ event[e] = "taken"
        BY <1>t, <2>1 DEF TypeOK, HandlersInOrder
      <3>3. \A i \in DOMAIN wire : wire[i].about # e
        BY <1>t, <1>w, <3>2 DEF WireInOrder
      <3>4. \A i \in DOMAIN wire' :
                \/ i \in DOMAIN wire /\ wire'[i] = wire[i]
                \/ i = Len(wire) + 1 /\ wire'[i] = x
        <4> HIDE DEF x
        <4> QED
          BY <1>w, <3>1, Appended
      <3>5. x.about = e
        OBVIOUS
      <3> HIDE DEF x
      <3> QED
        BY <2>1, <3>1, <3>2, <3>3, <3>4, <3>5
    <2>2. CASE ~channel["subscription"]
      BY <1>2, <1>6, <2>2 DEF HandlerReturns, Service
    <2> QED
      BY <2>1, <2>2
  <1>7. ASSUME NEW s \in Subscriber, SendConfirmation(s) PROVE AnswersInOrder'
    <2> DEFINE x == [about |-> Confirmation, to |-> {s}, end |-> "none"]
    <2>1. channel'["subscription"] /\ event' = event /\ wire' = Append(wire, x)
      BY <1>7 DEF SendConfirmation, Up, process
    <2>2. \A i \in DOMAIN wire' :
              \/ i \in DOMAIN wire /\ wire'[i] = wire[i]
              \/ wire'[i] = x
      <3> HIDE DEF x
      <3> QED
        BY <1>w, <2>1, Appended
    <2>3. x.about = Confirmation
      OBVIOUS
    <2> HIDE DEF x
    <2> QED
      BY <2>1, <2>2, <2>3, ConstantsAssumption
  <1>8. ASSUME NEW s \in Subscriber, Route(s) PROVE AnswersInOrder'
    <2>1. channel["subscription"] /\ UNCHANGED <<event, channel>>
      BY <1>8 DEF Route, process
    <2>2. DOMAIN wire' = DOMAIN wire /\ \A i \in DOMAIN wire : wire'[i].about = wire[i].about
      BY <1>8, <1>w DEF Route, Without
    <2> QED
      BY <2>1, <2>2
  <1>9. CASE ReadEnd
    <2>1. channel["subscription"] /\ UNCHANGED channel
      BY <1>9 DEF ReadEnd, process
    <2>2. 1 \in DOMAIN wire /\ Head(wire) = wire[1]
      BY <1>9, <1>w, FirstWrite DEF ReadEnd
    <2>3. \A i \in DOMAIN wire' : wire'[i] = wire[i + 1] /\ i + 1 \in DOMAIN wire /\ i + 1 # 1
      BY <1>9, <1>w DEF ReadEnd
    <2>4. \A e \in Event : wire[1].about # e => event'[e] = event[e]
      BY <1>9, <2>2 DEF ReadEnd
    <2>5. ASSUME NEW i \in DOMAIN wire', wire'[i].about \in Event
          PROVE  event'[wire'[i].about] = "taken"
      BY <2>2, <2>3, <2>4, <2>5
    <2>6. ASSUME NEW i \in DOMAIN wire', NEW j \in DOMAIN wire', wire'[i].about \in Event,
                 wire'[i].about = wire'[j].about
          PROVE  i = j
      <3>1. i \in Nat /\ j \in Nat
        BY <1>9, <1>w DEF ReadEnd
      <3>2. i + 1 = j + 1
        BY <2>3, <2>6
      <3> QED
        BY <3>1, <3>2
    <2> QED
      BY <2>1, <2>5, <2>6
  <1>10. ASSUME NEW m \in Mail, MailStep(m) \/ SendFails(m) \/ ReadAck(m) PROVE AnswersInOrder'
    BY <1>1, <1>2, <1>10 DEF MailStep, TakeMail, SendMail, SendFails, ReadAck,
       MailHandlerReturns, events, process, Service
  <1>11. ASSUME NEW p \in Service, Consume(p) \/ CloseChannel(p) \/ Crash(p)
         PROVE  AnswersInOrder'
    BY <1>1, <1>2, <1>11 DEF Consume, CloseChannel, Crash, events
  <1>12. ASSUME NEW e \in Event, FanOut(e) \/ FanOutFails(e) PROVE AnswersInOrder'
    BY <1>6, <1>12 DEF FanOut, FanOutFails, Confirmed
  <1>13. ASSUME NEW s \in Subscriber, Confirm(s) \/ Unsubscribe(s) PROVE AnswersInOrder'
    BY <1>1, <1>13 DEF Confirm, Unsubscribe, events, process
  <1>14. CASE UNCHANGED vars
    BY <1>1, <1>14 DEF vars, events, process
  <1> QED
    BY <1>3, <1>4, <1>5, <1>7, <1>8, <1>9, <1>10, <1>11, <1>12, <1>13, <1>14
       DEF Next, StartStep, EventStep, BrokerStep

-----------------------------------------------------------------------------
(* How many copies there can be only grows *)

LEMMA PartOfSequence ==
    ASSUME NEW w \in Seq(Write), NEW T, T \subseteq DOMAIN w
    PROVE  IsFiniteSet(T) /\ Cardinality(T) \in Nat
  <1>1. Len(w) \in Nat /\ DOMAIN w = 1..Len(w)
    OBVIOUS
  <1>2. IsFiniteSet(DOMAIN w)
    BY <1>1, FS_Interval
  <1> QED
    BY <1>2, FS_Subset, FS_CardinalityType

LEMMA AskedCount ==
    ASSUME TypeOK, NEW s PROVE IsFiniteSet(Asked(s)) /\ Cardinality(Asked(s)) \in Nat
  BY PartOfSequence DEF TypeOK, Asked

\* The wire without its head holds as many confirmation emails, if the head had
\* none left.
LEMMA AskedBehind ==
    ASSUME TypeOK, ReadEnd, NEW s
    PROVE  Cardinality(Asked(s)') <= Cardinality(Asked(s))
  <1>1. \A i \in DOMAIN wire' : i \in Nat /\ wire'[i] = wire[i + 1] /\ i + 1 \in DOMAIN wire
    BY DEF TypeOK, ReadEnd
  <1> DEFINE T == Asked(s)'
             f == [i \in T |-> i + 1]
  <1>2. \A i \in T : i \in Nat /\ i + 1 \in Asked(s)
    BY <1>1 DEF Asked
  <1> HIDE DEF T
  <1>3. f \in Injection(T, Asked(s))
    BY <1>2 DEF Injection, IsInjective
  <1> HIDE DEF f
  <1>4. Cardinality(T) <= Cardinality(Asked(s))
    BY <1>3, AskedCount, FS_Injection
  <1> QED
    BY <1>4 DEF T

LEMMA AskedStep ==
    ASSUME TypeOK, [Next]_vars, NEW s \in Subscriber
    PROVE  /\ requests[s] \in Nat /\ requests'[s] \in Nat
           /\ Cardinality(Asked(s)') \in Nat
           /\ requests[s] - Cardinality(Asked(s)) <= requests'[s] - Cardinality(Asked(s)')
  <1>1. TypeOK'
    BY TypeStep
  <1>2. /\ Cardinality(Asked(s)) \in Nat /\ Cardinality(Asked(s)') \in Nat
        /\ IsFiniteSet(Asked(s))
    <2>1. Asked(s)' \subseteq DOMAIN wire'
      BY DEF Asked
    <2>2. wire' \in Seq(Write)
      BY <1>1 DEF TypeOK
    <2> QED
      BY <2>1, <2>2, AskedCount, PartOfSequence
  <1>3. requests[s] \in Nat /\ requests'[s] \in Nat
    BY <1>1, ConstantsAssumption DEF TypeOK
  <1>w. wire \in Seq(Write)
    BY DEF TypeOK
  <1> DEFINE Goal == requests[s] - Cardinality(Asked(s)) <= requests'[s] - Cardinality(Asked(s)')
  <1>4. CASE requests' = requests /\ Asked(s)' \subseteq Asked(s)
    <2>1. Cardinality(Asked(s)') <= Cardinality(Asked(s))
      BY <1>2, <1>4, FS_Subset
    <2> QED
      BY <1>2, <1>3, <1>4, <2>1
  <1>5. CASE requests' = requests /\ wire' = wire
    BY <1>4, <1>5 DEF Asked
  <1>6. CASE requests' = requests /\ wire' = <<>>
    BY <1>4, <1>6 DEF Asked
  <1>7. ASSUME NEW p \in Service, Die(p) \/ GoesOn(p) PROVE wire' = wire \/ wire' = <<>>
    BY <1>7 DEF Die, GoesOn, events
  <1>8. ASSUME NEW p \in Service, StartStep(p) \/ CloseChannel(p) \/ Crash(p) PROVE Goal
    BY <1>5, <1>6, <1>7, <1>8 DEF StartStep, SetupQueue, Consume, CloseChannel, Crash, events
  <1>9. ASSUME NEW e \in Event, Announce(e) \/ TakeEvent(e) PROVE Goal
    BY <1>5, <1>9 DEF Announce, TakeEvent
  <1>10. ASSUME NEW e \in Event, FanOut(e) \/ FanOutFails(e) PROVE Goal
    <2>1. requests' = requests
      BY <1>10 DEF FanOut, FanOutFails
    <2>2. PICK to, end : HandlerReturns(e, to, end)
      BY <1>10 DEF FanOut, FanOutFails
    <2>3. CASE Die("subscription")
      BY <1>6, <2>1, <2>3 DEF Die
    <2>4. CASE WriteOut(e, to, end)
      <3> DEFINE x == [about |-> e, to |-> to, end |-> end]
      <3>1. wire' = Append(wire, x) /\ x.about # Confirmation
        BY <2>4, ConstantsAssumption DEF WriteOut
      <3> HIDE DEF x
      <3>2. Asked(s)' \subseteq Asked(s)
        BY <1>w, <3>1, Appended DEF Asked
      <3> QED
        BY <1>4, <2>1, <3>2
    <2> QED
      BY <2>2, <2>3, <2>4 DEF HandlerReturns
  <1>11. ASSUME NEW r \in Subscriber, SendConfirmation(r) PROVE Goal
    <2> DEFINE x == [about |-> Confirmation, to |-> {r}, end |-> "none"]
    <2>1. wire' = Append(wire, x) /\ x.to = {r}
      BY <1>11 DEF SendConfirmation
    <2>2. requests'[s] = IF r = s THEN requests[s] + 1 ELSE requests[s]
      BY <1>11 DEF SendConfirmation, TypeOK
    <2> HIDE DEF x
    <2>3. CASE r = s
      <3>1. Asked(s)' \subseteq Asked(s) \cup {Len(wire) + 1}
        BY <1>w, <2>1, Appended DEF Asked
      <3>2. /\ IsFiniteSet(Asked(s) \cup {Len(wire) + 1})
            /\ Cardinality(Asked(s) \cup {Len(wire) + 1}) <= Cardinality(Asked(s)) + 1
        <4> DEFINE S == Asked(s)
                   n == Len(wire) + 1
        <4>1. IsFiniteSet(S) /\ Cardinality(S) \in Nat
          BY <1>2
        <4> HIDE DEF S, n
        <4>2. /\ IsFiniteSet(S \cup {n})
              /\ Cardinality(S \cup {n}) =
                     IF n \in S THEN Cardinality(S) ELSE Cardinality(S) + 1
          BY <4>1, FS_AddElement
        <4>3. Cardinality(S \cup {n}) <= Cardinality(S) + 1
          BY <4>1, <4>2
        <4> QED
          BY <4>2, <4>3 DEF S, n
      <3>3. Cardinality(Asked(s)') <= Cardinality(Asked(s) \cup {Len(wire) + 1})
        BY <3>1, <3>2, FS_Subset
      <3>4. Cardinality(Asked(s) \cup {Len(wire) + 1}) \in Nat
        BY <3>2, FS_CardinalityType
      <3> QED
        BY <1>2, <1>3, <2>2, <2>3, <3>2, <3>3, <3>4
    <2>4. CASE r # s
      <3>1. Asked(s)' \subseteq Asked(s)
        BY <1>w, <2>1, <2>4, Appended DEF Asked
      <3>2. Cardinality(Asked(s)') <= Cardinality(Asked(s))
        BY <1>2, <3>1, FS_Subset
      <3> QED
        BY <1>2, <1>3, <2>2, <2>4, <3>2
    <2> QED
      BY <2>3, <2>4
  <1>12. ASSUME NEW r \in Subscriber, Confirm(r) \/ Unsubscribe(r) PROVE Goal
    BY <1>5, <1>12 DEF Confirm, Unsubscribe, events
  <1>13. ASSUME NEW r \in Subscriber, Route(r) PROVE Goal
    <2>1. DOMAIN wire' = DOMAIN wire
      BY <1>13, <1>w DEF Route
    <2>2. \A i \in DOMAIN wire : /\ wire'[i].about = wire[i].about
                                /\ wire'[i].to \subseteq wire[i].to
      BY <1>13, <1>w DEF Route, Without
    <2>3. Asked(s)' \subseteq Asked(s)
      BY <2>1, <2>2 DEF Asked
    <2> QED
      BY <1>4, <1>13, <2>3 DEF Route
  <1>14. CASE ReadEnd
    <2>1. requests' = requests
      BY <1>14 DEF ReadEnd
    <2> QED
      BY <1>2, <1>3, <1>14, <2>1, AskedBehind
  <1>15. ASSUME NEW m \in Mail, MailStep(m) \/ SendFails(m) \/ ReadAck(m) PROVE Goal
    BY <1>5, <1>6, <1>7, <1>15
       DEF MailStep, TakeMail, SendMail, SendFails, ReadAck, MailHandlerReturns, events, Service
  <1>16. CASE UNCHANGED vars
    BY <1>5, <1>16 DEF vars, events
  <1>17. Goal
    BY <1>8, <1>9, <1>10, <1>11, <1>12, <1>13, <1>14, <1>15, <1>16
       DEF Next, EventStep, BrokerStep
  <1> QED
    BY <1>2, <1>3, <1>17

\* A step only makes an event publishable again with a failure of the service.
LEMMA PublishedStep ==
    ASSUME Invariant, AnswersInOrder, [Next]_vars, NEW e \in Event, NEW s \in Subscriber
    PROVE  /\ failures["subscription"] <= failures'["subscription"]
           /\ Unpublished(e, s)' /\ ~Unpublished(e, s) =>
                  failures["subscription"] < failures'["subscription"]
  <1>t. TypeOK /\ HandlersInOrder /\ WireInOrder
    BY DEF Invariant
  <1>n. failures["subscription"] \in Nat
    BY <1>t, ConstantsAssumption DEF TypeOK, Service
  <1>w. wire \in Seq(Write)
    BY <1>t DEF TypeOK
  <1> DEFINE Grow == failures["subscription"] < failures'["subscription"]
             Keep == /\ failures["subscription"] <= failures'["subscription"]
                     /\ Unpublished(e, s)' => Unpublished(e, s)
  <1>1. ASSUME UNCHANGED events, UNCHANGED failures \/ Fail("email") PROVE Keep
    <2>1. failures["subscription"] <= failures'["subscription"]
      BY <1>1, <1>n, <1>t DEF Fail, TypeOK, Service
    <2>2. Unpublished(e, s)' => Unpublished(e, s)
      BY <1>1 DEF events, Unpublished, Writes
    <2> QED
      BY <2>1, <2>2
  <1>2. ASSUME Fail("subscription") PROVE Grow
    BY <1>2, <1>n, <1>t DEF Fail, TypeOK, Service
  <1>3. ASSUME NEW p \in Service, StartStep(p) PROVE Keep
    BY <1>1, <1>3 DEF StartStep, SetupQueue, Consume
  <1>4. ASSUME NEW p \in Service, CloseChannel(p) \/ Crash(p) PROVE Keep \/ Grow
    <2>1. CASE p = "subscription"
      BY <1>2, <1>4, <2>1 DEF CloseChannel, Crash
    <2>2. CASE p = "email"
      BY <1>1, <1>4, <2>2 DEF CloseChannel, Crash, Die, GoesOn, events
    <2> QED
      BY <2>1, <2>2 DEF Service
  <1>5. ASSUME NEW x \in Event, Announce(x) PROVE Keep
    <2>1. event'[e] \in {"none", "dropped", "queued"} => event[e] \in {"none", "dropped", "queued"}
      BY <1>5, <1>t DEF Announce, TypeOK
    <2> QED
      BY <1>5, <1>n, <2>1 DEF Announce, Unpublished, Writes
  <1>6. ASSUME NEW x \in Event, TakeEvent(x) PROVE Keep
    <2>1. CASE x = e
      BY <1>6, <1>n, <2>1 DEF TakeEvent, Unpublished
    <2>2. CASE x # e
      BY <1>6, <1>n, <1>t, <2>2 DEF TakeEvent, Unpublished, Writes, TypeOK
    <2> QED
      BY <2>1, <2>2
  <1>7. ASSUME NEW x \in Event, FanOut(x) PROVE Keep
    <2>1. UNCHANGED failures /\ HandlerReturns(x, Confirmed, "acked")
      BY <1>7 DEF FanOut
    <2>2. CASE ~channel["subscription"] /\ Die("subscription")
      <3>1. handlers' = {} /\ wire' = <<>> /\ event' = Requeued
        BY <2>2 DEF Die
      <3>2. event' = event
        BY <1>t, <2>2, <3>1 DEF Requeued, AnswersInOrder, TypeOK
      <3> QED
        BY <1>n, <2>1, <3>1, <3>2 DEF Unpublished, Writes
    <2>3. CASE WriteOut(x, Confirmed, "acked")
      <3> DEFINE y == [about |-> x, to |-> Confirmed, end |-> "acked"]
      <3>1. handlers' \subseteq handlers /\ event' = event /\ wire' = Append(wire, y) /\ y.about = x
        BY <2>3 DEF WriteOut
      <3> HIDE DEF y
      <3>2. \A w \in Writes' : w \in Writes \/ w.about = x
        BY <1>w, <3>1, Appended DEF Writes
      <3>3. x \in handlers
        BY <1>7 DEF FanOut
      <3> QED
        BY <1>n, <2>1, <3>1, <3>2, <3>3 DEF Unpublished
    <2> QED
      BY <2>1, <2>2, <2>3 DEF HandlerReturns
  <1>8. ASSUME NEW r \in Subscriber, SendConfirmation(r) PROVE Keep
    <2> DEFINE y == [about |-> Confirmation, to |-> {r}, end |-> "none"]
    <2>1. wire' = Append(wire, y) /\ y.about # e /\ UNCHANGED <<event, handlers, failures>>
      BY <1>8, ConstantsAssumption DEF SendConfirmation
    <2> HIDE DEF y
    <2>2. \A w \in Writes' : w \in Writes \/ w.about # e
      BY <1>w, <2>1, Appended DEF Writes
    <2> QED
      BY <1>n, <2>1, <2>2 DEF Unpublished
  <1>9. ASSUME NEW r \in Subscriber, Route(r) PROVE Keep
    <2>1. UNCHANGED <<event, handlers, failures>>
      BY <1>9 DEF Route
    <2>2. Head(wire) \in Writes /\ Writes' \subseteq Writes \cup {Without(Head(wire), r)}
      BY <1>9, <1>w, FirstWrite, RoutedWrites DEF Route
    <2>3. Unpublished(e, s)' => Unpublished(e, s)
      BY <2>1, <2>2 DEF Unpublished, Without
    <2> QED
      BY <1>n, <2>1, <2>3
  <1>10. CASE ReadEnd
    <2>1. UNCHANGED <<handlers, failures>>
      BY <1>10 DEF ReadEnd
    <2>2. Head(wire) \in Write /\ Head(wire) \in Writes /\ Writes' \subseteq Writes
      BY <1>10, <1>w, FirstWrite, DroppedWrites DEF ReadEnd
    <2>3. event'[e] = event[e] \/ event'[e] \in {"acked", "rejected"}
      BY <1>10, <1>t, <2>2 DEF ReadEnd, WireInOrder, Write
    <2>4. Unpublished(e, s)' => Unpublished(e, s)
      BY <2>1, <2>2, <2>3 DEF Unpublished
    <2> QED
      BY <1>n, <2>1, <2>4
  <1>11. ASSUME NEW x \in Event, FanOutFails(x) PROVE Grow
    BY <1>2, <1>11, <1>n, <1>t DEF FanOutFails, Fail, TypeOK, Service
  <1>12. ASSUME NEW r \in Subscriber, Confirm(r) \/ Unsubscribe(r) PROVE Keep
    BY <1>1, <1>12 DEF Confirm, Unsubscribe
  <1>13. ASSUME NEW m \in Mail, MailStep(m) \/ SendFails(m) \/ ReadAck(m) PROVE Keep
    BY <1>1, <1>13
       DEF MailStep, TakeMail, SendMail, SendFails, ReadAck, MailHandlerReturns, Die
  <1>14. CASE UNCHANGED vars
    BY <1>1, <1>14 DEF vars
  <1>15. Keep \/ Grow
    BY <1>3, <1>4, <1>5, <1>6, <1>7, <1>8, <1>9, <1>10, <1>11, <1>12, <1>13, <1>14
       DEF Next, EventStep, BrokerStep
  <1>16. failures'["subscription"] \in Nat
    BY <1>t, TypeStep, ConstantsAssumption DEF TypeOK, Service
  <1> QED
    BY <1>n, <1>15, <1>16

LEMMA CopiesStep ==
    ASSUME Invariant, AnswersInOrder, [Next]_vars, NEW m \in Mail
    PROVE  Copies(m) \in Int /\ Copies(m)' \in Int /\ Copies(m) <= Copies(m)'
  <1>1. TypeOK /\ TypeOK'
    BY TypeStep DEF Invariant
  <1>2. failures["subscription"] \in Nat /\ failures'["subscription"] \in Nat
    BY <1>1, ConstantsAssumption DEF TypeOK, Service
  <1>3. m[2] \in Subscriber /\ (m[1] # Confirmation => m[1] \in Event)
    BY DEF Mail
  <1>4. CASE m[1] = Confirmation
    <2>1. Cardinality(Asked(m[2])) \in Nat
      BY <1>1, AskedCount
    <2> QED
      BY <1>1, <1>3, <1>4, <2>1, AskedStep DEF Copies
  <1>5. CASE m[1] # Confirmation
    BY <1>2, <1>3, <1>5, PublishedStep DEF Copies
  <1> QED
    BY <1>4, <1>5

\* What the queue is given was asked for, or published for the first time since
\* its event was delivered.
LEMMA RouteStep ==
    ASSUME Invariant, AnswersInOrder, [Next]_vars, NEW s \in Subscriber, Route(s),
           NEW m \in Mail, m = <<Head(wire).about, s>>
    PROVE  Copies(m) + 1 <= Copies(m)'
  <1>t. TypeOK /\ WireInOrder
    BY DEF Invariant
  <1>1. /\ wire \in Seq(Write) /\ 1 \in DOMAIN wire /\ Head(wire) = wire[1]
        /\ wire[1] \in Write /\ wire[1] \in Writes /\ s \in wire[1].to
    BY <1>t, FirstWrite DEF Route, TypeOK
  <1>2. DOMAIN wire' = DOMAIN wire
    BY <1>1 DEF Route
  <1>3. \A i \in DOMAIN wire :
            /\ wire'[i].about = wire[i].about
            /\ wire'[i].to = IF i = 1 THEN wire[i].to \ {s} ELSE wire[i].to
    BY <1>1 DEF Route, Without
  <1>4. UNCHANGED <<requests, event, handlers, failures>>
    BY DEF Route
  <1>m. m[1] = wire[1].about /\ m[2] = s
    BY <1>1
  <1>5. CASE wire[1].about = Confirmation
    <2>1. 1 \in Asked(s) /\ Asked(s)' = Asked(s) \ {1}
      BY <1>1, <1>2, <1>3, <1>5 DEF Asked
    <2>2. IsFiniteSet(Asked(s)) /\ Cardinality(Asked(s)) \in Nat
      BY <1>t, AskedCount
    <2>3. Cardinality(Asked(s)') = Cardinality(Asked(s)) - 1
      BY <2>1, <2>2, FS_RemoveElement
    <2>4. requests[s] \in Nat /\ requests'[s] = requests[s]
      BY <1>t, <1>4, ConstantsAssumption DEF TypeOK
    <2> QED
      BY <1>m, <1>5, <2>2, <2>3, <2>4 DEF Copies
  <1>6. CASE wire[1].about # Confirmation
    <2>1. PICK e \in Event : e = wire[1].about
      BY <1>1, <1>6 DEF Write
    <2>2. Unpublished(e, s)
      BY <1>1, <2>1 DEF Unpublished
    <2>3. event'[e] = "taken" /\ e \notin handlers'
      BY <1>1, <1>4, <1>t, <2>1 DEF WireInOrder, AnswersInOrder
    <2>4. \A i \in DOMAIN wire' : ~(wire'[i].about = e /\ s \in wire'[i].to)
      <3>1. \A i \in DOMAIN wire : wire[i].about = e => i = 1
        BY <1>1, <2>1 DEF AnswersInOrder
      <3> QED
        BY <1>1, <1>2, <1>3, <3>1
    <2>5. ~Unpublished(e, s)'
      BY <2>3, <2>4 DEF Unpublished, Writes
    <2>6. failures["subscription"] \in Nat
      BY <1>t, ConstantsAssumption DEF TypeOK, Service
    <2> QED
      BY <1>m, <1>4, <1>6, <2>1, <2>2, <2>5, <2>6 DEF Copies
  <1> QED
    BY <1>5, <1>6

-----------------------------------------------------------------------------
(* How often they are sent *)

LEMMA Times ==
    \A a, b, g \in Nat : a <= b => a * (1 + g) + (b - a) <= b * (1 + g)
  <1> TAKE a, b, g \in Nat
  <1> HAVE a <= b
  <1>1. PICK d \in Nat : b = a + d
    BY b - a \in Nat
  <1>2. b * (1 + g) = a * (1 + g) + d * (1 + g)
    BY <1>1
  <1>3. d * (1 + g) = d + d * g /\ d * g \in Nat /\ a * (1 + g) \in Nat
    OBVIOUS
  <1> QED
    BY <1>1, <1>2, <1>3

LEMMA CopiesInOrderStep ==
    ASSUME Invariant, AnswersInOrder, CopiesInOrder, [Next]_vars
    PROVE  CopiesInOrder'
  <1> SUFFICES ASSUME NEW m \in Mail
               PROVE  /\ ready'[m] + unacked'[m] <= Copies(m)'
                      /\ inbox'[m] + Sendable(m)' <= Copies(m)' * (1 + failures'["email"])
    BY DEF CopiesInOrder
  <1>t. TypeOK /\ TypeOK' /\ ProcessesInOrder /\ MailInOrder
    BY TypeStep DEF Invariant
  <1>n. /\ ready[m] \in Nat /\ unacked[m] \in Nat /\ sending[m] \in Nat /\ inbox[m] \in Nat
        /\ ready'[m] \in Nat /\ unacked'[m] \in Nat /\ sending'[m] \in Nat
        /\ inbox'[m] \in Nat
        /\ failures["email"] \in Nat /\ failures'["email"] \in Nat
    BY <1>t, ConstantsAssumption DEF TypeOK, Service
  <1>s. Sendable(m) \in Nat /\ Sendable(m)' \in Nat
    BY <1>n DEF Sendable
  <1>c. /\ Copies(m) \in Nat /\ Copies(m)' \in Nat /\ Copies(m) <= Copies(m)'
        /\ ready[m] + unacked[m] <= Copies(m)
        /\ inbox[m] + Sendable(m) <= Copies(m) * (1 + failures["email"])
    BY <1>n, CopiesStep DEF CopiesInOrder
  <1>m. /\ ~channel["email"] => unacked[m] = 0
        /\ channel["email"] => sending[m] <= unacked[m]
    BY <1>t DEF MailInOrder
  <1> DEFINE Live  == ready[m] + unacked[m]
             Total == inbox[m] + Sendable(m)
             Kept  == Live' <= Live /\ Total' <= Total /\ failures["email"] <= failures'["email"]
             Again == /\ Live' <= Live /\ Total' <= Total + Live
                      /\ failures'["email"] = failures["email"] + 1
             Given == /\ Live' <= Live + 1 /\ Total' <= Total + 1
                      /\ Copies(m) + 1 <= Copies(m)' /\ failures'["email"] = failures["email"]
             Goal  == Live' <= Copies(m)' /\ Total' <= Copies(m)' * (1 + failures'["email"])
  <1>1. ASSUME UNCHANGED <<ready, unacked, sending, inbox>>,
               channel'["email"] = channel["email"], failures'["email"] = failures["email"]
        PROVE  Kept
    BY <1>1, <1>n, <1>s DEF Sendable
  <1>2. ASSUME NEW p \in Service, StartStep(p) PROVE Kept
    <2>1. UNCHANGED <<ready, unacked, sending, inbox, failures>>
      BY <1>2 DEF StartStep, SetupQueue, Consume, mails
    <2>2. CASE channel'["email"] = channel["email"]
      BY <1>1, <2>1, <2>2
    <2>3. CASE stage["email"] = "down"
      <3>1. sending[m] = 0
        BY <1>t, <2>3 DEF ProcessesInOrder
      <3> QED
        BY <1>n, <2>1, <3>1 DEF Sendable
    <2> QED
      BY <1>2, <1>t, <2>2, <2>3 DEF StartStep, SetupQueue, Consume, Service, TypeOK
  <1>3. ASSUME Fail("subscription") PROVE failures'["email"] = failures["email"]
    BY <1>3, <1>t DEF Fail, TypeOK, Service
  <1>4. ASSUME Fail("email") PROVE failures'["email"] = failures["email"] + 1
    BY <1>4, <1>t DEF Fail, TypeOK, Service
  <1>5. ASSUME Die("subscription") \/ GoesOn("subscription")
        PROVE  /\ channel'["email"] = channel["email"]
               /\ UNCHANGED <<ready, unacked, sending>>
    BY <1>5, <1>t DEF Die, GoesOn, TypeOK, Service
  <1>6. ASSUME CloseChannel("subscription") \/ Crash("subscription") PROVE Kept
    BY <1>1, <1>3, <1>5, <1>6 DEF CloseChannel, Crash
  <1>7. ASSUME Die("email")
        PROVE  /\ ready'[m] = ready[m] + unacked[m] /\ unacked'[m] = 0
               /\ sending'[m] = 0 /\ ~channel'["email"]
    BY <1>7, <1>t DEF Die, TakesBack, TypeOK, Service
  <1>8. ASSUME GoesOn("email")
        PROVE  /\ ready'[m] = ready[m] + unacked[m] /\ unacked'[m] = 0
               /\ sending'[m] = sending[m] /\ ~channel'["email"]
    BY <1>8, <1>t DEF GoesOn, TakesBack, TypeOK, Service
  <1>9. ASSUME CloseChannel("email") \/ Crash("email") PROVE Again
    <2>1. failures'["email"] = failures["email"] + 1 /\ inbox' = inbox
      BY <1>4, <1>9 DEF CloseChannel, Crash
    <2>2. CASE Die("email")
      BY <1>7, <1>n, <1>m, <2>1, <2>2 DEF Sendable
    <2>3. CASE GoesOn("email") /\ channel["email"]
      BY <1>8, <1>n, <1>m, <2>1, <2>3 DEF Sendable
    <2> QED
      BY <1>9, <2>2, <2>3 DEF CloseChannel, Crash
  <1>10. ASSUME NEW e \in Event, Announce(e) \/ EventStep(e) \/ FanOutFails(e) PROVE Kept
    <2>1. ASSUME NEW to, NEW end, HandlerReturns(e, to, end)
          PROVE  /\ channel'["email"] = channel["email"]
                 /\ UNCHANGED <<ready, unacked, sending>>
      BY <1>5, <2>1 DEF HandlerReturns, WriteOut, process
    <2>2. CASE Announce(e) \/ TakeEvent(e)
      BY <1>1, <2>2 DEF Announce, TakeEvent, mails, process
    <2>3. CASE FanOut(e) \/ FanOutFails(e)
      BY <1>1, <1>3, <2>1, <2>3 DEF FanOut, FanOutFails
    <2> QED
      BY <1>10, <2>2, <2>3 DEF EventStep
  <1>11. ASSUME NEW s \in Subscriber, SendConfirmation(s) \/ Confirm(s) \/ Unsubscribe(s)
         PROVE  Kept
    BY <1>1, <1>11 DEF SendConfirmation, Confirm, Unsubscribe, mails, process
  <1>12. ASSUME NEW s \in Subscriber, Route(s) PROVE Kept \/ Given
    <2>1. UNCHANGED <<unacked, sending, inbox, channel, failures>>
      BY <1>12 DEF Route, process
    <2>2. CASE m = <<Head(wire).about, s>>
      <3>1. Copies(m) + 1 <= Copies(m)'
        BY <1>12, <2>2, RouteStep
      <3>2. ready'[m] <= ready[m] + 1
        BY <1>12, <1>n, <1>t, <2>2 DEF Route, TypeOK
      <3> QED
        BY <1>n, <2>1, <3>1, <3>2 DEF Sendable
    <2>3. CASE m # <<Head(wire).about, s>>
      <3>1. ready'[m] = ready[m]
        BY <1>12, <1>t, <2>3 DEF Route, TypeOK
      <3> QED
        BY <1>n, <2>1, <3>1 DEF Sendable
    <2> QED
      BY <2>2, <2>3
  <1>13. ASSUME ReadEnd PROVE Kept
    BY <1>1, <1>13 DEF ReadEnd, mails, process
  <1>14. ASSUME NEW x \in Mail, TakeMail(x) PROVE Kept
    <2>1. UNCHANGED <<inbox, channel, failures>> /\ channel["email"]
      BY <1>14 DEF TakeMail, Up, process
    <2>2. CASE x = m
      <3>1. /\ ready'[m] = ready[m] - 1 /\ unacked'[m] = unacked[m] + 1
            /\ sending'[m] = sending[m] + 1
        BY <1>14, <1>t, <2>2 DEF TakeMail, TypeOK
      <3> QED
        BY <1>n, <2>1, <3>1 DEF Sendable
    <2>3. CASE x # m
      <3>1. ready'[m] = ready[m] /\ unacked'[m] = unacked[m] /\ sending'[m] = sending[m]
        BY <1>14, <1>t, <2>3 DEF TakeMail, TypeOK
      <3> QED
        BY <1>n, <2>1, <3>1 DEF Sendable
    <2> QED
      BY <2>2, <2>3
  <1>15. ASSUME NEW x \in Mail, sending[x] > 0, MailHandlerReturns(x),
                UNCHANGED inbox \/ inbox' = [inbox EXCEPT ![x] = @ + 1],
                failures["email"] <= failures'["email"]
         PROVE  Kept
    <2>1. inbox'[m] <= inbox[m] + (IF x = m THEN 1 ELSE 0)
      <3>1. CASE UNCHANGED inbox
        BY <1>n, <3>1
      <3>2. CASE inbox' = [inbox EXCEPT ![x] = @ + 1]
        <4>1. inbox'[m] = IF x = m THEN inbox[m] + 1 ELSE inbox[m]
          BY <1>t, <3>2 DEF TypeOK
        <4> QED
          BY <1>n, <4>1
      <3> QED
        BY <1>15, <3>1, <3>2
    <2>2. CASE channel["email"]
      <3>1. UNCHANGED <<ready, unacked, channel>>
        BY <1>15, <2>2 DEF MailHandlerReturns, process
      <3>2. sending'[m] = sending[m] - (IF x = m THEN 1 ELSE 0)
        BY <1>15, <1>n, <1>t, <2>2 DEF MailHandlerReturns, TypeOK
      <3> QED
        BY <1>15, <1>n, <2>1, <2>2, <3>1, <3>2 DEF Sendable
    <2>3. CASE ~channel["email"]
      <3>1. Die("email")
        BY <1>15, <2>3 DEF MailHandlerReturns
      <3> QED
        BY <1>7, <1>15, <1>m, <1>n, <2>1, <2>3, <3>1 DEF Sendable
    <2> QED
      BY <2>2, <2>3
  <1>16. ASSUME NEW x \in Mail, SendMail(x) \/ SendFails(x) PROVE Kept
    <2>1. failures["email"] <= failures'["email"]
      BY <1>4, <1>16, <1>n DEF SendMail, SendFails
    <2> QED
      BY <1>15, <1>16, <2>1 DEF SendMail, SendFails
  <1>17. ASSUME NEW x \in Mail, ReadAck(x) PROVE Kept
    <2>1. UNCHANGED <<ready, sending, inbox, channel, failures>>
      BY <1>17 DEF ReadAck, process
    <2>2. unacked'[m] <= unacked[m]
      BY <1>17, <1>n, <1>t DEF ReadAck, TypeOK
    <2> QED
      BY <1>n, <2>1, <2>2 DEF Sendable
  <1>18. ASSUME UNCHANGED vars PROVE Kept
    BY <1>1, <1>18 DEF vars, mails, process
  <1>19. Kept \/ Again \/ Given
    <2> HIDE DEF Kept, Again, Given
    <2> QED
      BY <1>2, <1>6, <1>9, <1>10, <1>11, <1>12, <1>13, <1>14, <1>16, <1>17, <1>18
         DEF Next, BrokerStep, MailStep, Service
  <1> DEFINE c == Copies(m)
             d == Copies(m)'
             f == failures["email"]
             g == failures'["email"]
             L == Live
             K == Live'
             T == Total
             U == Total'
  <1>20. /\ c \in Nat /\ d \in Nat /\ f \in Nat /\ g \in Nat
         /\ L \in Nat /\ K \in Nat /\ T \in Nat /\ U \in Nat
         /\ c <= d /\ L <= c /\ T <= c * (1 + f)
    BY <1>c, <1>n, <1>s
  <1>21. \/ K <= L /\ U <= T /\ f <= g
         \/ K <= L /\ U <= T + L /\ g = f + 1
         \/ K <= L + 1 /\ U <= T + 1 /\ c + 1 <= d /\ g = f
    BY <1>19
  <1> HIDE DEF c, d, f, g, L, K, T, U
  <1>22. K <= d /\ U <= d * (1 + g)
    <2>1. c * (1 + g) + (d - c) <= d * (1 + g)
      BY <1>20, Times
    <2>2. c * (1 + f) \in Nat /\ c * (1 + g) \in Nat /\ d * (1 + g) \in Nat
      BY <1>20
    <2>3. f <= g => c * (1 + f) <= c * (1 + g)
      <3> SUFFICES ASSUME f <= g PROVE (1 + f) * c <= (1 + g) * c
        BY <1>20
      <3>1. PICK e \in Nat : g = f + e
        BY <1>20, g - f \in Nat
      <3>2. (1 + g) * c = (1 + f) * c + e * c /\ e * c \in Nat
        BY <1>20, <3>1
      <3> QED
        BY <1>20, <3>2
    <2>4. g = f + 1 => c * (1 + g) = c * (1 + f) + c
      BY <1>20
    <2> QED
      BY <1>20, <1>21, <2>1, <2>2, <2>3, <2>4
  <1> QED
    BY <1>22 DEF c, d, f, g, L, K, T, U

-----------------------------------------------------------------------------
(* The theorems *)

LEMMA CopiesAtFirst == Init => AnswersInOrder /\ CopiesInOrder
  <1> SUFFICES ASSUME Init PROVE AnswersInOrder /\ CopiesInOrder
    OBVIOUS
  <1>1. AnswersInOrder
    BY DEF Init, AnswersInOrder
  <1>2. ASSUME NEW m \in Mail
        PROVE  /\ ready[m] = 0 /\ unacked[m] = 0 /\ sending[m] = 0 /\ inbox[m] = 0
               /\ Copies(m) = 0 /\ failures["email"] = 0
    <2>1. Asked(m[2]) = {}
      BY DEF Init, Asked
    <2>2. m[1] # Confirmation => Unpublished(m[1], m[2])
      BY DEF Init, Unpublished, Mail
    <2>3. Copies(m) = 0
      BY <2>1, <2>2, FS_EmptySet DEF Init, Copies, Mail, Service
    <2> QED
      BY <2>3 DEF Init, Service
  <1>3. CopiesInOrder
    BY <1>2 DEF CopiesInOrder, Sendable
  <1> QED
    BY <1>1, <1>3

\* How many copies of an email there can be, and how often each is sent.
THEOREM CopiesAreCounted == Spec => [](AnswersInOrder /\ CopiesInOrder)
  <1>1. /\ Invariant /\ AnswersInOrder /\ CopiesInOrder /\ [Next]_vars
        => (AnswersInOrder /\ CopiesInOrder)'
    BY AnswersStep, CopiesInOrderStep
  <1> QED
    BY <1>1, CopiesAtFirst, InvariantHolds, PTL DEF Spec

\* Emails are repeated only as often as the services fail.
THEOREM RepeatsAreFew == Spec => []FewRepeats
  <1>1. Invariant /\ CopiesInOrder => FewRepeats
    <2> SUFFICES ASSUME Invariant, CopiesInOrder PROVE FewRepeats
      OBVIOUS
    <2>1. TypeOK /\ failures["email"] \in Nat /\ failures["subscription"] \in Nat
      BY ConstantsAssumption DEF Invariant, TypeOK, Service
    <2>2. ASSUME NEW m \in Mail, NEW n \in Nat, Copies(m) \in Int, Copies(m) <= n
          PROVE  inbox[m] <= n * (1 + failures["email"])
      <3>1. /\ inbox[m] \in Nat /\ ready[m] \in Nat /\ unacked[m] \in Nat
            /\ Sendable(m) \in Nat
        BY <2>1 DEF TypeOK, Sendable
      <3>2. /\ ready[m] + unacked[m] <= Copies(m)
            /\ inbox[m] + Sendable(m) <= Copies(m) * (1 + failures["email"])
        BY DEF CopiesInOrder
      <3>3. Copies(m) \in Nat
        BY <2>2, <3>1, <3>2
      <3> DEFINE c == Copies(m)
                 g == failures["email"]
                 k == Sendable(m)
      <3>4. /\ c \in Nat /\ c <= n /\ g \in Nat /\ k \in Nat
            /\ inbox[m] + k <= c * (1 + g)
        BY <2>1, <2>2, <3>1, <3>2, <3>3
      <3> HIDE DEF c, g, k
      <3>5. c * (1 + g) + (n - c) <= n * (1 + g)
        BY <3>4, Times
      <3>6. c * (1 + g) \in Nat /\ n * (1 + g) \in Nat
        BY <3>4
      <3>7. inbox[m] <= n * (1 + g)
        BY <3>1, <3>4, <3>5, <3>6
      <3> QED
        BY <3>7 DEF g
    <2>3. ASSUME NEW s \in Subscriber
          PROVE  inbox[<<Confirmation, s>>] <= requests[s] * (1 + failures["email"])
      <3>1. <<Confirmation, s>> \in Mail /\ requests[s] \in Nat
        BY <2>1, ConstantsAssumption DEF Mail, TypeOK
      <3>2. Cardinality(Asked(s)) \in Nat
        BY <2>1, AskedCount
      <3>3. Copies(<<Confirmation, s>>) = requests[s] - Cardinality(Asked(s))
        BY DEF Copies
      <3> QED
        BY <2>2, <3>1, <3>2, <3>3
    <2>4. ASSUME NEW s \in Subscriber, NEW e \in Event
          PROVE  inbox[<<e, s>>] <= (1 + failures["subscription"]) * (1 + failures["email"])
      <3>1. <<e, s>> \in Mail /\ e # Confirmation
        BY ConstantsAssumption DEF Mail
      <3>2. Copies(<<e, s>>) = failures["subscription"] + (IF Unpublished(e, s) THEN 0 ELSE 1)
        BY <3>1 DEF Copies
      <3>3. Copies(<<e, s>>) \in Int /\ Copies(<<e, s>>) <= 1 + failures["subscription"]
        BY <2>1, <3>2
      <3> QED
        BY <2>1, <2>2, <3>1, <3>3
    <2> QED
      BY <2>3, <2>4 DEF FewRepeats
  <1> QED
    BY <1>1, CopiesAreCounted, InvariantHolds, PTL

=============================================================================
