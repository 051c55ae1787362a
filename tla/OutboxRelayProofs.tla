-------------------------- MODULE OutboxRelayProofs --------------------------
(***************************************************************************)
(* The safety properties of OutboxRelay, for any records and any bounds.   *)
(***************************************************************************)
EXTENDS OutboxRelay, TLAPS

-----------------------------------------------------------------------------
(* The inductive invariant *)

\* The process, its flags and its poll agree; an orderly end was counted.
ProcessInOrder ==
    /\ running => up
    /\ ~running => crashes > 0
    /\ phase # "off" => up
    /\ phase = "armed" => running

\* The records a poll holds are as it has read them, and published before they
\* are marked: no other poll is under way.
BatchInOrder ==
    /\ phase \in {"publish", "mark"} => \A i \in processedIds : table[i] = "unprocessed"
    /\ phase = "mark" => \A i \in processedIds : sent[i] > 0

\* Between stop() and the end of the process one poll at most is to come, which
\* the end of the process has already been charged for.
Stopping == IF up /\ ~running THEN 1 ELSE 0

\* The record may be published again.
Open(i) == table[i] = "unprocessed" /\ ~(phase = "mark" /\ i \in processedIds)

\* What FewCopies leaves to an open record is one copy less.
CopiesInOrder == \A i \in Id :
    /\ sent[i] + Stopping <= 1 + faults + crashes
    /\ Open(i) => sent[i] + Stopping <= faults + crashes

Invariant ==
    /\ TypeOK
    /\ PublishedWasCommitted /\ ProcessedWasPublished
    /\ ProcessInOrder /\ BatchInOrder /\ CopiesInOrder

USE ConstantsAssumption DEF Phase, relay, process, network, budget, Committed, Open,
    Stopping, ProcessInOrder

-----------------------------------------------------------------------------
(* Each part of the invariant *)

\* Every step keeps every variable within its type.
LEMMA TypeStep == ASSUME TypeOK, [Next]_vars PROVE TypeOK'
  <1> USE DEF TypeOK
  <1>0. Nothing \in [Id -> Nat]
    BY DEF Nothing
  <1>1. CASE UNCHANGED vars
    BY <1>1 DEF vars
  <1>2. ASSUME NEW i \in Id, Insert(i) \/ Commit(i) \/ Rollback(i) PROVE TypeOK'
    BY <1>2 DEF Insert, Commit, Rollback
  <1>3. ASSUME NEW i \in Id, Arrive(i) PROVE TypeOK'
    BY <1>3 DEF Arrive
  <1>4. CASE TimerFires
    BY <1>4 DEF TimerFires
  <1>5. CASE Read
    BY <1>5 DEF Read, PollEnds, Unprocessed
  <1>6. CASE Publish
    <2>1. CASE channel
      <3>1. \A count \in [Id -> Nat] : OneMore(count) \in [Id -> Nat]
        BY DEF OneMore
      <3> QED
        BY <1>6, <2>1, <3>1 DEF Publish
    <2>2. CASE ~channel
      BY <1>6, <2>2 DEF Publish, PollEnds
    <2> QED
      BY <2>1, <2>2
  <1>7. CASE Mark
    BY <1>7 DEF Mark, PollEnds, Processed
  <1>8. CASE PollFails
    BY <1>8 DEF PollFails, PollEnds, Processed, Fault
  <1>9. CASE CloseChannel
    <2>1. faults' \in 0..MaxFaults /\ crashes' \in 0..MaxCrashes
      BY <1>9 DEF CloseChannel, Fault
    <2> QED
      BY <1>0, <1>9, <2>1 DEF CloseChannel
  <1>10. CASE Stop
    <2>1. faults' \in 0..MaxFaults /\ crashes' \in 0..MaxCrashes
      BY <1>10 DEF Stop
    <2> QED
      BY <1>10, <2>1 DEF Stop
  <1>11. CASE CloseAmqp \/ Restart
    BY <1>11 DEF CloseAmqp, Restart
  <1>12. CASE Exit \/ Crash
    <2>1. faults' \in 0..MaxFaults /\ crashes' \in 0..MaxCrashes
      BY <1>12 DEF Exit, Crash
    <2>2. Die
      BY <1>12 DEF Exit, Crash
    <2>3. table' \in [Id -> {"none", "pending", "aborted", "unprocessed", "processed"}]
      BY <2>2 DEF Die
    <2> QED
      BY <1>0, <2>1, <2>2, <2>3 DEF Die
  <1> QED
    BY <1>1, <1>2, <1>3, <1>4, <1>5, <1>6, <1>7, <1>8, <1>9, <1>10, <1>11, <1>12 DEF Next, PollStep

\* The inductive step, action by action.
LEMMA InvariantStep == ASSUME Invariant, [Next]_vars PROVE Invariant'
  <1>0. TypeOK' BY TypeStep DEF Invariant
  <1> USE <1>0 DEF Invariant, TypeOK, PublishedWasCommitted, ProcessedWasPublished,
          BatchInOrder, CopiesInOrder
  <1>1. CASE UNCHANGED vars
    BY <1>1 DEF vars
  <1>2. ASSUME NEW i \in Id, Insert(i) \/ Commit(i) \/ Rollback(i) PROVE Invariant'
    BY <1>2 DEF Insert, Commit, Rollback
  <1>3. ASSUME NEW i \in Id, Arrive(i) PROVE Invariant'
    BY <1>3 DEF Arrive
  <1>4. CASE TimerFires
    BY <1>4 DEF TimerFires
  <1>5. CASE Read
    BY <1>5 DEF Read, PollEnds, Unprocessed
  <1>6. CASE Publish
    BY <1>6 DEF Publish, PollEnds, OneMore
  <1>7. CASE Mark
    BY <1>7 DEF Mark, PollEnds, Processed
  <1>8. CASE PollFails
    BY <1>8 DEF PollFails, PollEnds, Processed, Fault
  <1>9. CASE CloseChannel
    BY <1>9 DEF CloseChannel, Fault, Nothing
  <1>10. CASE Stop \/ CloseAmqp \/ Restart
    BY <1>10 DEF Stop, CloseAmqp, Restart
  <1>11. CASE Exit \/ Crash
    BY <1>11 DEF Exit, Crash, Die, Nothing
  <1> QED
    BY <1>1, <1>2, <1>3, <1>4, <1>5, <1>6, <1>7, <1>8, <1>9, <1>10, <1>11 DEF Next, PollStep

LEMMA InvariantStarts == Init => Invariant
  BY DEF Init, Invariant, TypeOK, Nothing, PublishedWasCommitted, ProcessedWasPublished,
         BatchInOrder, CopiesInOrder

-----------------------------------------------------------------------------
(* The theorems *)

THEOREM InvariantHolds == Spec => []Invariant
  <1>1. Invariant /\ [Next]_vars => Invariant'
    BY InvariantStep
  <1> QED
    BY InvariantStarts, <1>1, PTL DEF Spec

\* Every variable stays within its type.
THEOREM TypeCorrect == Spec => []TypeOK
  <1>1. Invariant => TypeOK
    BY DEF Invariant
  <1> QED
    BY InvariantHolds, <1>1, PTL

\* No message tells of a transaction that rolled back.
THEOREM OnlyCommittedPublished == Spec => []PublishedWasCommitted
  <1>1. Invariant => PublishedWasCommitted
    BY DEF Invariant
  <1> QED
    BY InvariantHolds, <1>1, PTL

\* No record is marked that was not published.
THEOREM OnlyPublishedProcessed == Spec => []ProcessedWasPublished
  <1>1. Invariant => ProcessedWasPublished
    BY DEF Invariant
  <1> QED
    BY InvariantHolds, <1>1, PTL

\* Failures and ends of the process bound the copies of a record.
THEOREM CopiesAreBounded == Spec => []FewCopies
  <1>1. Stopping \in {0, 1}
    OBVIOUS
  <1>2. Invariant => FewCopies
    <2> HIDE DEF Stopping
    <2> SUFFICES ASSUME Invariant, NEW i \in Id PROVE sent[i] <= 1 + faults + crashes
      BY DEF FewCopies
    <2>1. sent[i] \in Nat /\ faults \in Nat /\ crashes \in Nat
      BY DEF Invariant, TypeOK
    <2>2. sent[i] + Stopping <= 1 + faults + crashes
      BY DEF Invariant, CopiesInOrder
    <2> QED
      BY <1>1, <2>1, <2>2
  <1> QED
    BY InvariantHolds, <1>2, PTL

\* A marked record is never published again.
THEOREM MarkIsFinal == Spec => NeverAfterMark
  <1>1. ASSUME Invariant, [Next]_vars, NEW i \in Id, sent'[i] > sent[i]
        PROVE table[i] = "unprocessed"
    <2>1. Publish \/ sent' = sent
      <3>1. ASSUME NEW j \in Id, Insert(j) \/ Commit(j) \/ Rollback(j) \/ Arrive(j)
            PROVE sent' = sent
        BY <3>1 DEF Insert, Commit, Rollback, Arrive
      <3>2. CASE TimerFires \/ Read \/ Mark \/ PollFails
        BY <3>2 DEF TimerFires, Read, Mark, PollFails
      <3>3. CASE CloseChannel \/ Stop \/ CloseAmqp \/ Exit \/ Crash \/ Restart
        BY <3>3 DEF CloseChannel, Stop, CloseAmqp, Exit, Crash, Die, Restart
      <3>4. CASE UNCHANGED vars
        BY <3>4 DEF vars
      <3> QED
        BY <1>1, <3>1, <3>2, <3>3, <3>4 DEF Next, PollStep
    <2>2. sent[i] \in Nat
      BY <1>1 DEF Invariant, TypeOK
    <2>3. Publish /\ i \in processedIds
      BY <1>1, <2>1, <2>2 DEF Publish, OneMore
    <2> QED
      BY <1>1, <2>3 DEF Publish, Invariant, BatchInOrder
  <1>2. Invariant /\ [Next]_vars
          => [\A i \in Id : sent'[i] > sent[i] => table[i] = "unprocessed"]_vars
    BY <1>1
  <1> QED
    BY InvariantHolds, <1>2, PTL DEF Spec, NeverAfterMark

-----------------------------------------------------------------------------
(* The relay implements AtLeastOnce *)

\* Copies that arrived, or are on their way, were sent.
CopiesWereSent == \A i \in Id : wire[i] + arrived[i] <= sent[i]

LEMMA CopiesAtFirst == ASSUME Init PROVE CopiesWereSent
  <1>1. \A i \in Id : wire[i] = 0 /\ sent[i] = 0 /\ arrived[i] = 0
    BY DEF Init, Nothing
  <1> QED
    <2> SUFFICES ASSUME NEW i \in Id PROVE wire[i] + arrived[i] <= sent[i]
      BY DEF CopiesWereSent
    <2>1. wire[i] = 0 /\ sent[i] = 0 /\ arrived[i] = 0
      BY <1>1
    <2>2. 0 + 0 <= 0
      OBVIOUS
    <2> QED
      BY <2>1, <2>2

LEMMA CopiesStep == ASSUME TypeOK, CopiesWereSent, [Next]_vars PROVE CopiesWereSent'
  <1> USE DEF TypeOK, CopiesWereSent
  <1>1. CASE UNCHANGED <<wire, sent, arrived>>
    BY <1>1
  <1>2. CASE wire' = Nothing /\ UNCHANGED <<sent, arrived>>
    BY <1>2 DEF Nothing
  <1>3. ASSUME NEW i \in Id, Insert(i) \/ Commit(i) \/ Rollback(i) PROVE CopiesWereSent'
    BY <1>1, <1>3 DEF Insert, Commit, Rollback
  <1>4. ASSUME NEW i \in Id, Arrive(i) PROVE CopiesWereSent'
    BY <1>4 DEF Arrive
  <1>5. CASE Publish
    BY <1>5 DEF Publish, OneMore
  <1>6. CASE TimerFires \/ Read \/ Mark \/ PollFails \/ Stop \/ CloseAmqp \/ Restart
    BY <1>1, <1>6 DEF TimerFires, Read, Mark, PollFails, Stop, CloseAmqp, Restart
  <1>7. CASE CloseChannel \/ Exit \/ Crash
    BY <1>2, <1>7 DEF CloseChannel, Exit, Crash, Die
  <1> QED
    BY <1>1, <1>3, <1>4, <1>5, <1>6, <1>7 DEF Next, PollStep, vars

\* Steps that leave the fate of every record alone, and neither publish nor arrive.
LEMMA RelayFrame ==
    ASSUME UNCHANGED <<sent, arrived>>,
           \A i \in Id : \/ table'[i] = table[i]
                        \/ {table[i], table'[i]} \subseteq {"none", "pending", "aborted"}
    PROVE  UNCHANGED Relay!vars
  <1>1. \A i \in Id : (CASE table[i] = "unprocessed" -> "due"
                         [] table[i] = "processed" -> "settled"
                         [] OTHER -> "unknown")'
                     = CASE table[i] = "unprocessed" -> "due"
                         [] table[i] = "processed" -> "settled"
                         [] OTHER -> "unknown"
    OBVIOUS
  <1> QED
    BY <1>1 DEF Relay!vars

\* A batch that is marked was due and sent, and is settled by it.
LEMMA MarkSettles ==
    ASSUME Invariant, phase = "mark", table' = Processed(processedIds),
           UNCHANGED <<sent, arrived>>
    PROVE  Relay!Next
  <1> USE DEF Invariant, TypeOK, BatchInOrder
  <1>1. processedIds \in SUBSET Id
    OBVIOUS
  <1>2. Relay!Due(processedIds) /\ \A i \in processedIds : sent[i] > 0
    BY DEF Relay!Due
  <1>3. Relay!Settle(processedIds)
    BY <1>2 DEF Relay!Settle, Processed
  <1> HIDE DEF Invariant, TypeOK, BatchInOrder
  <1> QED
    BY <1>1, <1>3 DEF Relay!Next, Relay!Settle

\* Each step is a step of AtLeastOnce, or none.
LEMMA RelayStep ==
    ASSUME Invariant, CopiesWereSent, [Next]_vars PROVE [Relay!Next]_(Relay!vars)
  <1> USE DEF Invariant, TypeOK
  <1>1. ASSUME NEW i \in Id, Insert(i) \/ Rollback(i) PROVE UNCHANGED Relay!vars
    BY <1>1, RelayFrame DEF Insert, Rollback
  <1>2. ASSUME NEW i \in Id, Commit(i) PROVE Relay!Accept(i)
    BY <1>2 DEF Commit, Relay!Accept
  <1>3. ASSUME NEW i \in Id, Arrive(i) PROVE Relay!Receive(i)
    BY <1>3 DEF Arrive, CopiesWereSent, Relay!Receive
  <1>4. CASE Publish
    <2>1. CASE channel
      <3>1. Relay!Due(processedIds)
        BY <1>4 DEF Publish, BatchInOrder, Relay!Due
      <3>2. sent' = [i \in Id |-> sent[i] + (IF i \in processedIds THEN 1 ELSE 0)]
        BY <1>4, <2>1 DEF Publish, OneMore
      <3>3. Relay!Send(processedIds)
        BY <1>4, <3>1, <3>2 DEF Publish, Relay!Send
      <3> QED
        BY <3>3 DEF Relay!Next
    <2>2. CASE ~channel
      BY <1>4, <2>2, RelayFrame DEF Publish
    <2> QED
      BY <2>1, <2>2
  <1>5. CASE Mark \/ PollFails
    <2>1. CASE phase = "mark" /\ table' = Processed(processedIds)
      <3>1. phase = "mark" /\ UNCHANGED <<sent, arrived>>
        BY <1>5, <2>1 DEF Mark, PollFails
      <3> HIDE DEF Invariant, TypeOK
      <3> QED
        BY <2>1, <3>1, MarkSettles
    <2>2. CASE table' = table
      BY <1>5, <2>2, RelayFrame DEF Mark, PollFails
    <2> QED
      BY <1>5, <2>1, <2>2 DEF Mark, PollFails
  <1>6. CASE TimerFires \/ Read \/ CloseChannel \/ Stop \/ CloseAmqp \/ Restart
    BY <1>6, RelayFrame DEF TimerFires, Read, CloseChannel, Stop, CloseAmqp, Restart
  <1>7. CASE Exit \/ Crash
    BY <1>7, RelayFrame DEF Exit, Crash, Die
  <1>8. CASE UNCHANGED vars
    BY <1>8, RelayFrame DEF vars
  <1> QED
    BY <1>1, <1>2, <1>3, <1>4, <1>5, <1>6, <1>7, <1>8 DEF Next, PollStep, Relay!Next

\* The relay is an outbox that delivers at least once.
THEOREM RelayImplementsAtLeastOnce == Spec => DeliversAtLeastOnce
  <1>1. Init => CopiesWereSent /\ Relay!Init
    BY CopiesAtFirst DEF Init, Nothing, Relay!Init, Relay!Never
  <1>2. Invariant /\ CopiesWereSent /\ [Next]_vars => CopiesWereSent'
    BY CopiesStep DEF Invariant
  <1>3. Invariant /\ CopiesWereSent /\ [Next]_vars => [Relay!Next]_(Relay!vars)
    BY RelayStep
  <1> QED
    BY InvariantHolds, <1>1, <1>2, <1>3, PTL DEF Spec, DeliversAtLeastOnce, Relay!Spec

\* What reaches the broker is a committed record: a message that a transaction
\* queued is never received before the transaction ends well.
THEOREM OnlyCommittedArrives ==
    Spec => [](\A i \in Id : arrived[i] > 0 => Committed(i))
  <1>1. Init => CopiesWereSent
    BY CopiesAtFirst
  <1>2. Invariant /\ CopiesWereSent /\ [Next]_vars => CopiesWereSent'
    BY CopiesStep DEF Invariant
  <1>3. Invariant /\ CopiesWereSent => \A i \in Id : arrived[i] > 0 => Committed(i)
    BY DEF Invariant, TypeOK, CopiesWereSent, PublishedWasCommitted
  <1> QED
    BY InvariantHolds, <1>1, <1>2, <1>3, PTL DEF Spec
=============================================================================
