---------------------------- MODULE OutboxRelay ----------------------------
(***************************************************************************)
(* The transactional outbox both services relay their saga messages        *)
(* through: the outbox table, the polling loop of OutboxService, the AMQP  *)
(* channel it publishes on, and the shutdown, death and restart of the     *)
(* process.                                                                *)
(*                                                                         *)
(* The loop awaits two statements.  Between them it runs without           *)
(* interruption: publish() is asynchronous by its signature only, so a     *)
(* whole batch is published in one step, or none of it.                    *)
(***************************************************************************)
EXTENDS Integers

CONSTANTS
    Id,         \* outbox records, by the number the sequence gives them
    MaxFaults,  \* bound on failed statements and closed channels
    MaxCrashes  \* bound on ends of the process, orderly or not

ASSUME ConstantsAssumption ==
    Id \subseteq Nat /\ MaxFaults \in Nat /\ MaxCrashes \in Nat

VARIABLES
    table,      \* each record: not there, in an open transaction, rolled
                \* back, committed with processed = false, or processed
    phase,      \* what poll() waits for
    processedIds, \* the records it has read, then those it has published
    running,    \* isRunning
    up,         \* the process runs
    channel,    \* its AMQP channel is open
    wire,       \* how many copies of each are on their way to the broker
    sent,       \* how often each record was published
    arrived,    \* how often the broker got it
    faults, crashes

relay   == <<phase, processedIds, running>>
process == <<up, channel>>
network == <<wire, sent, arrived>>
budget  == <<faults, crashes>>
vars    == <<table, relay, process, network, budget>>

\* off: stopped, or the process is down; armed: the timer is set; read and
\* mark: a statement is issued; publish: its rows are there.
Phase == {"off", "armed", "read", "publish", "mark"}

TypeOK ==
    /\ table \in [Id -> {"none", "pending", "aborted", "unprocessed", "processed"}]
    /\ phase \in Phase
    /\ processedIds \subseteq Id
    /\ running \in BOOLEAN /\ up \in BOOLEAN /\ channel \in BOOLEAN
    /\ wire \in [Id -> Nat]
    /\ sent \in [Id -> Nat]
    /\ arrived \in [Id -> Nat]
    /\ faults \in 0..MaxFaults
    /\ crashes \in 0..MaxCrashes

Nothing == [i \in Id |-> 0]

\* start() polls at once.
Init ==
    /\ table = [i \in Id |-> "none"]
    /\ phase = "read" /\ processedIds = {} /\ running = TRUE
    /\ up = TRUE /\ channel = TRUE
    /\ wire = Nothing /\ sent = Nothing /\ arrived = Nothing
    /\ faults = 0 /\ crashes = 0

-----------------------------------------------------------------------------
(* Vocabulary *)

Fault == faults < MaxFaults /\ faults' = faults + 1 /\ UNCHANGED crashes

Committed(i) == table[i] \in {"unprocessed", "processed"}

\* Each record of the batch once more.
OneMore(count) == [i \in Id |-> IF i \in processedIds THEN count[i] + 1 ELSE count[i]]

\* The finally block of poll() arms the timer, unless stop() was called.
PollEnds ==
    /\ phase' = IF running THEN "armed" ELSE "off"
    /\ processedIds' = {}
    /\ UNCHANGED running

\* The process ends.  Open transactions roll back; what it has published and
\* the broker has not read is lost.
Die ==
    /\ up' = FALSE /\ channel' = FALSE /\ running' = FALSE
    /\ phase' = "off" /\ processedIds' = {}
    /\ table' = [i \in Id |-> IF table[i] = "pending" THEN "aborted" ELSE table[i]]
    /\ wire' = Nothing
    /\ UNCHANGED <<sent, arrived>>

-----------------------------------------------------------------------------
(* Slips a change to the code could make: each takes the place of the        *)
(* definition it is named after, to see that a property notices.             *)

\* The records of open transactions are read, too.
UnprocessedDirty == {i \in Id : table[i] \in {"pending", "unprocessed"}}

\* Only records behind the last processed one are read.
UnprocessedBehind ==
    {i \in Id : table[i] = "unprocessed" /\ \A j \in Id : table[j] = "processed" => j < i}

\* WHERE processed = false is forgotten.
UnprocessedAll == {i \in Id : Committed(i)}

\* The batch is marked whatever became of its publications.
PublishRegardless ==
    /\ phase = "publish"
    /\ phase' = "mark"
    /\ IF channel
       THEN wire' = OneMore(wire) /\ sent' = OneMore(sent)
       ELSE UNCHANGED <<wire, sent>>
    /\ UNCHANGED <<table, processedIds, running, process, arrived, budget>>

\* SET processed = NULL
ProcessedNull(ids) == [i \in Id |-> IF i \in ids THEN "null" ELSE table[i]]

\* The UPDATE matches nothing.
MarkNothing ==
    /\ phase = "mark"
    /\ PollEnds
    /\ UNCHANGED <<table, process, network, budget>>

-----------------------------------------------------------------------------
(* The transactions that insert records *)

\* The sequence hands out numbers in order; transactions end in any order.
Insert(i) ==
    /\ up
    /\ table[i] = "none" /\ \A j \in Id : j < i => table[j] # "none"
    /\ table' = [table EXCEPT ![i] = "pending"]
    /\ UNCHANGED <<relay, process, network, budget>>

Commit(i) ==
    /\ table[i] = "pending"
    /\ table' = [table EXCEPT ![i] = "unprocessed"]
    /\ UNCHANGED <<relay, process, network, budget>>

Rollback(i) ==
    /\ table[i] = "pending"
    /\ table' = [table EXCEPT ![i] = "aborted"]
    /\ UNCHANGED <<relay, process, network, budget>>

-----------------------------------------------------------------------------
(* poll() *)

TimerFires ==
    /\ phase = "armed"
    /\ phase' = "read"
    /\ UNCHANGED <<table, processedIds, running, process, network, budget>>

\* processed = false, as another transaction sees it
Unprocessed == {i \in Id : table[i] = "unprocessed"}

\* getUnprocessedOutbox
Read ==
    /\ phase = "read"
    /\ \/ /\ Unprocessed # {}
          /\ phase' = "publish"
          /\ processedIds' = Unprocessed
          /\ UNCHANGED running
       \/ /\ Unprocessed = {}
          /\ PollEnds
    /\ UNCHANGED <<table, process, network, budget>>

\* On a closed channel every publish() throws, and each is caught on its own.
Publish ==
    /\ phase = "publish"
    /\ \/ /\ channel
          /\ wire' = OneMore(wire)
          /\ sent' = OneMore(sent)
          /\ phase' = "mark"
          /\ UNCHANGED <<processedIds, running>>
       \/ /\ ~channel
          /\ PollEnds
          /\ UNCHANGED <<wire, sent>>
    /\ UNCHANGED <<table, process, arrived, budget>>

Processed(ids) == [i \in Id |-> IF i \in ids THEN "processed" ELSE table[i]]

\* markOutboxProcessed
Mark ==
    /\ phase = "mark"
    /\ table' = Processed(processedIds)
    /\ PollEnds
    /\ UNCHANGED <<process, network, budget>>

\* A statement fails, or its acknowledgement is lost: poll() logs and goes on.
PollFails ==
    /\ phase \in {"read", "mark"}
    /\ Fault
    /\ table' \in {table} \cup (IF phase = "mark" THEN {Processed(processedIds)} ELSE {})
    /\ PollEnds
    /\ UNCHANGED <<process, network>>

-----------------------------------------------------------------------------
(* The channel and the process *)

\* The broker reads a message.  In what order it does plays no part here.
Arrive(i) ==
    /\ wire[i] > 0
    /\ wire' = [wire EXCEPT ![i] = @ - 1]
    /\ arrived' = [arrived EXCEPT ![i] = @ + 1]
    /\ UNCHANGED <<table, relay, process, sent, budget>>

\* The broker closes the connection; the service never opens another one.
CloseChannel ==
    /\ up /\ channel
    /\ Fault
    /\ channel' = FALSE
    /\ wire' = Nothing
    /\ UNCHANGED <<table, relay, up, sent, arrived>>

\* stop(), the first thing shutdown() does.  A poll under way goes on.
Stop ==
    /\ running
    /\ crashes < MaxCrashes
    /\ crashes' = crashes + 1
    /\ running' = FALSE
    /\ phase' = IF phase = "armed" THEN "off" ELSE phase
    /\ UNCHANGED <<table, processedIds, process, network, faults>>

\* amqpService.close(): an orderly close, behind everything that is on the wire,
\* which the broker still reads.
CloseAmqp ==
    /\ up /\ ~running /\ channel
    /\ channel' = FALSE
    /\ UNCHANGED <<table, relay, up, network, budget>>

\* process.exit(0), or process.exit(1) when the shutdown took 10 s.
Exit ==
    /\ up /\ ~running
    /\ Die
    /\ UNCHANGED budget

Crash ==
    /\ up /\ running
    /\ crashes < MaxCrashes
    /\ crashes' = crashes + 1
    /\ Die
    /\ UNCHANGED faults

\* connect() and start()
Restart ==
    /\ ~up
    /\ up' = TRUE /\ channel' = TRUE /\ running' = TRUE
    /\ phase' = "read"
    /\ UNCHANGED <<table, processedIds, network, budget>>

-----------------------------------------------------------------------------
PollStep == TimerFires \/ Read \/ Publish \/ Mark

Next ==
    \/ \E i \in Id : Insert(i) \/ Commit(i) \/ Rollback(i) \/ Arrive(i)
    \/ PollStep \/ PollFails
    \/ CloseChannel \/ Stop \/ CloseAmqp \/ Exit \/ Crash \/ Restart

Spec == Init /\ [][Next]_vars

\* The timer fires and statements answer; the broker reads its sockets.
FairSpec ==
    /\ Spec
    /\ WF_vars(PollStep)
    /\ \A i \in Id : WF_vars(Arrive(i))

-----------------------------------------------------------------------------
(* Properties *)

\* What is published was committed: no message tells of a transaction that
\* rolled back, even one whose number is smaller than that of a committed one.
PublishedWasCommitted == \A i \in Id : sent[i] > 0 => Committed(i)

\* A record is marked processed only if it was published, although a batch is
\* marked as a whole and its publications may fail.
ProcessedWasPublished == \A i \in Id : table[i] = "processed" => sent[i] > 0

\* A record is published once, and once more at most for each failed statement,
\* closed channel or end of the process.
FewCopies == \A i \in Id : sent[i] <= 1 + faults + crashes

\* A record that is marked is never published again: one poll is under way at
\* a time, across stop(), failures and restarts.
NeverAfterMark ==
    [][\A i \in Id : sent'[i] > sent[i] => table[i] = "unprocessed"]_vars

\* The relay is an outbox of AtLeastOnce, whose messages are the records and due
\* as soon as they are committed: ends of the process, lost acknowledgements and
\* closed channels repeat what is due, and settle nothing that was not sent.
Relay == INSTANCE AtLeastOnce WITH
    Message <- Id,
    received <- arrived,
    fate <- [i \in Id |-> CASE table[i] = "unprocessed" -> "due"
                             [] table[i] = "processed" -> "settled"
                             [] OTHER -> "unknown"]

DeliversAtLeastOnce == Relay!Spec

\* As long as the process runs with an open channel from some time on, every
\* committed record is marked processed: records whose transactions commit out
\* of the order of their numbers, too.
RecordsAreProcessed ==
    <>[](running /\ channel) => \A i \in Id : Committed(i) ~> table[i] = "processed"

\* While the channel has never been closed and the process has never ended, a
\* committed record reaches the broker, whatever statements of the relay fail.
CommittedArrives ==
    [](running /\ channel) => \A i \in Id : Committed(i) ~> arrived[i] > 0

=============================================================================
