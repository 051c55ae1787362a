---------------------- MODULE SubscriptionServiceProofs ----------------------
(***************************************************************************)
(* Theorems about SubscriptionService, for any number of requests, workers *)
(* and messages, any assignment of emails and repositories to requests and *)
(* any number of faults and crashes.                                       *)
(*                                                                         *)
(* Invariant is inductive: one lemma per action, each with a step for the  *)
(* types, for the tables, for the handlers and for the answers.  The two   *)
(* frame lemmas say that an action which leaves the tables or the answers  *)
(* alone preserves what is said of them; DieStep and HandlerReturnsStep    *)
(* treat the end of the process and the return of a consumer's handler,    *)
(* which several actions share.                                            *)
(***************************************************************************)
EXTENDS SubscriptionService, TLAPS

USE ConstantsAssumption
    DEF Proc, RequestAt, WorkerAt, SagaAt, RollbackAt, ClickAt, RowState, SagaState, Outcome, Kind,
        SagaOf, db, broker, process, budget

LEMMA InitInvariant == Init => Invariant
BY DEF Init, Invariant, TypeOK, TablesInOrder, RowsMatchSagas, OneRowPerPair, OnlyCommitted,
       CompletedMeansEmailed, FailedMeansGone, UntrackMeansLeft, Stored, HandlersInOrder,
       RequestsInOrder, WorkersInOrder, RollbacksInOrder, WaiterHasTimer, AnswersInOrder,
       CreatedMeansEmailed, NotFoundMeansGone, TimeoutIsRecorded

LEMMA TablesFrame ==
    ASSUME TypeOK, TablesInOrder,
           UNCHANGED <<row, saga, emailed, untracks, content>>,
           \A m \in queue' : content[m] # None
    PROVE  TablesInOrder'
BY DEF TypeOK, TablesInOrder, RowsMatchSagas, OneRowPerPair, OnlyCommitted,
       CompletedMeansEmailed, FailedMeansGone, UntrackMeansLeft, Stored

LEMMA AnswersFrame ==
    ASSUME TypeOK, TypeOK', TablesInOrder, AnswersInOrder,
           UNCHANGED <<resp, content>>,
           emailed \subseteq emailed', faults' >= faults,
           \A r \in Request : saga[r] # "none" /\ Stored(r)' => Stored(r),
           \A r \in Request : resp[r] = "TIMEOUT" /\ saga'[r] = "STARTED" => saga[r] = "STARTED"
    PROVE  AnswersInOrder'
BY DEF TypeOK, TablesInOrder, OnlyCommitted, AnswersInOrder, CreatedMeansEmailed,
       NotFoundMeansGone, TimeoutIsRecorded, Says, Stored

\* Answers that promise nothing may be added.
LEMMA AnswersAdded ==
    ASSUME AnswersInOrder, UNCHANGED <<row, saga, content>>, emailed \subseteq emailed',
           faults \in Nat, faults' \in Nat, faults' >= faults,
           \A r \in Request : resp'[r] \in {"CREATED", "NOTFOUND", "TIMEOUT"} => resp'[r] = resp[r]
    PROVE  AnswersInOrder'
BY DEF AnswersInOrder, CreatedMeansEmailed, NotFoundMeansGone, TimeoutIsRecorded, Says, Stored

\* What a list of answers may say of the tables, so that Die and HandlerReturns
\* may make it the answers given.
Truthful(answers) ==
    /\ answers \in [Request -> Outcome]
    /\ \A r \in Request :
        /\ answers[r] = "CREATED" => r \in emailed
        /\ answers[r] = "NOTFOUND" =>
              /\ \E m \in Message : Says(m, "notFound", r)
              /\ faults > 0 \/ ~Stored(r)
        /\ answers[r] = "TIMEOUT" /\ faults = 0 => saga[r] # "STARTED"
        /\ at[r] = "idle" => answers[r] = "none"

LEMMA AnswersAreTruthful == Invariant => Truthful(resp)
BY DEF Invariant, TypeOK, HandlersInOrder, RequestsInOrder, AnswersInOrder, CreatedMeansEmailed,
       NotFoundMeansGone, TimeoutIsRecorded, Truthful

LEMMA Requeue == Invariant => Requeued \subseteq {m \in Message : content[m] # None}
BY DEF Invariant, TypeOK, TablesInOrder, OnlyCommitted, HandlersInOrder, WorkersInOrder, Requeued

LEMMA DieStep ==
    ASSUME Invariant, NEW answers, Truthful(answers), Die(answers),
           UNCHANGED <<row, saga>>, faults' >= faults,
           faults' \in 0..MaxFaults, crashes' \in 0..MaxCrashes
    PROVE  Invariant'
<1>1. TypeOK'
  BY Requeue DEF Invariant, TypeOK, Truthful, Die
<1>2. TablesInOrder'
  BY TablesFrame, Requeue DEF Invariant, Die
<1>3. HandlersInOrder'
  BY DEF Invariant, TypeOK, HandlersInOrder, RequestsInOrder, WorkersInOrder, RollbacksInOrder,
         WaiterHasTimer, Truthful, Die
<1>4. AnswersInOrder'
  BY DEF Invariant, TypeOK, AnswersInOrder, CreatedMeansEmailed,
       NotFoundMeansGone, TimeoutIsRecorded, Truthful, Die, Says, Stored
<1>. QED BY <1>1, <1>2, <1>3, <1>4 DEF Invariant


\* The types of the program counters and of the budget after a statement.
LEMMA GotoType ==
    ASSUME TypeOK, NEW p \in Proc, NEW label, Goto(p, label),
           p \in Request => label \in RequestAt, p \in Worker => label \in WorkerAt
    PROVE  /\ at' \in [Proc -> RequestAt \cup WorkerAt]
           /\ \A s \in Request : at'[s] \in RequestAt
           /\ \A w \in Worker : at'[w] \in WorkerAt
<1>1. label \in RequestAt \cup WorkerAt
  BY DEF Proc
<1>2. \A q \in Proc : at'[q] = IF q = p THEN label ELSE at[q]
  BY DEF TypeOK, Goto
<1>3. at' \in [Proc -> RequestAt \cup WorkerAt]
  BY <1>1 DEF TypeOK, Goto
<1>4. ASSUME NEW s \in Request PROVE at'[s] \in RequestAt
  BY ONLY <1>2, p \in Request => label \in RequestAt, s \in Proc, TypeOK DEF TypeOK, Proc
<1>5. ASSUME NEW w \in Worker PROVE at'[w] \in WorkerAt
  BY ONLY <1>2, p \in Worker => label \in WorkerAt, w \in Proc, TypeOK DEF TypeOK, Proc
<1>. QED BY <1>3, <1>4, <1>5

LEMMA AcknowledgedType ==
    ASSUME TypeOK, NEW p \in Proc, NEW next, NEW otherwise, Acknowledged(p, next, otherwise),
           p \in Request => {next, otherwise} \subseteq RequestAt,
           p \in Worker => {next, otherwise} \subseteq WorkerAt
    PROVE  /\ at' \in [Proc -> RequestAt \cup WorkerAt]
           /\ \A s \in Request : at'[s] \in RequestAt
           /\ \A w \in Worker : at'[w] \in WorkerAt
           /\ faults' \in 0..MaxFaults /\ crashes' \in 0..MaxCrashes
<1>1. PICK label \in {next, otherwise} : Goto(p, label)
  BY DEF Acknowledged
<1>2. faults' \in 0..MaxFaults /\ crashes' \in 0..MaxCrashes
  BY DEF Acknowledged, Fault, TypeOK
<1>. QED BY <1>1, <1>2, GotoType

LEMMA AnswerType ==
    ASSUME TypeOK, NEW r \in Request, NEW outcome \in Outcome, Answer(r, outcome)
    PROVE  /\ at' \in [Proc -> RequestAt \cup WorkerAt]
           /\ \A s \in Request : at'[s] \in RequestAt
           /\ \A w \in Worker : at'[w] \in WorkerAt
           /\ resp' \in [Request -> Outcome]
<1>1. at' = [at EXCEPT ![r] = "done"] /\ resp' = [resp EXCEPT ![r] = outcome]
  BY DEF Answer
<1>2. resp' \in [Request -> Outcome]
  BY <1>1 DEF TypeOK
<1>3. QED BY <1>1, <1>2 DEF TypeOK

LEMMA HandlerReturnsStep ==
    ASSUME Invariant, NEW w \in Worker, at[w] \in {"resolve", "reject"},
           NEW r \in Request, r = on[w],
           NEW label \in RequestAt, NEW answers, Truthful(answers),
           \/ label = at[r]
           \/ label \in {"done", "resolved"} /\ at[r] \in SagaAt,
           r \in registry => label \in {"done", "resolved"},
           label = "resolved" => r \in emailed,
           label # "done" => answers[r] = "none",
           \A s \in Request \ {r} : answers[s] = resp[s],
           HandlerReturns(w, [at EXCEPT ![r] = label], answers),
           UNCHANGED <<row, saga, faults, crashes>>
    PROVE  Invariant'
<1>1. CASE ~channel
  BY <1>1, DieStep DEF HandlerReturns, Invariant, TypeOK
<1>2. CASE channel
  <2>. USE <1>2 DEF HandlerReturns, Release
  <2>1. TypeOK'
    <3>1. at' = [at EXCEPT ![r] = label, ![w] = "idle"]
      BY DEF Invariant, TypeOK
    <3>2. resp' \in [Request -> Outcome]
      BY DEF Truthful
    <3>3. /\ at' \in [Proc -> RequestAt \cup WorkerAt]
          /\ \A s \in Request : at'[s] \in RequestAt
          /\ \A v \in Worker : at'[v] \in WorkerAt
      <4>1. label \in RequestAt \cup WorkerAt /\ "idle" \in WorkerAt
        OBVIOUS
      <4>2. \A p \in Proc : at'[p] = IF p = w THEN "idle" ELSE IF p = r THEN label ELSE at[p]
        BY <3>1 DEF Invariant, TypeOK
      <4>3. at' \in [Proc -> RequestAt \cup WorkerAt]
        BY ONLY <3>1, <4>1, at \in [Proc -> RequestAt \cup WorkerAt], Invariant DEF Invariant, TypeOK
      <4>4. ASSUME NEW s \in Request PROVE at'[s] \in RequestAt
        BY <4>2 DEF Invariant, TypeOK
      <4>5. ASSUME NEW v \in Worker PROVE at'[v] \in WorkerAt
        BY ONLY <4>1, <4>2, TypeOK, Invariant, v \in Proc, r \in Request, v \in Worker,
           Request \cap Worker = {} DEF Invariant, TypeOK
      <4>. QED BY <4>3, <4>4, <4>5
    <3>4. on' = [on EXCEPT ![w] = None] /\ task' = [task EXCEPT ![w] = None]
      OBVIOUS
    <3>5. on' \in [Proc -> Request \cup {None}] /\ task' \in [Worker -> Message \cup {None}]
      BY ONLY <3>4, Invariant DEF Invariant, TypeOK
    <3>. QED BY <3>2, <3>3, <3>5 DEF Invariant, TypeOK
  <2>2. TablesInOrder'
    BY TablesFrame DEF Invariant, TablesInOrder, OnlyCommitted
  <2>3. HandlersInOrder'
    <3>1. \A p \in Proc : at'[p] = IF p = w THEN "idle" ELSE IF p = r THEN label ELSE at[p]
      BY DEF Invariant, TypeOK
    <3>2. RequestsInOrder' /\ WaiterHasTimer'
      <4>1. RequestsInOrder'
        BY <3>1 DEF Invariant, TypeOK, HandlersInOrder, RequestsInOrder
      <4>2. WaiterHasTimer'
        BY <3>1 DEF Invariant, HandlersInOrder, WaiterHasTimer
      <4>. QED BY <4>1, <4>2
    <3>3. WorkersInOrder'
      BY <3>1 DEF Invariant, TypeOK, HandlersInOrder, WorkersInOrder, Stored
    <3>4. RollbacksInOrder'
      BY <3>1 DEF Invariant, TypeOK, HandlersInOrder, RollbacksInOrder, Stored
    <3>. QED BY <3>2, <3>3, <3>4 DEF HandlersInOrder
  <2>4. AnswersInOrder'
    BY DEF Invariant, TypeOK, AnswersInOrder, CreatedMeansEmailed, NotFoundMeansGone,
           TimeoutIsRecorded, Truthful, Says, Stored
  <2>. QED BY <2>1, <2>2, <2>3, <2>4 DEF Invariant
<1>. QED BY <1>1, <1>2


-----------------------------------------------------------------------------
(* One lemma per action *)

LEMMA SubscribeNewStep ==
    ASSUME Invariant, NEW r \in Request, SubscribeNew(r)
    PROVE  Invariant'
<1>. USE DEF SubscribeNew, Goto
<1>1. TypeOK'
  BY DEF Invariant, TypeOK
<1>2. TablesInOrder'
  BY TablesFrame DEF Invariant, TablesInOrder, OnlyCommitted
<1>3. HandlersInOrder'
  BY DEF Invariant, TypeOK, HandlersInOrder, RequestsInOrder, WorkersInOrder, RollbacksInOrder,
         WaiterHasTimer, Stored
<1>4. AnswersInOrder'
  BY <1>1, AnswersFrame DEF Invariant, TypeOK, Stored
<1>. QED BY <1>1, <1>2, <1>3, <1>4 DEF Invariant

LEMMA SubscribeConflictStep ==
    ASSUME Invariant, NEW r \in Request, SubscribeConflict(r)
    PROVE  Invariant'
<1>. USE DEF SubscribeConflict, Answer
<1>1. TypeOK'
  BY DEF Invariant, TypeOK
<1>2. TablesInOrder'
  BY TablesFrame DEF Invariant, TablesInOrder, OnlyCommitted
<1>3. HandlersInOrder'
  BY DEF Invariant, TypeOK, HandlersInOrder, RequestsInOrder, WorkersInOrder, RollbacksInOrder,
         WaiterHasTimer, Stored
<1>4. AnswersInOrder'
  BY DEF Invariant, TypeOK, AnswersInOrder, CreatedMeansEmailed, NotFoundMeansGone,
         TimeoutIsRecorded, Says, Stored,
         HandlersInOrder, RequestsInOrder, RollbacksInOrder
<1>. QED BY <1>1, <1>2, <1>3, <1>4 DEF Invariant

LEMMA SubscribeAgainStep ==
    ASSUME Invariant, NEW r \in Request, SubscribeAgain(r)
    PROVE  Invariant'
<1>. USE DEF SubscribeAgain, Goto, Twins
<1>. PICK s \in Twins(r) : row[s] = "unconfirmed" /\ on' = [on EXCEPT ![r] = s]
  OBVIOUS
<1>1. TypeOK'
  BY DEF Invariant, TypeOK
<1>2. TablesInOrder'
  BY TablesFrame DEF Invariant, TablesInOrder, OnlyCommitted
<1>3. HandlersInOrder'
  BY DEF Invariant, TypeOK, HandlersInOrder, RequestsInOrder, WorkersInOrder, RollbacksInOrder,
         WaiterHasTimer, Stored, TablesInOrder, RowsMatchSagas
<1>4. AnswersInOrder'
  BY <1>1, AnswersFrame DEF Invariant, TypeOK, Stored
<1>. QED BY <1>1, <1>2, <1>3, <1>4 DEF Invariant

LEMMA ResendStep ==
    ASSUME Invariant, NEW r \in Request, Resend(r)
    PROVE  Invariant'
<1>. USE DEF Resend, Answer
<1>1. TypeOK'
  <2>1. emailed' \subseteq Request
    BY DEF Invariant, TypeOK, HandlersInOrder, RequestsInOrder
  <2>2. PICK outcome \in Outcome : Answer(r, outcome)
    OBVIOUS
  <2>. QED BY <2>1, <2>2, AnswerType DEF Invariant, TypeOK
<1>2. TablesInOrder'
  BY DEF Invariant, TypeOK, TablesInOrder, RowsMatchSagas, OneRowPerPair, OnlyCommitted,
         CompletedMeansEmailed, FailedMeansGone, UntrackMeansLeft,
         HandlersInOrder, RequestsInOrder, WorkersInOrder, RollbacksInOrder,
         WaiterHasTimer, Stored, RepoOf
<1>3. HandlersInOrder'
  BY DEF Invariant, TypeOK, HandlersInOrder, RequestsInOrder, WorkersInOrder, RollbacksInOrder,
         WaiterHasTimer, Stored, TablesInOrder, OnlyCommitted
<1>4. AnswersInOrder'
  <2>1. PICK outcome \in {"RESENT", "ERROR"} : resp' = [resp EXCEPT ![r] = outcome]
    OBVIOUS
  <2>2. \A s \in Request :
          resp'[s] \in {"CREATED", "NOTFOUND", "TIMEOUT"} => resp'[s] = resp[s]
    BY ONLY <2>1, Invariant DEF Invariant, TypeOK
  <2>3. /\ AnswersInOrder /\ UNCHANGED <<row, saga, content>> /\ emailed \subseteq emailed'
        /\ faults \in Nat /\ faults' \in Nat /\ faults' >= faults
    BY DEF Invariant, TypeOK, db, budget
  <2>. QED BY ONLY <2>2, <2>3, AnswersAdded
<1>. QED BY <1>1, <1>2, <1>3, <1>4 DEF Invariant

LEMMA LookupFailsStep ==
    ASSUME Invariant, NEW r \in Request, LookupFails(r)
    PROVE  Invariant'
<1>. USE DEF LookupFails, Answer, Fault
<1>1. TypeOK'
  BY DEF Invariant, TypeOK
<1>2. TablesInOrder'
  BY TablesFrame DEF Invariant, TablesInOrder, OnlyCommitted
<1>3. HandlersInOrder'
  BY DEF Invariant, TypeOK, HandlersInOrder, RequestsInOrder, WorkersInOrder, RollbacksInOrder,
         WaiterHasTimer, Stored
<1>4. AnswersInOrder'
  BY DEF Invariant, TypeOK, AnswersInOrder, CreatedMeansEmailed, NotFoundMeansGone,
         TimeoutIsRecorded, Says, Stored,
         HandlersInOrder, RequestsInOrder, RollbacksInOrder
<1>. QED BY <1>1, <1>2, <1>3, <1>4 DEF Invariant

LEMMA TxCommitStep ==
    ASSUME Invariant, NEW r \in Request, TxCommit(r)
    PROVE  Invariant'
<1>. USE DEF TxCommit, Goto, Twins
<1>1. TypeOK'
  BY DEF Invariant, TypeOK
<1>2. TablesInOrder'
  BY DEF Invariant, TypeOK, TablesInOrder, RowsMatchSagas, OneRowPerPair, OnlyCommitted,
         CompletedMeansEmailed, FailedMeansGone, UntrackMeansLeft,
         HandlersInOrder, RequestsInOrder, WorkersInOrder, RollbacksInOrder,
         WaiterHasTimer, Stored, RepoOf
<1>3. HandlersInOrder'
  <2>1. RequestsInOrder'
    BY DEF Invariant, TypeOK, HandlersInOrder, RequestsInOrder
  <2>2. WorkersInOrder'
    BY DEF Invariant, TypeOK, HandlersInOrder, RequestsInOrder, WorkersInOrder, Stored
  <2>3. RollbacksInOrder'
    BY DEF Invariant, TypeOK, HandlersInOrder, RequestsInOrder, WorkersInOrder, RollbacksInOrder,
           Stored
  <2>4. WaiterHasTimer'
    BY DEF Invariant, TypeOK, HandlersInOrder, RequestsInOrder, WaiterHasTimer
  <2>. QED BY <2>1, <2>2, <2>3, <2>4 DEF HandlersInOrder
<1>4. AnswersInOrder'
  BY <1>1, AnswersFrame DEF Invariant, TypeOK, Stored, HandlersInOrder, RequestsInOrder, WorkersInOrder, TablesInOrder, RowsMatchSagas
<1>. QED BY <1>1, <1>2, <1>3, <1>4 DEF Invariant

LEMMA TxDuplicateStep ==
    ASSUME Invariant, NEW r \in Request, TxDuplicate(r)
    PROVE  Invariant'
<1>. USE DEF TxDuplicate, Answer
<1>1. TypeOK'
  BY DEF Invariant, TypeOK
<1>2. TablesInOrder'
  BY TablesFrame DEF Invariant, TablesInOrder, OnlyCommitted
<1>3. HandlersInOrder'
  BY DEF Invariant, TypeOK, HandlersInOrder, RequestsInOrder, WorkersInOrder, RollbacksInOrder,
         WaiterHasTimer, Stored
<1>4. AnswersInOrder'
  BY DEF Invariant, TypeOK, AnswersInOrder, CreatedMeansEmailed, NotFoundMeansGone,
         TimeoutIsRecorded, Says, Stored,
         HandlersInOrder, RequestsInOrder, RollbacksInOrder
<1>. QED BY <1>1, <1>2, <1>3, <1>4 DEF Invariant

LEMMA TxFailsStep ==
    ASSUME Invariant, NEW r \in Request, TxFails(r)
    PROVE  Invariant'
<1>. USE DEF TxFails, Answer, Fault
<1>1. TypeOK'
  BY DEF Invariant, TypeOK
<1>2. TablesInOrder'
  BY TablesFrame DEF Invariant, TablesInOrder, OnlyCommitted
<1>3. HandlersInOrder'
  BY DEF Invariant, TypeOK, HandlersInOrder, RequestsInOrder, WorkersInOrder, RollbacksInOrder,
         WaiterHasTimer, Stored
<1>4. AnswersInOrder'
  <2>1. PICK outcome \in {"ERROR"} : resp' = [resp EXCEPT ![r] = outcome]
    OBVIOUS
  <2>2. \A s \in Request :
          resp'[s] \in {"CREATED", "NOTFOUND", "TIMEOUT"} => resp'[s] = resp[s]
    BY ONLY <2>1, Invariant DEF Invariant, TypeOK
  <2>3. /\ AnswersInOrder /\ UNCHANGED <<row, saga, content>> /\ emailed \subseteq emailed'
        /\ faults \in Nat /\ faults' \in Nat /\ faults' >= faults
    BY DEF Invariant, TypeOK, db, budget
  <2>. QED BY ONLY <2>2, <2>3, AnswersAdded
<1>. QED BY <1>1, <1>2, <1>3, <1>4 DEF Invariant

LEMMA TxReturnsStep ==
    ASSUME Invariant, NEW r \in Request, TxReturns(r)
    PROVE  Invariant'
<1>. USE DEF TxReturns, Goto, Answer
<1>1. TypeOK'
  <2>1. CASE at[r] = "committed"
    <3>1. Goto(r, "await") /\ TypeOK
      BY <2>1 DEF Invariant
    <3>2. /\ at' \in [Proc -> RequestAt \cup WorkerAt]
          /\ \A s \in Request : at'[s] \in RequestAt
          /\ \A v \in Worker : at'[v] \in WorkerAt
      BY <3>1, GotoType
    <3>. QED BY <2>1, <3>1, <3>2 DEF TypeOK
  <2>2. CASE at[r] = "resolved"
    BY <2>2, AnswerType DEF Invariant, TypeOK
  <2>. QED BY <2>1, <2>2
<1>2. TablesInOrder'
  BY TablesFrame DEF Invariant, TablesInOrder, OnlyCommitted
<1>3. HandlersInOrder'
  BY DEF Invariant, TypeOK, HandlersInOrder, RequestsInOrder, WorkersInOrder, RollbacksInOrder,
         WaiterHasTimer, Stored
<1>4. AnswersInOrder'
  BY DEF Invariant, TypeOK, AnswersInOrder, CreatedMeansEmailed, NotFoundMeansGone,
         TimeoutIsRecorded, Says, Stored,
         HandlersInOrder, RequestsInOrder, RollbacksInOrder
<1>. QED BY <1>1, <1>2, <1>3, <1>4 DEF Invariant

LEMMA TimerFiresStep ==
    ASSUME Invariant, NEW r \in Request, TimerFires(r)
    PROVE  Invariant'
<1>1. CASE at[r] # "await"
  BY <1>1, AnswersAreTruthful, DieStep DEF TimerFires, Invariant, TypeOK
<1>2. CASE at[r] = "await"
  <2>. USE <1>2 DEF TimerFires, Goto
  <2>1. TypeOK'
    <3>1. Goto(r, "check") /\ TypeOK /\ r \in Proc /\ r \notin Worker
      BY DEF Invariant
    <3>2. /\ at' \in [Proc -> RequestAt \cup WorkerAt]
          /\ \A s \in Request : at'[s] \in RequestAt
          /\ \A v \in Worker : at'[v] \in WorkerAt
      BY ONLY <3>1, GotoType DEF RequestAt
    <3>. QED BY <3>2 DEF Invariant, TypeOK
  <2>2. TablesInOrder'
    BY TablesFrame DEF Invariant, TablesInOrder, OnlyCommitted
  <2>3. HandlersInOrder'
    BY DEF Invariant, TypeOK, HandlersInOrder, RequestsInOrder, WorkersInOrder,
           RollbacksInOrder, WaiterHasTimer, Stored
  <2>4. AnswersInOrder'
    BY <2>1, AnswersFrame DEF Invariant, TypeOK, Stored
  <2>. QED BY <2>1, <2>2, <2>3, <2>4 DEF Invariant
<1>. QED BY <1>1, <1>2

LEMMA CheckSagaStep ==
    ASSUME Invariant, NEW r \in Request, CheckSaga(r)
    PROVE  Invariant'
<1>. USE DEF CheckSaga, Goto, Answer
<1>1. TypeOK'
  <2>1. CASE saga[r] = "STARTED"
    BY <2>1 DEF Invariant, TypeOK
  <2>2. CASE saga[r] # "STARTED"
    BY <2>2, AnswerType DEF Invariant, TypeOK
  <2>. QED BY <2>1, <2>2
<1>2. TablesInOrder'
  BY TablesFrame DEF Invariant, TablesInOrder, OnlyCommitted
<1>3. HandlersInOrder'
  BY DEF Invariant, TypeOK, HandlersInOrder, RequestsInOrder, WorkersInOrder, RollbacksInOrder,
         WaiterHasTimer, Stored
<1>4. AnswersInOrder'
  BY DEF Invariant, TypeOK, AnswersInOrder, CreatedMeansEmailed, NotFoundMeansGone,
         TimeoutIsRecorded, Says, Stored,
         HandlersInOrder, RequestsInOrder, RollbacksInOrder
<1>. QED BY <1>1, <1>2, <1>3, <1>4 DEF Invariant

LEMMA CheckFailsStep ==
    ASSUME Invariant, NEW r \in Request, CheckFails(r)
    PROVE  Invariant'
<1>. USE DEF CheckFails, Answer, Fault
<1>1. TypeOK'
  BY DEF Invariant, TypeOK
<1>2. TablesInOrder'
  BY TablesFrame DEF Invariant, TablesInOrder, OnlyCommitted
<1>3. HandlersInOrder'
  BY DEF Invariant, TypeOK, HandlersInOrder, RequestsInOrder, WorkersInOrder, RollbacksInOrder,
         WaiterHasTimer, Stored
<1>4. AnswersInOrder'
  BY DEF Invariant, TypeOK, AnswersInOrder, CreatedMeansEmailed, NotFoundMeansGone,
         TimeoutIsRecorded, Says, Stored,
         HandlersInOrder, RequestsInOrder, RollbacksInOrder
<1>. QED BY <1>1, <1>2, <1>3, <1>4 DEF Invariant

LEMMA MarkCompensatingStep ==
    ASSUME Invariant, NEW p \in Proc, MarkCompensating(p)
    PROVE  Invariant'
<1>. USE DEF MarkCompensating, Acknowledged, Goto, Fault
<1>1. TypeOK'
  <2>0. saga' \in [Request -> SagaState]
    BY DEF Invariant, TypeOK
  <2>1. Acknowledged(p, "remove", "reject") /\ TypeOK /\ p \in Proc
    BY DEF Invariant
  <2>2. /\ at' \in [Proc -> RequestAt \cup WorkerAt]
        /\ \A s \in Request : at'[s] \in RequestAt
        /\ \A v \in Worker : at'[v] \in WorkerAt
        /\ faults' \in 0..MaxFaults /\ crashes' \in 0..MaxCrashes
    BY ONLY <2>1, AcknowledgedType DEF RequestAt, WorkerAt
  <2>. QED BY <2>0, <2>2 DEF Invariant, TypeOK
<1>2. TablesInOrder'
  BY DEF Invariant, TypeOK, TablesInOrder, RowsMatchSagas, OneRowPerPair, OnlyCommitted,
         CompletedMeansEmailed, FailedMeansGone, UntrackMeansLeft,
         HandlersInOrder, RequestsInOrder, WorkersInOrder, RollbacksInOrder,
         WaiterHasTimer, Stored, RepoOf
<1>3. HandlersInOrder'
  BY DEF Invariant, TypeOK, HandlersInOrder, RequestsInOrder, WorkersInOrder, RollbacksInOrder,
         WaiterHasTimer, Stored
<1>4. AnswersInOrder'
  BY <1>1, AnswersFrame DEF Invariant, TypeOK, Stored, HandlersInOrder, RequestsInOrder, WorkersInOrder
<1>. QED BY <1>1, <1>2, <1>3, <1>4 DEF Invariant

LEMMA RemoveSubscriptionStep ==
    ASSUME Invariant, NEW p \in Proc, RemoveSubscription(p)
    PROVE  Invariant'
<1>. USE DEF RemoveSubscription, Acknowledged, Goto, Fault, Twins
<1>1. TypeOK'
  <2>0. row' \in [Request -> RowState]
    <3>1. row' = [s \in Request |-> IF s \in Twins(on[p]) /\ Stored(s)
                                     THEN "compensated" ELSE row[s]]
      OBVIOUS
    <3>2. "compensated" \in RowState /\ \A s \in Request : row[s] \in RowState
      BY DEF Invariant, TypeOK
    <3>. QED BY ONLY <3>1, <3>2
  <2>1. Acknowledged(p, "fail", "reject") /\ TypeOK /\ p \in Proc
    BY DEF Invariant
  <2>. HIDE DEF Acknowledged, Goto, Fault, RemoveSubscription
  <2>2. /\ at' \in [Proc -> RequestAt \cup WorkerAt]
        /\ \A s \in Request : at'[s] \in RequestAt
        /\ \A v \in Worker : at'[v] \in WorkerAt
        /\ faults' \in 0..MaxFaults /\ crashes' \in 0..MaxCrashes
    BY ONLY <2>1, AcknowledgedType DEF RequestAt, WorkerAt
  <2>. QED BY <2>0, <2>2 DEF Invariant, TypeOK, RemoveSubscription
<1>2. TablesInOrder'
  BY DEF Invariant, TypeOK, TablesInOrder, RowsMatchSagas, OneRowPerPair, OnlyCommitted,
         CompletedMeansEmailed, FailedMeansGone, UntrackMeansLeft,
         HandlersInOrder, RequestsInOrder, WorkersInOrder, RollbacksInOrder,
         WaiterHasTimer, Stored, RepoOf
<1>3. HandlersInOrder'
  BY DEF Invariant, TypeOK, HandlersInOrder, RequestsInOrder, WorkersInOrder, RollbacksInOrder,
         WaiterHasTimer, Stored
<1>4. AnswersInOrder'
  BY <1>1, AnswersFrame DEF Invariant, TypeOK, Stored, HandlersInOrder, RequestsInOrder, WorkersInOrder
<1>. QED BY <1>1, <1>2, <1>3, <1>4 DEF Invariant

LEMMA MarkFailedStep ==
    ASSUME Invariant, NEW p \in Proc, MarkFailed(p)
    PROVE  Invariant'
<1>. USE DEF MarkFailed, Goto
<1>1. TypeOK'
  BY DEF Invariant, TypeOK
<1>2. TablesInOrder'
  BY DEF Invariant, TypeOK, TablesInOrder, RowsMatchSagas, OneRowPerPair, OnlyCommitted,
         CompletedMeansEmailed, FailedMeansGone, UntrackMeansLeft,
         HandlersInOrder, RequestsInOrder, WorkersInOrder, RollbacksInOrder,
         WaiterHasTimer, Stored, RepoOf
<1>3. HandlersInOrder'
  BY DEF Invariant, TypeOK, HandlersInOrder, RequestsInOrder, WorkersInOrder, RollbacksInOrder,
         WaiterHasTimer, Stored
<1>4. AnswersInOrder'
  BY <1>1, AnswersFrame DEF Invariant, TypeOK, Stored, HandlersInOrder, RequestsInOrder, WorkersInOrder
<1>. QED BY <1>1, <1>2, <1>3, <1>4 DEF Invariant

LEMMA RollbackFailsStep ==
    ASSUME Invariant, NEW p \in Proc, RollbackFails(p)
    PROVE  Invariant'
<1>. USE DEF RollbackFails, Goto, Fault
<1>1. TypeOK'
  BY DEF Invariant, TypeOK
<1>2. TablesInOrder'
  BY TablesFrame DEF Invariant, TablesInOrder, OnlyCommitted
<1>3. HandlersInOrder'
  BY DEF Invariant, TypeOK, HandlersInOrder, RequestsInOrder, WorkersInOrder, RollbacksInOrder,
         WaiterHasTimer, Stored
<1>4. AnswersInOrder'
  BY <1>1, AnswersFrame DEF Invariant, TypeOK, Stored
<1>. QED BY <1>1, <1>2, <1>3, <1>4 DEF Invariant

LEMMA AnswerTimeoutStep ==
    ASSUME Invariant, NEW r \in Request, AnswerTimeout(r)
    PROVE  Invariant'
<1>. USE DEF AnswerTimeout, Answer
<1>1. TypeOK'
  BY DEF Invariant, TypeOK
<1>2. TablesInOrder'
  BY TablesFrame DEF Invariant, TablesInOrder, OnlyCommitted
<1>3. HandlersInOrder'
  BY DEF Invariant, TypeOK, HandlersInOrder, RequestsInOrder, WorkersInOrder, RollbacksInOrder,
         WaiterHasTimer, Stored
<1>4. AnswersInOrder'
  BY DEF Invariant, TypeOK, AnswersInOrder, CreatedMeansEmailed, NotFoundMeansGone,
         TimeoutIsRecorded, Says, Stored,
         HandlersInOrder, RequestsInOrder, RollbacksInOrder
<1>. QED BY <1>1, <1>2, <1>3, <1>4 DEF Invariant

LEMMA RejectWaiterStep ==
    ASSUME Invariant, NEW w \in Worker, RejectWaiter(w)
    PROVE  Invariant'
<1>1. PICK r \in Request :
        /\ r = on[w] /\ saga[r] # "none" /\ at[r] \in RequestAt
        /\ task[w] \in Message /\ content[task[w]] # None /\ content[task[w]].saga = r
  BY DEF Invariant, TypeOK, HandlersInOrder, WorkersInOrder, RejectWaiter
<1>2. at[w] \in {"resolve", "reject"} /\ UNCHANGED <<row, saga, faults, crashes>>
  BY DEF RejectWaiter
<1>3. Truthful(resp) /\ (at[r] # "done" => resp[r] = "none")
  BY AnswersAreTruthful DEF Invariant, HandlersInOrder, RequestsInOrder
<1>4. CASE r \in registry /\ at[r] = "await"
  <2>1. Trigger(w) = "NOTFOUND" => Says(task[w], "notFound", r)
    BY <1>1 DEF Trigger, Says
  <2>2. faults > 0 \/ ~Stored(r)
    BY <1>1 DEF Invariant, TypeOK, HandlersInOrder, RollbacksInOrder, RejectWaiter
  <2>3. Trigger(w) \in {"NOTFOUND", "ERROR"}
    BY DEF Trigger
  <2>4. Truthful([resp EXCEPT ![r] = Trigger(w)])
    BY <1>1, <1>3, <1>4, <2>1, <2>2, <2>3 DEF Truthful
  <2>5. HandlerReturns(w, [at EXCEPT ![r] = "done"], [resp EXCEPT ![r] = Trigger(w)])
    BY <1>1, <1>4 DEF RejectWaiter
  <2>6. \A s \in Request \ {r} : [resp EXCEPT ![r] = Trigger(w)][s] = resp[s]
    BY DEF Invariant, TypeOK
  <2>. QED BY <1>1, <1>2, <1>4, <2>4, <2>5, <2>6, HandlerReturnsStep
<1>5. CASE r \in registry /\ at[r] # "await"
  <2>1. Die(resp)
    BY <1>1, <1>5 DEF RejectWaiter
  <2>. QED BY <1>2, <1>3, <2>1, DieStep DEF Invariant, TypeOK
<1>6. CASE r \notin registry
  <2>1. HandlerReturns(w, [at EXCEPT ![r] = at[r]], resp)
    <3>1. at = [at EXCEPT ![r] = at[r]]
      BY <1>1 DEF Invariant, TypeOK
    <3>. QED BY <1>1, <1>6, <3>1 DEF RejectWaiter
  <2>2. at[r] = "resolved" => r \in emailed
    BY <1>1 DEF Invariant, HandlersInOrder, RequestsInOrder
  <2>. QED BY <1>1, <1>2, <1>3, <1>6, <2>1, <2>2, HandlerReturnsStep
<1>. QED BY <1>4, <1>5, <1>6

LEMMA TakeReplyStep ==
    ASSUME Invariant, NEW w \in Worker, NEW m \in Message, TakeReply(w, m)
    PROVE  Invariant'
<1>. USE DEF TakeReply, Goto
<1>1. TypeOK'
  BY DEF Invariant, TypeOK
<1>2. TablesInOrder'
  BY TablesFrame DEF Invariant, TablesInOrder, OnlyCommitted
<1>3. HandlersInOrder'
  BY DEF Invariant, TypeOK, HandlersInOrder, RequestsInOrder, WorkersInOrder, RollbacksInOrder,
         WaiterHasTimer, Stored, TablesInOrder, OnlyCommitted
<1>4. AnswersInOrder'
  BY <1>1, AnswersFrame DEF Invariant, TypeOK, Stored
<1>. QED BY <1>1, <1>2, <1>3, <1>4 DEF Invariant

LEMMA ReadSagaStep ==
    ASSUME Invariant, NEW w \in Worker, ReadSaga(w)
    PROVE  Invariant'
<1>. USE DEF ReadSaga, Goto
<1>0. SagaOf(w) \in Request /\ saga[SagaOf(w)] # "none" /\ on[w] = None
  BY DEF Invariant, TypeOK, HandlersInOrder, WorkersInOrder, TablesInOrder, OnlyCommitted
<1>1. TypeOK'
  BY <1>0 DEF Invariant, TypeOK
<1>2. TablesInOrder'
  BY TablesFrame DEF Invariant, TablesInOrder, OnlyCommitted
<1>3. HandlersInOrder'
  BY <1>0 DEF Invariant, TypeOK, HandlersInOrder, RequestsInOrder, WorkersInOrder,
         RollbacksInOrder, WaiterHasTimer, Stored
<1>4. AnswersInOrder'
  BY <1>1, AnswersFrame DEF Invariant, TypeOK, Stored
<1>. QED BY <1>1, <1>2, <1>3, <1>4 DEF Invariant

\* A reply's handler returns before it has found its saga STARTED.
LEMMA ReadReturnsStep ==
    ASSUME Invariant, NEW w \in Worker, at[w] = "read", HandlerReturns(w, at, resp),
           UNCHANGED <<row, saga, crashes>>, faults' >= faults, faults' \in 0..MaxFaults
    PROVE  Invariant'
<1>1. CASE ~channel
  BY <1>1, AnswersAreTruthful, DieStep DEF HandlerReturns, Invariant, TypeOK
<1>2. CASE channel
  <2>0. registry' = registry
    <3>1. on[w] = None
      BY DEF Invariant, HandlersInOrder, WorkersInOrder
    <3>2. None \notin registry
      BY ConstantsAssumption DEF Invariant, TypeOK
    <3>3. registry' = registry \ {on[w]}
      BY <1>2 DEF HandlerReturns
    <3>. QED BY <3>1, <3>2, <3>3
  <2>. USE <1>2 DEF HandlerReturns, Release
  <2>1. TypeOK'
    <3>1. on' \in [Proc -> Request \cup {None}] /\ task' \in [Worker -> Message \cup {None}]
      BY DEF Invariant, TypeOK
    <3>2. Goto(w, "idle")
      BY DEF Goto
    <3>. QED BY <2>0, <3>1, <3>2, GotoType DEF Invariant, TypeOK
  <2>2. TablesInOrder'
    BY TablesFrame DEF Invariant, TablesInOrder, OnlyCommitted
  <2>3. HandlersInOrder'
    BY <2>0 DEF Invariant, TypeOK, HandlersInOrder, RequestsInOrder, WorkersInOrder,
           RollbacksInOrder, WaiterHasTimer, Stored
  <2>4. AnswersInOrder'
    BY <2>1, AnswersFrame DEF Invariant, TypeOK, Stored
  <2>. QED BY <2>1, <2>2, <2>3, <2>4 DEF Invariant
<1>. QED BY <1>1, <1>2

LEMMA IgnoreReplyStep ==
    ASSUME Invariant, NEW w \in Worker, IgnoreReply(w)
    PROVE  Invariant'
BY ReadReturnsStep DEF IgnoreReply, Invariant, TypeOK

LEMMA LoseReplyStep ==
    ASSUME Invariant, NEW w \in Worker, LoseReply(w)
    PROVE  Invariant'
BY ReadReturnsStep DEF LoseReply, Fault, Invariant, TypeOK

LEMMA SendConfirmationStep ==
    ASSUME Invariant, NEW w \in Worker, SendConfirmation(w)
    PROVE  Invariant'
<1>. USE DEF SendConfirmation, Goto
<1>1. TypeOK'
  <2>0. emailed' \in SUBSET Request
    BY DEF Invariant, TypeOK, HandlersInOrder, WorkersInOrder
  <2>1. PICK label \in {"complete", "mark"} : Goto(w, label)
    OBVIOUS
  <2>2. TypeOK /\ w \in Proc /\ w \notin Request
    BY DEF Invariant
  <2>3. /\ at' \in [Proc -> RequestAt \cup WorkerAt]
        /\ \A s \in Request : at'[s] \in RequestAt
        /\ \A v \in Worker : at'[v] \in WorkerAt
    BY ONLY <2>1, <2>2, GotoType DEF WorkerAt
  <2>. QED BY <2>0, <2>3 DEF Invariant, TypeOK
<1>2. TablesInOrder'
  BY DEF Invariant, TypeOK, TablesInOrder, RowsMatchSagas, OneRowPerPair, OnlyCommitted,
         CompletedMeansEmailed, FailedMeansGone, UntrackMeansLeft,
         HandlersInOrder, RequestsInOrder, WorkersInOrder, RollbacksInOrder,
         WaiterHasTimer, Stored, RepoOf
<1>3. HandlersInOrder'
  BY DEF Invariant, TypeOK, HandlersInOrder, RequestsInOrder, WorkersInOrder, RollbacksInOrder,
         WaiterHasTimer, Stored
<1>4. AnswersInOrder'
  BY <1>1, AnswersFrame DEF Invariant, TypeOK, Stored, HandlersInOrder, RequestsInOrder, WorkersInOrder
<1>. QED BY <1>1, <1>2, <1>3, <1>4 DEF Invariant

LEMMA MarkCompletedStep ==
    ASSUME Invariant, NEW w \in Worker, MarkCompleted(w)
    PROVE  Invariant'
<1>. USE DEF MarkCompleted, Acknowledged, Goto, Fault
<1>1. TypeOK'
  <2>0. saga' \in [Request -> SagaState]
    BY DEF Invariant, TypeOK
  <2>1. PICK label \in {"resolve", "mark"} : Goto(w, label)
    OBVIOUS
  <2>2. faults' \in 0..MaxFaults /\ crashes' \in 0..MaxCrashes
    BY DEF Invariant, TypeOK
  <2>. QED BY <2>0, <2>1, <2>2, GotoType DEF Invariant, TypeOK
<1>2. TablesInOrder'
  BY DEF Invariant, TypeOK, TablesInOrder, RowsMatchSagas, OneRowPerPair, OnlyCommitted,
         CompletedMeansEmailed, FailedMeansGone, UntrackMeansLeft,
         HandlersInOrder, RequestsInOrder, WorkersInOrder, RollbacksInOrder,
         WaiterHasTimer, Stored, RepoOf
<1>3. HandlersInOrder'
  BY DEF Invariant, TypeOK, HandlersInOrder, RequestsInOrder, WorkersInOrder, RollbacksInOrder,
         WaiterHasTimer, Stored
<1>4. AnswersInOrder'
  BY <1>1, AnswersFrame DEF Invariant, TypeOK, Stored, HandlersInOrder, RequestsInOrder, WorkersInOrder
<1>. QED BY <1>1, <1>2, <1>3, <1>4 DEF Invariant

LEMMA CompleteFailsStep ==
    ASSUME Invariant, NEW w \in Worker, CompleteFails(w)
    PROVE  Invariant'
<1>. USE DEF CompleteFails, Goto, Fault
<1>1. TypeOK'
  BY DEF Invariant, TypeOK
<1>2. TablesInOrder'
  BY TablesFrame DEF Invariant, TablesInOrder, OnlyCommitted
<1>3. HandlersInOrder'
  BY DEF Invariant, TypeOK, HandlersInOrder, RequestsInOrder, WorkersInOrder, RollbacksInOrder,
         WaiterHasTimer, Stored
<1>4. AnswersInOrder'
  BY <1>1, AnswersFrame DEF Invariant, TypeOK, Stored
<1>. QED BY <1>1, <1>2, <1>3, <1>4 DEF Invariant

LEMMA ResolveWaiterStep ==
    ASSUME Invariant, NEW w \in Worker, ResolveWaiter(w)
    PROVE  Invariant'
<1>1. PICK r \in Request :
        r = on[w] /\ r \in emailed /\ saga[r] # "none" /\ at[r] \in RequestAt
  BY DEF Invariant, TypeOK, HandlersInOrder, WorkersInOrder, ResolveWaiter
<1>2. at[w] \in {"resolve", "reject"} /\ UNCHANGED <<row, saga, faults, crashes>>
  BY DEF ResolveWaiter
<1>3. Truthful(resp) /\ (at[r] # "done" => resp[r] = "none")
  BY AnswersAreTruthful DEF Invariant, HandlersInOrder, RequestsInOrder
<1>4. CASE r \in registry /\ at[r] = "await"
  <2>1. Truthful([resp EXCEPT ![r] = "CREATED"])
    BY <1>1, <1>3, <1>4 DEF Truthful
  <2>2. HandlerReturns(w, [at EXCEPT ![r] = "done"], [resp EXCEPT ![r] = "CREATED"])
    BY <1>1, <1>4 DEF ResolveWaiter
  <2>3. \A s \in Request \ {r} : [resp EXCEPT ![r] = "CREATED"][s] = resp[s]
    BY DEF Invariant, TypeOK
  <2>. QED BY <1>1, <1>2, <1>4, <2>1, <2>2, <2>3, HandlerReturnsStep
<1>5. CASE r \in registry /\ at[r] = "committed"
  <2>1. HandlerReturns(w, [at EXCEPT ![r] = "resolved"], resp)
    BY <1>1, <1>5 DEF ResolveWaiter
  <2>. QED BY <1>1, <1>2, <1>3, <1>5, <2>1, HandlerReturnsStep
<1>6. CASE ~(r \in registry /\ at[r] \in {"await", "committed"})
  <2>1. HandlerReturns(w, [at EXCEPT ![r] = at[r]], resp)
    <3>1. at = [at EXCEPT ![r] = at[r]]
      BY <1>1 DEF Invariant, TypeOK
    <3>. QED BY <1>1, <1>6, <3>1 DEF ResolveWaiter
  <2>2. r \in registry => at[r] = "done"
    BY <1>1, <1>6 DEF Invariant, HandlersInOrder, RequestsInOrder
  <2>. QED BY <1>1, <1>2, <1>3, <2>1, <2>2, HandlerReturnsStep
<1>. QED BY <1>4, <1>5, <1>6

LEMMA ConfirmStep ==
    ASSUME Invariant, NEW w \in Worker, NEW r \in Request, Confirm(w, r)
    PROVE  Invariant'
<1>. USE DEF Confirm, Goto
<1>1. TypeOK'
  BY DEF Invariant, TypeOK
<1>2. TablesInOrder'
  BY TablesFrame DEF Invariant, TablesInOrder, OnlyCommitted
<1>3. HandlersInOrder'
  BY DEF Invariant, TypeOK, HandlersInOrder, RequestsInOrder, WorkersInOrder, RollbacksInOrder,
         WaiterHasTimer, Stored, TablesInOrder, OnlyCommitted
<1>4. AnswersInOrder'
  BY <1>1, AnswersFrame DEF Invariant, TypeOK, Stored
<1>. QED BY <1>1, <1>2, <1>3, <1>4 DEF Invariant

LEMMA UpdateConfirmedStep ==
    ASSUME Invariant, NEW w \in Worker, UpdateConfirmed(w)
    PROVE  Invariant'
<1>. USE DEF UpdateConfirmed, Goto, Release
<1>1. TypeOK'
  BY DEF Invariant, TypeOK
<1>2. TablesInOrder'
  BY DEF Invariant, TypeOK, TablesInOrder, RowsMatchSagas, OneRowPerPair, OnlyCommitted,
         CompletedMeansEmailed, FailedMeansGone, UntrackMeansLeft,
         HandlersInOrder, RequestsInOrder, WorkersInOrder, RollbacksInOrder,
         WaiterHasTimer, Stored, RepoOf
<1>3. HandlersInOrder'
  BY DEF Invariant, TypeOK, HandlersInOrder, RequestsInOrder, WorkersInOrder, RollbacksInOrder,
         WaiterHasTimer, Stored
<1>4. AnswersInOrder'
  BY <1>1, AnswersFrame DEF Invariant, TypeOK, Stored, HandlersInOrder, RequestsInOrder, WorkersInOrder
<1>. QED BY <1>1, <1>2, <1>3, <1>4 DEF Invariant

LEMMA UnsubscribeStep ==
    ASSUME Invariant, NEW w \in Worker, NEW r \in Request, Unsubscribe(w, r)
    PROVE  Invariant'
<1>. USE DEF Unsubscribe, Goto
<1>1. TypeOK'
  BY DEF Invariant, TypeOK
<1>2. TablesInOrder'
  BY TablesFrame DEF Invariant, TablesInOrder, OnlyCommitted
<1>3. HandlersInOrder'
  BY DEF Invariant, TypeOK, HandlersInOrder, RequestsInOrder, WorkersInOrder, RollbacksInOrder,
         WaiterHasTimer, Stored, TablesInOrder, OnlyCommitted
<1>4. AnswersInOrder'
  BY <1>1, AnswersFrame DEF Invariant, TypeOK, Stored
<1>. QED BY <1>1, <1>2, <1>3, <1>4 DEF Invariant

LEMMA DeleteByIdStep ==
    ASSUME Invariant, NEW w \in Worker, DeleteById(w)
    PROVE  Invariant'
<1>. USE DEF DeleteById, Goto, Release, Fault
<1>1. TypeOK'
  <2>1. PICK label \in {"count", "idle"} : Goto(w, label)
    OBVIOUS
  <2>2. row' \in [Request -> RowState]
    BY DEF Invariant, TypeOK, HandlersInOrder, WorkersInOrder
  <2>3. /\ on' \in [Proc -> Request \cup {None}] /\ task' \in [Worker -> Message \cup {None}]
        /\ faults' \in 0..MaxFaults /\ crashes' \in 0..MaxCrashes
    <3>1. \/ on' = on /\ task' = task
          \/ on' = [on EXCEPT ![w] = None] /\ task' = [task EXCEPT ![w] = None]
      OBVIOUS
    <3>2. on' \in [Proc -> Request \cup {None}] /\ task' \in [Worker -> Message \cup {None}]
      BY ONLY <3>1, Invariant DEF Invariant, TypeOK
    <3>3. faults' \in 0..MaxFaults /\ crashes' \in 0..MaxCrashes
      BY DEF Invariant, TypeOK
    <3>. QED BY <3>2, <3>3
  <2>. QED BY <2>1, <2>2, <2>3, GotoType DEF Invariant, TypeOK
<1>2. TablesInOrder'
  BY DEF Invariant, TypeOK, TablesInOrder, RowsMatchSagas, OneRowPerPair, OnlyCommitted,
         CompletedMeansEmailed, FailedMeansGone, UntrackMeansLeft,
         HandlersInOrder, RequestsInOrder, WorkersInOrder, RollbacksInOrder,
         WaiterHasTimer, Stored, RepoOf
<1>3. HandlersInOrder'
  BY DEF Invariant, TypeOK, HandlersInOrder, RequestsInOrder, WorkersInOrder, RollbacksInOrder,
         WaiterHasTimer, Stored
<1>4. AnswersInOrder'
  BY <1>1, AnswersFrame DEF Invariant, TypeOK, Stored, HandlersInOrder, RequestsInOrder, WorkersInOrder
<1>. QED BY <1>1, <1>2, <1>3, <1>4 DEF Invariant

LEMMA CountRemainingStep ==
    ASSUME Invariant, NEW w \in Worker, CountRemaining(w)
    PROVE  Invariant'
<1>. USE DEF CountRemaining, Goto, Release
<1>1. TypeOK'
  <2>1. CASE at' = [at EXCEPT ![w] = "untrack"] /\ UNCHANGED <<on, task>>
    BY <2>1 DEF Invariant, TypeOK
  <2>2. CASE at' = [at EXCEPT ![w] = "idle"] /\ Release(w)
    BY <2>2 DEF Invariant, TypeOK
  <2>. QED BY <2>1, <2>2
<1>2. TablesInOrder'
  BY TablesFrame DEF Invariant, TablesInOrder, OnlyCommitted
<1>3. HandlersInOrder'
  BY DEF Invariant, TypeOK, HandlersInOrder, RequestsInOrder, WorkersInOrder, RollbacksInOrder,
         WaiterHasTimer, Stored, TablesInOrder, RowsMatchSagas, RepoOf
<1>4. AnswersInOrder'
  BY <1>1, AnswersFrame DEF Invariant, TypeOK, Stored
<1>. QED BY <1>1, <1>2, <1>3, <1>4 DEF Invariant

LEMMA PublishUntrackStep ==
    ASSUME Invariant, NEW w \in Worker, PublishUntrack(w)
    PROVE  Invariant'
<1>. USE DEF PublishUntrack, Goto, Release
<1>1. TypeOK'
  <2>1. on[w] \in Request /\ RepoOf(on[w]) \in Repo
    BY DEF Invariant, TypeOK, HandlersInOrder, WorkersInOrder, RepoOf
  <2>. QED BY <2>1 DEF Invariant, TypeOK
<1>2. TablesInOrder'
  BY DEF Invariant, TypeOK, TablesInOrder, RowsMatchSagas, OneRowPerPair, OnlyCommitted,
         CompletedMeansEmailed, FailedMeansGone, UntrackMeansLeft,
         HandlersInOrder, RequestsInOrder, WorkersInOrder, RollbacksInOrder,
         WaiterHasTimer, Stored, RepoOf
<1>3. HandlersInOrder'
  BY DEF Invariant, TypeOK, HandlersInOrder, RequestsInOrder, WorkersInOrder, RollbacksInOrder,
         WaiterHasTimer, Stored
<1>4. AnswersInOrder'
  BY <1>1, AnswersFrame DEF Invariant, TypeOK, Stored, HandlersInOrder, RequestsInOrder, WorkersInOrder
<1>. QED BY <1>1, <1>2, <1>3, <1>4 DEF Invariant

LEMMA ClickFailsStep ==
    ASSUME Invariant, NEW w \in Worker, ClickFails(w)
    PROVE  Invariant'
<1>. USE DEF ClickFails, Goto, Release, Fault
<1>1. TypeOK'
  BY DEF Invariant, TypeOK
<1>2. TablesInOrder'
  BY TablesFrame DEF Invariant, TablesInOrder, OnlyCommitted
<1>3. HandlersInOrder'
  BY DEF Invariant, TypeOK, HandlersInOrder, RequestsInOrder, WorkersInOrder, RollbacksInOrder,
         WaiterHasTimer, Stored
<1>4. AnswersInOrder'
  BY <1>1, AnswersFrame DEF Invariant, TypeOK, Stored
<1>. QED BY <1>1, <1>2, <1>3, <1>4 DEF Invariant

LEMMA ReplyStep ==
    ASSUME Invariant, NEW m \in Message, Reply(m)
    PROVE  Invariant'
<1>. USE DEF Reply
<1>. PICK k \in Kind, r \in Request :
       saga[r] # "none" /\ content' = [content EXCEPT ![m] = [kind |-> k, saga |-> r]]
  OBVIOUS
<1>1. TypeOK'
  BY DEF Invariant, TypeOK
<1>2. TablesInOrder'
  <2>1. \A n \in Message :
           content'[n] = IF n = m THEN [kind |-> k, saga |-> r] ELSE content[n]
    BY DEF Invariant, TypeOK
  <2>2. [kind |-> k, saga |-> r] # None
    BY NoneAssumption
  <2>3. OnlyCommitted'
    BY <2>1, <2>2 DEF Invariant, TypeOK, TablesInOrder, OnlyCommitted
  <2>4. RowsMatchSagas' /\ OneRowPerPair' /\ CompletedMeansEmailed' /\ FailedMeansGone'
    BY DEF Invariant, TypeOK, TablesInOrder, RowsMatchSagas, OneRowPerPair,
           CompletedMeansEmailed, FailedMeansGone, Stored
  <2>5. UntrackMeansLeft'
    BY DEF Invariant, TypeOK, TablesInOrder, UntrackMeansLeft
  <2>. QED BY <2>3, <2>4, <2>5 DEF TablesInOrder
<1>3. HandlersInOrder'
  BY DEF Invariant, TypeOK, HandlersInOrder, RequestsInOrder, WorkersInOrder, RollbacksInOrder,
         WaiterHasTimer, Stored, TablesInOrder, OnlyCommitted
<1>4. AnswersInOrder'
  BY DEF Invariant, TypeOK, AnswersInOrder, CreatedMeansEmailed, NotFoundMeansGone,
         TimeoutIsRecorded, Says, Stored
<1>. QED BY <1>1, <1>2, <1>3, <1>4 DEF Invariant

LEMMA CloseChannelStep ==
    ASSUME Invariant, CloseChannel
    PROVE  Invariant'
<1>. USE DEF CloseChannel, Fault
<1>1. TypeOK'
  <2>1. faults' \in 0..MaxFaults
    BY DEF Invariant, TypeOK
  <2>2. queue' \subseteq Message
    BY Requeue
  <2>. QED BY <2>1, <2>2 DEF Invariant, TypeOK
<1>2. TablesInOrder'
  BY TablesFrame, Requeue DEF Invariant
<1>3. HandlersInOrder'
  BY DEF Invariant, TypeOK, HandlersInOrder, RequestsInOrder, WorkersInOrder, RollbacksInOrder,
         WaiterHasTimer, Stored
<1>4. AnswersInOrder'
  BY <1>1, AnswersFrame DEF Invariant, TypeOK, Stored
<1>. QED BY <1>1, <1>2, <1>3, <1>4 DEF Invariant

LEMMA CrashStep ==
    ASSUME Invariant, Crash
    PROVE  Invariant'
<1>1. crashes' \in 0..MaxCrashes
  BY DEF Invariant, TypeOK, Crash
<1>. QED BY <1>1, AnswersAreTruthful, DieStep DEF Crash, Invariant, TypeOK

LEMMA RestartStep ==
    ASSUME Invariant, Restart
    PROVE  Invariant'
<1>. USE DEF Restart
<1>1. TypeOK'
  BY DEF Invariant, TypeOK
<1>2. TablesInOrder'
  BY TablesFrame DEF Invariant, TablesInOrder, OnlyCommitted
<1>3. HandlersInOrder'
  BY DEF Invariant, TypeOK, HandlersInOrder, RequestsInOrder, WorkersInOrder, RollbacksInOrder,
         WaiterHasTimer, Stored
<1>4. AnswersInOrder'
  BY <1>1, AnswersFrame DEF Invariant, TypeOK, Stored
<1>. QED BY <1>1, <1>2, <1>3, <1>4 DEF Invariant

-----------------------------------------------------------------------------
(* The invariant, and the properties it implies *)

LEMMA RollbackStep ==
    ASSUME Invariant, NEW p \in Proc, Rollback(p) \/ RollbackFails(p)
    PROVE  Invariant'
BY MarkCompensatingStep, RemoveSubscriptionStep, MarkFailedStep, RollbackFailsStep
   DEF Rollback

LEMMA RequestNextStep ==
    ASSUME Invariant, NEW r \in Request, RequestNext(r)
    PROVE  Invariant'
<1>1. CASE SubscribeNew(r) \/ SubscribeConflict(r) \/ SubscribeAgain(r) \/ Resend(r)
  BY <1>1, SubscribeNewStep, SubscribeConflictStep, SubscribeAgainStep, ResendStep
<1>2. CASE TxCommit(r) \/ TxDuplicate(r) \/ TxReturns(r) \/ TxFails(r) \/ LookupFails(r)
  BY <1>2, TxCommitStep, TxDuplicateStep, TxReturnsStep, TxFailsStep, LookupFailsStep
<1>3. CASE TimerFires(r) \/ CheckSaga(r) \/ CheckFails(r) \/ AnswerTimeout(r)
  BY <1>3, TimerFiresStep, CheckSagaStep, CheckFailsStep, AnswerTimeoutStep
<1>4. CASE Rollback(r) \/ RollbackFails(r)
  BY <1>4, RollbackStep
<1>. QED BY <1>1, <1>2, <1>3, <1>4 DEF RequestNext, RequestStep

LEMMA WorkerNextStep ==
    ASSUME Invariant, NEW w \in Worker, WorkerNext(w)
    PROVE  Invariant'
<1>1. CASE \E m \in Message : TakeReply(w, m)
  BY <1>1, TakeReplyStep
<1>2. CASE ConsumerStep(w) \/ LoseReply(w) \/ CompleteFails(w) \/ RollbackFails(w)
  BY <1>2, ReadSagaStep, IgnoreReplyStep, LoseReplyStep, SendConfirmationStep, MarkCompletedStep,
     ResolveWaiterStep, RollbackStep, RejectWaiterStep, CompleteFailsStep DEF ConsumerStep
<1>3. CASE \E r \in Request : Confirm(w, r) \/ Unsubscribe(w, r)
  BY <1>3, ConfirmStep, UnsubscribeStep
<1>4. CASE ClickStep(w) \/ ClickFails(w)
  BY <1>4, UpdateConfirmedStep, DeleteByIdStep, CountRemainingStep, PublishUntrackStep,
     ClickFailsStep DEF ClickStep
<1>. QED BY <1>1, <1>2, <1>3, <1>4 DEF WorkerNext

LEMMA StutterStep == Invariant /\ UNCHANGED vars => Invariant'
BY DEF vars, Invariant, TypeOK, TablesInOrder, RowsMatchSagas, OneRowPerPair, OnlyCommitted,
       CompletedMeansEmailed, FailedMeansGone, UntrackMeansLeft, HandlersInOrder,
       RequestsInOrder, WorkersInOrder, RollbacksInOrder, WaiterHasTimer, AnswersInOrder,
       CreatedMeansEmailed, NotFoundMeansGone, TimeoutIsRecorded, Says, Stored

LEMMA InvariantStep == Invariant /\ [Next]_vars => Invariant'
<1>. SUFFICES ASSUME Invariant, [Next]_vars PROVE Invariant'
  OBVIOUS
<1>1. CASE \E r \in Request : RequestNext(r)
  BY <1>1, RequestNextStep
<1>2. CASE \E w \in Worker : WorkerNext(w)
  BY <1>2, WorkerNextStep
<1>3. CASE \E m \in Message : Reply(m)
  BY <1>3, ReplyStep
<1>4. CASE CloseChannel \/ Crash \/ Restart
  BY <1>4, CloseChannelStep, CrashStep, RestartStep
<1>5. CASE UNCHANGED vars
  BY <1>5, StutterStep
<1>. QED BY <1>1, <1>2, <1>3, <1>4, <1>5 DEF Next

\* In every reachable state the tables, the handlers and the answers agree: the
\* strengthening every other theorem of this module rests on.
THEOREM InvariantHolds == Spec => []Invariant
<1>1. Init => Invariant
  BY InitInvariant
<1>2. Invariant /\ [Next]_vars => Invariant'
  BY InvariantStep
<1>. QED BY <1>1, <1>2, PTL DEF Spec

\* The variables keep their types: rows, sagas, program counters, messages, answers.
THEOREM TypeCorrect == Spec => []TypeOK
BY InvariantHolds, PTL DEF Invariant

\* "subscription successful, confirmation email sent" is answered only to a
\* request whose email was published, for any interleaving, fault and crash.
THEOREM CreatedIsEmailed == Spec => []CreatedMeansEmailed
<1>1. Invariant => CreatedMeansEmailed
  BY DEF Invariant, AnswersInOrder
<1>. QED BY <1>1, InvariantHolds, PTL

\* A saga is COMPLETED only after its email was published.
THEOREM CompletedIsEmailed == Spec => []CompletedMeansEmailed
<1>1. Invariant => CompletedMeansEmailed
  BY DEF Invariant, TablesInOrder
<1>. QED BY <1>1, InvariantHolds, PTL

\* A saga is FAILED only after its subscription was deleted.
THEOREM FailedIsGone == Spec => []FailedMeansGone
<1>1. Invariant => FailedMeansGone
  BY DEF Invariant, TablesInOrder
<1>. QED BY <1>1, InvariantHolds, PTL

\* 404 is answered only on the repo-manager's word, and, unless a statement
\* failed, once the subscription is gone.
THEOREM NotFoundIsGone == Spec => []NotFoundMeansGone
<1>1. Invariant => NotFoundMeansGone
  BY DEF Invariant, AnswersInOrder
<1>. QED BY <1>1, InvariantHolds, PTL

\* After a timeout was answered, and as long as no statement failed, no reply
\* starts on the saga, and a subscription that is still stored has its links
\* mailed by a handler that was there before, or is marked for compensation.
THEOREM TimeoutStaysFinal == Spec => []TimeoutIsFinal
<1>1. Invariant => TimeoutIsFinal
  BY DEF Invariant, TypeOK, TablesInOrder, RowsMatchSagas, CompletedMeansEmailed, FailedMeansGone,
         AnswersInOrder, TimeoutIsRecorded, TimeoutIsFinal, Stored
<1>. QED BY <1>1, InvariantHolds, PTL

\* No request waits for its saga without an armed timer.
THEOREM WaiterIsTimed == Spec => []WaiterHasTimer
<1>1. Invariant => WaiterHasTimer
  BY DEF Invariant, HandlersInOrder
<1>. QED BY <1>1, InvariantHolds, PTL

\* The uniqueness of stored subscriptions per email and repository.
THEOREM StoredOnce == Spec => []OneRowPerPair
<1>1. Invariant => OneRowPerPair
  BY DEF Invariant, TablesInOrder
<1>. QED BY <1>1, InvariantHolds, PTL

-----------------------------------------------------------------------------
(* A saga starts once *)

LEMMA SagaMoves ==
    ASSUME Invariant, [Next]_vars, NEW r \in Request, saga'[r] = "STARTED"
    PROVE  saga[r] \in {"none", "STARTED"}
<1>1. CASE \E q \in Request : RequestNext(q)
  <2>1. PICK q \in Request : RequestNext(q)
    BY <1>1
  <2>2. CASE TxCommit(q)
    BY <2>2 DEF TxCommit, Invariant, TypeOK, HandlersInOrder, RequestsInOrder
  <2>3. CASE MarkCompensating(q) \/ MarkFailed(q)
    BY <2>3 DEF MarkCompensating, MarkFailed, Invariant, TypeOK
  <2>4. CASE ~(TxCommit(q) \/ MarkCompensating(q) \/ MarkFailed(q))
    <3>1. UNCHANGED saga
      BY <2>1, <2>4 DEF RequestNext, RequestStep, Rollback, SubscribeNew, SubscribeConflict,
         SubscribeAgain, Resend, LookupFails, TxDuplicate, TxFails, TxReturns, TimerFires,
         CheckSaga, CheckFails, RemoveSubscription, RollbackFails, AnswerTimeout
    <3>. QED BY <3>1
  <2>. QED BY <2>2, <2>3, <2>4
<1>2. CASE \E w \in Worker : WorkerNext(w)
  <2>1. PICK w \in Worker : WorkerNext(w)
    BY <1>2
  <2>2. CASE MarkCompleted(w) \/ MarkCompensating(w) \/ MarkFailed(w)
    BY <2>2 DEF MarkCompleted, MarkCompensating, MarkFailed, Invariant, TypeOK
  <2>3. CASE ~(MarkCompleted(w) \/ MarkCompensating(w) \/ MarkFailed(w))
    <3>1. UNCHANGED saga
      BY <2>1, <2>3 DEF WorkerNext, ConsumerStep, ClickStep, Rollback, TakeReply, ReadSaga,
         IgnoreReply, LoseReply, SendConfirmation, ResolveWaiter, RejectWaiter, CompleteFails, RollbackFails,
         RemoveSubscription, Confirm, Unsubscribe, UpdateConfirmed, DeleteById,
         CountRemaining, PublishUntrack, ClickFails
    <3>. QED BY <3>1
  <2>. QED BY <2>2, <2>3
<1>3. CASE \/ \E m \in Message : Reply(m)
           \/ CloseChannel \/ Crash \/ Restart \/ UNCHANGED vars
  BY <1>3 DEF Reply, CloseChannel, Crash, Restart, vars
<1>. QED BY <1>1, <1>2, <1>3 DEF Next

\* No race of handlers restarts a saga, and a saga and its subscription row
\* come into being in the same step.
THEOREM SagaNeverRestarts == Spec => SagaStartsOnce
<1>1. Invariant /\ Invariant' /\ [Next]_vars =>
        [\A r \in Request :
           /\ saga'[r] = "STARTED" => saga[r] \in {"none", "STARTED"}
           /\ saga'[r] # "none" <=> row'[r] # "absent"]_vars
  BY SagaMoves DEF Invariant, TablesInOrder, RowsMatchSagas
<1>. QED BY <1>1, InvariantHolds, PTL DEF Spec, SagaStartsOnce

-----------------------------------------------------------------------------
(* The service implements DoubleOptIn *)

Created == {r \in Request : resp[r] = "CREATED"}

LEMMA PromiseInit == Init => Promise!Init
BY DEF Init, Promise!Init, Status

\* Most steps change nothing DoubleOptIn speaks of.
LEMMA PromiseFrame ==
    ASSUME UNCHANGED <<row, emailed>>, Created' = Created
    PROVE  UNCHANGED Promise!vars
BY DEF Promise!vars, Status, Created

LEMMA PromiseMail ==
    ASSUME Invariant, NEW r \in Request, saga[r] # "none",
           emailed' = emailed \cup {r}, UNCHANGED row, Created' = Created
    PROVE  Promise!Mail(r)
BY DEF Promise!Mail, Status, Created, Invariant, TypeOK, TablesInOrder, RowsMatchSagas

LEMMA PromiseAnswer ==
    ASSUME NEW r \in Request, r \in emailed, UNCHANGED <<row, emailed>>,
           Created' = Created \cup {r}
    PROVE  Promise!AnswerCreated(r)
BY DEF Promise!AnswerCreated, Status, Created

LEMMA PromiseRow ==
    ASSUME Invariant, NEW r \in Request, NEW new, row' = [row EXCEPT ![r] = new],
           UNCHANGED emailed, Created' = Created
    PROVE  /\ /\ new = "unconfirmed" /\ row[r] = "absent"
              /\ \A s \in Twins(r) : ~Stored(s)
              => Promise!Store(r)
           /\ row[r] = "unconfirmed" /\ new = "confirmed" /\ r \in emailed
              => Promise!Activate(r)
           /\ Stored(r) /\ new \in {"unsubscribed", "compensated"}
              => Promise!Remove(r)
<1>1. [s \in Request |-> Status(s)]' = [[s \in Request |-> Status(s)] EXCEPT ![r] = Status(r)']
  BY DEF Status, Invariant, TypeOK
<1>2. row'[r] = new
  BY DEF Invariant, TypeOK
<1>. USE <1>1, <1>2 DEF Status, Created
<1>3. ASSUME new = "unconfirmed", row[r] = "absent", \A s \in Twins(r) : ~Stored(s)
      PROVE  Promise!Store(r)
  BY <1>3 DEF Promise!Store, Promise!Alive, Twins, Stored
<1>4. ASSUME row[r] = "unconfirmed", new = "confirmed", r \in emailed
      PROVE  Promise!Activate(r)
  BY <1>4 DEF Promise!Activate
<1>5. ASSUME Stored(r), new \in {"unsubscribed", "compensated"}
      PROVE  Promise!Remove(r)
  BY <1>5 DEF Promise!Remove, Promise!Alive, Stored
<1>. QED BY <1>3, <1>4, <1>5

\* A rollback deletes by email and repository, yet at most one row goes.
LEMMA PromiseRemove ==
    ASSUME Invariant, NEW p \in Proc, RemoveSubscription(p)
    PROVE  (\E r \in Request : Promise!Remove(r)) \/ UNCHANGED Promise!vars
<1>1. UNCHANGED emailed /\ Created' = Created
  BY DEF RemoveSubscription, Created
<1>2. CASE \E s \in Twins(on[p]) : Stored(s)
  <2>1. PICK s \in Request : s \in Twins(on[p]) /\ Stored(s)
    BY <1>2 DEF Twins
  <2>2. \A t \in Request : t \in Twins(on[p]) /\ Stored(t) => t = s
    BY <2>1 DEF Twins, Invariant, TablesInOrder, OneRowPerPair
  <2>3. row' = [row EXCEPT ![s] = "compensated"]
    <3>1. row' = [t \in Request |-> IF t = s THEN "compensated" ELSE row[t]]
      BY <2>1, <2>2 DEF RemoveSubscription
    <3>. QED BY <3>1 DEF Invariant, TypeOK
  <2>. QED BY <1>1, <2>1, <2>3, PromiseRow
<1>3. CASE \A s \in Twins(on[p]) : ~Stored(s)
  <2>1. UNCHANGED row
    BY <1>3 DEF RemoveSubscription, Invariant, TypeOK
  <2>. QED BY <1>1, <2>1, PromiseFrame
<1>. QED BY <1>2, <1>3

\* Which answers the end of the process or the return of a handler gives out.
LEMMA DieCreates ==
    ASSUME NEW answers, Die(answers)
    PROVE  /\ UNCHANGED emailed
           /\ Created' = {r \in Request : answers[r] = "CREATED"}
BY DEF Die, Created

LEMMA HandlerReturnsCreates ==
    ASSUME NEW w, NEW a, NEW answers, HandlerReturns(w, a, answers)
    PROVE  /\ UNCHANGED emailed
           /\ Created' = {r \in Request : answers[r] = "CREATED"}
BY DieCreates DEF HandlerReturns, Created

LEMMA PromiseRequest ==
    ASSUME Invariant, NEW r \in Request, RequestNext(r)
    PROVE  [Promise!Next]_(Promise!vars)
<1>1. CASE TxCommit(r)
  <2>1. row[r] = "absent"
    BY <1>1 DEF TxCommit, Invariant, TypeOK, HandlersInOrder, RequestsInOrder, TablesInOrder,
           RowsMatchSagas
  <2>2. Promise!Store(r)
    BY <1>1, <2>1, PromiseRow DEF TxCommit, Created
  <2>. QED BY <2>2 DEF Promise!Next
<1>2. CASE Resend(r)
  <2>1. on[r] \in Request /\ saga[on[r]] # "none"
    BY <1>2 DEF Resend, Invariant, HandlersInOrder, RequestsInOrder
  <2>2. resp[r] = "none"
    BY <1>2 DEF Resend, Invariant, HandlersInOrder, RequestsInOrder
  <2>3. Created' = Created
    BY <1>2, <2>2 DEF Resend, Answer, Created, Invariant, TypeOK
  <2>4. CASE emailed' = emailed \cup {on[r]}
    BY <1>2, <2>1, <2>3, <2>4, PromiseMail DEF Resend, Promise!Next
  <2>5. CASE UNCHANGED emailed
    BY <1>2, <2>3, <2>5, PromiseFrame DEF Resend
  <2>. QED BY <1>2, <2>4, <2>5 DEF Resend
<1>3. CASE TxReturns(r)
  <2>1. CASE at[r] = "committed"
    BY <1>3, <2>1, PromiseFrame DEF TxReturns, Created
  <2>2. CASE at[r] = "resolved"
    <3>1. r \in emailed
      BY <2>2 DEF Invariant, HandlersInOrder, RequestsInOrder
    <3>2. Created' = Created \cup {r}
      BY <1>3, <2>2 DEF TxReturns, Answer, Created, Invariant, TypeOK
    <3>. QED BY <1>3, <3>1, <3>2, PromiseAnswer DEF TxReturns, Promise!Next
  <2>. QED BY <1>3, <2>1, <2>2 DEF TxReturns
<1>4. CASE RemoveSubscription(r)
  BY <1>4, PromiseRemove DEF Promise!Next
<1>5. CASE TimerFires(r)
  <2>1. UNCHANGED <<row, emailed>> /\ Created' = Created
    BY <1>5, DieCreates DEF TimerFires, Created
  <2>. QED BY <2>1, PromiseFrame
<1>6. CASE SubscribeConflict(r) \/ LookupFails(r) \/ TxDuplicate(r) \/ TxFails(r)
           \/ CheckSaga(r) \/ CheckFails(r) \/ AnswerTimeout(r)
  <2>1. resp[r] = "none"
    BY <1>6 DEF SubscribeConflict, LookupFails, TxDuplicate, TxFails, CheckSaga, CheckFails,
           AnswerTimeout, Invariant, HandlersInOrder, RequestsInOrder
  <2>2. Created' = Created
    BY <1>6, <2>1 DEF SubscribeConflict, LookupFails, TxDuplicate, TxFails, CheckSaga, CheckFails,
           AnswerTimeout, Answer, Created, Invariant, TypeOK
  <2>3. UNCHANGED <<row, emailed>>
    BY <1>6 DEF SubscribeConflict, LookupFails, TxDuplicate, TxFails, CheckSaga, CheckFails,
           AnswerTimeout
  <2>. QED BY <2>2, <2>3, PromiseFrame
<1>7. CASE SubscribeNew(r) \/ SubscribeAgain(r) \/ MarkCompensating(r) \/ MarkFailed(r)
           \/ RollbackFails(r)
  <2>1. UNCHANGED <<row, emailed>> /\ Created' = Created
    BY <1>7 DEF SubscribeNew, SubscribeAgain, MarkCompensating, MarkFailed, RollbackFails, Created
  <2>. QED BY <2>1, PromiseFrame
<1>. QED BY <1>1, <1>2, <1>3, <1>4, <1>5, <1>6, <1>7 DEF RequestNext, RequestStep, Rollback

LEMMA PromiseWorker ==
    ASSUME Invariant, NEW w \in Worker, WorkerNext(w)
    PROVE  [Promise!Next]_(Promise!vars)
<1>1. at[w] \notin {"idle", "read"} => on[w] \in Request /\ saga[on[w]] # "none"
  BY DEF Invariant, HandlersInOrder, WorkersInOrder
<1>2. CASE SendConfirmation(w)
  <2>1. at[w] = "send" /\ UNCHANGED row /\ Created' = Created
    BY <1>2 DEF SendConfirmation, Created
  <2>2. CASE emailed' = emailed \cup {on[w]}
    BY <1>1, <2>1, <2>2, PromiseMail DEF Promise!Next
  <2>3. CASE UNCHANGED emailed
    BY <2>1, <2>3, PromiseFrame
  <2>. QED BY <1>2, <2>2, <2>3 DEF SendConfirmation
<1>3. CASE ResolveWaiter(w)
  <2>1. PICK r \in Request : r = on[w] /\ r \in emailed
    BY <1>3 DEF ResolveWaiter, Invariant, HandlersInOrder, WorkersInOrder
  <2>2. UNCHANGED row
    BY <1>3 DEF ResolveWaiter
  <2>3. CASE \E a : HandlerReturns(w, a, resp)
    <3>1. UNCHANGED emailed /\ Created' = Created
      <4>1. PICK a : HandlerReturns(w, a, resp)
        BY <2>3
      <4>. QED BY <4>1, HandlerReturnsCreates DEF Created
    <3>. QED BY <2>2, <3>1, PromiseFrame
  <2>4. CASE \E a : HandlerReturns(w, a, [resp EXCEPT ![r] = "CREATED"])
    <3>. PICK a, answers : HandlerReturns(w, a, answers) /\ answers = [resp EXCEPT ![r] = "CREATED"]
      BY <2>4
    <3>0. HandlerReturns(w, a, answers)
      OBVIOUS
    <3>1. UNCHANGED emailed /\ Created' = {s \in Request : answers[s] = "CREATED"}
      BY ONLY <3>0, HandlerReturnsCreates
    <3>2. Created' = Created \cup {r}
      BY <3>1 DEF Created, Invariant, TypeOK
    <3>. QED BY <2>1, <2>2, <3>1, <3>2, PromiseAnswer DEF Promise!Next
  <2>. QED BY <1>3, <2>1, <2>3, <2>4 DEF ResolveWaiter
<1>4. CASE RejectWaiter(w)
  <2>1. PICK r \in Request : r = on[w]
    BY <1>1, <1>4 DEF RejectWaiter
  <2>2. PICK answers : /\ \A s \in Request : answers[s] = "CREATED" <=> resp[s] = "CREATED"
                       /\ Die(answers) \/ \E a : HandlerReturns(w, a, answers)
    <3>1. CASE r \in registry /\ at[r] = "await"
      <4>1. resp[r] = "none"
        BY <3>1 DEF Invariant, HandlersInOrder, RequestsInOrder
      <4>2. \A s \in Request :
              [resp EXCEPT ![r] = Trigger(w)][s] = "CREATED" <=> resp[s] = "CREATED"
        BY <4>1 DEF Trigger, Invariant, TypeOK
      <4>. QED BY <1>4, <2>1, <3>1, <4>2 DEF RejectWaiter
    <3>2. CASE ~(r \in registry /\ at[r] = "await")
      BY <1>4, <2>1, <3>2 DEF RejectWaiter
    <3>. QED BY <3>1, <3>2
  <2>3. UNCHANGED emailed /\ Created' = {s \in Request : answers[s] = "CREATED"}
    BY <2>2, DieCreates, HandlerReturnsCreates
  <2>4. UNCHANGED <<row, emailed>> /\ Created' = Created
    BY <1>4, <2>2, <2>3 DEF RejectWaiter, Created
  <2>. QED BY <2>4, PromiseFrame
<1>5. CASE RemoveSubscription(w)
  BY <1>5, PromiseRemove DEF Promise!Next
<1>6. CASE UpdateConfirmed(w)
  <2>1. PICK r \in Request : r = on[w] /\ r \in emailed
    BY <1>6 DEF UpdateConfirmed, Invariant, HandlersInOrder, WorkersInOrder
  <2>2. UNCHANGED emailed /\ Created' = Created
    BY <1>6 DEF UpdateConfirmed, Created
  <2>3. CASE row[r] = "unconfirmed"
    <3>1. row' = [row EXCEPT ![r] = "confirmed"]
      BY <1>6, <2>1, <2>3 DEF UpdateConfirmed, Invariant, TypeOK
    <3>. QED BY <2>1, <2>2, <2>3, <3>1, PromiseRow DEF Promise!Next
  <2>4. CASE row[r] # "unconfirmed"
    <3>1. UNCHANGED row
      BY <1>6, <2>1, <2>4 DEF UpdateConfirmed, Invariant, TypeOK
    <3>. QED BY <2>2, <3>1, PromiseFrame
  <2>. QED BY <2>3, <2>4
<1>7. CASE DeleteById(w)
  <2>1. PICK r \in Request : r = on[w]
    BY <1>1, <1>7 DEF DeleteById
  <2>2. UNCHANGED emailed /\ Created' = Created
    BY <1>7 DEF DeleteById, Created
  <2>3. CASE Stored(r)
    <3>1. row' = [row EXCEPT ![r] = "unsubscribed"]
      BY <1>7, <2>1, <2>3 DEF DeleteById, Invariant, TypeOK
    <3>. QED BY <2>1, <2>2, <2>3, <3>1, PromiseRow DEF Promise!Next
  <2>4. CASE ~Stored(r)
    <3>1. UNCHANGED row
      BY <1>7, <2>1, <2>4 DEF DeleteById, Invariant, TypeOK
    <3>. QED BY <2>2, <3>1, PromiseFrame
  <2>. QED BY <2>3, <2>4
<1>8. CASE \/ (\E m \in Message : TakeReply(w, m)) \/ ReadSaga(w)
           \/ \E r \in Request : Confirm(w, r) \/ Unsubscribe(w, r)
           \/ MarkCompleted(w) \/ MarkCompensating(w) \/ MarkFailed(w)
           \/ CompleteFails(w) \/ RollbackFails(w)
           \/ CountRemaining(w) \/ PublishUntrack(w) \/ ClickFails(w)
  <2>1. UNCHANGED <<row, emailed>> /\ Created' = Created
    BY <1>8 DEF TakeReply, ReadSaga, Confirm, Unsubscribe, MarkCompleted, MarkCompensating, MarkFailed,
           CompleteFails, RollbackFails, CountRemaining, PublishUntrack, ClickFails, Created
  <2>. QED BY <2>1, PromiseFrame
<1>9. CASE IgnoreReply(w) \/ LoseReply(w)
  <2>1. UNCHANGED <<row, emailed>> /\ Created' = Created
    BY <1>9, HandlerReturnsCreates DEF IgnoreReply, LoseReply, Created
  <2>. QED BY <2>1, PromiseFrame
<1>. QED BY <1>2, <1>3, <1>4, <1>5, <1>6, <1>7, <1>8, <1>9
       DEF WorkerNext, ConsumerStep, ClickStep, Rollback

LEMMA PromiseStep == Invariant /\ [Next]_vars => [Promise!Next]_(Promise!vars)
<1>. SUFFICES ASSUME Invariant, [Next]_vars PROVE [Promise!Next]_(Promise!vars)
  OBVIOUS
<1>1. CASE \E r \in Request : RequestNext(r)
  BY <1>1, PromiseRequest
<1>2. CASE \E w \in Worker : WorkerNext(w)
  BY <1>2, PromiseWorker
<1>3. CASE \/ \E m \in Message : Reply(m)
           \/ CloseChannel \/ Restart \/ UNCHANGED vars
  <2>1. UNCHANGED <<row, emailed>> /\ Created' = Created
    BY <1>3 DEF Reply, CloseChannel, Restart, vars, Created
  <2>. QED BY <2>1, PromiseFrame
<1>4. CASE Crash
  <2>1. UNCHANGED <<row, emailed>> /\ Created' = Created
    BY <1>4, DieCreates DEF Crash, Created
  <2>. QED BY <2>1, PromiseFrame
<1>. QED BY <1>1, <1>2, <1>3, <1>4 DEF Next

\* Sagas, timers, redelivered messages, rollbacks and restarts, seen from
\* outside, are an exclusive double opt-in.
THEOREM ServiceKeepsPromise == Spec => KeepsPromise
<1>1. Init => Promise!Init
  BY PromiseInit
<1>2. Invariant /\ [Next]_vars => [Promise!Next]_(Promise!vars)
  BY PromiseStep
<1>. QED BY <1>1, <1>2, InvariantHolds, PTL DEF Spec, KeepsPromise, Promise!Spec
====
