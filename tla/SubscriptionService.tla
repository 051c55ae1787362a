------------------------ MODULE SubscriptionService ------------------------
(***************************************************************************)
(* The subscription service: POST /subscribe and the saga it starts, the   *)
(* handlers of the repo-manager's replies, GET /confirm and                *)
(* GET /unsubscribe, the registry of HTTP requests that wait for their     *)
(* saga, and the death and restart of the one Node process they run in.    *)
(*                                                                         *)
(* JavaScript runs a handler without interruption from one await to the    *)
(* next.  Each action below is therefore one database statement together   *)
(* with the code that runs up to the next statement; everything else may   *)
(* happen in between.                                                      *)
(*                                                                         *)
(* A subscribe request r names everything it creates: the subscription     *)
(* row, its two tokens and the saga (their ids are fresh UUIDs).           *)
(***************************************************************************)
EXTENDS Naturals, FiniteSets

CONSTANTS
    Request,    \* POST /subscribe requests
    Worker,     \* slots for the other handlers: consumers and GET routes
    Message,    \* messages the repo-manager may send in reply
    Email, Repo,
    Asks,       \* what each request asks for: an email and a repository
    None,       \* no request, no message
    MaxFaults,  \* bound on failed statements and closed channels
    MaxCrashes  \* bound on deaths of the process from outside

\* What a reply says: repository.registered, or repository.failed with an
\* error text that does or does not contain "not found".
Kind == {"registered", "notFound", "failed"}

ASSUME ConstantsAssumption ==
    /\ Asks \in [Request -> Email \X Repo]
    /\ Request \cap Worker = {}
    /\ None \notin Request /\ None \notin Message
    /\ MaxFaults \in Nat /\ MaxCrashes \in Nat

ASSUME NoneAssumption == None \notin [kind : Kind, saga : Request]

Proc == Request \cup Worker

RepoOf(r) == Asks[r][2]

RowState  == {"absent", "unconfirmed", "confirmed", "unsubscribed", "compensated"}
SagaState == {"none", "STARTED", "COMPLETED", "COMPENSATING", "FAILED"}
Outcome   == {"none", "CREATED", "RESENT", "CONFLICT", "NOTFOUND", "TIMEOUT",
              "ERROR", "LOST"}

\* Where a handler waits: for the statement it has issued, or (await) for
\* its saga.
RequestAt == {"idle", "tx", "committed", "resolved", "await", "check", "resend",
              "mark", "remove", "fail", "reject", "done"}
WorkerAt  == {"idle", "read", "send", "complete", "resolve",
              "mark", "remove", "fail", "reject",
              "confirm", "delete", "count", "untrack"}

VARIABLES
    row,        \* the subscriptions table (deleted rows keep how they went)
    saga,       \* the sagas table: the state column
    emailed,    \* rows whose tokens were published as email.confirmation
    untracks,   \* repositories for which repository.untrack was published
    content,    \* what each reply message says, None before it is sent
    queue,      \* replies the broker holds for this service
    at,         \* program counter of each handler
    on,         \* the row and saga a handler works on
    task,       \* the unacknowledged message a worker handles
    registry,   \* SagaRegistry.resolvers: sagas with an armed 10 s timer
    up,         \* the process runs
    channel,    \* its AMQP channel is open
    resp,       \* the answer the client of a subscribe request got
    faults, crashes

db      == <<row, saga>>
broker  == <<emailed, untracks, content, queue>>
process == <<registry, up, channel>>
budget  == <<faults, crashes>>
vars    == <<db, broker, at, on, task, process, resp, budget>>

TypeOK ==
    /\ row \in [Request -> RowState]
    /\ saga \in [Request -> SagaState]
    /\ emailed \subseteq Request
    /\ untracks \subseteq Repo
    /\ content \in [Message -> [kind : Kind, saga : Request] \cup {None}]
    /\ queue \subseteq Message
    /\ at \in [Proc -> RequestAt \cup WorkerAt]
    /\ \A r \in Request : at[r] \in RequestAt
    /\ \A w \in Worker : at[w] \in WorkerAt
    /\ on \in [Proc -> Request \cup {None}]
    /\ task \in [Worker -> Message \cup {None}]
    /\ registry \subseteq Request
    /\ up \in BOOLEAN /\ channel \in BOOLEAN
    /\ resp \in [Request -> Outcome]
    /\ faults \in 0..MaxFaults
    /\ crashes \in 0..MaxCrashes

Init ==
    /\ row = [r \in Request |-> "absent"]
    /\ saga = [r \in Request |-> "none"]
    /\ emailed = {} /\ untracks = {}
    /\ content = [m \in Message |-> None]
    /\ queue = {}
    /\ at = [p \in Proc |-> "idle"]
    /\ on = [p \in Proc |-> None]
    /\ task = [w \in Worker |-> None]
    /\ registry = {}
    /\ up = TRUE /\ channel = TRUE
    /\ resp = [r \in Request |-> "none"]
    /\ faults = 0 /\ crashes = 0

-----------------------------------------------------------------------------
(* Vocabulary *)

Stored(r) == row[r] \in {"unconfirmed", "confirmed"}

\* The rows the unique index (email, repo_name) makes exclusive.
Twins(r) == {s \in Request : Asks[s] = Asks[r]}

\* The reply m says kind of the saga r.
Says(m, kind, r) == content[m] # None /\ content[m].kind = kind /\ content[m].saga = r

\* The saga that the message a worker handles is about.
SagaOf(w) == content[task[w]].saga

\* The handler p runs on to its next wait; nothing else of its state changes.
Goto(p, label) == at' = [at EXCEPT ![p] = label]

Answer(r, outcome) ==
    /\ at' = [at EXCEPT ![r] = "done"]
    /\ resp' = [resp EXCEPT ![r] = outcome]

Fault == faults < MaxFaults /\ faults' = faults + 1 /\ UNCHANGED crashes

\* The statement of p has taken effect.  Its await returns, and p runs on to
\* next; or the acknowledgement is lost, and the exception takes p to otherwise.
Acknowledged(p, next, otherwise) ==
    \/ Goto(p, next) /\ UNCHANGED budget
    \/ Goto(p, otherwise) /\ Fault

\* The slot of a worker is free again.
Release(w) ==
    /\ on' = [on EXCEPT ![w] = None]
    /\ task' = [task EXCEPT ![w] = None]

\* The broker puts back what a vanished channel had not acknowledged.
Requeued == IF channel THEN queue \cup ({task[w] : w \in Worker} \ {None}) ELSE queue

\* The process ends.  Timers, promises and handlers vanish with it; a client
\* that had not been answered (answers says what got out) sees its connection
\* reset.
Die(answers) ==
    /\ up' = FALSE /\ channel' = FALSE
    /\ registry' = {}
    /\ at' = [p \in Proc |-> IF p \in Request /\ at[p] # "idle" THEN "done" ELSE "idle"]
    /\ on' = [p \in Proc |-> None]
    /\ task' = [w \in Worker |-> None]
    /\ resp' = [r \in Request |-> IF at[r] # "idle" /\ answers[r] = "none"
                                  THEN "LOST" ELSE answers[r]]
    /\ queue' = Requeued
    /\ UNCHANGED <<emailed, untracks, content>>

\* A consumer's handler returns, having left the program counters a and the
\* answers given.  amqplib's ack throws on a closed channel, and so does the
\* nack in the catch block: an unhandled rejection, which ends the process.
HandlerReturns(w, a, answers) ==
    \/ /\ channel
       /\ at' = [a EXCEPT ![w] = "idle"]
       /\ resp' = answers
       /\ registry' = registry \ {on[w]}
       /\ Release(w)
       /\ UNCHANGED <<broker, up, channel>>
    \/ /\ ~channel
       /\ Die(answers)

-----------------------------------------------------------------------------
(* Slips a change to the code could make: each takes the place of the action *)
(* it is named after, to see that a property notices.                        *)

\* No entry in SagaRegistry.
SubscribeUnregistered(r) ==
    /\ up /\ at[r] = "idle"
    /\ \A s \in Twins(r) : ~Stored(s)
    /\ on' = [on EXCEPT ![r] = r]
    /\ Goto(r, "tx")
    /\ UNCHANGED <<db, broker, task, process, resp, budget>>

\* No unique index.
TxCommitAnyway(r) ==
    /\ at[r] = "tx"
    /\ row' = [row EXCEPT ![r] = "unconfirmed"]
    /\ saga' = [saga EXCEPT ![r] = "STARTED"]
    /\ Goto(r, "committed")
    /\ UNCHANGED <<broker, on, task, process, resp, budget>>

\* The subscription is inserted outside the saga's transaction.
TxCommitRowOnly(r) ==
    /\ at[r] = "tx"
    /\ \A s \in Twins(r) : ~Stored(s)
    /\ row' = [row EXCEPT ![r] = "unconfirmed"]
    /\ Goto(r, "committed")
    /\ UNCHANGED <<saga, broker, on, task, process, resp, budget>>

\* The timeout is rethrown without compensation.
CheckNothing(r) ==
    /\ at[r] = "check"
    /\ Answer(r, "TIMEOUT")
    /\ UNCHANGED <<db, broker, on, task, process, budget>>

\* DELETE ... AND confirmed = false
RemoveUnconfirmed(p) ==
    /\ at[p] = "remove"
    /\ row' = [s \in Request |-> IF s \in Twins(on[p]) /\ row[s] = "unconfirmed"
                                 THEN "compensated" ELSE row[s]]
    /\ Goto(p, "fail")
    /\ UNCHANGED <<saga, broker, on, task, process, resp, budget>>

\* The finally block is gone.
MarkFailedAndStop(p) ==
    /\ at[p] = "fail"
    /\ saga' = [saga EXCEPT ![on[p]] = "FAILED"]
    /\ Goto(p, "done")
    /\ UNCHANGED <<row, broker, on, task, process, resp, budget>>

\* Each statement of the rollback is tried, whatever became of the one before.
RollbackGoesOn(p) ==
    /\ at[p] \in {"mark", "remove", "fail"}
    /\ Fault
    /\ Goto(p, IF at[p] = "mark" THEN "remove" ELSE IF at[p] = "remove" THEN "fail" ELSE "reject")
    /\ UNCHANGED <<db, broker, on, task, process, resp>>

\* COMPLETED is recorded first.
ReadSagaUnmailed(w) ==
    /\ at[w] = "read"
    /\ saga[SagaOf(w)] = "STARTED"
    /\ on' = [on EXCEPT ![w] = SagaOf(w)]
    /\ Goto(w, IF content[task[w]].kind = "registered" THEN "complete" ELSE "mark")
    /\ UNCHANGED <<db, broker, task, process, resp, budget>>

-----------------------------------------------------------------------------
(* POST /subscribe: subscribeToRepo and SagaOrchestrator.start *)

SubscribeNew(r) ==
    /\ up /\ at[r] = "idle"
    /\ \A s \in Twins(r) : ~Stored(s)
    /\ registry' = registry \cup {r}
    /\ on' = [on EXCEPT ![r] = r]
    /\ Goto(r, "tx")
    /\ UNCHANGED <<db, broker, task, up, channel, resp, budget>>

SubscribeConflict(r) ==
    /\ up /\ at[r] = "idle"
    /\ \E s \in Twins(r) : row[s] = "confirmed"
    /\ Answer(r, "CONFLICT")
    /\ UNCHANGED <<db, broker, on, task, process, budget>>

SubscribeAgain(r) ==
    /\ up /\ at[r] = "idle"
    /\ \E s \in Twins(r) : row[s] = "unconfirmed" /\ on' = [on EXCEPT ![r] = s]
    /\ Goto(r, "resend")
    /\ UNCHANGED <<db, broker, task, process, resp, budget>>

Resend(r) ==
    /\ at[r] = "resend"
    /\ \/ /\ channel
          /\ emailed' = emailed \cup {on[r]}
          /\ Answer(r, "RESENT")
       \/ /\ ~channel
          /\ Answer(r, "ERROR")
          /\ UNCHANGED emailed
    /\ UNCHANGED <<db, untracks, content, queue, on, task, process, budget>>

LookupFails(r) ==
    /\ up /\ at[r] = "idle"
    /\ Fault
    /\ Answer(r, "ERROR")
    /\ UNCHANGED <<db, broker, on, task, process>>

\* startSubscriptionSaga commits: saga, row and outbox record together.
TxCommit(r) ==
    /\ at[r] = "tx"
    /\ \A s \in Twins(r) : ~Stored(s)
    /\ row' = [row EXCEPT ![r] = "unconfirmed"]
    /\ saga' = [saga EXCEPT ![r] = "STARTED"]
    /\ Goto(r, "committed")
    /\ UNCHANGED <<broker, on, task, process, resp, budget>>

\* The insert violates the unique index.  The exception leaves start() before
\* anybody awaits the saga's promise, whose timer stays armed.
TxDuplicate(r) ==
    /\ at[r] = "tx"
    /\ \E s \in Twins(r) : Stored(s)
    /\ Answer(r, "ERROR")
    /\ UNCHANGED <<db, broker, on, task, process, budget>>

\* The same after a database error, before or after the commit took effect.
TxFails(r) ==
    /\ at[r] \in {"tx", "committed", "resolved"}
    /\ Fault
    /\ Answer(r, "ERROR")
    /\ UNCHANGED <<db, broker, on, task, process>>

\* The acknowledged commit reaches start(), which awaits the saga's promise.
TxReturns(r) ==
    /\ \/ /\ at[r] = "committed"
          /\ Goto(r, "await") /\ UNCHANGED resp
       \/ /\ at[r] = "resolved"
          /\ Answer(r, "CREATED")
    /\ UNCHANGED <<db, broker, on, task, process, budget>>

\* The registry's timer rejects the promise.  Nobody handles the rejection
\* unless start() awaits the promise at that moment.
TimerFires(r) ==
    /\ r \in registry
    /\ \/ /\ at[r] = "await"
          /\ registry' = registry \ {r}
          /\ Goto(r, "check")
          /\ UNCHANGED <<broker, on, task, up, channel, resp>>
       \/ /\ at[r] # "await"
          /\ Die(resp)
    /\ UNCHANGED <<db, budget>>

\* getSaga after the timeout.
CheckSaga(r) ==
    /\ at[r] = "check"
    /\ \/ /\ saga[r] = "STARTED"
          /\ Goto(r, "mark") /\ UNCHANGED resp
       \/ /\ saga[r] # "STARTED"
          /\ Answer(r, "TIMEOUT")
    /\ UNCHANGED <<db, broker, on, task, process, budget>>

CheckFails(r) ==
    /\ at[r] = "check"
    /\ Fault
    /\ Answer(r, "ERROR")
    /\ UNCHANGED <<db, broker, on, task, process>>

-----------------------------------------------------------------------------
(* SagaOrchestrator.rollback, by a request that timed out or by a worker *)

MarkCompensating(p) ==
    /\ at[p] = "mark"
    /\ saga' = [saga EXCEPT ![on[p]] = "COMPENSATING"]
    /\ Acknowledged(p, "remove", "reject")
    /\ UNCHANGED <<row, broker, on, task, process, resp>>

\* DELETE ... WHERE email = $1 AND repo_name = $2
RemoveSubscription(p) ==
    /\ at[p] = "remove"
    /\ row' = [s \in Request |-> IF s \in Twins(on[p]) /\ Stored(s)
                                 THEN "compensated" ELSE row[s]]
    /\ Acknowledged(p, "fail", "reject")
    /\ UNCHANGED <<saga, broker, on, task, process, resp>>

\* Here a lost acknowledgement makes no difference.
MarkFailed(p) ==
    /\ at[p] = "fail"
    /\ saga' = [saga EXCEPT ![on[p]] = "FAILED"]
    /\ Goto(p, "reject")
    /\ UNCHANGED <<row, broker, on, task, process, resp, budget>>

\* A statement that fails without effect is logged; the finally block still
\* rejects.
RollbackFails(p) ==
    /\ at[p] \in {"mark", "remove", "fail"}
    /\ Fault
    /\ Goto(p, "reject")
    /\ UNCHANGED <<db, broker, on, task, process, resp>>

\* The request is no longer in the registry: start() rethrows the timeout.
AnswerTimeout(r) ==
    /\ at[r] = "reject"
    /\ Answer(r, "TIMEOUT")
    /\ UNCHANGED <<db, broker, on, task, process, budget>>

\* The error a worker's rollback was called with, as the client sees it.
Trigger(w) == IF content[task[w]].kind = "notFound" THEN "NOTFOUND" ELSE "ERROR"

\* SagaRegistry.reject, and the return of the worker's handler.
RejectWaiter(w) ==
    /\ at[w] = "reject"
    /\ LET r == on[w] IN
       \/ /\ r \notin registry
          /\ HandlerReturns(w, at, resp)
       \/ /\ r \in registry /\ at[r] = "await"
          /\ HandlerReturns(w, [at EXCEPT ![r] = "done"], [resp EXCEPT ![r] = Trigger(w)])
       \/ /\ r \in registry /\ at[r] # "await"
          /\ Die(resp)
    /\ UNCHANGED <<db, budget>>

-----------------------------------------------------------------------------
(* handleRepoRegistered and handleRepoFailed *)

\* The broker delivers a reply, whose handler asks for the saga.
TakeReply(w, m) ==
    /\ up /\ channel /\ at[w] = "idle"
    /\ m \in queue
    /\ queue' = queue \ {m}
    /\ task' = [task EXCEPT ![w] = m]
    /\ Goto(w, "read")
    /\ UNCHANGED <<db, emailed, untracks, content, on, process, resp, budget>>

\* getSaga finds the saga STARTED.
ReadSaga(w) ==
    /\ at[w] = "read"
    /\ saga[SagaOf(w)] = "STARTED"
    /\ on' = [on EXCEPT ![w] = SagaOf(w)]
    /\ Goto(w, IF content[task[w]].kind = "registered" THEN "send" ELSE "mark")
    /\ UNCHANGED <<db, broker, task, process, resp, budget>>

\* The saga is not STARTED any more: the handler returns at once.
IgnoreReply(w) ==
    /\ at[w] = "read"
    /\ saga[SagaOf(w)] # "STARTED"
    /\ HandlerReturns(w, at, resp)
    /\ UNCHANGED <<db, budget>>

\* getSaga throws: the message is nacked without requeue, if it still can be.
LoseReply(w) ==
    /\ at[w] = "read"
    /\ Fault
    /\ HandlerReturns(w, at, resp)
    /\ UNCHANGED db

SendConfirmation(w) ==
    /\ at[w] = "send"
    /\ \/ /\ channel
          /\ emailed' = emailed \cup {on[w]}
          /\ Goto(w, "complete")
       \/ /\ ~channel
          /\ Goto(w, "mark")
          /\ UNCHANGED emailed
    /\ UNCHANGED <<db, untracks, content, queue, on, task, process, resp, budget>>

\* An exception makes the handler compensate, although the email is out and the
\* saga may be recorded as COMPLETED.
MarkCompleted(w) ==
    /\ at[w] = "complete"
    /\ saga' = [saga EXCEPT ![on[w]] = "COMPLETED"]
    /\ Acknowledged(w, "resolve", "mark")
    /\ UNCHANGED <<row, broker, on, task, process, resp>>

CompleteFails(w) ==
    /\ at[w] = "complete"
    /\ Fault
    /\ Goto(w, "mark")
    /\ UNCHANGED <<db, broker, on, task, process, resp>>

\* SagaRegistry.resolve, and the return of the worker's handler.
ResolveWaiter(w) ==
    /\ at[w] = "resolve"
    /\ LET r == on[w] IN
       \/ /\ r \in registry /\ at[r] = "await"
          /\ HandlerReturns(w, [at EXCEPT ![r] = "done"], [resp EXCEPT ![r] = "CREATED"])
       \/ /\ r \in registry /\ at[r] = "committed"
          /\ HandlerReturns(w, [at EXCEPT ![r] = "resolved"], resp)
       \/ /\ ~(r \in registry /\ at[r] \in {"await", "committed"})
          /\ HandlerReturns(w, at, resp)
    /\ UNCHANGED <<db, budget>>

-----------------------------------------------------------------------------
(* GET /confirm/:token and GET /unsubscribe/:token, for tokens somebody has *)

Confirm(w, r) ==
    /\ up /\ at[w] = "idle"
    /\ r \in emailed /\ row[r] = "unconfirmed"
    /\ on' = [on EXCEPT ![w] = r]
    /\ Goto(w, "confirm")
    /\ UNCHANGED <<db, broker, task, process, resp, budget>>

\* UPDATE ... WHERE id = $1: no row, no effect; the client is told CONFIRMED (or
\* 500, when the acknowledgement is lost: the handler ends either way).
UpdateConfirmed(w) ==
    /\ at[w] = "confirm"
    /\ row' = [row EXCEPT ![on[w]] = IF @ = "unconfirmed" THEN "confirmed" ELSE @]
    /\ Release(w)
    /\ Goto(w, "idle")
    /\ UNCHANGED <<saga, broker, process, resp, budget>>

Unsubscribe(w, r) ==
    /\ up /\ at[w] = "idle"
    /\ r \in emailed /\ Stored(r)
    /\ on' = [on EXCEPT ![w] = r]
    /\ Goto(w, "delete")
    /\ UNCHANGED <<db, broker, task, process, resp, budget>>

\* With its acknowledgement lost, the handler ends and counts nothing.
DeleteById(w) ==
    /\ at[w] = "delete"
    /\ row' = [row EXCEPT ![on[w]] = IF Stored(on[w]) THEN "unsubscribed" ELSE @]
    /\ \/ Goto(w, "count") /\ UNCHANGED <<on, task, budget>>
       \/ Goto(w, "idle") /\ Release(w) /\ Fault
    /\ UNCHANGED <<saga, broker, process, resp>>

CountRemaining(w) ==
    /\ at[w] = "count"
    /\ \/ /\ \A s \in Request : Stored(s) => RepoOf(s) # RepoOf(on[w])
          /\ Goto(w, "untrack")
          /\ UNCHANGED <<on, task>>
       \/ /\ \E s \in Request : Stored(s) /\ RepoOf(s) = RepoOf(on[w])
          /\ Goto(w, "idle")
          /\ Release(w)
    /\ UNCHANGED <<db, broker, process, resp, budget>>

PublishUntrack(w) ==
    /\ at[w] = "untrack"
    /\ untracks' = IF channel THEN untracks \cup {RepoOf(on[w])} ELSE untracks
    /\ Goto(w, "idle")
    /\ Release(w)
    /\ UNCHANGED <<db, emailed, content, queue, process, resp, budget>>

ClickFails(w) ==
    /\ at[w] \in {"confirm", "delete", "count"}
    /\ Fault
    /\ Goto(w, "idle")
    /\ Release(w)
    /\ UNCHANGED <<db, broker, process, resp>>

-----------------------------------------------------------------------------
(* The environment *)

\* The repo-manager answers a committed saga.  The outbox and the broker are
\* at-least-once, so answers repeat, and they may differ: two deliveries of one
\* repository.register for a new repository race on its unique index, and one
\* is answered "registered", the other "failed".
Reply(m) ==
    /\ content[m] = None
    /\ \E k \in Kind, r \in Request :
          /\ saga[r] # "none"
          /\ content' = [content EXCEPT ![m] = [kind |-> k, saga |-> r]]
    /\ queue' = queue \cup {m}
    /\ UNCHANGED <<db, emailed, untracks, at, on, task, process, resp, budget>>

\* The broker closes the connection in an orderly way, or shutdown() does; the
\* service never opens another one.  (A lost socket is an 'error' event nobody
\* listens to, and so a Crash.)
CloseChannel ==
    /\ up /\ channel
    /\ Fault
    /\ channel' = FALSE
    /\ queue' = Requeued
    /\ UNCHANGED <<db, emailed, untracks, content, at, on, task, registry, up, resp>>

Crash ==
    /\ up
    /\ crashes < MaxCrashes
    /\ crashes' = crashes + 1
    /\ Die(resp)
    /\ UNCHANGED <<db, faults>>

Restart ==
    /\ ~up
    /\ up' = TRUE /\ channel' = TRUE
    /\ UNCHANGED <<db, broker, at, on, task, registry, resp, budget>>

-----------------------------------------------------------------------------
Rollback(p) ==
    MarkCompensating(p) \/ RemoveSubscription(p) \/ MarkFailed(p)

\* What a request does on its own once it has been received.
RequestStep(r) ==
    \/ Resend(r) \/ TxCommit(r) \/ TxDuplicate(r) \/ TxReturns(r)
    \/ TimerFires(r) \/ CheckSaga(r) \/ Rollback(r) \/ AnswerTimeout(r)

RequestNext(r) ==
    \/ SubscribeNew(r) \/ SubscribeConflict(r) \/ SubscribeAgain(r)
    \/ RequestStep(r)
    \/ LookupFails(r) \/ TxFails(r) \/ CheckFails(r) \/ RollbackFails(r)

\* What a consumer does once it has taken a reply.
ConsumerStep(w) ==
    ReadSaga(w) \/ IgnoreReply(w) \/ SendConfirmation(w) \/ MarkCompleted(w) \/ ResolveWaiter(w)
    \/ Rollback(w) \/ RejectWaiter(w)

ClickStep(w) ==
    UpdateConfirmed(w) \/ DeleteById(w) \/ CountRemaining(w) \/ PublishUntrack(w)

WorkerNext(w) ==
    \/ \E m \in Message : TakeReply(w, m)
    \/ ConsumerStep(w) \/ LoseReply(w) \/ CompleteFails(w) \/ RollbackFails(w)
    \/ \E r \in Request : Confirm(w, r) \/ Unsubscribe(w, r)
    \/ ClickStep(w) \/ ClickFails(w)

Next ==
    \/ \E r \in Request : RequestNext(r)
    \/ \E w \in Worker : WorkerNext(w)
    \/ \E m \in Message : Reply(m)
    \/ CloseChannel \/ Crash \/ Restart

Spec == Init /\ [][Next]_vars

\* Node runs every callback whose statement has answered, and its timers fire.
FairSpec ==
    /\ Spec
    /\ \A r \in Request : WF_vars(RequestStep(r))
    /\ \A w \in Worker : WF_vars(ConsumerStep(w) \/ ClickStep(w))

-----------------------------------------------------------------------------
(* Properties *)

\* Whoever is told "subscription successful, confirmation email sent" was sent
\* that email: resolve() is reached only behind the publication, through
\* duplicated replies, redeliveries and deaths of the process.
CreatedMeansEmailed ==
    \A r \in Request : resp[r] = "CREATED" => r \in emailed

\* A saga recorded as COMPLETED has sent its email, even one whose handler was
\* overtaken by a rollback or whose process died before it answered.
CompletedMeansEmailed ==
    \A r \in Request : saga[r] = "COMPLETED" => r \in emailed

\* A saga recorded as FAILED has no subscription left behind, although the
\* rollback deletes by pair and may race a confirmation of the same row.
FailedMeansGone ==
    \A r \in Request : saga[r] = "FAILED" => row[r] \in {"unsubscribed", "compensated"}

\* 404 "repository not found" is answered only when the repo-manager said so,
\* and, unless a statement failed, once the subscription is gone.
NotFoundMeansGone ==
    \A r \in Request : resp[r] = "NOTFOUND" =>
        /\ \E m \in Message : Says(m, "notFound", r)
        /\ faults > 0 \/ ~Stored(r)

\* Once a client was told "Saga execution timed out", and no statement failed,
\* no reply can start on the saga any more, and its subscription is not left
\* half made: it is gone, or marked for compensation, or a handler that had
\* found the saga STARTED before has mailed its links and may complete it yet.
TimeoutIsFinal ==
    \A r \in Request : resp[r] = "TIMEOUT" /\ faults = 0 =>
        /\ saga[r] # "STARTED"
        /\ Stored(r) => r \in emailed \/ saga[r] = "COMPENSATING"

\* A request that waits for its saga always has a timer armed, so that losing
\* every reply delays its answer and never withholds it.
WaiterHasTimer ==
    \A r \in Request : at[r] = "await" => r \in registry

\* A repository is untracked only after a subscription to it, whose links were
\* mailed, is gone; the deletion that counted may be a rollback's, which
\* overtook the unsubscription.
UntrackMeansLeft ==
    \A repo \in untracks : \E r \in emailed :
        RepoOf(r) = repo /\ row[r] \in {"unsubscribed", "compensated"}

\* Of the requests that ask for the same email and repository, at most one has
\* a stored subscription, however their transactions and rollbacks interleave.
OneRowPerPair ==
    \A r, s \in Request : Asks[r] = Asks[s] /\ Stored(r) /\ Stored(s) => r = s

\* A saga that left STARTED never returns to it, and one that was never
\* committed leaves no trace: whatever handlers race, a saga starts once.
SagaStartsOnce ==
    [][\A r \in Request :
        /\ saga'[r] = "STARTED" => saga[r] \in {"none", "STARTED"}
        /\ saga'[r] # "none" <=> row'[r] # "absent"]_vars

\* The abstract promises of DoubleOptIn, by the state the service keeps.
Status(r) ==
    CASE row[r] = "absent" -> "absent"
      [] row[r] = "unconfirmed" -> "pending"
      [] row[r] = "confirmed" -> "active"
      [] OTHER -> "gone"

Promise == INSTANCE DoubleOptIn WITH
    Subscription <- Request, PairOf <- Asks,
    state <- [r \in Request |-> Status(r)],
    mailed <- emailed,
    answered <- {r \in Request : resp[r] = "CREATED"}

\* The service implements DoubleOptIn.
KeepsPromise == Promise!Spec

\* Every subscribe request that was received comes to an end: an answer, or a
\* connection reset by the death of the process.  Whatever replies are lost.
EveryRequestEnds ==
    \A r \in Request : (at[r] # "idle") ~> (at[r] = "done")

-----------------------------------------------------------------------------
(* What the repository says of the program, and the code does not do *)

\* "Compensating action C1: Delete the unconfirmed subscription": a rollback
\* deletes no confirmed subscription.
CompensatesUnconfirmedOnly ==
    [][\A r \in Request : row'[r] = "compensated" => row[r] # "confirmed"]_vars

\* "Subscription successful. Confirmation email sent.": when a request is
\* answered so, its subscription has not been compensated away.
CreatedIsKept ==
    [][\A r \in Request :
        resp[r] # "CREATED" /\ resp'[r] = "CREATED" => row'[r] # "compensated"]_vars

\* "handle these interruptions without system failure": the process ends only
\* when it is ended from outside.
StaysUp == [][up /\ ~up' => crashes' > crashes]_vars

\* "If no remaining subscriptions exist for this repo, trigger untracking":
\* when repository.untrack is published, nobody subscribes to the repository.
UntracksUnused ==
    [][\A r \in Request : Stored(r) => RepoOf(r) \notin untracks' \ untracks]_vars

-----------------------------------------------------------------------------
(* The inductive invariant behind these properties *)

RollbackAt == {"mark", "remove", "fail", "reject"}
SagaAt     == {"committed", "resolved", "await", "check"} \cup RollbackAt
ClickAt    == {"confirm", "delete", "count", "untrack"}

\* The row and the saga of a request come into being together.
RowsMatchSagas == \A r \in Request : row[r] = "absent" <=> saga[r] = "none"

\* What a request's program counter says of its saga and its timer.
RequestsInOrder == \A r \in Request :
    /\ at[r] \in {"idle", "tx"} => saga[r] = "none"
    /\ at[r] = "tx" => on[r] = r
    /\ at[r] \in SagaAt => on[r] = r /\ saga[r] # "none"
    /\ at[r] = "resend" => on[r] \in Request /\ saga[on[r]] # "none"
    /\ at[r] \in {"tx", "committed"} => r \in registry
    /\ r \in registry => at[r] \in {"tx", "committed", "await", "done"}
    /\ at[r] = "resolved" => r \in emailed
    /\ at[r] # "done" => resp[r] = "none"

\* What a worker's program counter says of the saga and the message it handles.
WorkersInOrder == \A w \in Worker :
    /\ at[w] \in {"idle", "read"} => on[w] = None
    /\ at[w] \notin {"idle", "read"} => on[w] \in Request /\ saga[on[w]] # "none"
    /\ at[w] \in {"complete", "resolve"} \cup ClickAt => on[w] \in emailed
    /\ at[w] \in {"count", "untrack"} => ~Stored(on[w])
    /\ at[w] \in {"idle"} \cup ClickAt => task[w] = None
    /\ at[w] \notin {"idle"} \cup ClickAt => task[w] \in Message /\ content[task[w]] # None
    /\ at[w] \notin {"idle", "read"} \cup ClickAt => SagaOf(w) = on[w]

\* How far a rollback has come.
RollbacksInOrder == \A p \in Proc :
    /\ at[p] = "fail" => ~Stored(on[p])
    /\ at[p] = "reject" /\ faults = 0 => ~Stored(on[p])
    /\ at[p] \in RollbackAt \ {"mark"} /\ faults = 0 => saga[on[p]] # "STARTED"

\* Only a committed saga is answered, and only its tokens are mailed.
OnlyCommitted ==
    /\ \A m \in queue : content[m] # None
    /\ \A m \in Message : content[m] # None => saga[content[m].saga] # "none"
    /\ \A r \in emailed : saga[r] # "none"

TablesInOrder ==
    /\ RowsMatchSagas /\ OneRowPerPair /\ OnlyCommitted
    /\ CompletedMeansEmailed /\ FailedMeansGone /\ UntrackMeansLeft

HandlersInOrder ==
    RequestsInOrder /\ WorkersInOrder /\ RollbacksInOrder /\ WaiterHasTimer

\* The part of TimeoutIsFinal that is inductive.
TimeoutIsRecorded ==
    \A r \in Request : resp[r] = "TIMEOUT" /\ faults = 0 => saga[r] # "STARTED"

AnswersInOrder == CreatedMeansEmailed /\ NotFoundMeansGone /\ TimeoutIsRecorded

Invariant == TypeOK /\ TablesInOrder /\ HandlersInOrder /\ AnswersInOrder

=============================================================================
