---------------------------- MODULE TrackingProofs ----------------------------
(***************************************************************************)
(* What the two services promise together, for any requests, repositories, *)
(* deliveries, messages and bounds.                                        *)
(*                                                                         *)
(* The subscription service's part rests on its own invariant, which holds *)
(* because every step here is one of its steps or none.                    *)
(***************************************************************************)
EXTENDS Tracking, SubscriptionServiceProofs

-----------------------------------------------------------------------------
(* The inductive invariant *)

Delivery == Request \cup Leave

\* What a reply says was queued by the repo-manager.
RepliesQueued ==
    \A m \in Message : content[m] # None => <<content[m].saga, content[m].kind>> \in outbox

Registered(r) == \E m \in Message : Says(m, "registered", r)

\* Who sends an email, completes a saga or answers 200 was told "registered".
CompletionsTold ==
    /\ \A w \in Worker : at[w] \in {"send", "complete", "resolve"} =>
          task[w] \in Message /\ Says(task[w], "registered", on[w])
    /\ \A r \in Request :
          at[r] = "resolved" \/ resp[r] = "CREATED" \/ saga[r] = "COMPLETED" => Registered(r)

\* The types of what a delivery reads and writes.
RepoTypes ==
    /\ latest \in [Repo -> RepoManager!Tag]
    /\ rows \in [Repo -> RepoManager!Row \cup {None}]
    /\ nextId \in Nat
    /\ repoAt \in [Delivery -> RepoManager!At]
    /\ held \in [Delivery -> Nat]

\* Only what GitHub has is tracked, under numbers that are handed out once.
RowsApart == \A repo \in Repo : RepoManager!Tracked(repo) =>
    /\ repo \in OnGithub
    /\ rows[repo].id < nextId
    /\ \A other \in Repo :
          RepoManager!Tracked(other) /\ rows[other].id = rows[repo].id => other = repo

\* What a delivery has learnt is still so, unless an untrack was published.
DeliveriesInOrder == \A h \in Delivery :
    /\ repoAt[h] \in {"check", "fetch", "create", "reply", "refuse", "fail"} => h \in Request
    /\ repoAt[h] \in {"fetch", "create", "reply"} => NameOf[h] \in OnGithub
    /\ repoAt[h] = "refuse" => NameOf[h] \notin OnGithub
    /\ repoAt[h] = "create" => held[h] \in RepoManager!Tag
    /\ repoAt[h] = "reply" /\ NameOf[h] \notin untracks => RepoManager!Tracked(NameOf[h])
    /\ repoAt[h] = "delete" =>
          /\ NameOf[h] \in untracks
          /\ held[h] < nextId
          /\ \A repo \in Repo :
                RepoManager!Tracked(repo) /\ rows[repo].id = held[h] => repo = NameOf[h]

\* So is what was queued in reply.
RepliesInOrder == \A h \in Request :
    /\ <<h, "notFound">> \in outbox => NameOf[h] \notin OnGithub
    /\ <<h, "registered">> \in outbox =>
          /\ NameOf[h] \in OnGithub
          /\ NameOf[h] \notin untracks => RepoManager!Tracked(NameOf[h])

RepoInvariant == RepoTypes /\ RowsApart /\ DeliveriesInOrder /\ RepliesInOrder

TrackingInvariant == RepliesQueued /\ CompletionsTold /\ RepoInvariant

-----------------------------------------------------------------------------
(* The subscription service: who completes a saga was told so *)

\* A step that makes nobody complete anything.
LEMMA ToldFrame ==
    ASSUME CompletionsTold, UNCHANGED content,
           \A w \in Worker : at'[w] \in {"send", "complete", "resolve"} =>
              at[w] \in {"send", "complete", "resolve"} /\ task'[w] = task[w] /\ on'[w] = on[w],
           \A r \in Request : at'[r] = "resolved" => at[r] = "resolved",
           \A r \in Request : resp'[r] = "CREATED" => resp[r] = "CREATED" \/ at[r] = "resolved",
           \A r \in Request : saga'[r] = "COMPLETED" => saga[r] = "COMPLETED"
    PROVE  CompletionsTold'
  BY DEF CompletionsTold, Registered, Says

LEMMA ToldRequest ==
    ASSUME Invariant, CompletionsTold, NEW r \in Request, RequestNext(r)
    PROVE  CompletionsTold'
  <1> USE DEF Invariant, TypeOK, Proc, Answer, Goto
  <1>1. CASE \/ SubscribeNew(r) \/ SubscribeConflict(r) \/ SubscribeAgain(r) \/ Resend(r)
             \/ LookupFails(r)
    BY <1>1, ToldFrame
       DEF SubscribeNew, SubscribeConflict, SubscribeAgain, Resend, LookupFails, db, broker
  <1>2. CASE TxCommit(r)
    BY <1>2, ToldFrame DEF TxCommit, broker
  <1>3. CASE TxDuplicate(r) \/ TxFails(r) \/ TxReturns(r)
    BY <1>3, ToldFrame DEF TxDuplicate, TxFails, TxReturns, db, broker
  <1>4. CASE TimerFires(r)
    BY <1>4, ToldFrame DEF TimerFires, Die, db, broker
  <1>5. CASE CheckSaga(r) \/ CheckFails(r) \/ RollbackFails(r) \/ AnswerTimeout(r)
    BY <1>5, ToldFrame DEF CheckSaga, CheckFails, RollbackFails, AnswerTimeout, db, broker
  <1>6. CASE MarkCompensating(r) \/ RemoveSubscription(r) \/ MarkFailed(r)
    BY <1>6, ToldFrame DEF MarkCompensating, RemoveSubscription, MarkFailed, Acknowledged, broker
  <1> QED BY <1>1, <1>2, <1>3, <1>4, <1>5, <1>6 DEF RequestNext, RequestStep, Rollback

LEMMA ToldWorker ==
    ASSUME Invariant, CompletionsTold, NEW w \in Worker, WorkerNext(w)
    PROVE  CompletionsTold'
  <1> USE DEF Invariant, TypeOK, Proc, Goto, Release
  <1>1. CASE ReadSaga(w)
    <2>1. UNCHANGED <<content, resp, saga, task>> /\ \A r \in Request : at'[r] = at[r]
      BY <1>1, ConstantsAssumption DEF ReadSaga, db, broker
    <2>2. \A v \in Worker : v # w => at'[v] = at[v] /\ on'[v] = on[v]
      BY <1>1 DEF ReadSaga
    <2>3. /\ on'[w] = content[task[w]].saga
          /\ at'[w] \in {"send", "mark"}
          /\ at'[w] = "send" => content[task[w]].kind = "registered"
      BY <1>1 DEF ReadSaga, SagaOf
    <2>4. task[w] \in Message /\ content[task[w]] # None
      <3>1. at[w] = "read"
        BY <1>1 DEF ReadSaga
      <3>2. "read" \notin {"idle"} \cup ClickAt
        BY DEF ClickAt
      <3> QED BY <3>1, <3>2 DEF HandlersInOrder, WorkersInOrder
    <2> QED BY <2>1, <2>2, <2>3, <2>4 DEF CompletionsTold, Registered, Says
  <1>2. CASE SendConfirmation(w) \/ CompleteFails(w) \/ RollbackFails(w)
    BY <1>2, ToldFrame, ConstantsAssumption
       DEF SendConfirmation, CompleteFails, RollbackFails, db, broker
  <1>3. CASE MarkCompleted(w)
    <2>1. UNCHANGED <<content, resp, task, on>> /\ \A r \in Request : at'[r] = at[r]
      BY <1>3, ConstantsAssumption DEF MarkCompleted, Acknowledged, broker
    <2>2. /\ at[w] = "complete" /\ at'[w] \in {"resolve", "mark"}
          /\ \A v \in Worker : v # w => at'[v] = at[v]
      BY <1>3 DEF MarkCompleted, Acknowledged
    <2>3. \A r \in Request : saga'[r] = "COMPLETED" => saga[r] = "COMPLETED" \/ r = on[w]
      BY <1>3 DEF MarkCompleted
    <2>4. task[w] \in Message /\ Says(task[w], "registered", on[w])
      BY <2>2 DEF CompletionsTold
    <2> QED BY <2>1, <2>2, <2>3, <2>4 DEF CompletionsTold, Registered, Says
  <1>4. CASE ResolveWaiter(w)
    <2>1. task[w] \in Message /\ Says(task[w], "registered", on[w]) /\ Registered(on[w])
      BY <1>4 DEF ResolveWaiter, CompletionsTold, Registered
    <2>2. UNCHANGED <<content, saga>>
      BY <1>4 DEF ResolveWaiter, HandlerReturns, Die, db, broker
    <2>3. \A v \in Worker : at'[v] \in {"send", "complete", "resolve"} =>
             at[v] = at'[v] /\ task'[v] = task[v] /\ on'[v] = on[v]
      BY <1>4, ConstantsAssumption DEF ResolveWaiter, HandlerReturns, Die
    <2>4. \A r \in Request : at'[r] = "resolved" => at[r] = "resolved" \/ r = on[w]
      BY <1>4, ConstantsAssumption DEF ResolveWaiter, HandlerReturns, Die
    <2>5. \A r \in Request : resp'[r] = "CREATED" => resp[r] = "CREATED" \/ r = on[w]
      BY <1>4, ConstantsAssumption DEF ResolveWaiter, HandlerReturns, Die
    <2> QED BY <2>1, <2>2, <2>3, <2>4, <2>5 DEF CompletionsTold, Registered, Says
  <1>5. CASE RejectWaiter(w)
    <2>1. UNCHANGED <<content, saga>>
      BY <1>5 DEF RejectWaiter, HandlerReturns, Die, db, broker
    <2>2. \A v \in Worker : at'[v] \in {"send", "complete", "resolve"} =>
             at[v] = at'[v] /\ task'[v] = task[v] /\ on'[v] = on[v]
      BY <1>5, ConstantsAssumption DEF RejectWaiter, HandlerReturns, Die
    <2>3. \A r \in Request : at'[r] = "resolved" => at[r] = "resolved"
      BY <1>5, ConstantsAssumption DEF RejectWaiter, HandlerReturns, Die
    <2>4. \A r \in Request : resp'[r] = "CREATED" => resp[r] = "CREATED"
      BY <1>5, ConstantsAssumption DEF RejectWaiter, HandlerReturns, Die, Trigger
    <2> QED BY <2>1, <2>2, <2>3, <2>4, ToldFrame
  <1>6. CASE MarkCompensating(w) \/ RemoveSubscription(w) \/ MarkFailed(w)
    BY <1>6, ToldFrame, ConstantsAssumption
       DEF MarkCompensating, RemoveSubscription, MarkFailed, Acknowledged, broker
  <1>7. CASE \/ \E m \in Message : TakeReply(w, m)
             \/ \E r \in Request : Confirm(w, r) \/ Unsubscribe(w, r)
    BY <1>7, ToldFrame, ConstantsAssumption DEF TakeReply, Confirm, Unsubscribe, db, broker
  <1>8. CASE ClickStep(w) \/ ClickFails(w)
    BY <1>8, ToldFrame, ConstantsAssumption
       DEF ClickStep, UpdateConfirmed, DeleteById, CountRemaining, PublishUntrack,
           ClickFails, db, broker
  <1>9. CASE IgnoreReply(w) \/ LoseReply(w)
    <2>1. UNCHANGED <<content, saga>> /\ \A r \in Request : resp'[r] = "CREATED" => resp[r] = "CREATED"
      BY <1>9 DEF IgnoreReply, LoseReply, HandlerReturns, Die, db, broker
    <2>2. /\ \A v \in Worker : at'[v] \in {"send", "complete", "resolve"} =>
                at[v] = at'[v] /\ task'[v] = task[v] /\ on'[v] = on[v]
          /\ \A r \in Request : at'[r] = "resolved" => at[r] = "resolved"
      BY <1>9, ConstantsAssumption DEF IgnoreReply, LoseReply, HandlerReturns, Die
    <2> QED BY <2>1, <2>2, ToldFrame
  <1> QED BY <1>1, <1>2, <1>3, <1>4, <1>5, <1>6, <1>7, <1>8, <1>9
          DEF WorkerNext, ConsumerStep, Rollback

\* A reply is written once.
LEMMA ToldReply ==
    ASSUME Invariant, CompletionsTold, NEW m \in Message, Reply(m)
    PROVE  CompletionsTold'
  <1>1. UNCHANGED <<at, on, task, resp, saga>>
    BY DEF Reply, db
  <1>2. content[m] = None /\ \A k \in Message : k # m => content'[k] = content[k]
    BY DEF Reply, Invariant, TypeOK
  <1>3. \A k \in Message, r \in Request :
           Says(k, "registered", r) => Says(k, "registered", r)'
    BY <1>2 DEF Says
  <1>4. \A w \in Worker : at[w] \notin {"idle", "read"} => on[w] \in Request
    BY DEF Invariant, HandlersInOrder, WorkersInOrder
  <1> QED BY <1>1, <1>3, <1>4 DEF CompletionsTold, Registered

LEMMA ToldStep ==
    ASSUME Invariant, CompletionsTold, [Next]_vars
    PROVE  CompletionsTold'
  <1>1. CASE CloseChannel \/ Restart
    BY <1>1, ToldFrame DEF CloseChannel, Restart, db, broker
  <1>2. CASE Crash
    BY <1>2, ToldFrame DEF Crash, Die, db, Proc, Invariant, TypeOK
  <1>3. CASE UNCHANGED vars
    BY <1>3, ToldFrame DEF vars, db, broker
  <1> QED BY <1>1, <1>2, <1>3, ToldRequest, ToldWorker, ToldReply DEF Next

-----------------------------------------------------------------------------
(* What the steps of one service are to the other *)

USE TrackingAssumption DEF Delivery

\* Replies are read out of the outbox, and untracks are never taken back.
LEMMA ServiceFrame ==
    ASSUME Invariant, RepliesQueued, SubscriptionNext
    PROVE  RepliesQueued' /\ untracks \subseteq untracks'
  <1>1. RepliesQueued'
    <2>0. outbox' = outbox
      BY DEF SubscriptionNext, repoVars
    <2> SUFFICES ASSUME NEW m \in Message, content'[m] # None
                 PROVE  <<content'[m].saga, content'[m].kind>> \in outbox
      BY <2>0 DEF RepliesQueued
    <2>1. CASE content[m] = None
      BY <2>1 DEF SubscriptionNext, RepliesWereQueued
    <2>2. CASE content[m] # None
      <3>1. content'[m] = content[m]
        BY <2>2
           DEF SubscriptionNext, Next, RequestNext, RequestStep, Rollback, WorkerNext,
               ConsumerStep, ClickStep, Invariant, TypeOK, Die, HandlerReturns,
               SubscribeNew, SubscribeConflict, SubscribeAgain, Resend, LookupFails, TxCommit,
               TxDuplicate, TxFails, TxReturns, TimerFires, CheckSaga, CheckFails,
               MarkCompensating, RemoveSubscription, MarkFailed, RollbackFails, AnswerTimeout,
               RejectWaiter, TakeReply, ReadSaga, IgnoreReply, LoseReply, SendConfirmation,
               MarkCompleted, CompleteFails, ResolveWaiter, Confirm, UpdateConfirmed,
               Unsubscribe, DeleteById, CountRemaining, PublishUntrack, ClickFails, Reply,
               CloseChannel, Crash, Restart, db, broker
      <3> QED BY <2>2, <3>1 DEF RepliesQueued
    <2> QED BY <2>1, <2>2
  <1>2. untracks \subseteq untracks'
    BY DEF SubscriptionNext, Next, RequestNext, RequestStep, Rollback, WorkerNext,
           ConsumerStep, ClickStep, Invariant, TypeOK, Die, HandlerReturns,
           SubscribeNew, SubscribeConflict, SubscribeAgain, Resend, LookupFails, TxCommit,
           TxDuplicate, TxFails, TxReturns, TimerFires, CheckSaga, CheckFails,
           MarkCompensating, RemoveSubscription, MarkFailed, RollbackFails, AnswerTimeout,
           RejectWaiter, TakeReply, ReadSaga, IgnoreReply, LoseReply, SendConfirmation,
           MarkCompleted, CompleteFails, ResolveWaiter, Confirm, UpdateConfirmed,
           Unsubscribe, DeleteById, CountRemaining, PublishUntrack, ClickFails, Reply,
           CloseChannel, Crash, Restart, db, broker
  <1> QED BY <1>1, <1>2

\* More untracks make nothing of what the repo-manager knows wrong.
LEMMA RepoFrame ==
    ASSUME RepoInvariant, UNCHANGED repoVars, untracks \subseteq untracks'
    PROVE  RepoInvariant'
  <1>1. RepoTypes' /\ RowsApart'
    BY DEF RepoInvariant, RepoTypes, RowsApart, repoVars, RepoManager!Tracked
  <1>2. \A repo : RepoManager!Tracked(repo)' <=> RepoManager!Tracked(repo)
    BY DEF RepoManager!Tracked, repoVars
  <1>3. DeliveriesInOrder' /\ RepliesInOrder'
    BY <1>2 DEF RepoInvariant, DeliveriesInOrder, RepliesInOrder, repoVars
  <1> QED BY <1>1, <1>3 DEF RepoInvariant

-----------------------------------------------------------------------------
(* The repo-manager: what its deliveries know *)

LEMMA NamesAreRepos == \A h \in Delivery : NameOf[h] \in Repo
  BY ConstantsAssumption DEF NameOf, RepoOf

USE DEF RepoManager!Tracked, RepoManager!Goto, RepoManager!Handler, RepoManager!Registrar,
    RepoManager!tables, RepoManager!github, RepoManager!handler, RepoManager!scanner,
    RepoManager!process, RepoManager!budget

\* A delivery that goes nowhere it would have to know more for.
LEMMA DeliveryGoes ==
    ASSUME RepoInvariant, NEW h \in Delivery, NEW label \in RepoManager!At,
           repoAt' = [repoAt EXCEPT ![h] = label],
           UNCHANGED <<latest, rows, nextId, untracks, held, outbox>>,
           /\ label \in {"check", "fetch", "create", "reply", "refuse", "fail"} => h \in Request
           /\ label \in {"fetch", "create", "reply"} => NameOf[h] \in OnGithub
           /\ label = "refuse" => NameOf[h] \notin OnGithub
           /\ label = "reply" => RepoManager!Tracked(NameOf[h])
           /\ label \notin {"create", "delete"}
    PROVE  RepoInvariant'
  <1>1. RepoTypes' /\ RowsApart' /\ RepliesInOrder'
    BY DEF RepoInvariant, RepoTypes, RowsApart, RepliesInOrder
  <1>2. ASSUME NEW d \in Delivery
        PROVE  repoAt'[d] = IF d = h THEN label ELSE repoAt[d]
    BY DEF RepoInvariant, RepoTypes
  <1>3. DeliveriesInOrder'
    BY <1>2 DEF RepoInvariant, DeliveriesInOrder
  <1> QED BY <1>1, <1>3 DEF RepoInvariant

\* The death of the process makes every delivery begin again.
LEMMA DeliveryDies ==
    ASSUME RepoInvariant, RepoManager!Die, UNCHANGED <<latest, rows, nextId, untracks, outbox>>
    PROVE  RepoInvariant'
  <1>1. \A d \in Delivery : repoAt'[d] \in {"waiting", "done"} /\ held'[d] = 0
    BY DEF RepoManager!Die
  <1>2. RepoTypes'
    BY <1>1 DEF RepoInvariant, RepoTypes, RepoManager!Die, RepoManager!At
  <1>3. RowsApart' /\ DeliveriesInOrder' /\ RepliesInOrder'
    BY <1>1 DEF RepoInvariant, RowsApart, DeliveriesInOrder, RepliesInOrder
  <1> QED BY <1>2, <1>3 DEF RepoInvariant

LEMMA DeliveryCreates ==
    ASSUME RepoInvariant, NEW h \in Delivery, RepoManager!CreateRepository(h),
           UNCHANGED untracks
    PROVE  RepoInvariant'
  <1> DEFINE name == NameOf[h]
  <1>1. /\ h \in Request /\ name \in Repo /\ name \in OnGithub /\ rows[name] = None
        /\ nextId \in RepoManager!Id /\ nextId \in Nat /\ held[h] \in RepoManager!Tag
    BY NamesAreRepos DEF RepoManager!CreateRepository, RepoInvariant, RepoTypes,
                         DeliveriesInOrder
  <1>2. /\ rows' = [rows EXCEPT ![name] = [id |-> nextId, tag |-> held[h]]]
        /\ nextId' = nextId + 1
        /\ outbox' = outbox \cup {<<h, "registered">>}
        /\ UNCHANGED <<latest, held>>
    BY <1>1 DEF RepoManager!CreateRepository
  <1>3. \E label \in {"return", "fail"} : repoAt' = [repoAt EXCEPT ![h] = label]
    BY <1>1 DEF RepoManager!CreateRepository, RepoManager!Settle
  <1>4. /\ repoAt' \in [Delivery -> RepoManager!At]
        /\ repoAt'[h] \in {"return", "fail"}
        /\ \A d \in Delivery : d # h => repoAt'[d] = repoAt[d]
    BY <1>3 DEF RepoInvariant, RepoTypes, RepoManager!At
  <1>5. [id |-> nextId, tag |-> held[h]] \in RepoManager!Row
    BY <1>1 DEF RepoManager!Row
  <1>6. /\ rows'[name] # None /\ rows'[name].id = nextId
        /\ \A repo \in Repo : repo # name => rows'[repo] = rows[repo]
    BY <1>1, <1>2, <1>5 DEF RepoInvariant, RepoTypes
  <1> HIDE DEF name
  <1>7. RepoTypes'
    BY <1>1, <1>2, <1>4, <1>5 DEF RepoInvariant, RepoTypes
  <1>8. RowsApart'
    <2> SUFFICES ASSUME NEW repo \in Repo, rows'[repo] # None
                 PROVE  /\ repo \in OnGithub /\ rows'[repo].id < nextId'
                        /\ \A other \in Repo :
                              rows'[other] # None /\ rows'[other].id = rows'[repo].id
                                  => other = repo
      BY DEF RowsApart
    <2>1. \A other \in Repo : rows[other] # None =>
             rows[other].id < nextId /\ rows[other].id # nextId
      BY <1>1 DEF RepoInvariant, RowsApart, RepoTypes, RepoManager!Row, RepoManager!Id
    <2>2. CASE repo = name
      <3>1. rows'[repo].id = nextId /\ nextId < nextId'
        BY <1>1, <1>2, <1>6, <2>2
      <3>2. ASSUME NEW other \in Repo, rows'[other] # None, rows'[other].id = nextId
            PROVE  other = name
        BY <1>6, <2>1, <3>2
      <3> QED BY <1>1, <2>2, <3>1, <3>2
    <2>3. CASE repo # name
      <3>1. rows'[repo] = rows[repo] /\ rows[repo] # None
        BY <1>6, <2>3
      <3>2. rows[repo].id \in Nat
        BY <3>1 DEF RepoInvariant, RepoTypes, RepoManager!Row, RepoManager!Id
      <3>3. repo \in OnGithub /\ rows[repo].id < nextId'
        BY <1>1, <1>2, <2>1, <3>1, <3>2 DEF RepoInvariant, RowsApart
      <3>4. ASSUME NEW other \in Repo, rows'[other] # None, rows'[other].id = rows[repo].id
            PROVE  other = repo
        <4>1. other # name
          BY <1>6, <2>1, <3>1, <3>4
        <4>2. rows[other] # None /\ rows[other].id = rows[repo].id
          BY <1>6, <3>4, <4>1
        <4> QED BY <3>1, <4>2 DEF RepoInvariant, RowsApart
      <3> QED BY <3>1, <3>3, <3>4
    <2> QED BY <2>2, <2>3
  <1>9. DeliveriesInOrder'
    <2> SUFFICES ASSUME NEW d \in Delivery, d # h,
                        repoAt[d] = "delete"
                 PROVE  /\ held[d] < nextId'
                        /\ \A repo \in Repo :
                              rows'[repo] # None /\ rows'[repo].id = held[d] => repo = NameOf[d]
      BY <1>1, <1>2, <1>4, <1>6 DEF RepoInvariant, DeliveriesInOrder
    <2>1. held[d] \in Nat /\ held[d] < nextId
      BY DEF RepoInvariant, RepoTypes, DeliveriesInOrder
    <2>2. ASSUME NEW repo \in Repo, rows'[repo] # None, rows'[repo].id = held[d]
          PROVE  repo = NameOf[d]
      <3>1. repo # name
        BY <1>1, <1>6, <2>1, <2>2
      <3> QED BY <1>6, <2>2, <3>1 DEF RepoInvariant, DeliveriesInOrder
    <2> QED BY <1>1, <1>2, <2>1, <2>2
  <1>10. RepliesInOrder'
    <2> SUFFICES ASSUME NEW d \in Request
                 PROVE  /\ <<d, "notFound">> \in outbox' => NameOf[d] \notin OnGithub
                        /\ <<d, "registered">> \in outbox' =>
                              /\ NameOf[d] \in OnGithub
                              /\ NameOf[d] \notin untracks => rows'[NameOf[d]] # None
      BY DEF RepliesInOrder
    <2>1. \A repo \in Repo : rows[repo] # None => rows'[repo] # None
      BY <1>6
    <2>2. NameOf[d] \in Repo
      BY NamesAreRepos
    <2>3. CASE d = h
      BY <1>1, <1>2, <1>6, <2>3 DEF RepoInvariant, RepliesInOrder, name
    <2>4. CASE d # h
      BY <1>2, <2>1, <2>2, <2>4 DEF RepoInvariant, RepliesInOrder
    <2> QED BY <2>3, <2>4
  <1> QED BY <1>7, <1>8, <1>9, <1>10 DEF RepoInvariant

LEMMA DeliveryReplies ==
    ASSUME RepoInvariant, NEW h \in Delivery, RepoManager!QueueReply(h), UNCHANGED untracks
    PROVE  RepoInvariant'
  <1>1. h \in Request
    BY DEF RepoManager!QueueReply, RepoInvariant, DeliveriesInOrder
  <1>2. /\ \E label \in {"return", "fail"} : repoAt' = [repoAt EXCEPT ![h] = label]
        /\ UNCHANGED <<latest, rows, nextId, held>>
    BY DEF RepoManager!QueueReply
  <1>3. RepoTypes' /\ RowsApart'
    BY <1>2 DEF RepoInvariant, RepoTypes, RowsApart, RepoManager!At
  <1>4. /\ repoAt'[h] \in {"return", "fail"}
        /\ \A d \in Delivery : d # h => repoAt'[d] = repoAt[d]
    BY <1>2 DEF RepoInvariant, RepoTypes
  <1>5. DeliveriesInOrder'
    BY <1>1, <1>2, <1>4 DEF RepoInvariant, DeliveriesInOrder
  <1>6. RepliesInOrder'
    <2>1. CASE repoAt[h] = "reply" /\ outbox' = outbox \cup {<<h, "registered">>}
      BY <1>2, <2>1 DEF RepoInvariant, DeliveriesInOrder, RepliesInOrder
    <2>2. CASE repoAt[h] = "refuse" /\ outbox' = outbox \cup {<<h, "notFound">>}
      BY <1>2, <2>2 DEF RepoInvariant, DeliveriesInOrder, RepliesInOrder
    <2>3. CASE repoAt[h] = "fail" /\ outbox' = outbox \cup {<<h, "failed">>}
      BY <1>2, <2>3 DEF RepoInvariant, RepliesInOrder
    <2> QED BY <2>1, <2>2, <2>3 DEF RepoManager!QueueReply
  <1> QED BY <1>3, <1>5, <1>6 DEF RepoInvariant

\* The row deleted is one for which an untrack was published.
LEMMA DeliveryDeletes ==
    ASSUME RepoInvariant, NEW h \in Delivery, RepoManager!UntrackDelete(h),
           UNCHANGED untracks
    PROVE  RepoInvariant'
  <1>1. /\ repoAt[h] = "delete"
        /\ repoAt' = [repoAt EXCEPT ![h] = "return"]
        /\ UNCHANGED <<latest, nextId, held, outbox>>
        /\ rows' = [repo \in Repo |->
                       IF rows[repo] # None /\ rows[repo].id = held[h] THEN None ELSE rows[repo]]
    BY DEF RepoManager!UntrackDelete
  <1>2. NameOf[h] \in untracks /\ \A repo \in Repo :
           rows[repo] # None /\ rows[repo].id = held[h] => repo = NameOf[h]
    BY <1>1 DEF RepoInvariant, DeliveriesInOrder
  <1>3. \A repo \in Repo :
           /\ rows'[repo] # None => rows'[repo] = rows[repo]
           /\ repo \notin untracks => rows'[repo] = rows[repo]
    BY <1>1, <1>2
  <1>4. RepoTypes'
    BY <1>1 DEF RepoInvariant, RepoTypes, RepoManager!At
  <1>5. RowsApart'
    BY <1>1, <1>3 DEF RepoInvariant, RowsApart
  <1>6. \A d \in Delivery : repoAt'[d] = IF d = h THEN "return" ELSE repoAt[d]
    BY <1>1 DEF RepoInvariant, RepoTypes
  <1>7. DeliveriesInOrder'
    BY <1>1, <1>3, <1>6, NamesAreRepos DEF RepoInvariant, DeliveriesInOrder
  <1>8. RepliesInOrder'
    BY <1>1, <1>3, NamesAreRepos DEF RepoInvariant, RepliesInOrder
  <1> QED BY <1>4, <1>5, <1>7, <1>8 DEF RepoInvariant

\* An untrack is delivered when it was published, and deletes its own row.
LEMMA DeliveryLooks ==
    ASSUME RepoInvariant, NEW h \in Delivery, RepoManager!UntrackLookup(h),
           UntracksWerePublished(h), UNCHANGED untracks
    PROVE  RepoInvariant'
  <1>1. CASE rows[NameOf[h]] = None
    <2>1. repoAt' = [repoAt EXCEPT ![h] = "return"] /\ "return" \in RepoManager!At
      BY <1>1 DEF RepoManager!UntrackLookup, RepoManager!At
    <2>2. UNCHANGED <<latest, rows, nextId, held, outbox>>
      BY <1>1 DEF RepoManager!UntrackLookup
    <2> QED BY <2>1, <2>2, DeliveryGoes
  <1>2. CASE rows[NameOf[h]] # None
    <2>1. /\ h \in Leave
          /\ repoAt' = [repoAt EXCEPT ![h] = "delete"]
          /\ held' = [held EXCEPT ![h] = rows[NameOf[h]].id]
          /\ UNCHANGED <<latest, rows, nextId, outbox>>
      BY <1>2 DEF RepoManager!UntrackLookup, RepoManager!RowOf
    <2>2. NameOf[h] \in untracks /\ NameOf[h] \in Repo
      BY <2>1, NamesAreRepos DEF UntracksWerePublished, NameOf
    <2>3. /\ rows[NameOf[h]].id \in Nat /\ rows[NameOf[h]].id < nextId
          /\ \A repo \in Repo : rows[repo] # None /\ rows[repo].id = rows[NameOf[h]].id
                                    => repo = NameOf[h]
      BY <1>2, <2>2 DEF RepoInvariant, RepoTypes, RowsApart, RepoManager!Row, RepoManager!Id
    <2>4. \A d \in Delivery :
             /\ repoAt'[d] = IF d = h THEN "delete" ELSE repoAt[d]
             /\ held'[d] = IF d = h THEN rows[NameOf[h]].id ELSE held[d]
      BY <2>1 DEF RepoInvariant, RepoTypes
    <2>5. RepoTypes' /\ RowsApart' /\ RepliesInOrder'
      BY <2>1, <2>3 DEF RepoInvariant, RepoTypes, RowsApart, RepliesInOrder, RepoManager!At
    <2>6. DeliveriesInOrder'
      BY <2>1, <2>2, <2>3, <2>4 DEF RepoInvariant, DeliveriesInOrder
    <2> QED BY <2>5, <2>6 DEF RepoInvariant
  <1> QED BY <1>1, <1>2

LEMMA DeliveryStep ==
    ASSUME RepoInvariant, NEW h \in Delivery, RepoManager!HandlerNext(h),
           UntracksWerePublished(h), UNCHANGED untracks
    PROVE  RepoInvariant'
  <1> DEFINE Quiet == UNCHANGED <<latest, rows, nextId, held, outbox>>
             To(label) == label \in RepoManager!At /\ repoAt' = [repoAt EXCEPT ![h] = label]
  <1>1. CASE RepoManager!LookupMissing(h)
    <2>1. Quiet /\ To("check") /\ h \in Request
      BY <1>1 DEF RepoManager!LookupMissing, RepoManager!At
    <2> QED BY <2>1, DeliveryGoes
  <1>2. CASE RepoManager!LookupFound(h)
    <2>1. Quiet /\ To("reply") /\ h \in Request /\ rows[NameOf[h]] # None
      BY <1>2 DEF RepoManager!LookupFound, RepoManager!Settle, RepoManager!At
    <2>2. NameOf[h] \in OnGithub
      BY <2>1, NamesAreRepos DEF RepoInvariant, RowsApart
    <2> QED BY <2>1, <2>2, DeliveryGoes
  <1>3. CASE RepoManager!FetchRepository(h)
    <2>1. Quiet /\ h \in Request
      BY <1>3 DEF RepoManager!FetchRepository, RepoInvariant, DeliveriesInOrder
    <2>2. CASE NameOf[h] \in OnGithub
      <3>1. To("fetch")
        BY <1>3, <2>2 DEF RepoManager!FetchRepository, RepoManager!At
      <3> QED BY <2>1, <2>2, <3>1, DeliveryGoes
    <2>3. CASE NameOf[h] \notin OnGithub
      <3>1. To("refuse")
        BY <1>3, <2>3 DEF RepoManager!FetchRepository, RepoManager!Settle, RepoManager!At
      <3> QED BY <2>1, <2>3, <3>1, DeliveryGoes
    <2> QED BY <2>2, <2>3
  <1>4. CASE RepoManager!FetchRelease(h)
    <2>1. /\ UNCHANGED <<latest, rows, nextId, outbox>>
          /\ held' = [held EXCEPT ![h] = latest[NameOf[h]]]
          /\ repoAt' = [repoAt EXCEPT ![h] = "create"] /\ repoAt[h] = "fetch"
      BY <1>4 DEF RepoManager!FetchRelease
    <2>2. latest[NameOf[h]] \in RepoManager!Tag /\ latest[NameOf[h]] \in Nat
      BY NamesAreRepos DEF RepoInvariant, RepoTypes, RepoManager!Tag
    <2>3. RepoTypes' /\ RowsApart' /\ RepliesInOrder'
      BY <2>1, <2>2 DEF RepoInvariant, RepoTypes, RowsApart, RepliesInOrder, RepoManager!At
    <2>4. \A d \in Delivery :
             /\ repoAt'[d] = IF d = h THEN "create" ELSE repoAt[d]
             /\ held'[d] = IF d = h THEN latest[NameOf[h]] ELSE held[d]
      BY <2>1 DEF RepoInvariant, RepoTypes
    <2>5. DeliveriesInOrder'
      BY <2>1, <2>2, <2>4 DEF RepoInvariant, DeliveriesInOrder
    <2> QED BY <2>3, <2>5 DEF RepoInvariant
  <1>5. CASE RepoManager!CreateConflicts(h)
    <2>1. Quiet /\ To("fail") /\ h \in Request
      BY <1>5 DEF RepoManager!CreateConflicts, RepoManager!Settle, RepoManager!At
    <2> QED BY <2>1, DeliveryGoes
  <1>6. CASE RepoManager!RegisterFails(h)
    <2>1. Quiet /\ To("fail") /\ h \in Request
      BY <1>6 DEF RepoManager!RegisterFails, RepoManager!Settle, RepoManager!At
    <2> QED BY <2>1, DeliveryGoes
  <1>7. CASE RepoManager!QueueFails(h) \/ RepoManager!UntrackFails(h)
    <2>1. Quiet /\ To("return")
      BY <1>7 DEF RepoManager!QueueFails, RepoManager!UntrackFails, RepoManager!At
    <2> QED BY <2>1, DeliveryGoes
  <1>8. CASE RepoManager!Return(h)
    <2>1. CASE repoChannel
      <3>1. Quiet /\ To("done")
        BY <1>8, <2>1 DEF RepoManager!Return, RepoManager!At
      <3> QED BY <3>1, DeliveryGoes
    <2>2. CASE ~repoChannel
      BY <1>8, <2>2, DeliveryDies DEF RepoManager!Return
    <2> QED BY <2>1, <2>2
  <1> QED BY <1>1, <1>2, <1>3, <1>4, <1>5, <1>6, <1>7, <1>8, DeliveryCreates,
             DeliveryReplies, DeliveryDeletes, DeliveryLooks
          DEF RepoManager!HandlerNext, RepoManager!HandlerStep

LEMMA RepoStep == ASSUME RepoInvariant, RepoNext PROVE RepoInvariant'
  <1>1. UNCHANGED untracks
    BY DEF RepoNext, vars, broker
  <1>2. CASE RepoManager!CloseChannel \/ RepoManager!Restart
    <2>1. UNCHANGED <<latest, rows, nextId, outbox, repoAt, held>>
      BY <1>2 DEF RepoManager!CloseChannel, RepoManager!Restart
    <2> QED BY <1>1, <2>1
            DEF RepoInvariant, RepoTypes, RowsApart, DeliveriesInOrder, RepliesInOrder
  <1>3. CASE RepoManager!Crash
    BY <1>1, <1>3, DeliveryDies DEF RepoManager!Crash
  <1> QED BY <1>1, <1>2, <1>3, DeliveryStep DEF RepoNext

-----------------------------------------------------------------------------
(* The theorems *)

LEMMA TrackingAtFirst == ASSUME TrackingInit PROVE TrackingInvariant
  <1>1. RepliesQueued /\ CompletionsTold
    BY DEF TrackingInit, Init, RepliesQueued, CompletionsTold, Proc
  <1>2. RepoTypes
    <2>1. 0 \in RepoManager!Tag
      BY DEF RepoManager!Tag
    <2> QED BY <2>1 DEF TrackingInit, RepoManager!Init, RepoTypes, RepoManager!At
  <1>3. RowsApart /\ DeliveriesInOrder /\ RepliesInOrder
    BY DEF TrackingInit, RepoManager!Init, RowsApart, DeliveriesInOrder, RepliesInOrder
  <1> QED BY <1>1, <1>2, <1>3 DEF TrackingInvariant, RepoInvariant

LEMMA TrackingStep ==
    Invariant /\ TrackingInvariant /\ [TrackingNext]_<<vars, repoVars>> => TrackingInvariant'
  <1> SUFFICES ASSUME Invariant, TrackingInvariant, [TrackingNext]_<<vars, repoVars>>
               PROVE  TrackingInvariant'
    OBVIOUS
  <1> USE DEF TrackingInvariant
  <1>1. CASE SubscriptionNext
    BY <1>1, ToldStep, ServiceFrame, RepoFrame DEF SubscriptionNext
  <1>2. CASE RepoNext
    <2>1. CompletionsTold'
      BY <1>2, ToldStep DEF RepoNext
    <2>2. outbox \subseteq outbox'
      BY <1>2
         DEF RepoNext, RepoManager!HandlerNext, RepoManager!HandlerStep,
             RepoManager!LookupMissing, RepoManager!LookupFound, RepoManager!UntrackLookup,
             RepoManager!FetchRepository, RepoManager!FetchRelease,
             RepoManager!CreateRepository, RepoManager!CreateConflicts,
             RepoManager!QueueReply, RepoManager!UntrackDelete, RepoManager!Return,
             RepoManager!RegisterFails, RepoManager!QueueFails, RepoManager!UntrackFails,
             RepoManager!CloseChannel, RepoManager!Crash, RepoManager!Restart
    <2>3. RepliesQueued'
      BY <1>2, <2>2 DEF RepliesQueued, RepoNext, vars, broker
    <2> QED BY <1>2, <2>1, <2>3, RepoStep
  <1>3. CASE UNCHANGED <<vars, repoVars>>
    <2>1. RepliesQueued' /\ CompletionsTold'
      BY <1>3, ToldStep DEF RepliesQueued, vars, broker, repoVars
    <2>2. UNCHANGED untracks
      BY <1>3 DEF vars, broker
    <2> QED BY <1>3, <2>1, <2>2, RepoFrame
  <1> QED BY <1>1, <1>2, <1>3 DEF TrackingNext

\* Together with the repo-manager, the subscription service behaves as it does
\* with any: what holds of it alone holds here.
THEOREM ServiceIsItself == TrackingSpec => Spec
  <1>1. TrackingInit => Init
    BY DEF TrackingInit
  <1>2. [TrackingNext]_<<vars, repoVars>> => [Next]_vars
    BY DEF TrackingNext, SubscriptionNext, RepoNext
  <1> QED BY <1>1, <1>2, PTL DEF TrackingSpec, Spec

\* The other way round, too: the repo-manager behaves as RepoManager says, under
\* that module's assumptions on constants, for whatever deliveries the saga and
\* the clicks make.
THEOREM RepoManagerIsItself ==
    /\ RepoManager!ConstantsAssumption /\ RepoManager!NoneAssumption
    /\ TrackingSpec => RepoManager!Spec
  <1>1. RepoManager!ConstantsAssumption
    <2>1. NameOf \in [Request \cup Leave \cup {} -> Repo]
      BY NamesAreRepos DEF NameOf
    <2> QED BY <2>1 DEF RepoManager!ConstantsAssumption, RepoManager!Handler
  <1>2. TrackingInit => RepoManager!Init
    BY DEF TrackingInit
  <1>3. [TrackingNext]_<<vars, repoVars>> => [RepoManager!Next]_(RepoManager!vars)
    <2> SUFFICES ASSUME [TrackingNext]_<<vars, repoVars>>
                 PROVE  [RepoManager!Next]_(RepoManager!vars)
      OBVIOUS
    <2>1. CASE RepoNext
      BY <2>1 DEF RepoNext, RepoManager!Next, RepoManager!Handler
    <2>2. CASE UNCHANGED repoVars
      BY <2>2 DEF repoVars, RepoManager!vars, RepoManager!github, RepoManager!tables,
                  RepoManager!handler, RepoManager!scanner, RepoManager!process,
                  RepoManager!budget
    <2> QED BY <2>1, <2>2 DEF TrackingNext, SubscriptionNext
  <1>4. RepoManager!NoneAssumption
    BY DEF RepoManager!NoneAssumption
  <1>5. TrackingSpec => RepoManager!Spec
    BY <1>2, <1>3, PTL DEF TrackingSpec, RepoManager!Spec
  <1> QED BY <1>1, <1>4, <1>5

\* With the repo-manager behind it, whatever it answers and whenever it dies, the
\* subscription service keeps its promise to subscribers: what a client is told
\* is so, a saga that is over stays over, and both refine the double opt-in.
THEOREM ServicePromisesHold ==
    TrackingSpec =>
        /\ [](CreatedMeansEmailed /\ CompletedMeansEmailed /\ FailedMeansGone
              /\ NotFoundMeansGone /\ TimeoutIsFinal)
        /\ SagaStartsOnce
        /\ KeepsPromise
  <1> QED BY ServiceIsItself, CreatedIsEmailed, CompletedIsEmailed, FailedIsGone,
             NotFoundIsGone, TimeoutStaysFinal, SagaNeverRestarts, ServiceKeepsPromise, PTL

\* What either service knows of the other is so.
THEOREM TrackingInvariantHolds == TrackingSpec => [](Invariant /\ TrackingInvariant)
  <1>1. TrackingSpec => []Invariant
    BY ServiceIsItself, InvariantHolds, PTL
  <1>2. TrackingInit => TrackingInvariant
    BY TrackingAtFirst
  <1> QED BY <1>1, <1>2, TrackingStep, PTL DEF TrackingSpec

\* A completed saga's repository is tracked, unless an untrack was published
\* for it.
THEOREM CompletedStaysTracked == TrackingSpec => []CompletedIsTracked
  <1>1. ASSUME TrackingInvariant, NEW r \in Request, saga[r] = "COMPLETED", RepoOf(r) \notin untracks
        PROVE  RepoManager!Tracked(RepoOf(r))
    <2>1. PICK m \in Message : Says(m, "registered", r)
      BY <1>1 DEF TrackingInvariant, CompletionsTold, Registered
    <2>2. <<r, "registered">> \in outbox
      BY <1>1, <2>1 DEF TrackingInvariant, RepliesQueued, Says
    <2>3. NameOf[r] = RepoOf(r)
      BY DEF NameOf
    <2> QED BY <1>1, <2>2, <2>3 DEF TrackingInvariant, RepoInvariant, RepliesInOrder
  <1>2. TrackingInvariant => CompletedIsTracked
    BY <1>1 DEF CompletedIsTracked
  <1> QED BY <1>2, TrackingInvariantHolds, PTL

\* 404 is answered only for what GitHub does not have, success only for what it
\* has.
THEOREM ClientsAreToldTheTruth == TrackingSpec => []AnswersAreTrue
  <1>1. Invariant /\ TrackingInvariant => AnswersAreTrue
    <2> SUFFICES ASSUME Invariant, TrackingInvariant, NEW r \in Request
                 PROVE  /\ resp[r] = "NOTFOUND" => RepoOf(r) \notin OnGithub
                        /\ resp[r] = "CREATED" => RepoOf(r) \in OnGithub
      BY DEF AnswersAreTrue
    <2>1. NameOf[r] = RepoOf(r)
      BY DEF NameOf
    <2>2. \A m \in Message, kind \in Kind : Says(m, kind, r) => <<r, kind>> \in outbox
      BY DEF TrackingInvariant, RepliesQueued, Says
    <2>3. CASE resp[r] = "NOTFOUND"
      <3>1. \E m \in Message : Says(m, "notFound", r) /\ "notFound" \in Kind
        BY <2>3 DEF Kind, Invariant, AnswersInOrder, NotFoundMeansGone
      <3> QED BY <2>1, <2>2, <2>3, <3>1 DEF TrackingInvariant, RepoInvariant, RepliesInOrder
    <2>4. CASE resp[r] = "CREATED"
      <3>1. Registered(r) /\ "registered" \in Kind
        BY <2>4 DEF Kind, TrackingInvariant, CompletionsTold
      <3> QED BY <2>1, <2>2, <2>4, <3>1
              DEF TrackingInvariant, RepoInvariant, RepliesInOrder, Registered
    <2> QED BY <2>3, <2>4
  <1> QED BY <1>1, TrackingInvariantHolds, PTL

===============================================================================
