-------------------------- MODULE RepoManagerProofs --------------------------
(***************************************************************************)
(* The safety properties of RepoManager, for any deliveries, repositories  *)
(* and bounds.                                                             *)
(***************************************************************************)
EXTENDS RepoManager, TLAPS

-----------------------------------------------------------------------------
(* The inductive invariant *)

\* A handler is where its kind can be, and what it has read is still possible.
HandlersInOrder == \A h \in Handler :
    /\ at[h] \in {"check", "fetch", "create"} => h \in Registrar
    /\ at[h] \in {"reply", "refuse", "fail"} => h \in Register
    /\ at[h] = "delete" => h \in Untrack
    /\ at[h] \in {"fetch", "create", "reply"} => Names[h] \in OnGithub
    /\ at[h] = "refuse" => Names[h] \notin OnGithub
    /\ at[h] = "create" => held[h] \in Tag /\ held[h] <= latest[Names[h]]

\* Rows have numbers of their own, already handed out, and a tag between the
\* one they were inserted with and the latest.
RowsInOrder == \A r \in Repo : Tracked(r) =>
    /\ r \in OnGithub
    /\ rows[r].id < nextId
    /\ baseline[rows[r].id] <= rows[r].tag /\ rows[r].tag <= latest[r]
    /\ \A s \in Repo : Tracked(s) /\ rows[s].id = rows[r].id => s = r

\* A copy of a row that the scanner holds: its number is out, the row with that
\* number, if there still is one, is that of its repository, and its tag is in
\* between.
Copy(x) ==
    /\ x.id < nextId
    /\ baseline[x.id] <= x.tag /\ x.tag <= latest[x.repo]
    /\ \A r \in Repo : Tracked(r) /\ rows[r].id = x.id => r = x.repo

ScanInOrder ==
    /\ ~scanning => todo = {} /\ news = None
    /\ \A x \in todo : Copy(x)
    /\ \A x, y \in todo : x.id = y.id => x = y

\* The release to be recorded was announced, is news to its row, and there is
\* no other copy of that row.
NewsInOrder == news # None =>
    /\ Copy(news)
    /\ baseline[news.id] < news.tag
    /\ announced[news.id][news.tag] > 0
    /\ \A x \in todo : x.id # news.id
    /\ \A r \in Repo : Tracked(r) /\ rows[r].id = news.id => rows[r].tag <= news.tag

\* Nothing is announced for numbers that are not out.
NumbersInOrder == \A i \in Id, t \in Tag : i >= nextId => announced[i][t] = 0

\* The release may be announced again for this row: a copy of the row, or the
\* row itself unless a later release is just being recorded, is older.
Open(i, t) ==
    \/ \E x \in todo : x.id = i /\ x.tag < t
    \/ /\ \E r \in Repo : Tracked(r) /\ rows[r].id = i /\ rows[r].tag < t
       /\ ~(news # None /\ news.id = i /\ news.tag >= t)

\* What FewDuplicates leaves to a release that may be announced again, or of
\* which a broken channel may keep the record, is one announcement less.
CopiesInOrder == \A i \in Id, t \in Tag :
    Open(i, t) \/ ~channel => announced[i][t] <= faults + crashes

\* As long as nothing has failed, the channel is open, and a delivery that is
\* not over has no answer.
FirstAnswer == faults = 0 /\ crashes = 0 =>
    /\ channel
    /\ \A h \in Register, o \in {"registered", "notFound", "failed"} :
          at[h] \notin {"return", "done"} => <<h, o>> \notin outbox

Registering == HandlersInOrder /\ RegisterIsAnswered /\ FirstAnswer /\ RepliesAreTrue

Announcing ==
    /\ RowsInOrder /\ ScanInOrder /\ NewsInOrder /\ NumbersInOrder
    /\ SeenWasAnnounced /\ NothingOldAnnounced

Counting == FewDuplicates /\ CopiesInOrder

Invariant == TypeOK /\ Registering /\ Announcing /\ Counting
USE ConstantsAssumption DEF github, tables, handler, scanner, process, budget, Handler,
    Registrar, Tracked, Goto

-----------------------------------------------------------------------------
(* Types *)

\* What registering and untracking do to the types of the handlers' state.
LEMMA SettleType ==
    ASSUME TypeOK, NEW h \in Handler, NEW label \in At,
           NEW outcome \in {"OK", "NOTFOUND", "ERROR"}, Settle(h, label, outcome)
    PROVE  /\ at' \in [Handler -> At]
           /\ answer' \in [Post -> {"none", "OK", "NOTFOUND", "ERROR", "LOST"}]
  BY DEF TypeOK, Settle, At

LEMMA DieType ==
    ASSUME TypeOK, Die
    PROVE  /\ up' \in BOOLEAN /\ channel' \in BOOLEAN
           /\ at' \in [Handler -> At] /\ held' \in [Handler -> Nat]
           /\ answer' \in [Post -> {"none", "OK", "NOTFOUND", "ERROR", "LOST"}]
           /\ scanning' \in BOOLEAN /\ todo' \subseteq News /\ news' \in News \cup {None}
           /\ announced' \in [Id -> [Tag -> Nat]]
  BY DEF TypeOK, Die, At

LEMMA FaultType == ASSUME TypeOK, Fault PROVE faults' \in 0..MaxFaults /\ crashes' \in 0..MaxCrashes
  BY DEF TypeOK, Fault

\* Every step keeps every variable within its type.
LEMMA TypeStep == ASSUME TypeOK, HandlersInOrder, [Next]_vars PROVE TypeOK'
  <1>1. CASE UNCHANGED vars
    BY <1>1 DEF vars, TypeOK
  <1>2. ASSUME NEW h \in Handler, HandlerNext(h) PROVE TypeOK'
    <2>1. CASE LookupMissing(h)
      BY <2>1 DEF LookupMissing, TypeOK, At
    <2>2. CASE LookupFound(h)
      BY <2>2, SettleType DEF LookupFound, TypeOK, At
    <2>3. CASE UntrackLookup(h)
      <3>1. CASE Tracked(Names[h])
        <4>1. rows[Names[h]].id \in Nat
          BY <3>1 DEF TypeOK, Row, Id
        <4> QED BY <2>3, <3>1, <4>1 DEF UntrackLookup, TypeOK, At, RowOf
      <3>2. CASE ~Tracked(Names[h])
        BY <2>3, <3>2 DEF UntrackLookup, TypeOK, At
      <3> QED BY <3>1, <3>2
    <2>4. CASE FetchRepository(h)
      <3>1. CASE Names[h] \in OnGithub
        BY <2>4, <3>1 DEF FetchRepository, TypeOK, At
      <3>2. CASE Names[h] \notin OnGithub
        BY <2>4, <3>2, SettleType DEF FetchRepository, TypeOK, At
      <3> QED BY <3>1, <3>2
    <2>5. CASE FetchRelease(h)
      BY <2>5 DEF FetchRelease, TypeOK, At, Tag
    <2>6. CASE CreateRepository(h)
      <3>1. h \in Registrar /\ held[h] \in Tag /\ nextId \in Id
        BY <2>6 DEF CreateRepository, HandlersInOrder
      <3>2. rows' \in [Repo -> Row \cup {None}]
        BY <2>6, <3>1 DEF CreateRepository, TypeOK, Row
      <3>3. nextId' \in 1..MaxId + 1 /\ baseline' \in [Id -> Tag]
        BY <2>6, <3>1 DEF CreateRepository, TypeOK, Id
      <3>4. outbox' \subseteq Register \X {"registered", "notFound", "failed"}
        BY <2>6 DEF CreateRepository, TypeOK
      <3>5. faults' \in 0..MaxFaults /\ crashes' \in 0..MaxCrashes
        BY <2>6, FaultType DEF CreateRepository, TypeOK
      <3>6. /\ at' \in [Handler -> At]
            /\ answer' \in [Post -> {"none", "OK", "NOTFOUND", "ERROR", "LOST"}]
        <4>1. PICK label \in At, outcome \in {"OK", "ERROR"} : Settle(h, label, outcome)
          BY <2>6 DEF CreateRepository, At
        <4> QED BY <4>1, SettleType
      <3> QED BY <2>6, <3>2, <3>3, <3>4, <3>5, <3>6 DEF CreateRepository, TypeOK
    <2>7. CASE CreateConflicts(h)
      BY <2>7, SettleType DEF CreateConflicts, TypeOK, At
    <2>8. CASE QueueReply(h)
      <3>1. PICK label \in {"return", "fail"} : at' = [at EXCEPT ![h] = label]
        BY <2>8 DEF QueueReply
      <3>2. at' \in [Handler -> At]
        BY <3>1 DEF TypeOK, At
      <3>3. outbox' \subseteq Register \X {"registered", "notFound", "failed"}
        BY <2>8 DEF QueueReply, HandlersInOrder, TypeOK
      <3>4. faults' \in 0..MaxFaults /\ crashes' \in 0..MaxCrashes
        BY <2>8, FaultType DEF QueueReply, TypeOK
      <3> QED BY <2>8, <3>2, <3>3, <3>4 DEF QueueReply, TypeOK
    <2>9. CASE UntrackDelete(h)
      BY <2>9 DEF UntrackDelete, TypeOK, At
    <2>10. CASE Return(h)
      <3>1. CASE channel
        BY <2>10, <3>1 DEF Return, TypeOK, At
      <3>2. CASE ~channel
        BY <2>10, <3>2, DieType DEF Return, TypeOK
      <3> QED BY <3>1, <3>2
    <2>11. CASE RegisterFails(h)
      BY <2>11, SettleType, FaultType DEF RegisterFails, TypeOK, At
    <2>12. CASE QueueFails(h)
      BY <2>12, FaultType DEF QueueFails, TypeOK, At
    <2>13. CASE UntrackFails(h)
      BY <2>13, FaultType DEF UntrackFails, TypeOK, At
    <2> QED BY <1>2, <2>1, <2>2, <2>3, <2>4, <2>5, <2>6, <2>7, <2>8, <2>9, <2>10, <2>11,
               <2>12, <2>13 DEF HandlerNext, HandlerStep
  <1>3. CASE ScanStart
    <2>1. todo' \subseteq News
      BY <1>3 DEF ScanStart, TypeOK, Row, News
    <2> QED BY <1>3, <2>1 DEF ScanStart, TypeOK
  <1>4. ASSUME NEW x \in todo, ScanNothing(x) PROVE TypeOK'
    BY <1>4 DEF ScanNothing, Finish, TypeOK
  <1>5. ASSUME NEW x \in todo, ScanPublish(x) PROVE TypeOK'
    <2>1. x \in News /\ latest[x.repo] \in Tag /\ x.id \in Id
      BY DEF TypeOK, News
    <2>2. CASE channel
      <3>1. [x EXCEPT !.tag = latest[x.repo]] \in News
        BY <2>1 DEF News
      <3>2. announced' \in [Id -> [Tag -> Nat]]
        BY <1>5, <2>1, <2>2 DEF ScanPublish, TypeOK
      <3> QED BY <1>5, <2>2, <3>1, <3>2 DEF ScanPublish, TypeOK
    <2>3. CASE ~channel
      BY <1>5, <2>3 DEF ScanPublish, Finish, TypeOK
    <2> QED BY <2>2, <2>3
  <1>6. CASE ScanRecord
    <2>1. rows' \in [Repo -> Row \cup {None}]
      BY <1>6 DEF ScanRecord, TypeOK, Row, News
    <2> QED BY <1>6, <2>1 DEF ScanRecord, Finish, TypeOK
  <1>7. CASE ScanFails
    BY <1>7, FaultType DEF ScanFails, Finish, TypeOK
  <1>8. ASSUME NEW repo \in Repo, Release(repo) PROVE TypeOK'
    BY <1>8 DEF Release, TypeOK, Tag
  <1>9. CASE CloseChannel
    BY <1>9, FaultType DEF CloseChannel, TypeOK
  <1>10. CASE Crash
    BY <1>10, DieType DEF Crash, TypeOK
  <1>11. CASE Restart
    BY <1>11 DEF Restart, TypeOK
  <1> QED BY <1>1, <1>2, <1>3, <1>4, <1>5, <1>6, <1>7, <1>8, <1>9, <1>10, <1>11
             DEF Next, ScanStep

-----------------------------------------------------------------------------
(* Registering *)

\* The handlers stay in order, wherever one of them goes.
LEMMA HandlersStep ==
    ASSUME TypeOK, TypeOK', HandlersInOrder, RowsInOrder, [Next]_vars
    PROVE  HandlersInOrder'
  <1>1. CASE UNCHANGED vars
    BY <1>1 DEF vars, HandlersInOrder
  <1>2. ASSUME NEW h \in Handler, HandlerNext(h) PROVE HandlersInOrder'
    <2>1. CASE LookupMissing(h)
      BY <2>1 DEF LookupMissing, HandlersInOrder, TypeOK
    <2>2. CASE LookupFound(h)
      BY <2>2 DEF LookupFound, Settle, HandlersInOrder, RowsInOrder, TypeOK
    <2>3. CASE UntrackLookup(h)
      BY <2>3 DEF UntrackLookup, HandlersInOrder, TypeOK
    <2>4. CASE FetchRepository(h)
      BY <2>4 DEF FetchRepository, Settle, HandlersInOrder, TypeOK
    <2>5. CASE FetchRelease(h)
      BY <2>5 DEF FetchRelease, HandlersInOrder, TypeOK, Tag
    <2>6. CASE CreateRepository(h)
      BY <2>6 DEF CreateRepository, Settle, HandlersInOrder, TypeOK
    <2>7. CASE CreateConflicts(h)
      BY <2>7 DEF CreateConflicts, Settle, HandlersInOrder, TypeOK
    <2>8. CASE QueueReply(h)
      BY <2>8 DEF QueueReply, HandlersInOrder, TypeOK
    <2>9. CASE UntrackDelete(h)
      BY <2>9 DEF UntrackDelete, HandlersInOrder, TypeOK
    <2>10. CASE Return(h)
      BY <2>10 DEF Return, Die, HandlersInOrder, TypeOK
    <2>11. CASE RegisterFails(h)
      BY <2>11 DEF RegisterFails, Settle, HandlersInOrder, TypeOK
    <2>12. CASE QueueFails(h)
      BY <2>12 DEF QueueFails, HandlersInOrder, TypeOK
    <2>13. CASE UntrackFails(h)
      BY <2>13 DEF UntrackFails, HandlersInOrder, TypeOK
    <2> QED BY <1>2, <2>1, <2>2, <2>3, <2>4, <2>5, <2>6, <2>7, <2>8, <2>9, <2>10, <2>11,
               <2>12, <2>13 DEF HandlerNext, HandlerStep
  <1>3. CASE UNCHANGED <<github, handler>>
    BY <1>3 DEF HandlersInOrder
  <1>4. CASE ScanStep \/ ScanFails \/ CloseChannel \/ Restart
    BY <1>3, <1>4 DEF ScanStep, ScanStart, ScanNothing, ScanPublish, ScanRecord, ScanFails,
                      CloseChannel, Restart
  <1>5. ASSUME NEW repo \in Repo, Release(repo) PROVE HandlersInOrder'
    <2>1. \A r \in Repo : latest'[r] \in Nat /\ latest[r] \in Nat /\ latest'[r] >= latest[r]
      BY <1>5 DEF Release, TypeOK, Tag
    <2>2. \A h \in Handler : Names[h] \in Repo
      OBVIOUS
    <2> QED BY <1>5, <2>1, <2>2 DEF Release, HandlersInOrder, Tag
  <1>6. CASE Crash
    BY <1>6 DEF Crash, Die, HandlersInOrder, TypeOK
  <1> QED BY <1>1, <1>2, <1>4, <1>5, <1>6 DEF Next

\* A delivery that is over has queued a reply, unless statements failed.
LEMMA AnsweredStep ==
    ASSUME TypeOK, TypeOK', HandlersInOrder, RegisterIsAnswered, [Next]_vars
    PROVE  RegisterIsAnswered'
  <1> SUFFICES ASSUME NEW d \in Register, at'[d] \in {"return", "done"}, faults' = 0
               PROVE  \E o \in {"registered", "notFound", "failed"} : <<d, o>> \in outbox'
    BY DEF RegisterIsAnswered
  <1>1. faults = 0 /\ outbox \subseteq outbox' /\ ~Fault
    <2>1. faults' >= faults /\ (Fault => faults' = faults + 1)
      <3>1. Fault => faults' = faults + 1
        BY DEF Fault
      <3>2. faults' = faults \/ Fault
        BY DEF Next, HandlerNext, HandlerStep, ScanStep, vars, LookupMissing, LookupFound,
               UntrackLookup, FetchRepository, FetchRelease, CreateRepository,
               CreateConflicts, QueueReply, UntrackDelete, Return, RegisterFails, QueueFails,
               UntrackFails, ScanStart, ScanNothing, ScanPublish, ScanRecord, ScanFails,
               Release, CloseChannel, Crash, Restart
      <3> QED BY <3>1, <3>2 DEF TypeOK
    <2>2. outbox \subseteq outbox'
      BY DEF Next, HandlerNext, HandlerStep, ScanStep, vars, LookupMissing, LookupFound,
             UntrackLookup, FetchRepository, FetchRelease, CreateRepository,
             CreateConflicts, QueueReply, UntrackDelete, Return, RegisterFails, QueueFails,
             UntrackFails, ScanStart, ScanNothing, ScanPublish, ScanRecord, ScanFails,
             Release, CloseChannel, Crash, Restart
    <2> QED BY <2>1, <2>2 DEF TypeOK
  <1>2. CASE at[d] \in {"return", "done"}
    BY <1>1, <1>2 DEF RegisterIsAnswered
  <1>3. CASE at[d] \notin {"return", "done"}
    <2>1. ~Die
      BY <1>3 DEF Die
    <2>2. at' # at /\ ~(\E repo \in Repo : Release(repo)) /\ ~ScanStep /\ ~ScanFails
          /\ ~CloseChannel /\ ~Crash /\ ~Restart
      BY <1>3, <2>1 DEF Release, ScanStep, ScanStart, ScanNothing, ScanPublish, ScanRecord,
                        ScanFails, CloseChannel, Crash, Restart
    <2>3. PICK h \in Handler : HandlerNext(h)
      BY <2>2 DEF Next, vars
    <2>4. at[d] \notin {"return", "done"} /\ at'[d] \in {"return", "done"} /\ d \notin Post
          /\ d \notin Untrack
      BY <1>3
    <2>5. CreateRepository(h) \/ QueueReply(h)
      BY <1>1, <2>1, <2>3, <2>4
         DEF HandlerNext, HandlerStep, LookupMissing, LookupFound, UntrackLookup,
             FetchRepository, FetchRelease, CreateConflicts, UntrackDelete, Return,
             RegisterFails, QueueFails, UntrackFails, Settle, HandlersInOrder, TypeOK
    <2>6. h = d
      BY <2>4, <2>5 DEF CreateRepository, QueueReply, Settle, TypeOK
    <2> QED BY <2>5, <2>6 DEF CreateRepository, QueueReply
  <1> QED BY <1>2, <1>3

\* Faults and crashes are never taken back.
LEMMA BudgetStep ==
    ASSUME TypeOK, TypeOK', [Next]_vars, faults' = 0, crashes' = 0
    PROVE  faults = 0 /\ crashes = 0
  <1>1. UNCHANGED budget \/ Fault \/ Crash
    BY DEF Next, HandlerNext, HandlerStep, ScanStep, vars, LookupMissing, LookupFound,
           UntrackLookup, FetchRepository, FetchRelease, CreateRepository, CreateConflicts,
           QueueReply, UntrackDelete, Return, RegisterFails, QueueFails, UntrackFails,
           ScanStart, ScanNothing, ScanPublish, ScanRecord, ScanFails, Release, CloseChannel,
           Restart
  <1>2. ~Fault /\ ~Crash
    BY DEF Fault, Crash, TypeOK
  <1> QED BY <1>1, <1>2

\* As long as nothing has failed, a handler that goes on has no answer yet.
LEMMA FirstAnswerStep ==
    ASSUME TypeOK, TypeOK', HandlersInOrder, FirstAnswer, [Next]_vars
    PROVE  FirstAnswer'
  <1> SUFFICES ASSUME faults' = 0, crashes' = 0
               PROVE  /\ channel'
                      /\ \A h \in Register, o \in {"registered", "notFound", "failed"} :
                            at'[h] \notin {"return", "done"} => <<h, o>> \notin outbox'
    BY DEF FirstAnswer
  <1>0. ~Fault /\ ~Crash
    BY DEF Fault, Crash, TypeOK
  <1>1. faults = 0 /\ crashes = 0
    BY BudgetStep
  <1>2. channel /\ \A h \in Register, o \in {"registered", "notFound", "failed"} :
                       at[h] \notin {"return", "done"} => <<h, o>> \notin outbox
    BY <1>1 DEF FirstAnswer
  <1>3. CASE UNCHANGED <<at, outbox, channel>> \/ (UNCHANGED <<at, outbox>> /\ channel')
    BY <1>2, <1>3
  <1>4. ASSUME NEW h \in Handler, HandlerNext(h)
        PROVE  /\ channel'
               /\ \A d \in Register, o \in {"registered", "notFound", "failed"} :
                     at'[d] \notin {"return", "done"} => <<d, o>> \notin outbox'
    <2>1. CASE QueueReply(h) \/ CreateRepository(h)
      <3>1. /\ outbox' \subseteq outbox \cup ({h} \X {"registered", "notFound", "failed"})
            /\ at[h] \notin {"return", "done"} /\ at'[h] \in {"return", "done"}
            /\ \A d \in Handler \ {h} : at'[d] = at[d]
            /\ UNCHANGED channel
        BY <1>0, <2>1 DEF QueueReply, CreateRepository, Settle, TypeOK
      <3> QED BY <1>2, <3>1
    <2>2. CASE ~(QueueReply(h) \/ CreateRepository(h))
      <3>1. UNCHANGED <<outbox, channel>>
        BY <1>2, <1>4, <2>2
           DEF HandlerNext, HandlerStep, LookupMissing, LookupFound, UntrackLookup,
               FetchRepository, FetchRelease, CreateConflicts, UntrackDelete, Return,
               RegisterFails, QueueFails, UntrackFails
      <3>2. /\ \A d \in Handler \ {h} : at'[d] = at[d]
            /\ at[h] \in {"return", "done"} => at'[h] \in {"return", "done"}
        BY <1>0, <1>2, <1>4, <2>2
           DEF HandlerNext, HandlerStep, LookupMissing, LookupFound, UntrackLookup, Starts,
               FetchRepository, FetchRelease, CreateConflicts, UntrackDelete, Return, Settle,
               RegisterFails, QueueFails, UntrackFails, TypeOK
      <3> QED BY <1>2, <3>1, <3>2
    <2> QED BY <2>1, <2>2
  <1> QED
    BY <1>0, <1>3, <1>4
       DEF Next, ScanStep, vars, ScanStart, ScanNothing, ScanPublish, ScanRecord, ScanFails,
           Release, CloseChannel, Restart

\* Replies are queued only by handlers that know, and have not answered before.
LEMMA TruthStep ==
    ASSUME TypeOK, TypeOK', HandlersInOrder, FirstAnswer, RepliesAreTrue, [Next]_vars
    PROVE  RepliesAreTrue'
  <1>1. CASE UNCHANGED outbox
    <2>1. faults' = 0 /\ crashes' = 0 => faults = 0 /\ crashes = 0
      BY BudgetStep
    <2> QED BY <1>1, <2>1 DEF RepliesAreTrue
  <1>2. ASSUME NEW h \in Register, NEW o \in {"registered", "notFound", "failed"},
               at[h] \notin {"return", "done"}, outbox' = outbox \cup {<<h, o>>},
               o = "registered" => Names[h] \in OnGithub,
               o = "notFound" => Names[h] \notin OnGithub
        PROVE  RepliesAreTrue'
    <2>1. faults' = 0 /\ crashes' = 0 => faults = 0 /\ crashes = 0
      BY BudgetStep
    <2>2. faults = 0 /\ crashes = 0 =>
            \A k \in {"registered", "notFound", "failed"} : <<h, k>> \notin outbox
      BY <1>2 DEF FirstAnswer
    <2> QED BY <1>2, <2>1, <2>2 DEF RepliesAreTrue
  <1>3. ASSUME NEW h \in Handler, CreateRepository(h) PROVE RepliesAreTrue'
    <2>1. CASE h \in Register
      BY <1>2, <1>3, <2>1 DEF CreateRepository, HandlersInOrder
    <2>2. CASE h \notin Register
      BY <1>1, <1>3, <2>2 DEF CreateRepository
    <2> QED BY <2>1, <2>2
  <1>4. ASSUME NEW h \in Handler, QueueReply(h) PROVE RepliesAreTrue'
    <2>1. CASE at[h] = "reply" /\ outbox' = outbox \cup {<<h, "registered">>}
      BY <1>2, <1>4, <2>1 DEF QueueReply, HandlersInOrder
    <2>2. CASE at[h] = "refuse" /\ outbox' = outbox \cup {<<h, "notFound">>}
      BY <1>2, <1>4, <2>2 DEF QueueReply, HandlersInOrder
    <2>3. CASE at[h] = "fail" /\ outbox' = outbox \cup {<<h, "failed">>}
      BY <1>2, <1>4, <2>3 DEF QueueReply, HandlersInOrder
    <2> QED BY <1>4, <2>1, <2>2, <2>3 DEF QueueReply
  <1> QED
    BY <1>1, <1>3, <1>4
       DEF Next, HandlerNext, HandlerStep, ScanStep, vars, LookupMissing, LookupFound,
           UntrackLookup, FetchRepository, FetchRelease, CreateConflicts, UntrackDelete,
           Return, RegisterFails, QueueFails, UntrackFails, ScanStart, ScanNothing,
           ScanPublish, ScanRecord, ScanFails, Release, CloseChannel, Crash, Restart

-----------------------------------------------------------------------------
(* Announcing: the rows, the copies of the scanner, and what was published *)

\* The rows, the numbers, the releases and the scanner, as a whole.
scanned == <<latest, rows, nextId, baseline, scanning, todo, news, announced>>

LEMMA AnnouncingFrame == ASSUME Announcing, UNCHANGED scanned PROVE Announcing'
  BY DEF scanned, Announcing, RowsInOrder, ScanInOrder, NewsInOrder, NumbersInOrder, Copy,
         SeenWasAnnounced, NothingOldAnnounced

\* The scanner drops copies.
LEMMA AnnouncingDrops ==
    ASSUME TypeOK, Announcing, UNCHANGED <<latest, rows, nextId, baseline, announced>>,
           todo' \subseteq todo, news' \in {news, None},
           ~scanning' => todo' = {} /\ news' = None
    PROVE  Announcing'
  BY DEF Announcing, RowsInOrder, ScanInOrder, NewsInOrder, NumbersInOrder, Copy, TypeOK,
         SeenWasAnnounced, NothingOldAnnounced

LEMMA CreateAnnouncing ==
    ASSUME TypeOK, TypeOK', HandlersInOrder, Announcing, NEW h \in Handler, CreateRepository(h)
    PROVE  Announcing'
  <1> DEFINE repo == Names[h]
  <1>1. /\ repo \in Repo /\ repo \in OnGithub /\ ~Tracked(repo) /\ nextId \in Id
        /\ held[h] \in Tag /\ held[h] <= latest[repo]
    BY DEF CreateRepository, HandlersInOrder
  <1>2. /\ rows' = [rows EXCEPT ![repo] = [id |-> nextId, tag |-> held[h]]]
        /\ nextId' = nextId + 1
        /\ baseline' = [baseline EXCEPT ![nextId] = held[h]]
        /\ UNCHANGED <<latest, scanning, todo, news, announced>>
    BY DEF CreateRepository
  <1>3. /\ Tracked(repo)' /\ rows'[repo].id = nextId /\ rows'[repo].tag = held[h]
        /\ \A r \in Repo : r # repo => rows'[r] = rows[r]
    <2>1. rows'[repo] = [id |-> nextId, tag |-> held[h]]
      BY <1>1, <1>2 DEF TypeOK
    <2>2. rows'[repo] # None
      BY <1>1, <2>1, NoneAssumption DEF Row
    <2> QED BY <1>1, <1>2, <2>1, <2>2 DEF TypeOK
  <1>4. /\ baseline'[nextId] = held[h]
        /\ \A i \in Id : i < nextId => baseline'[i] = baseline[i]
    BY <1>1, <1>2 DEF TypeOK, Id
  <1>5. \A r \in Repo : Tracked(r) => rows[r].id \in Id /\ rows[r].id < nextId
    BY DEF TypeOK, Row, Announcing, RowsInOrder
  <1>6. \A x \in todo : x.id \in Id /\ x.id < nextId
    BY DEF TypeOK, News, Announcing, ScanInOrder, Copy
  <1>7. news # None => news.id \in Id /\ news.id < nextId
    BY DEF TypeOK, News, Announcing, NewsInOrder, Copy
  <1> HIDE DEF repo
  <1>8. nextId \in Nat /\ nextId' \in Nat /\ \A i \in Id : i \in Nat
    BY <1>1, <1>2 DEF Id
  <1>9. RowsInOrder'
    <2> SUFFICES ASSUME NEW r \in Repo, Tracked(r)'
                 PROVE  /\ r \in OnGithub /\ rows'[r].id < nextId'
                        /\ baseline'[rows'[r].id] <= rows'[r].tag /\ rows'[r].tag <= latest'[r]
                        /\ \A s \in Repo : Tracked(s)' /\ rows'[s].id = rows'[r].id => s = r
      BY DEF RowsInOrder
    <2>1. CASE r = repo
      BY <1>1, <1>2, <1>3, <1>4, <1>5, <1>8, <2>1 DEF Tag
    <2>2. CASE r # repo
      <3>1. Tracked(r) /\ rows'[r] = rows[r] /\ rows[r].id \in Id /\ rows[r].id < nextId
        BY <1>3, <1>5, <2>2
      <3>2. baseline'[rows[r].id] = baseline[rows[r].id] /\ rows[r].id < nextId'
        BY <1>2, <1>4, <1>8, <3>1
      <3>3. ASSUME NEW s \in Repo, Tracked(s)', rows'[s].id = rows'[r].id PROVE s = r
        <4>1. s # repo
          BY <1>3, <1>8, <3>1, <3>3
        <4>2. Tracked(s) /\ rows[s].id = rows[r].id
          BY <1>3, <3>1, <3>3, <4>1
        <4> QED BY <3>1, <4>2 DEF Announcing, RowsInOrder
      <3> QED BY <1>2, <3>1, <3>2, <3>3 DEF Announcing, RowsInOrder
    <2> QED BY <2>1, <2>2
  <1>10. \A x \in News : x.id < nextId /\ Copy(x) => Copy(x)'
    <2> SUFFICES ASSUME NEW x \in News, x.id < nextId, Copy(x) PROVE Copy(x)'
      OBVIOUS
    <2>1. x.id \in Id /\ x.id < nextId' /\ baseline'[x.id] = baseline[x.id]
      BY <1>2, <1>4, <1>8 DEF News
    <2>2. ASSUME NEW r \in Repo, Tracked(r)', rows'[r].id = x.id PROVE r = x.repo
      <3>1. r # repo
        BY <1>3, <1>8, <2>1, <2>2
      <3> QED BY <1>3, <2>2, <3>1 DEF Copy
    <2> QED BY <1>2, <2>1, <2>2 DEF Copy
  <1>11. ScanInOrder'
    BY <1>2, <1>6, <1>10 DEF Announcing, ScanInOrder, TypeOK
  <1>12. NewsInOrder'
    BY <1>1, <1>2, <1>3, <1>4, <1>7, <1>8, <1>10 DEF Announcing, NewsInOrder, TypeOK
  <1>13. NumbersInOrder'
    <2> SUFFICES ASSUME NEW i \in Id, NEW t \in Tag, i >= nextId' PROVE announced[i][t] = 0
      BY <1>2 DEF NumbersInOrder
    <2>1. i >= nextId
      BY <1>2, <1>8
    <2> QED BY <2>1 DEF Announcing, NumbersInOrder
  <1>14. SeenWasAnnounced'
    BY <1>1, <1>2, <1>3, <1>4, <1>5 DEF Announcing, SeenWasAnnounced
  <1>15. NothingOldAnnounced'
    <2> SUFFICES ASSUME NEW i \in Id, NEW t \in Tag, i < nextId', t <= baseline'[i]
                 PROVE  announced'[i][t] = 0
      BY DEF NothingOldAnnounced
    <2>1. CASE i = nextId
      BY <1>1, <1>2, <1>8, <2>1 DEF Announcing, NumbersInOrder
    <2>2. CASE i # nextId
      BY <1>1, <1>2, <1>4, <1>8, <2>2 DEF Announcing, NothingOldAnnounced
    <2> QED BY <2>1, <2>2
  <1> QED BY <1>9, <1>11, <1>12, <1>13, <1>14, <1>15 DEF Announcing

LEMMA DeleteAnnouncing ==
    ASSUME TypeOK, Announcing, NEW h \in Handler, UntrackDelete(h)
    PROVE  Announcing'
  <1>1. /\ UNCHANGED <<latest, nextId, baseline, scanning, todo, news, announced>>
        /\ \A r \in Repo : rows'[r] \in {rows[r], None}
    BY DEF UntrackDelete, TypeOK
  <1>2. \A r \in Repo : Tracked(r)' => Tracked(r) /\ rows'[r] = rows[r]
    BY <1>1
  <1>3. RowsInOrder' /\ SeenWasAnnounced'
    BY <1>1, <1>2 DEF Announcing, RowsInOrder, SeenWasAnnounced
  <1>4. \A x : Copy(x) => Copy(x)'
    BY <1>1, <1>2 DEF Copy
  <1>5. ScanInOrder' /\ NewsInOrder'
    BY <1>1, <1>2, <1>4 DEF Announcing, ScanInOrder, NewsInOrder
  <1>6. NumbersInOrder' /\ NothingOldAnnounced'
    BY <1>1 DEF Announcing, NumbersInOrder, NothingOldAnnounced
  <1> QED BY <1>3, <1>5, <1>6 DEF Announcing

LEMMA StartAnnouncing == ASSUME TypeOK, Announcing, ScanStart PROVE Announcing'
  <1>1. /\ UNCHANGED <<latest, rows, nextId, baseline, news, announced>> /\ news = None
        /\ todo' = {[repo |-> r, id |-> rows[r].id, tag |-> rows[r].tag] :
                       r \in {s \in Repo : Tracked(s)}}
        /\ scanning' = (todo' # {})
    BY DEF ScanStart, Announcing, ScanInOrder
  <1>2. ASSUME NEW x \in todo'
        PROVE  \E r \in Repo : Tracked(r) /\ x.repo = r /\ x.id = rows[r].id /\ x.tag = rows[r].tag
    BY <1>1, <1>2
  <1>3. \A x \in todo' : Copy(x)'
    BY <1>1, <1>2 DEF Announcing, RowsInOrder, Copy
  <1>4. ASSUME NEW x \in todo', NEW y \in todo', x.id = y.id PROVE x = y
    <2>1. PICK r \in Repo : Tracked(r) /\ x = [repo |-> r, id |-> rows[r].id, tag |-> rows[r].tag]
      BY <1>1
    <2>2. PICK s \in Repo : Tracked(s) /\ y = [repo |-> s, id |-> rows[s].id, tag |-> rows[s].tag]
      BY <1>1
    <2>3. r = s
      BY <1>4, <2>1, <2>2 DEF Announcing, RowsInOrder
    <2> QED BY <2>1, <2>2, <2>3
  <1>5. ScanInOrder' /\ NewsInOrder'
    BY <1>1, <1>3, <1>4 DEF ScanInOrder, NewsInOrder
  <1>6. RowsInOrder' /\ NumbersInOrder' /\ SeenWasAnnounced' /\ NothingOldAnnounced'
    BY <1>1 DEF Announcing, RowsInOrder, NumbersInOrder, SeenWasAnnounced, NothingOldAnnounced
  <1> QED BY <1>5, <1>6 DEF Announcing

LEMMA PublishAnnouncing ==
    ASSUME TypeOK, Announcing, NEW x \in todo, ScanPublish(x)
    PROVE  Announcing'
  <1> DEFINE i == x.id
             t == latest[x.repo]
  <1>1. /\ x \in News /\ x.repo \in Repo /\ i \in Id /\ x.tag \in Nat /\ t \in Tag /\ t \in Nat
        /\ news = None /\ t # 0 /\ t # x.tag
        /\ UNCHANGED <<latest, rows, nextId, baseline>>
    BY DEF ScanPublish, TypeOK, News, Tag
  <1>2. CASE ~channel
    <2>1. todo' \subseteq todo /\ (~scanning' => todo' = {}) /\ UNCHANGED <<news, announced>>
      BY <1>2 DEF ScanPublish, Finish
    <2> QED BY <1>1, <2>1, AnnouncingDrops
  <1>3. CASE channel
    <2>1. /\ announced' = [announced EXCEPT ![i][t] = @ + 1]
          /\ news' = [x EXCEPT !.tag = t]
          /\ todo' = todo \ {x} /\ UNCHANGED scanning
      BY <1>3 DEF ScanPublish
    <2>2. Copy(x) /\ i < nextId /\ baseline[i] <= x.tag /\ x.tag < t /\ baseline[i] < t
      <3>1. Copy(x)
        BY DEF Announcing, ScanInOrder
      <3>2. baseline[i] \in Nat
        BY <1>1 DEF TypeOK, Tag
      <3> QED BY <1>1, <3>1, <3>2 DEF Copy
    <2>3. /\ announced'[i][t] = announced[i][t] + 1 /\ announced[i][t] \in Nat
          /\ \A j \in Id, u \in Tag : j # i \/ u # t => announced'[j][u] = announced[j][u]
      BY <1>1, <2>1 DEF TypeOK
    <2>4. news' # None /\ news'.repo = x.repo /\ news'.id = i /\ news'.tag = t
      <3>1. news' \in News /\ news'.repo = x.repo /\ news'.id = i /\ news'.tag = t
        BY <1>1, <2>1 DEF News
      <3> QED BY <3>1, NoneAssumption
    <2> HIDE DEF i, t
    <2>5. RowsInOrder'
      BY <1>1 DEF Announcing, RowsInOrder
    <2>6. \A y : Copy(y) => Copy(y)'
      BY <1>1 DEF Copy
    <2>7. ScanInOrder'
      <3>1. scanning
        BY DEF Announcing, ScanInOrder
      <3> QED BY <2>1, <2>6, <3>1 DEF Announcing, ScanInOrder
    <2>8. NewsInOrder'
      <3>1. Copy(news)'
        <4>1. t <= latest[x.repo] /\ baseline[i] <= t
          BY <1>1, <2>2 DEF t, TypeOK, Tag
        <4> QED BY <1>1, <2>2, <2>4, <4>1 DEF Copy, i
      <3>2. baseline'[news'.id] < news'.tag
        BY <1>1, <2>2, <2>4
      <3>3. announced'[news'.id][news'.tag] > 0
        BY <2>3, <2>4
      <3>4. \A y \in todo' : y.id # news'.id
        BY <2>1, <2>4 DEF Announcing, ScanInOrder, i
      <3>5. ASSUME NEW r \in Repo, Tracked(r)', rows'[r].id = news'.id
            PROVE  rows'[r].tag <= news'.tag
        <4>1. Tracked(r) /\ rows[r].id = i
          BY <1>1, <2>4, <3>5
        <4>2. r = x.repo
          BY <2>2, <4>1 DEF Copy, i
        <4>3. rows[r].tag <= latest[r]
          BY <4>1 DEF Announcing, RowsInOrder
        <4> QED BY <1>1, <2>4, <4>2, <4>3 DEF t
      <3> QED BY <3>1, <3>2, <3>3, <3>4, <3>5 DEF NewsInOrder
    <2>9. NumbersInOrder'
      <3> SUFFICES ASSUME NEW j \in Id, NEW u \in Tag, j >= nextId PROVE announced'[j][u] = 0
        BY <1>1 DEF NumbersInOrder
      <3>1. j # i
        BY <1>1, <2>2 DEF Id, TypeOK
      <3> QED BY <2>3, <3>1 DEF Announcing, NumbersInOrder
    <2>10. SeenWasAnnounced'
      <3> SUFFICES ASSUME NEW r \in Repo, Tracked(r)
                   PROVE  \/ rows[r].tag = baseline[rows[r].id]
                          \/ announced'[rows[r].id][rows[r].tag] > 0
        BY <1>1 DEF SeenWasAnnounced
      <3>1. rows[r].id \in Id /\ rows[r].tag \in Tag
        BY DEF TypeOK, Row
      <3>2. \/ rows[r].tag = baseline[rows[r].id]
            \/ announced[rows[r].id][rows[r].tag] > 0
        BY DEF Announcing, SeenWasAnnounced
      <3> QED BY <2>3, <3>1, <3>2
    <2>11. NothingOldAnnounced'
      <3> SUFFICES ASSUME NEW j \in Id, NEW u \in Tag, j < nextId, u <= baseline[j]
                   PROVE  announced'[j][u] = 0
        BY <1>1 DEF NothingOldAnnounced
      <3>1. j # i \/ u # t
        BY <1>1, <2>2 DEF TypeOK, Tag
      <3> QED BY <2>3, <3>1 DEF Announcing, NothingOldAnnounced
    <2> QED BY <2>5, <2>7, <2>8, <2>9, <2>10, <2>11 DEF Announcing
  <1> QED BY <1>2, <1>3

LEMMA RecordAnnouncing == ASSUME TypeOK, Announcing, ScanRecord PROVE Announcing'
  <1>1. /\ news # None /\ news' = None /\ todo' = todo /\ scanning' = (todo # {})
        /\ UNCHANGED <<latest, nextId, baseline, announced>>
    BY DEF ScanRecord, Finish
  <1>2. /\ news.id \in Id /\ news.tag \in Tag /\ news.tag \in Nat /\ Copy(news)
        /\ announced[news.id][news.tag] > 0
    BY <1>1 DEF TypeOK, News, Tag, Announcing, NewsInOrder
  <1>3. \A r \in Repo :
           /\ Tracked(r)' <=> Tracked(r)
           /\ Tracked(r) => /\ rows'[r].id = rows[r].id
                            /\ rows[r].id # news.id => rows'[r] = rows[r]
                            /\ rows[r].id = news.id => rows'[r].tag = news.tag
    <2> SUFFICES ASSUME NEW r \in Repo
                 PROVE  /\ Tracked(r)' <=> Tracked(r)
                        /\ Tracked(r) => /\ rows'[r].id = rows[r].id
                                         /\ rows[r].id # news.id => rows'[r] = rows[r]
                                         /\ rows[r].id = news.id => rows'[r].tag = news.tag
      OBVIOUS
    <2>1. rows'[r] = IF Tracked(r) /\ rows[r].id = news.id
                     THEN [rows[r] EXCEPT !.tag = news.tag] ELSE rows[r]
      BY DEF ScanRecord
    <2>2. CASE Tracked(r) /\ rows[r].id = news.id
      <3>1. rows[r] \in Row
        BY <2>2 DEF TypeOK
      <3>2. rows'[r] \in Row /\ rows'[r].id = rows[r].id /\ rows'[r].tag = news.tag
        BY <1>2, <2>1, <2>2, <3>1 DEF Row
      <3> QED BY <2>2, <3>2, NoneAssumption
    <2>3. CASE ~(Tracked(r) /\ rows[r].id = news.id)
      BY <2>1, <2>3
    <2> QED BY <2>2, <2>3
  <1>4. RowsInOrder'
    <2> SUFFICES ASSUME NEW r \in Repo, Tracked(r)
                 PROVE  /\ r \in OnGithub /\ rows'[r].id < nextId
                        /\ baseline[rows'[r].id] <= rows'[r].tag /\ rows'[r].tag <= latest[r]
                        /\ \A s \in Repo : Tracked(s)' /\ rows'[s].id = rows'[r].id => s = r
      BY <1>1, <1>3 DEF RowsInOrder
    <2>1. /\ r \in OnGithub /\ rows[r].id < nextId
          /\ baseline[rows[r].id] <= rows[r].tag /\ rows[r].tag <= latest[r]
          /\ \A s \in Repo : Tracked(s) /\ rows[s].id = rows[r].id => s = r
      BY DEF Announcing, RowsInOrder
    <2>2. CASE rows[r].id = news.id
      BY <1>2, <1>3, <2>1, <2>2 DEF Copy
    <2>3. CASE rows[r].id # news.id
      BY <1>3, <2>1, <2>3
    <2> QED BY <2>2, <2>3
  <1>5. \A x : Copy(x) => Copy(x)'
    BY <1>1, <1>3 DEF Copy
  <1>6. ScanInOrder' /\ NewsInOrder'
    BY <1>1, <1>5 DEF Announcing, ScanInOrder, NewsInOrder
  <1>7. NumbersInOrder' /\ NothingOldAnnounced'
    BY <1>1 DEF Announcing, NumbersInOrder, NothingOldAnnounced
  <1>8. SeenWasAnnounced'
    BY <1>1, <1>2, <1>3 DEF Announcing, SeenWasAnnounced
  <1> QED BY <1>4, <1>6, <1>7, <1>8 DEF Announcing

LEMMA ReleaseAnnouncing ==
    ASSUME TypeOK, Announcing, NEW repo \in Repo, Release(repo)
    PROVE  Announcing'
  <1>1. /\ UNCHANGED <<rows, nextId, baseline, scanning, todo, news, announced>>
        /\ \A r \in Repo : latest[r] \in Nat /\ latest'[r] \in Nat /\ latest[r] <= latest'[r]
    BY DEF Release, TypeOK, Tag
  <1>2. RowsInOrder'
    <2> SUFFICES ASSUME NEW r \in Repo, Tracked(r) PROVE rows[r].tag <= latest'[r]
      BY <1>1 DEF Announcing, RowsInOrder
    <2>1. rows[r].tag \in Nat /\ rows[r].tag <= latest[r]
      BY DEF TypeOK, Row, Tag, Announcing, RowsInOrder
    <2> QED BY <1>1, <2>1
  <1>3. \A x \in News : Copy(x) => Copy(x)'
    BY <1>1 DEF Copy, News, Tag
  <1>4. ScanInOrder' /\ NewsInOrder'
    BY <1>1, <1>3 DEF Announcing, ScanInOrder, NewsInOrder, TypeOK
  <1>5. NumbersInOrder' /\ NothingOldAnnounced' /\ SeenWasAnnounced'
    BY <1>1 DEF Announcing, NumbersInOrder, NothingOldAnnounced, SeenWasAnnounced
  <1> QED BY <1>2, <1>4, <1>5 DEF Announcing

\* The death of the process drops all the scanner holds.
LEMMA DieAnnouncing ==
    ASSUME TypeOK, Announcing, Die, UNCHANGED <<github, tables>>
    PROVE  Announcing'
  BY AnnouncingDrops DEF Die

\* What the scanner publishes and records stays in order with the rows.
LEMMA AnnouncingStep ==
    ASSUME TypeOK, TypeOK', HandlersInOrder, Announcing, [Next]_vars
    PROVE  Announcing'
  <1>1. ASSUME NEW h \in Handler, HandlerNext(h) PROVE Announcing'
    <2>1. CASE Return(h)
      BY <2>1, DieAnnouncing, AnnouncingFrame DEF Return, scanned
    <2>2. CASE ~(CreateRepository(h) \/ UntrackDelete(h) \/ Return(h))
      <3>1. UNCHANGED scanned
        BY <1>1, <2>2
           DEF HandlerNext, HandlerStep, LookupMissing, LookupFound, UntrackLookup, scanned,
               FetchRepository, FetchRelease, CreateConflicts, QueueReply, RegisterFails,
               QueueFails, UntrackFails
      <3> QED BY <3>1, AnnouncingFrame
    <2> QED BY <2>1, <2>2, CreateAnnouncing, DeleteAnnouncing
  <1>2. ASSUME NEW x \in todo, ScanNothing(x) PROVE Announcing'
    BY <1>2, AnnouncingDrops DEF ScanNothing, Finish
  <1>3. CASE ScanFails
    BY <1>3, AnnouncingDrops DEF ScanFails, Finish
  <1>4. CASE Crash
    BY <1>4, DieAnnouncing DEF Crash
  <1>5. CASE CloseChannel \/ Restart \/ UNCHANGED vars
    BY <1>5, AnnouncingFrame DEF CloseChannel, Restart, vars, scanned
  <1> QED BY <1>1, <1>2, <1>3, <1>4, <1>5, StartAnnouncing, PublishAnnouncing,
             RecordAnnouncing, ReleaseAnnouncing DEF Next, ScanStep

-----------------------------------------------------------------------------
(* Counting the announcements *)

LEMMA CountingTypes ==
    ASSUME TypeOK
    PROVE  faults \in Nat /\ crashes \in Nat /\ \A i \in Id, t \in Tag : announced[i][t] \in Nat
  BY DEF TypeOK

\* Nothing is announced, and nothing more may be announced again.
LEMMA CountingFrame ==
    ASSUME TypeOK, Counting, UNCHANGED <<announced, faults, crashes>>, ~channel' => ~channel,
           \A i \in Id, t \in Tag : Open(i, t)' => Open(i, t) \/ announced[i][t] = 0
    PROVE  Counting'
  <1>1. FewDuplicates'
    BY DEF Counting, FewDuplicates
  <1>2. ASSUME NEW i \in Id, NEW t \in Tag, Open(i, t)' \/ ~channel'
        PROVE  announced'[i][t] <= faults' + crashes'
    BY <1>2, CountingTypes DEF Counting, CopiesInOrder
  <1> QED BY <1>1, <1>2 DEF Counting, CopiesInOrder

\* A fault or a crash pays for one announcement more of every release.
LEMMA CountingFault ==
    ASSUME TypeOK, TypeOK', Counting, UNCHANGED announced,
           faults' + crashes' = faults + crashes + 1
    PROVE  Counting'
  <1>1. ASSUME NEW i \in Id, NEW t \in Tag PROVE announced'[i][t] <= faults' + crashes'
    BY CountingTypes DEF Counting, FewDuplicates
  <1>2. faults' \in Nat /\ crashes' \in Nat /\ \A i \in Id, t \in Tag : announced'[i][t] \in Nat
    BY DEF TypeOK
  <1> QED BY <1>1, <1>2 DEF Counting, FewDuplicates, CopiesInOrder

\* What was paid when the channel closed is still there when the process dies.
LEMMA CountingClosed ==
    ASSUME TypeOK, Counting, ~channel, UNCHANGED <<announced, faults, crashes>>
    PROVE  Counting'
  BY CountingTypes DEF Counting, FewDuplicates, CopiesInOrder

LEMMA FaultCounts ==
    ASSUME TypeOK, TypeOK', Counting, UNCHANGED announced, Fault
    PROVE  Counting'
  <1>1. faults' + crashes' = faults + crashes + 1
    BY CountingTypes DEF Fault
  <1> QED BY <1>1, CountingFault

\* The rows and the copies a release may be announced for again.
openness == <<rows, todo, news, announced, channel, faults, crashes>>

LEMMA CountingSame == ASSUME TypeOK, Counting, UNCHANGED openness PROVE Counting'
  <1>1. \A i \in Id, t \in Tag : Open(i, t)' => Open(i, t)
    BY DEF openness, Open
  <1> QED BY <1>1, CountingFrame DEF openness

LEMMA CreateCounting ==
    ASSUME TypeOK, TypeOK', HandlersInOrder, Announcing, Counting,
           NEW h \in Handler, CreateRepository(h)
    PROVE  Counting'
  <1>1. CASE Fault
    BY <1>1, FaultCounts DEF CreateRepository
  <1>2. CASE UNCHANGED budget
    <2>1. /\ Names[h] \in Repo /\ nextId \in Id /\ nextId \in Nat
          /\ rows' = [rows EXCEPT ![Names[h]] = [id |-> nextId, tag |-> held[h]]]
          /\ UNCHANGED <<todo, news, announced, channel, faults, crashes>>
      BY <1>2 DEF CreateRepository, Id
    <2>2. rows'[Names[h]].id = nextId /\ \A r \in Repo : r # Names[h] => rows'[r] = rows[r]
      BY <2>1 DEF TypeOK
    <2>3. ASSUME NEW i \in Id, NEW t \in Tag, Open(i, t)'
          PROVE  Open(i, t) \/ announced[i][t] = 0
      <3>1. CASE i = nextId
        BY <2>1, <3>1 DEF Announcing, NumbersInOrder
      <3>2. CASE i # nextId
        BY <2>1, <2>2, <2>3, <3>2 DEF Open
      <3> QED BY <3>1, <3>2
    <2> QED BY <2>1, <2>3, CountingFrame
  <1> QED BY <1>1, <1>2 DEF CreateRepository

LEMMA DeleteCounting ==
    ASSUME TypeOK, Counting, NEW h \in Handler, UntrackDelete(h)
    PROVE  Counting'
  <1>1. /\ UNCHANGED <<todo, news, announced, channel, faults, crashes>>
        /\ \A r \in Repo : rows'[r] \in {rows[r], None}
    BY DEF UntrackDelete, TypeOK
  <1>2. \A i \in Id, t \in Tag : Open(i, t)' => Open(i, t)
    BY <1>1 DEF Open
  <1> QED BY <1>1, <1>2, CountingFrame

LEMMA StartCounting == ASSUME TypeOK, Announcing, Counting, ScanStart PROVE Counting'
  <1>1. /\ UNCHANGED <<rows, news, announced, channel, faults, crashes>> /\ news = None
        /\ todo' = {[repo |-> r, id |-> rows[r].id, tag |-> rows[r].tag] :
                       r \in {s \in Repo : Tracked(s)}}
    BY DEF ScanStart, Announcing, ScanInOrder
  <1>2. ASSUME NEW x \in todo'
        PROVE  \E r \in Repo : Tracked(r) /\ x.id = rows[r].id /\ x.tag = rows[r].tag
    BY <1>1, <1>2
  <1>3. \A i \in Id, t \in Tag : Open(i, t)' => Open(i, t)
    BY <1>1, <1>2 DEF Open
  <1> QED BY <1>1, <1>3, CountingFrame

\* Announcing a release for a row closes it: the scanner had one copy of the
\* row, and holds the release as news now.
LEMMA PublishCounting ==
    ASSUME TypeOK, TypeOK', Announcing, Counting, NEW x \in todo, ScanPublish(x)
    PROVE  Counting'
  <1>a. x \in News /\ x.id \in Id /\ latest[x.repo] \in Tag
    BY DEF TypeOK, News
  <1>b. PICK i \in Id, t \in Tag : i = x.id /\ t = latest[x.repo]
    BY <1>a
  <1>1. /\ x \in News /\ i \in Id /\ x.tag \in Nat /\ t \in Tag /\ t \in Nat
        /\ news = None /\ t # x.tag
        /\ UNCHANGED <<rows, channel, faults, crashes>>
    BY <1>b DEF ScanPublish, TypeOK, News, Tag
  <1>2. CASE ~channel
    BY <1>1, <1>2, CountingClosed DEF ScanPublish
  <1>3. CASE channel
    <2>1. /\ announced' = [announced EXCEPT ![i][t] = @ + 1]
          /\ news' = [x EXCEPT !.tag = t] /\ todo' = todo \ {x}
      BY <1>b, <1>3 DEF ScanPublish
    <2>2. /\ announced'[i][t] = announced[i][t] + 1
          /\ \A j \in Id, u \in Tag : j # i \/ u # t => announced'[j][u] = announced[j][u]
      BY <1>1, <2>1 DEF TypeOK
    <2>3. news' \in News /\ news'.id = i /\ news'.tag = t
      BY <1>b, <1>1, <2>1 DEF News, TypeOK
    <2>4. x.tag < t
      BY <1>b, <1>1 DEF Announcing, ScanInOrder, Copy
    <2>5. Open(i, t)
      BY <1>b, <1>1, <2>4 DEF Open
    <2>6. ~Open(i, t)'
      <3>1. \A y \in todo' : y.id # i
        BY <1>b, <2>1 DEF Announcing, ScanInOrder
      <3> QED BY <1>1, <2>3, <3>1, NoneAssumption DEF Open
    <2>7. \A j \in Id, u \in Tag : Open(j, u)' => Open(j, u)
      BY <1>1, <2>1 DEF Open
    <2>8. FewDuplicates'
      <3> SUFFICES ASSUME NEW j \in Id, NEW u \in Tag
                   PROVE  announced'[j][u] <= 1 + faults + crashes
        BY <1>1 DEF FewDuplicates
      <3>1. CASE j = i /\ u = t
        BY <2>2, <2>5, <3>1, CountingTypes DEF Counting, CopiesInOrder
      <3>2. CASE j # i \/ u # t
        BY <2>2, <3>2 DEF Counting, FewDuplicates
      <3> QED BY <3>1, <3>2
    <2>9. CopiesInOrder'
      <3> SUFFICES ASSUME NEW j \in Id, NEW u \in Tag, Open(j, u)'
                   PROVE  announced'[j][u] <= faults + crashes
        BY <1>1, <1>3 DEF CopiesInOrder
      <3>1. j # i \/ u # t
        BY <2>6
      <3> QED BY <2>2, <2>7, <3>1 DEF Counting, CopiesInOrder
    <2> QED BY <2>8, <2>9 DEF Counting
  <1> QED BY <1>2, <1>3

LEMMA RecordCounting == ASSUME TypeOK, Announcing, Counting, ScanRecord PROVE Counting'
  <1>1. /\ news # None /\ news' = None
        /\ UNCHANGED <<todo, announced, channel, faults, crashes>>
    BY DEF ScanRecord, Finish
  <1>2. news.id \in Id /\ news.tag \in Nat
    BY <1>1 DEF TypeOK, News, Tag
  <1>3. ASSUME NEW j \in Id, NEW u \in Tag, Open(j, u)' PROVE Open(j, u)
    <2>1. CASE \E x \in todo : x.id = j /\ x.tag < u
      BY <2>1 DEF Open
    <2>2. CASE ~\E x \in todo : x.id = j /\ x.tag < u
      <3>1. PICK r \in Repo : Tracked(r)' /\ rows'[r].id = j /\ rows'[r].tag < u
        BY <1>1, <1>3, <2>2 DEF Open
      <3>2. rows'[r] = IF Tracked(r) /\ rows[r].id = news.id
                       THEN [rows[r] EXCEPT !.tag = news.tag] ELSE rows[r]
        BY DEF ScanRecord
      <3>3. CASE Tracked(r) /\ rows[r].id = news.id
        <4>1. rows[r] \in Row /\ u \in Nat
          BY <3>3 DEF TypeOK, Tag
        <4>2. rows'[r].id = rows[r].id /\ rows'[r].tag = news.tag
          BY <3>2, <3>3, <4>1 DEF Row
        <4>3. rows[r].tag \in Nat /\ rows[r].tag <= news.tag
          BY <1>1, <3>3, <4>1 DEF Row, Tag, Announcing, NewsInOrder
        <4> QED BY <1>2, <3>1, <3>3, <4>1, <4>2, <4>3 DEF Open
      <3>4. CASE ~(Tracked(r) /\ rows[r].id = news.id)
        BY <3>1, <3>2, <3>4 DEF Open
      <3> QED BY <3>3, <3>4
    <2> QED BY <2>1, <2>2
  <1> QED BY <1>1, <1>3, CountingFrame

\* A release is announced again only when a fault or a crash has paid for it.
LEMMA CountingStep ==
    ASSUME TypeOK, TypeOK', HandlersInOrder, Announcing, Counting, [Next]_vars
    PROVE  Counting'
  <1>1. ASSUME NEW h \in Handler, HandlerNext(h) PROVE Counting'
    <2>1. CASE RegisterFails(h) \/ QueueFails(h) \/ UntrackFails(h) \/ (QueueReply(h) /\ Fault)
      BY <2>1, FaultCounts DEF RegisterFails, QueueFails, UntrackFails, QueueReply
    <2>2. CASE Return(h) /\ ~channel
      BY <2>2, CountingClosed DEF Return, Die
    <2>3. CASE UNCHANGED openness
      BY <2>3, CountingSame
    <2>4. CASE LookupMissing(h) \/ LookupFound(h) \/ UntrackLookup(h) \/ FetchRepository(h)
               \/ FetchRelease(h) \/ CreateConflicts(h) \/ (QueueReply(h) /\ ~Fault)
               \/ (Return(h) /\ channel)
      BY <2>3, <2>4
         DEF LookupMissing, LookupFound, UntrackLookup, FetchRepository, FetchRelease,
             CreateConflicts, QueueReply, Return, openness
    <2> QED BY <1>1, <2>1, <2>2, <2>4, CreateCounting, DeleteCounting
            DEF HandlerNext, HandlerStep
  <1>2. ASSUME NEW x \in todo, ScanNothing(x) PROVE Counting'
    <2>1. /\ UNCHANGED <<rows, news, announced, channel, faults, crashes>>
          /\ todo' \subseteq todo
      BY <1>2 DEF ScanNothing, Finish
    <2>2. \A i \in Id, t \in Tag : Open(i, t)' => Open(i, t)
      BY <2>1 DEF Open
    <2> QED BY <2>1, <2>2, CountingFrame
  <1>3. CASE ScanFails \/ CloseChannel
    BY <1>3, FaultCounts DEF ScanFails, CloseChannel
  <1>4. CASE Crash
    <2>1. faults' + crashes' = faults + crashes + 1 /\ UNCHANGED announced
      BY <1>4, CountingTypes DEF Crash, Die
    <2> QED BY <2>1, CountingFault
  <1>5. CASE Restart
    <2>1. UNCHANGED <<rows, todo, news, announced, faults, crashes>> /\ channel'
      BY <1>5 DEF Restart
    <2>2. \A i \in Id, t \in Tag : Open(i, t)' => Open(i, t)
      BY <2>1 DEF Open
    <2> QED BY <2>1, <2>2, CountingFrame
  <1>6. CASE UNCHANGED vars \/ \E repo \in Repo : Release(repo)
    BY <1>6, CountingSame DEF Release, vars, openness
  <1> QED BY <1>1, <1>2, <1>3, <1>4, <1>5, <1>6, StartCounting, PublishCounting,
             RecordCounting DEF Next, ScanStep

-----------------------------------------------------------------------------
(* The theorems *)

\* A row's seen tag is written by the update alone, and the release it records
\* is not older than the row's.
LEMMA ForwardStep ==
    ASSUME TypeOK, Announcing, [Next]_vars
    PROVE  \A r \in Repo : Tracked(r) /\ Tracked(r)' /\ rows'[r].id = rows[r].id
               => rows'[r].tag >= rows[r].tag
  <1> SUFFICES ASSUME NEW r \in Repo, Tracked(r), Tracked(r)', rows'[r].id = rows[r].id
               PROVE  rows'[r].tag >= rows[r].tag
    OBVIOUS
  <1>1. rows[r] \in Row /\ rows[r].tag \in Nat
    BY DEF TypeOK, Row, Tag
  <1>2. CASE rows'[r] = rows[r]
    BY <1>1, <1>2
  <1>3. ASSUME NEW h \in Handler, CreateRepository(h) PROVE rows'[r] = rows[r]
    BY <1>3 DEF CreateRepository, TypeOK
  <1>4. ASSUME NEW h \in Handler, UntrackDelete(h) PROVE rows'[r] = rows[r]
    BY <1>4 DEF UntrackDelete
  <1>5. CASE ScanRecord
    <2>1. CASE rows[r].id = news.id
      <3>1. news # None /\ news.tag \in Nat
        BY <1>5 DEF ScanRecord, TypeOK, News, Tag
      <3>2. rows'[r] = [rows[r] EXCEPT !.tag = news.tag]
        BY <1>5, <2>1 DEF ScanRecord
      <3>3. rows'[r].tag = news.tag
        BY <1>1, <3>2 DEF Row
      <3>4. rows[r].tag <= news.tag
        BY <2>1, <3>1 DEF Announcing, NewsInOrder
      <3> QED BY <1>1, <3>1, <3>3, <3>4
    <2>2. CASE rows[r].id # news.id
      BY <1>2, <1>5, <2>2 DEF ScanRecord
    <2> QED BY <2>1, <2>2
  <1>6. CASE UNCHANGED rows
    BY <1>2, <1>6
  <1> QED
    BY <1>2, <1>3, <1>4, <1>5, <1>6
       DEF Next, HandlerNext, HandlerStep, ScanStep, vars, LookupMissing, LookupFound,
           UntrackLookup, FetchRepository, FetchRelease, CreateConflicts, QueueReply,
           Return, RegisterFails, QueueFails, UntrackFails, ScanStart, ScanNothing,
           ScanPublish, ScanFails, Release, CloseChannel, Crash, Restart

\* Nothing is tracked, scanned or announced at first.
LEMMA AtFirst == ASSUME Init PROVE Invariant
  <1>1. TypeOK
    <2>1. {0, 1} \subseteq Tag
      BY DEF Tag
    <2>2. latest \in [Repo -> Tag] /\ baseline \in [Id -> Tag]
      BY <2>1 DEF Init
    <2>3. nextId \in 1..MaxId + 1 /\ faults \in 0..MaxFaults /\ crashes \in 0..MaxCrashes
      BY DEF Init
    <2> QED BY <2>2, <2>3 DEF Init, TypeOK, At
  <1>2. Registering
    BY DEF Init, Registering, HandlersInOrder, RegisterIsAnswered, FirstAnswer, RepliesAreTrue
  <1>3. \A r \in Repo : ~Tracked(r)
    BY DEF Init
  <1>4. Announcing
    BY <1>3 DEF Init, Announcing, RowsInOrder, ScanInOrder, NewsInOrder, NumbersInOrder,
                SeenWasAnnounced, NothingOldAnnounced
  <1>5. Counting
    BY DEF Init, Counting, FewDuplicates, CopiesInOrder
  <1> QED BY <1>1, <1>2, <1>4, <1>5 DEF Invariant

\* Every step keeps the invariant.
LEMMA InvariantStep == Invariant /\ [Next]_vars => Invariant'
  <1> SUFFICES ASSUME Invariant, [Next]_vars PROVE Invariant'
    OBVIOUS
  <1> USE DEF Invariant
  <1>1. TypeOK'
    BY TypeStep DEF Registering
  <1>2. HandlersInOrder'
    BY <1>1, HandlersStep DEF Registering, Announcing
  <1>3. RegisterIsAnswered' /\ FirstAnswer' /\ RepliesAreTrue'
    BY <1>1, AnsweredStep, FirstAnswerStep, TruthStep DEF Registering
  <1>4. Announcing' /\ Counting'
    BY <1>1, AnnouncingStep, CountingStep DEF Registering
  <1> QED BY <1>1, <1>2, <1>3, <1>4 DEF Registering

\* The invariant holds whatever is delivered, scanned, lost or killed.
THEOREM InvariantHolds == Spec => []Invariant
  BY AtFirst, InvariantStep, PTL DEF Spec

\* Every variable keeps its type.
THEOREM TypeCorrect == Spec => []TypeOK
  <1>1. Invariant => TypeOK
    BY DEF Invariant
  <1> QED BY <1>1, InvariantHolds, PTL

\* A release recorded as seen was taken by the channel for publication, or is
\* the one the registration found and the row was inserted with.
THEOREM SeenIsAnnounced == Spec => []SeenWasAnnounced
  <1>1. Invariant => SeenWasAnnounced
    BY DEF Invariant, Announcing
  <1> QED BY <1>1, InvariantHolds, PTL

\* A release that was out when the registration asked GitHub for the latest one
\* is never announced for the row it inserted.
THEOREM NothingOldIsAnnounced == Spec => []NothingOldAnnounced
  <1>1. Invariant => NothingOldAnnounced
    BY DEF Invariant, Announcing
  <1> QED BY <1>1, InvariantHolds, PTL

\* Every announcement of a release for a row but the first is paid for by a
\* fault or a crash.
THEOREM DuplicatesAreBounded == Spec => []FewDuplicates
  <1>1. Invariant => FewDuplicates
    BY DEF Invariant, Counting
  <1> QED BY <1>1, InvariantHolds, PTL

\* A delivery of repository.register that is over has queued a reply, unless
\* statements failed.
THEOREM DeliveriesAreAnswered == Spec => []RegisterIsAnswered
  <1>1. Invariant => RegisterIsAnswered
    BY DEF Invariant, Registering
  <1> QED BY <1>1, InvariantHolds, PTL

\* What a saga is told of a repository is what GitHub says of it, and unless a
\* statement failed or the process died, a delivery is answered in one way.
THEOREM RepliesTellTheTruth == Spec => []RepliesAreTrue
  <1>1. Invariant => RepliesAreTrue
    BY DEF Invariant, Registering
  <1> QED BY <1>1, InvariantHolds, PTL

\* The seen tag of a row only moves forward.
THEOREM SeenOnlyMovesForward == Spec => SeenMovesForward
  <1>1. Invariant /\ [Next]_vars =>
          [\A r \in Repo : Tracked(r) /\ Tracked(r)' /\ rows'[r].id = rows[r].id
              => rows'[r].tag >= rows[r].tag]_vars
    BY ForwardStep DEF Invariant
  <1> QED BY <1>1, InvariantHolds, PTL DEF Spec, SeenMovesForward

-----------------------------------------------------------------------------
(* The service implements ReleaseFeed *)

\* A copy the scanner has still to process is not stale: nobody else writes the
\* seen tag of a row, and rows are not inserted under old numbers.
CopiesAreCurrent ==
    \A x \in todo, r \in Repo : Tracked(r) /\ rows[r].id = x.id => rows[r].tag = x.tag

LEMMA CurrentFrame ==
    ASSUME CopiesAreCurrent, todo' \subseteq todo, \A r \in Repo : rows'[r] \in {rows[r], None}
    PROVE  CopiesAreCurrent'
  BY DEF CopiesAreCurrent

LEMMA CurrentStep ==
    ASSUME Invariant, CopiesAreCurrent, [Next]_vars PROVE CopiesAreCurrent'
  <1>t. TypeOK /\ RowsInOrder /\ ScanInOrder /\ NewsInOrder
    BY DEF Invariant, Announcing
  <1>1. ASSUME NEW h \in Handler, CreateRepository(h) PROVE CopiesAreCurrent'
    <2>1. /\ UNCHANGED todo
          /\ rows' = [rows EXCEPT ![Names[h]] = [id |-> nextId, tag |-> held[h]]]
      BY <1>1 DEF CreateRepository
    <2>2. \A x \in todo : x.id # nextId
      BY <1>t DEF ScanInOrder, Copy, TypeOK, News, Id
    <2>3. \A r \in Repo : rows'[r] = rows[r] \/ rows'[r].id = nextId
      BY <1>t, <2>1 DEF TypeOK
    <2> QED
      BY <2>1, <2>2, <2>3 DEF CopiesAreCurrent
  <1>2. CASE ScanStart
    <2>1. /\ UNCHANGED rows
          /\ \A x \in todo' : \E s \in Repo : Tracked(s) /\ x.id = rows[s].id /\ x.tag = rows[s].tag
      BY <1>2 DEF ScanStart
    <2> QED
      BY <1>t, <2>1 DEF CopiesAreCurrent, RowsInOrder
  <1>3. CASE ScanRecord
    <2>1. /\ news # None /\ UNCHANGED todo
          /\ \A r \in Repo : rows'[r] = IF Tracked(r) /\ rows[r].id = news.id
                                        THEN [rows[r] EXCEPT !.tag = news.tag] ELSE rows[r]
      BY <1>3 DEF ScanRecord, Finish
    <2>2. ASSUME NEW x \in todo, NEW r \in Repo, Tracked(r)', rows'[r].id = x.id
          PROVE  rows'[r].tag = x.tag
      <3>1. x.id # news.id
        BY <1>t, <2>1 DEF NewsInOrder
      <3>2. CASE Tracked(r) /\ rows[r].id = news.id
        <4>1. rows[r] \in Row
          BY <1>t, <3>2 DEF TypeOK
        <4>2. rows'[r].id = news.id
          BY <2>1, <3>2, <4>1 DEF Row
        <4> QED
          BY <2>2, <3>1, <4>2
      <3>3. CASE ~(Tracked(r) /\ rows[r].id = news.id)
        BY <2>1, <2>2, <3>3 DEF CopiesAreCurrent
      <3> QED
        BY <3>2, <3>3
    <2> QED
      BY <2>1, <2>2 DEF CopiesAreCurrent
  <1>4. CASE UNCHANGED <<rows, todo>>
    BY <1>4 DEF CopiesAreCurrent
  <1>5. CASE Die /\ UNCHANGED rows
    BY <1>5 DEF Die, CopiesAreCurrent
  <1>6. ASSUME NEW h \in Handler, UntrackDelete(h) PROVE CopiesAreCurrent'
    BY <1>6, CurrentFrame DEF UntrackDelete
  <1>7. ASSUME NEW x \in todo, ScanNothing(x) \/ ScanPublish(x) PROVE CopiesAreCurrent'
    BY <1>7, CurrentFrame DEF ScanNothing, ScanPublish, Finish
  <1>8. CASE ScanFails
    BY <1>8, CurrentFrame DEF ScanFails, Finish
  <1>9. ASSUME NEW h \in Handler, HandlerNext(h) PROVE CopiesAreCurrent'
    BY <1>1, <1>4, <1>5, <1>6, <1>9
       DEF HandlerNext, HandlerStep, LookupMissing, LookupFound, UntrackLookup,
           FetchRepository, FetchRelease, CreateConflicts, QueueReply, Return,
           RegisterFails, QueueFails, UntrackFails
  <1> QED
    BY <1>2, <1>3, <1>4, <1>5, <1>7, <1>8, <1>9
       DEF Next, ScanStep, vars, Release, CloseChannel, Crash, Restart

\* What ReleaseFeed does not speak of.
LEMMA FeedFrame ==
    ASSUME UNCHANGED <<latest, rows, nextId, baseline, announced>>
    PROVE  UNCHANGED Feed!vars
  BY DEF Feed!vars

\* An insert takes a number that was never used, and a release GitHub has.
LEMMA FeedWatch ==
    ASSUME Invariant, NEW h \in Handler, CreateRepository(h)
    PROVE  Feed!Next
  <1> DEFINE r == Names[h]
             i == nextId
             t == held[h]
  <1>1. TypeOK /\ HandlersInOrder
    BY DEF Invariant, Registering
  <1>2. r \in OnGithub /\ r \in Repo /\ t \in Tag /\ t <= latest[r]
    BY <1>1 DEF CreateRepository, HandlersInOrder
  <1>3. i \in Id /\ rows[r] = None
    BY DEF CreateRepository
  <1>4. {j \in Id : j < nextId}' = {j \in Id : j < nextId} \cup {i}
    <2>1. nextId' = nextId + 1
      BY DEF CreateRepository
    <2> QED
      BY <1>3, <2>1 DEF Id
  <1>5. Feed!Watch(r, i, t)
    BY <1>2, <1>3, <1>4 DEF CreateRepository, Feed!Watch, Id
  <1> QED
    BY <1>2, <1>3, <1>5 DEF Feed!Next, Feed!Watch

\* A release is published for a copy that is current, or whose row is gone.
LEMMA FeedAnnounce ==
    ASSUME Invariant, CopiesAreCurrent, NEW x \in todo, ScanPublish(x), channel
    PROVE  Feed!Next
  <1> DEFINE r == x.repo
             i == x.id
             t == latest[x.repo]
  <1>1. TypeOK /\ ScanInOrder
    BY DEF Invariant, Announcing
  <1>2. r \in Repo /\ i \in Id /\ t \in Tag /\ x.tag \in Nat /\ t \in Nat /\ baseline[i] \in Nat
    BY <1>1 DEF TypeOK, News, Tag
  <1>3. i < nextId /\ baseline[i] < t /\ x.tag < t
    BY <1>1, <1>2 DEF ScanPublish, ScanInOrder, Copy
  <1>4. \A q \in Repo : Feed!Watched(q, i) => q = r /\ rows[q].tag < t
    BY <1>1, <1>3 DEF ScanInOrder, Copy, CopiesAreCurrent, Feed!Watched
  <1>5. UNCHANGED <<latest, rows, nextId, baseline>>
    BY DEF ScanPublish
  <1>6. announced' = [announced EXCEPT ![i][t] = @ + 1]
    BY DEF ScanPublish
  <1>7. Feed!Announce(r, i, t)
    BY <1>2, <1>3, <1>4, <1>5, <1>6 DEF Feed!Announce
  <1> QED
    BY <1>2, <1>7 DEF Feed!Next, Feed!Announce

\* What is recorded was announced for the row, which may be gone by now.
LEMMA FeedRecord ==
    ASSUME Invariant, ScanRecord
    PROVE  Feed!Next \/ UNCHANGED Feed!vars
  <1> DEFINE i == news.id
             t == news.tag
  <1>1. TypeOK /\ RowsInOrder /\ NewsInOrder
    BY DEF Invariant, Announcing
  <1>2. /\ news # None /\ UNCHANGED <<latest, nextId, baseline, announced>>
        /\ rows' = [r \in Repo |-> IF Tracked(r) /\ rows[r].id = i
                                  THEN [rows[r] EXCEPT !.tag = t] ELSE rows[r]]
    BY DEF ScanRecord
  <1>3. i \in Id /\ t \in Tag /\ t \in Nat
    BY <1>1, <1>2 DEF TypeOK, News, Tag
  <1>4. CASE \E r \in Repo : Tracked(r) /\ rows[r].id = i /\ rows[r].tag # t
    <2>1. PICK r \in Repo : Tracked(r) /\ rows[r].id = i /\ rows[r].tag # t
      BY <1>4
    <2>2. rows[r] \in Row /\ rows[r].tag \in Nat
      BY <1>1, <2>1 DEF TypeOK, Row, Tag
    <2>3. rows[r].tag < t /\ announced[i][t] > 0
      <3>1. NewsInOrder /\ news # None
        BY <1>1, <1>2
      <3>2. announced[i][t] > 0 /\ rows[r].tag <= t
        BY <3>1, <2>1 DEF NewsInOrder
      <3>. HIDE DEF i, t
      <3>. QED BY <3>2, <1>3, <2>1, <2>2
    <2>4. [rows[r] EXCEPT !.tag = t] = [id |-> i, tag |-> t]
      BY <2>1, <2>2 DEF Row
    <2>5. \A q \in Repo : Tracked(q) /\ rows[q].id = i => q = r
      BY <1>1, <2>1 DEF RowsInOrder
    <2>6. rows' = [q \in Repo |-> IF q = r THEN [id |-> i, tag |-> t] ELSE rows[q]]
      BY <1>2, <2>1, <2>4, <2>5
    <2> HIDE DEF i, t
    <2>7. rows' = [rows EXCEPT ![r] = [id |-> i, tag |-> t]]
      BY <1>1, <2>6 DEF TypeOK
    <2>8. Feed!Record(r, i, t)
      BY <1>2, <2>1, <2>3, <2>7 DEF Feed!Record, Feed!Watched
    <2> QED
      BY <1>3, <2>8 DEF Feed!Next, Feed!Record
  <1>5. CASE \A r \in Repo : Tracked(r) /\ rows[r].id = i => rows[r].tag = t
    <2>1. ASSUME NEW r \in Repo PROVE rows'[r] = rows[r]
      <3>1. CASE Tracked(r) /\ rows[r].id = i
        <4>1. rows[r] \in Row /\ rows[r].tag = t
          BY <1>1, <1>5, <3>1 DEF TypeOK
        <4>2. [rows[r] EXCEPT !.tag = t] = rows[r]
          BY <4>1 DEF Row
        <4> QED
          BY <1>2, <3>1, <4>2
      <3>2. CASE ~(Tracked(r) /\ rows[r].id = i)
        BY <1>2, <3>2
      <3> QED
        BY <3>1, <3>2
    <2>2. rows' = rows
      BY <1>1, <1>2, <2>1 DEF TypeOK
    <2> QED
      BY <1>2, <2>2, FeedFrame
  <1> QED
    BY <1>4, <1>5

\* At most one row has the number an untrack deletes.
LEMMA FeedUnwatch ==
    ASSUME Invariant, NEW h \in Handler, UntrackDelete(h)
    PROVE  Feed!Next \/ UNCHANGED Feed!vars
  <1>1. TypeOK /\ RowsInOrder
    BY DEF Invariant, Announcing
  <1>2. /\ UNCHANGED <<latest, nextId, baseline, announced>>
        /\ rows' = [r \in Repo |-> IF Tracked(r) /\ rows[r].id = held[h] THEN None ELSE rows[r]]
    BY DEF UntrackDelete
  <1>3. CASE \E r \in Repo : Tracked(r) /\ rows[r].id = held[h]
    <2>1. PICK r \in Repo : Tracked(r) /\ rows[r].id = held[h]
      BY <1>3
    <2>2. \A q \in Repo : Tracked(q) /\ rows[q].id = held[h] => q = r
      BY <1>1, <2>1 DEF RowsInOrder
    <2>3. rows' = [rows EXCEPT ![r] = None]
      BY <1>1, <1>2, <2>1, <2>2 DEF TypeOK
    <2>4. Feed!Unwatch(r)
      BY <1>2, <2>1, <2>3 DEF Feed!Unwatch
    <2> QED
      BY <2>4 DEF Feed!Next, Feed!Unwatch
  <1>4. CASE \A r \in Repo : ~(Tracked(r) /\ rows[r].id = held[h])
    <2>1. rows' = rows
      BY <1>1, <1>2, <1>4 DEF TypeOK
    <2> QED
      BY <1>2, <2>1, FeedFrame
  <1> QED
    BY <1>3, <1>4

\* Each step is a step of ReleaseFeed, or none.
LEMMA FeedStep ==
    ASSUME Invariant, CopiesAreCurrent, [Next]_vars PROVE [Feed!Next]_(Feed!vars)
  <1>1. ASSUME NEW h \in Handler, HandlerNext(h) PROVE Feed!Next \/ UNCHANGED Feed!vars
    <2>1. CASE CreateRepository(h) \/ UntrackDelete(h)
      BY <2>1, FeedWatch, FeedUnwatch
    <2>2. CASE ~(CreateRepository(h) \/ UntrackDelete(h))
      BY <1>1, <2>2, FeedFrame
         DEF HandlerNext, HandlerStep, LookupMissing, LookupFound, UntrackLookup,
             FetchRepository, FetchRelease, CreateConflicts, QueueReply, Return, Die,
             RegisterFails, QueueFails, UntrackFails
    <2> QED
      BY <2>1, <2>2
  <1>2. ASSUME NEW x \in todo, ScanPublish(x) PROVE Feed!Next \/ UNCHANGED Feed!vars
    <2>1. CASE channel
      BY <1>2, <2>1, FeedAnnounce
    <2>2. CASE ~channel
      BY <1>2, <2>2, FeedFrame DEF ScanPublish
    <2> QED
      BY <2>1, <2>2
  <1>3. ASSUME NEW repo \in Repo, Release(repo) PROVE Feed!Next
    <2>1. Feed!Release(repo)
      BY <1>3 DEF Release, Feed!Release
    <2> QED
      BY <2>1 DEF Feed!Next, Feed!Release
  <1>4. ASSUME \/ ScanStart \/ ScanFails \/ CloseChannel \/ Crash \/ Restart \/ UNCHANGED vars
               \/ \E x \in todo : ScanNothing(x)
        PROVE  UNCHANGED Feed!vars
    BY <1>4, FeedFrame
       DEF ScanStart, ScanNothing, ScanFails, CloseChannel, Crash, Die, Restart, vars
  <1> QED
    BY <1>1, <1>2, <1>3, <1>4, FeedRecord DEF Next, ScanStep

\* The service does no more than ReleaseFeed allows.
THEOREM FeedImplemented == Spec => FeedsReleases
  <1>1. Init => CopiesAreCurrent /\ Feed!Init
    <2> SUFFICES ASSUME Init PROVE CopiesAreCurrent /\ Feed!Init
      OBVIOUS
    <2>1. {i \in Id : i < nextId} = {}
      BY DEF Init, Id
    <2>2. latest \in [Repo -> Tag]
      BY AtFirst DEF Invariant, TypeOK
    <2> QED
      BY <2>1, <2>2 DEF Init, CopiesAreCurrent, Feed!Init
  <1>2. Invariant /\ CopiesAreCurrent /\ [Next]_vars => CopiesAreCurrent'
    BY CurrentStep
  <1>3. Invariant /\ CopiesAreCurrent /\ [Next]_vars => [Feed!Next]_(Feed!vars)
    BY FeedStep
  <1> QED
    BY InvariantHolds, <1>1, <1>2, <1>3, PTL DEF Spec, FeedsReleases, Feed!Spec
=============================================================================
