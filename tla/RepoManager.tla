---------------------------- MODULE RepoManager ----------------------------
(***************************************************************************)
(* The repo-manager service: the consumers of repository.register and      *)
(* repository.untrack, POST /internal/repositories, the scanner that polls *)
(* GitHub for releases, and the process they run in.                       *)
(*                                                                         *)
(* A handler is one delivery of a message, or one POST request; a message  *)
(* the broker delivers twice is two handlers.  Each action is one database *)
(* statement or one GitHub request with the code up to the next one.       *)
(***************************************************************************)
EXTENDS Naturals, FiniteSets

CONSTANTS
    Register,   \* deliveries of repository.register
    Untrack,    \* deliveries of repository.untrack
    Post,       \* POST /internal/repositories requests
    Repo,
    Names,      \* the repository each handler is about
    OnGithub,   \* the repositories that exist on GitHub
    None,       \* no row, no release being recorded
    MaxTag,     \* bound on releases per repository
    MaxId,      \* bound on rows ever inserted
    MaxFaults,  \* bound on failed statements and requests and closed channels
    MaxCrashes  \* bound on deaths of the process from outside

Handler == Register \cup Untrack \cup Post

ASSUME ConstantsAssumption ==
    /\ Names \in [Handler -> Repo]
    /\ OnGithub \subseteq Repo
    /\ Register \cap Untrack = {} /\ Register \cap Post = {} /\ Untrack \cap Post = {}
    /\ MaxTag \in Nat \ {0} /\ MaxId \in Nat /\ MaxFaults \in Nat /\ MaxCrashes \in Nat

\* Releases are numbered in the order GitHub publishes them; 0 is no release.
Tag == 0..MaxTag
Id  == 1..MaxId
Row == [id : Id, tag : Tag]

\* A release the scanner found newer than the row it read.
News == [repo : Repo, id : Id, tag : Tag]

ASSUME NoneAssumption == None \notin Row /\ None \notin News

VARIABLES
    latest,     \* GitHub: the latest release of each repository
    rows,       \* the repositories table: None, or the row of the repository
    nextId,     \* the identity sequence
    baseline,   \* the latest release when GitHub was asked for the row to insert
    outbox,     \* replies queued: <<handler, "registered" | "notFound" | "failed">>
    answer,     \* answers to POST requests
    at,         \* program counter of each handler
    held,       \* the tag or the id a handler has read
    scanning,   \* the scanner is between the start and the end of scan()
    todo,       \* rows of its snapshot it has still to process
    news,       \* the release it has published and not yet recorded
    announced,  \* release.published events the channel took, per row and tag
    up, channel, faults, crashes

github  == <<latest>>
tables  == <<rows, nextId, baseline, outbox>>
handler == <<at, held, answer>>
scanner == <<scanning, todo, news, announced>>
process == <<up, channel>>
budget  == <<faults, crashes>>
vars    == <<github, tables, handler, scanner, process, budget>>

At == {"waiting", "check", "fetch", "create", "reply", "refuse", "fail", "delete",
       "return", "done"}

TypeOK ==
    /\ latest \in [Repo -> Tag]
    /\ rows \in [Repo -> Row \cup {None}]
    /\ nextId \in 1..MaxId + 1
    /\ baseline \in [Id -> Tag]
    /\ outbox \subseteq Register \X {"registered", "notFound", "failed"}
    /\ answer \in [Post -> {"none", "OK", "NOTFOUND", "ERROR", "LOST"}]
    /\ at \in [Handler -> At]
    /\ held \in [Handler -> Nat]
    /\ scanning \in BOOLEAN
    /\ todo \subseteq News
    /\ news \in News \cup {None}
    /\ announced \in [Id -> [Tag -> Nat]]
    /\ up \in BOOLEAN /\ channel \in BOOLEAN
    /\ faults \in 0..MaxFaults /\ crashes \in 0..MaxCrashes

Init ==
    /\ latest \in [Repo -> {0, 1}] /\ \A r \in Repo \ OnGithub : latest[r] = 0
    /\ rows = [r \in Repo |-> None]
    /\ nextId = 1
    /\ baseline = [i \in Id |-> 0]
    /\ outbox = {}
    /\ answer = [p \in Post |-> "none"]
    /\ at = [h \in Handler |-> "waiting"]
    /\ held = [h \in Handler |-> 0]
    /\ scanning = FALSE /\ todo = {} /\ news = None
    /\ announced = [i \in Id |-> [t \in Tag |-> 0]]
    /\ up = TRUE /\ channel = TRUE
    /\ faults = 0 /\ crashes = 0

-----------------------------------------------------------------------------
(* Vocabulary *)

Tracked(repo) == rows[repo] # None
RowOf(h) == rows[Names[h]]

Goto(h, label) == at' = [at EXCEPT ![h] = label]

Fault == faults < MaxFaults /\ faults' = faults + 1 /\ UNCHANGED crashes

\* A POST request is answered and done; a register delivery goes on at label.
Settle(h, label, outcome) ==
    \/ /\ h \in Post
       /\ answer' = [answer EXCEPT ![h] = outcome]
       /\ Goto(h, "done")
    \/ /\ h \in Register
       /\ Goto(h, label)
       /\ UNCHANGED answer

\* The process ends.  The broker delivers again what was not acknowledged.
Die ==
    /\ up' = FALSE /\ channel' = FALSE
    /\ at' = [h \in Handler |-> CASE at[h] \in {"waiting", "done"} -> at[h]
                                  [] h \in Post -> "done"
                                  [] OTHER -> "waiting"]
    /\ answer' = [p \in Post |-> IF at[p] \in {"waiting", "done"} THEN answer[p] ELSE "LOST"]
    /\ held' = [h \in Handler |-> 0]
    /\ scanning' = FALSE /\ todo' = {} /\ news' = None
    /\ UNCHANGED announced

Registrar == Register \cup Post

\* A consumer only gets messages while its channel is open.
Starts(h) == up /\ at[h] = "waiting" /\ (h \in Post \/ channel)

\* The scan goes on with the rest, or is over.
Finish(rest) == todo' = rest /\ scanning' = (rest # {})

-----------------------------------------------------------------------------
(* Slips a change to the code could make: each takes the place of the action *)
(* it is named after, to see that a property notices.                        *)

\* "Already tracked" is taken for "nothing to do".
LookupFoundIgnored(h) ==
    /\ Starts(h) /\ h \in Registrar
    /\ Tracked(Names[h])
    /\ Settle(h, "return", "OK")
    /\ UNCHANGED <<github, tables, held, scanner, process, budget>>

\* The 404 is not looked at.
FetchAnyRepository(h) ==
    /\ at[h] = "check"
    /\ Goto(h, "fetch")
    /\ UNCHANGED <<github, tables, held, answer, scanner, process, budget>>

\* The row is inserted with the tag given.
Insert(h, tag) ==
    /\ at[h] = "create"
    /\ ~Tracked(Names[h])
    /\ nextId \in Id
    /\ rows' = [rows EXCEPT ![Names[h]] = [id |-> nextId, tag |-> tag]]
    /\ nextId' = nextId + 1
    /\ baseline' = [baseline EXCEPT ![nextId] = held[h]]
    /\ outbox' = IF h \in Register THEN outbox \cup {<<h, "registered">>} ELSE outbox
    /\ Settle(h, "return", "OK")
    /\ UNCHANGED <<github, held, scanner, process, budget>>

\* The release found is not stored.
CreateWithoutTag(h) == Insert(h, 0)

\* "No release" is stored as something that is no tag.
CreateUndefined(h) == Insert(h, IF held[h] = 0 THEN None ELSE held[h])

\* The reply is queued, and the insert that was to follow fails.
CreateAfterReply(h) ==
    /\ at[h] = "create"
    /\ ~Tracked(Names[h])
    /\ outbox' = IF h \in Register THEN outbox \cup {<<h, "registered">>} ELSE outbox
    /\ Settle(h, "fail", "ERROR")
    /\ UNCHANGED <<github, rows, nextId, baseline, held, scanner, process, budget>>

\* An event that cannot be published is recorded as seen.
PublishSwallowed(x) ==
    /\ news = None /\ x \in todo
    /\ latest[x.repo] \notin {0, x.tag}
    /\ announced' = IF channel THEN [announced EXCEPT ![x.id][latest[x.repo]] = @ + 1]
                               ELSE announced
    /\ news' = [x EXCEPT !.tag = latest[x.repo]]
    /\ todo' = todo \ {x}
    /\ UNCHANGED <<github, tables, handler, scanning, process, budget>>

\* UPDATE ... WHERE full_name = $2
RecordByName ==
    /\ news # None
    /\ rows' = [r \in Repo |-> IF Tracked(r) /\ r = news.repo
                               THEN [rows[r] EXCEPT !.tag = news.tag] ELSE rows[r]]
    /\ news' = None
    /\ Finish(todo)
    /\ UNCHANGED <<github, nextId, baseline, outbox, handler, announced, process, budget>>

\* No update.
RecordNothing ==
    /\ news # None
    /\ news' = None
    /\ Finish(todo)
    /\ UNCHANGED <<github, tables, handler, announced, process, budget>>

\* Only repositories that have had a release are scanned.
ScanStartReleased ==
    /\ up /\ ~scanning
    /\ todo' = {[repo |-> r, id |-> rows[r].id, tag |-> rows[r].tag] :
                   r \in {s \in Repo : Tracked(s) /\ rows[s].tag # 0}}
    /\ scanning' = (todo' # {})
    /\ UNCHANGED <<github, tables, handler, news, announced, process, budget>>

-----------------------------------------------------------------------------
(* Registration: the consumer of repository.register, and the POST route *)

\* getRepositoryByFullName finds no row.
LookupMissing(h) ==
    /\ Starts(h) /\ h \in Registrar
    /\ ~Tracked(Names[h])
    /\ Goto(h, "check")
    /\ UNCHANGED <<github, tables, held, answer, scanner, process, budget>>

LookupFound(h) ==
    /\ Starts(h) /\ h \in Registrar
    /\ Tracked(Names[h])
    /\ Settle(h, "reply", "OK")
    /\ UNCHANGED <<github, tables, held, scanner, process, budget>>

\* fetchRepository: 404 becomes "repository not found".
FetchRepository(h) ==
    /\ at[h] = "check"
    /\ \/ /\ Names[h] \in OnGithub
          /\ Goto(h, "fetch")
          /\ UNCHANGED answer
       \/ /\ Names[h] \notin OnGithub
          /\ Settle(h, "refuse", "NOTFOUND")
    /\ UNCHANGED <<github, tables, held, scanner, process, budget>>

FetchRelease(h) ==
    /\ at[h] = "fetch"
    /\ held' = [held EXCEPT ![h] = latest[Names[h]]]
    /\ Goto(h, "create")
    /\ UNCHANGED <<github, tables, answer, scanner, process, budget>>

\* The insert, in one transaction with the reply if a saga waits for one.  The
\* acknowledgement of the commit may be lost.
CreateRepository(h) ==
    /\ at[h] = "create"
    /\ ~Tracked(Names[h])
    /\ nextId \in Id
    /\ rows' = [rows EXCEPT ![Names[h]] = [id |-> nextId, tag |-> held[h]]]
    /\ nextId' = nextId + 1
    /\ baseline' = [baseline EXCEPT ![nextId] = held[h]]
    /\ outbox' = IF h \in Register THEN outbox \cup {<<h, "registered">>} ELSE outbox
    /\ \/ Settle(h, "return", "OK") /\ UNCHANGED budget
       \/ Settle(h, "fail", "ERROR") /\ Fault
    /\ UNCHANGED <<github, held, scanner, process>>

\* Another handler inserted the name first: the unique constraint objects.
CreateConflicts(h) ==
    /\ at[h] = "create"
    /\ Tracked(Names[h])
    /\ Settle(h, "fail", "ERROR")
    /\ UNCHANGED <<github, tables, held, scanner, process, budget>>

\* queueOutbox.  When the acknowledgement of a "registered" is lost, the catch
\* block queues "failed" beside it; that of the other two is awaited last.
QueueReply(h) ==
    /\ \/ at[h] = "reply"  /\ outbox' = outbox \cup {<<h, "registered">>}
       \/ at[h] = "refuse" /\ outbox' = outbox \cup {<<h, "notFound">>}
       \/ at[h] = "fail"   /\ outbox' = outbox \cup {<<h, "failed">>}
    /\ \/ Goto(h, "return") /\ UNCHANGED budget
       \/ at[h] = "reply" /\ Goto(h, "fail") /\ Fault
    /\ UNCHANGED <<github, rows, nextId, baseline, held, answer, scanner, process>>

\* A statement or a GitHub request fails (a rate limit, an error, a lost
\* connection).  The catch block queues "failed"; if that fails, too, the
\* message is nacked and gone.
RegisterFails(h) ==
    /\ \/ Starts(h) /\ h \in Registrar
       \/ at[h] \in {"check", "fetch", "create", "reply"}
    /\ Fault
    /\ Settle(h, "fail", "ERROR")
    /\ UNCHANGED <<github, tables, held, scanner, process>>

QueueFails(h) ==
    /\ at[h] \in {"refuse", "fail"}
    /\ Fault
    /\ Goto(h, "return")
    /\ UNCHANGED <<github, tables, held, answer, scanner, process>>

\* The consumer's callback returns: ack, or nack without requeue.  On a closed
\* channel both throw, and nothing catches it.
Return(h) ==
    /\ at[h] = "return"
    /\ \/ /\ channel
          /\ Goto(h, "done")
          /\ UNCHANGED <<held, answer, scanner, process>>
       \/ /\ ~channel
          /\ Die
    /\ UNCHANGED <<github, tables, budget>>

-----------------------------------------------------------------------------
(* handleUntrackEvent *)

UntrackLookup(h) ==
    /\ Starts(h) /\ h \in Untrack
    /\ \/ /\ Tracked(Names[h])
          /\ held' = [held EXCEPT ![h] = RowOf(h).id]
          /\ Goto(h, "delete")
       \/ /\ ~Tracked(Names[h])
          /\ Goto(h, "return")
          /\ UNCHANGED held
    /\ UNCHANGED <<github, tables, answer, scanner, process, budget>>

\* DELETE ... WHERE id = $1.  The handler ends here: whether the acknowledgement
\* arrives makes no difference, nor does it behind ScanRecord.
UntrackDelete(h) ==
    /\ at[h] = "delete"
    /\ rows' = [r \in Repo |-> IF Tracked(r) /\ rows[r].id = held[h] THEN None ELSE rows[r]]
    /\ Goto(h, "return")
    /\ UNCHANGED <<github, nextId, baseline, outbox, held, answer, scanner, process, budget>>

UntrackFails(h) ==
    /\ \/ Starts(h) /\ h \in Untrack
       \/ at[h] = "delete"
    /\ Fault
    /\ Goto(h, "return")
    /\ UNCHANGED <<github, tables, held, answer, scanner, process>>

-----------------------------------------------------------------------------
(* The scanner *)

\* getConfirmedRepositories: the scan works on a copy of the table.
ScanStart ==
    /\ up /\ ~scanning
    /\ todo' = {[repo |-> r, id |-> rows[r].id, tag |-> rows[r].tag] :
                   r \in {s \in Repo : Tracked(s)}}
    /\ scanning' = (todo' # {})
    /\ UNCHANGED <<github, tables, handler, news, announced, process, budget>>

\* fetchLatestRelease has nothing new for the next row.
ScanNothing(x) ==
    /\ news = None /\ x \in todo
    /\ latest[x.repo] \in {0, x.tag}
    /\ Finish(todo \ {x})
    /\ UNCHANGED <<github, tables, handler, news, announced, process, budget>>

\* It has: the event is published as soon as the response is there.  publish()
\* returns when the channel has taken the event; one that is lost in the socket
\* of a dying process has been announced here, and is beyond this model.
ScanPublish(x) ==
    /\ news = None /\ x \in todo
    /\ latest[x.repo] \notin {0, x.tag}
    /\ \/ /\ channel
          /\ announced' = [announced EXCEPT ![x.id][latest[x.repo]] = @ + 1]
          /\ news' = [x EXCEPT !.tag = latest[x.repo]]
          /\ todo' = todo \ {x}
          /\ UNCHANGED scanning
       \/ /\ ~channel
          /\ Finish(todo \ {x})
          /\ UNCHANGED <<news, announced>>
    /\ UNCHANGED <<github, tables, handler, process, budget>>

\* updateRepositoryLastSeenTag: UPDATE ... WHERE id = $2
ScanRecord ==
    /\ news # None
    /\ rows' = [r \in Repo |-> IF Tracked(r) /\ rows[r].id = news.id
                               THEN [rows[r] EXCEPT !.tag = news.tag] ELSE rows[r]]
    /\ news' = None
    /\ Finish(todo)
    /\ UNCHANGED <<github, nextId, baseline, outbox, handler, announced, process, budget>>

\* The request or the update fails; a rate limit ends the scan.
ScanFails ==
    /\ scanning
    /\ Fault
    /\ \/ news # None /\ Finish(todo)
       \/ news = None /\ \E x \in todo : Finish(todo \ {x})
       \/ news = None /\ Finish({})
    /\ news' = None
    /\ UNCHANGED <<github, tables, handler, announced, process>>

-----------------------------------------------------------------------------
(* The environment *)

Release(repo) ==
    /\ repo \in OnGithub
    /\ latest[repo] < MaxTag
    /\ latest' = [latest EXCEPT ![repo] = @ + 1]
    /\ UNCHANGED <<tables, handler, scanner, process, budget>>

CloseChannel ==
    /\ up /\ channel
    /\ Fault
    /\ channel' = FALSE
    /\ UNCHANGED <<github, tables, handler, scanner, up>>

Crash ==
    /\ up
    /\ crashes < MaxCrashes
    /\ crashes' = crashes + 1
    /\ Die
    /\ UNCHANGED <<github, tables, faults>>

Restart ==
    /\ ~up
    /\ up' = TRUE /\ channel' = TRUE
    /\ UNCHANGED <<github, tables, handler, scanner, budget>>

-----------------------------------------------------------------------------
HandlerStep(h) ==
    \/ FetchRepository(h) \/ FetchRelease(h) \/ CreateRepository(h) \/ CreateConflicts(h)
    \/ QueueReply(h) \/ UntrackDelete(h) \/ Return(h)

HandlerNext(h) ==
    \/ LookupMissing(h) \/ LookupFound(h) \/ UntrackLookup(h)
    \/ HandlerStep(h)
    \/ RegisterFails(h) \/ QueueFails(h) \/ UntrackFails(h)

ScanStep == ScanStart \/ (\E x \in todo : ScanNothing(x) \/ ScanPublish(x)) \/ ScanRecord

Next ==
    \/ \E h \in Handler : HandlerNext(h)
    \/ ScanStep \/ ScanFails
    \/ \E repo \in Repo : Release(repo)
    \/ CloseChannel \/ Crash \/ Restart

Spec == Init /\ [][Next]_vars

\* runScanner rearms its timer in a finally block, and Node runs callbacks.
FairSpec ==
    /\ Spec
    /\ WF_vars(ScanStep)
    /\ \A h \in Handler : WF_vars(HandlerStep(h))

-----------------------------------------------------------------------------
(* Properties *)

\* A release recorded as seen was given to the channel for publication, or is
\* the one the registration found at GitHub: no crash, failed statement or late
\* handler makes the scanner skip a release silently.
SeenWasAnnounced ==
    \A r \in Repo : Tracked(r) =>
        \/ rows[r].tag = baseline[rows[r].id]
        \/ announced[rows[r].id][rows[r].tag] > 0

\* Nobody is told of a release that was out when the registration asked GitHub
\* for the latest one, although the scanner compares tags for equality only and
\* works on stale copies.  (One that comes out between that look-up and the
\* insert is announced: the row is inserted with what the look-up found.)
NothingOldAnnounced ==
    \A i \in Id, t \in Tag : i < nextId /\ t <= baseline[i] => announced[i][t] = 0

\* A release is announced once for a row, and once more at most for each fault
\* or crash that kept it from being recorded.
FewDuplicates ==
    \A i \in Id, t \in Tag : announced[i][t] <= 1 + faults + crashes

\* A delivery of repository.register that is over has queued a reply, unless
\* statements failed: a saga is not left to its timeout for nothing.
RegisterIsAnswered ==
    \A h \in Register : at[h] \in {"return", "done"} /\ faults = 0 =>
        \E o \in {"registered", "notFound", "failed"} : <<h, o>> \in outbox

\* "repository not found" is said only of what GitHub does not have, and
\* "registered" only of what it has; and no delivery is answered in two ways,
\* unless a statement failed or the process died: the catch block, the lookup of
\* a row that is there and the insert that another one forestalls do not add up
\* to a "failed" beside a "registered".
RepliesAreTrue ==
    \A h \in Register :
        /\ <<h, "notFound">> \in outbox => Names[h] \notin OnGithub
        /\ <<h, "registered">> \in outbox => Names[h] \in OnGithub
        /\ faults = 0 /\ crashes = 0 =>
              \A k, l \in {"registered", "notFound", "failed"} :
                  <<h, k>> \in outbox /\ <<h, l>> \in outbox => k = l

\* The seen tag of a row only moves forward, whoever writes it and however
\* stale the copy it was computed from.
SeenMovesForward ==
    [][\A r \in Repo : Tracked(r) /\ Tracked(r)' /\ rows'[r].id = rows[r].id
            => rows'[r].tag >= rows[r].tag]_vars

\* The service is a ReleaseFeed: stale copies of rows, rows deleted and inserted
\* anew under a scan, deaths between an announcement and its record, and replies
\* of GitHub that late handlers act upon do no more than ReleaseFeed allows.
Feed == INSTANCE ReleaseFeed WITH
    watch <- rows, used <- {i \in Id : i < nextId}, since <- baseline

FeedsReleases == Feed!Spec

\* As long as the process and its channel stay up, the latest release of a
\* tracked repository is recorded, or the repository is untracked: finitely
\* many rate limits and failures delay a scan and do not stop the scanner.
ReleasesAreSeen ==
    <>[](up /\ channel) =>
        \A r \in Repo : []<>(~Tracked(r) \/ rows[r].tag = latest[r])

=============================================================================
