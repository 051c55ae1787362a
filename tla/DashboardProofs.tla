--------------------------- MODULE DashboardProofs ---------------------------
(***************************************************************************)
(* The safety properties of Dashboard, and that the two transports of      *)
(* TagLookup agree: for any emails, names, tags, slots and bounds.         *)
(***************************************************************************)
EXTENDS Dashboard, TLAPS

-----------------------------------------------------------------------------
(* The inductive invariant *)

\* Unless requests overlap, at most one is under way.
OneAtATime ==
    alone => \A f, g \in Fetch : Pending(f) /\ Pending(g) => f = g

\* It is for the email above the list, and reads rows no older than the click.
OwnRequest ==
    current # None /\ alone => \A f \in Fetch : Pending(f) =>
        /\ fetch[f].email = current
        /\ fetch[f].at # "sent" /\ fetch[f].answer = "rows" => fetch[f].read >= asked

AskedInTime == asked <= version

Invariant ==
    /\ TypeOK /\ OneAtATime /\ OwnRequest /\ AskedInTime
    /\ NeverBlank /\ OneViewAtATime /\ ShowsOwnFreshList

USE DashboardAssumption DEF Pending

-----------------------------------------------------------------------------
(* The pieces of the actions *)

\* A request that is sent takes the place of an idle one, and every view's.
LEMMA Asking ==
    ASSUME NEW among \in [Fetch -> Request], NEW f \in Fetch, NEW email \in Email,
           version \in 0..MaxVersion, Ask(f, among, email)
    PROVE  /\ fetch' \in [Fetch -> Request]
           /\ fetch'[f] = Sent(email)
           /\ \A g \in Fetch : g # f => fetch'[g] = among[g]
           /\ loading' = TRUE /\ empty' = FALSE /\ listed' = FALSE
           /\ alone' \in BOOLEAN
           /\ alone' => \A g \in Fetch : among[g].at = "idle"
           /\ asked' = version
  BY DEF Ask, Sent, Request

\* An answer shows one view more.
LEMMA Showing ==
    ASSUME TypeOK, NEW request \in Request, Show(request)
    PROVE  /\ empty' \in BOOLEAN /\ listed' \in BOOLEAN
           /\ table' \in [email : Email \cup {None}, read : 0..MaxVersion]
           /\ empty' \/ listed'
           /\ request.answer = "rows" => /\ listed' = TRUE /\ empty' = empty
                                         /\ table'.email = request.email
                                         /\ table'.read = request.read
           /\ request.answer # "rows" => empty' = TRUE /\ listed' = listed /\ table' = table
  <1>1. CASE request.answer = "rows"
    <2>1. table' = [email |-> request.email, read |-> request.read]
      BY <1>1 DEF Show
    <2>2. request.email \in Email \cup {None} /\ request.read \in 0..MaxVersion
      BY DEF Request
    <2> QED BY <1>1, <2>1, <2>2 DEF Show, TypeOK
  <1>2. CASE request.answer # "rows"
    BY <1>2 DEF Show, TypeOK
  <1> QED BY <1>1, <1>2

-----------------------------------------------------------------------------
(* Every step keeps the invariant, whoever sends a request *)

\* The invariant after a request was sent by the page of this email.
LEMMA AskStep ==
    ASSUME Invariant, NEW among \in [Fetch -> Request], NEW f \in Fetch, NEW email \in Email,
           \A g \in Fetch : among[g].at # "idle" => among[g].email \in Email,
           Ask(f, among, email), current' = email, stored' = email,
           UNCHANGED rows,
           table' \in [email : Email \cup {None}, read : 0..MaxVersion],
           alert' \in {"hidden", "success", "warning", "danger"}, disabled' \in BOOLEAN,
           post' \in {NoPost} \cup [at : {"sent", "refreshing"},
                                    repo : {CleanRepoInput(typed) : typed \in Typed}]
    PROVE  Invariant'
  <1>1. version \in 0..MaxVersion
    BY DEF Invariant, TypeOK
  <1>2. /\ fetch' \in [Fetch -> Request]
        /\ fetch'[f] = Sent(email)
        /\ \A g \in Fetch : g # f => fetch'[g] = among[g]
        /\ loading' = TRUE /\ empty' = FALSE /\ listed' = FALSE
        /\ alone' \in BOOLEAN
        /\ alone' => \A g \in Fetch : among[g].at = "idle"
        /\ asked' = version
    BY <1>1, Asking
  <1>3. TypeOK'
    <2>1. \A g \in Fetch : fetch'[g].at # "idle" => fetch'[g].email \in Email
      BY <1>2 DEF Sent
    <2>2. asked' \in 0..MaxVersion
      BY <1>1, <1>2
    <2> QED BY <1>2, <2>1, <2>2 DEF Invariant, TypeOK, rows
  <1>4. alone' => \A g \in Fetch : fetch'[g].at # "idle" => g = f
    BY <1>2
  <1>5. OneAtATime'
    BY <1>4 DEF OneAtATime
  <1>6. OwnRequest'
    BY <1>2, <1>4 DEF OwnRequest, Sent
  <1>7. AskedInTime'
    BY <1>1, <1>2 DEF AskedInTime, rows
  <1>8. fetch'[f].at # "idle"
    BY <1>2 DEF Sent
  <1>9. NeverBlank' /\ OneViewAtATime' /\ ShowsOwnFreshList'
    BY <1>2, <1>8 DEF NeverBlank, OneViewAtATime, ShowsOwnFreshList
  <1> QED BY <1>3, <1>5, <1>6, <1>7, <1>9 DEF Invariant

\* Nothing of the requests and the views changes, and nobody logs in.
LEMMA FormStep ==
    ASSUME Invariant, TypeOK', UNCHANGED <<views, asking, version>>,
           current' \in {current, None}
    PROVE  Invariant'
  <1>1. OneAtATime' /\ OwnRequest' /\ AskedInTime'
    BY DEF Invariant, OneAtATime, OwnRequest, AskedInTime, asking
  <1>2. NeverBlank' /\ OneViewAtATime' /\ ShowsOwnFreshList'
    BY DEF Invariant, NeverBlank, OneViewAtATime, ShowsOwnFreshList, views, asking
  <1> QED BY <1>1, <1>2 DEF Invariant

\* A request that is served stays under way.
LEMMA ServeStep ==
    ASSUME Invariant, TypeOK', NEW f \in Fetch,
           UNCHANGED <<rows, stored, current, views, form, alone, asked>>,
           fetch[f].at # "idle", fetch'[f].at # "idle",
           fetch'[f].email = fetch[f].email,
           fetch'[f].answer = "rows" =>
               \/ fetch'[f].read = version
               \/ fetch[f].at # "sent" /\ fetch[f].answer = "rows"
                                       /\ fetch'[f].read = fetch[f].read,
           \A g \in Fetch : g # f => fetch'[g] = fetch[g]
    PROVE  Invariant'
  <1> USE DEF rows, views, form
  <1>1. \A g \in Fetch : fetch'[g].at # "idle" <=> fetch[g].at # "idle"
    OBVIOUS
  <1>2. OneAtATime'
    BY <1>1 DEF Invariant, OneAtATime
  <1>3. asked \in Nat /\ version \in Nat /\ asked <= version
    BY DEF Invariant, TypeOK, AskedInTime
  <1>4. OwnRequest'
    <2> SUFFICES ASSUME current # None, alone, NEW g \in Fetch, fetch'[g].at # "idle"
                 PROVE  /\ fetch'[g].email = current
                        /\ fetch'[g].at # "sent" /\ fetch'[g].answer = "rows"
                              => fetch'[g].read >= asked
      BY DEF OwnRequest
    <2>1. /\ fetch[g].email = current
          /\ fetch[g].at # "sent" /\ fetch[g].answer = "rows" => fetch[g].read >= asked
      BY <1>1 DEF Invariant, OwnRequest
    <2>2. CASE g = f
      BY <2>1, <2>2, <1>3
    <2>3. CASE g # f
      BY <2>1, <2>3
    <2> QED BY <2>2, <2>3
  <1>5. AskedInTime'
    BY DEF Invariant, AskedInTime
  <1>6. NeverBlank' /\ OneViewAtATime' /\ ShowsOwnFreshList'
    BY <1>1 DEF Invariant, NeverBlank, OneViewAtATime, ShowsOwnFreshList
  <1> QED BY <1>2, <1>4, <1>5, <1>6 DEF Invariant

-----------------------------------------------------------------------------
(* Theorems *)

\* A page that asks nobody for anything, or the list for the email stored.
LEMMA LoadStep == ASSUME Invariant, Load PROVE Invariant'
  <1> DEFINE fresh == [f \in Fetch |-> Idle]
  <1>1. fresh \in [Fetch -> Request] /\ \A f \in Fetch : fresh[f].at = "idle"
    BY DEF Invariant, TypeOK, Idle, Request
  <1>2. /\ table' \in [email : Email \cup {None}, read : 0..MaxVersion]
        /\ stored' = stored /\ current' = stored /\ stored \in Email \cup {None}
    BY DEF Load, NoTable, Invariant, TypeOK
  <1>3. CASE stored # None
    <2>1. PICK f \in Fetch : Ask(f, fresh, stored)
      BY <1>3 DEF Load
    <2>2. stored \in Email
      BY <1>2, <1>3
    <2> HIDE DEF fresh
    <2> QED BY <1>1, <1>2, <2>1, <2>2, AskStep DEF Load
  <1>4. CASE stored = None
    <2>1. /\ fetch' = fresh /\ alone' = TRUE /\ asked' = version
          /\ loading' = FALSE /\ empty' = FALSE /\ listed' = FALSE
      BY <1>4 DEF Load
    <2>2. TypeOK'
      BY <1>1, <1>2, <2>1 DEF Load, Invariant, TypeOK, rows
    <2>3. OneAtATime' /\ OwnRequest' /\ AskedInTime'
      BY <1>1, <1>2, <1>4, <2>1 DEF Load, Invariant, TypeOK, OneAtATime, OwnRequest,
                                    AskedInTime, rows
    <2>4. NeverBlank' /\ OneViewAtATime' /\ ShowsOwnFreshList'
      BY <1>2, <1>4 DEF NeverBlank, OneViewAtATime, ShowsOwnFreshList
    <2> QED BY <2>2, <2>3, <2>4 DEF Invariant
  <1> QED BY <1>3, <1>4

\* The response to one request, the others staying under way.
LEMMA AnsweredStep == ASSUME Invariant, NEW f \in Fetch, Answered(f) PROVE Invariant'
  <1> DEFINE request == fetch[f]
  <1>1. request \in Request /\ request.at = "ready"
    BY DEF Answered, Invariant, TypeOK
  <1>2. Show(request)
    BY DEF Answered
  <1>3. /\ fetch' \in [Fetch -> Request] /\ fetch'[f] = Idle
        /\ \A g \in Fetch : g # f => fetch'[g] = fetch[g]
    BY DEF Answered, Invariant, TypeOK, Idle, Request
  <1>4. /\ empty' \in BOOLEAN /\ listed' \in BOOLEAN /\ (empty' \/ listed')
        /\ table' \in [email : Email \cup {None}, read : 0..MaxVersion]
        /\ request.answer = "rows" => /\ listed' = TRUE /\ empty' = empty
                                       /\ table'.email = request.email
                                       /\ table'.read = request.read
        /\ request.answer # "rows" => empty' = TRUE /\ listed' = listed /\ table' = table
    BY <1>1, <1>2, Showing DEF Invariant
  <1>5. /\ loading' = FALSE /\ UNCHANGED <<rows, stored, current, alert, alone, asked>>
        /\ disabled' \in BOOLEAN /\ post' \in {NoPost, post}
    BY DEF Answered, Enable, Invariant, TypeOK
  <1>6. TypeOK'
    <2>1. \A g \in Fetch : fetch'[g].at # "idle" => fetch'[g].email \in Email
      BY <1>3 DEF Idle, Invariant, TypeOK
    <2> QED BY <1>3, <1>4, <1>5, <2>1 DEF Invariant, TypeOK, rows
  <1>7. OneAtATime' /\ OwnRequest' /\ AskedInTime'
    BY <1>3, <1>5 DEF Idle, Invariant, OneAtATime, OwnRequest, AskedInTime, rows
  <1>8. NeverBlank'
    BY <1>4 DEF NeverBlank
  <1>9. ASSUME current # None, alone
        PROVE  /\ ~(\E g \in Fetch : fetch'[g].at # "idle")
               /\ ~(empty' /\ listed')
               /\ listed' => table'.email = current /\ table'.read >= asked
    <2>1. loading /\ ~empty /\ ~listed
      BY <1>1, <1>9 DEF Invariant, TypeOK, OneViewAtATime
    <2>2. \A g \in Fetch : fetch[g].at # "idle" => g = f
      BY <1>1, <1>9 DEF Invariant, OneAtATime
    <2>3. request.email = current /\ (request.answer = "rows" => request.read >= asked)
      BY <1>1, <1>9 DEF Invariant, OwnRequest
    <2> QED BY <1>3, <1>4, <2>1, <2>2, <2>3 DEF Idle
  <1>10. OneViewAtATime' /\ ShowsOwnFreshList'
    BY <1>4, <1>5, <1>9 DEF OneViewAtATime, ShowsOwnFreshList
  <1> QED BY <1>6, <1>7, <1>8, <1>10 DEF Invariant

\* A response to POST /subscribe asks for the list, or ends the handler.
LEMMA PostStep == ASSUME Invariant, PostAnswered PROVE Invariant'
  <1>1. PICK outcome : alert' = AlertOf(outcome) /\ RefreshOrEnable(outcome)
    BY DEF PostAnswered
  <1>2. /\ alert' \in {"hidden", "success", "warning", "danger"}
        /\ UNCHANGED <<rows, stored, current>>
        /\ stored = current /\ current \in Email \cup {None}
    BY <1>1 DEF PostAnswered, AlertOf, Invariant, TypeOK
  <1>3. CASE Ask(own, fetch, current) /\ current # None
             /\ post' = [post EXCEPT !.at = "refreshing"] /\ UNCHANGED <<disabled, table>>
    <2>1. post' \in [at : {"sent", "refreshing"},
                     repo : {CleanRepoInput(typed) : typed \in Typed}]
      BY <1>3 DEF PostAnswered, Invariant, TypeOK, NoPost
    <2> QED BY <1>2, <1>3, <2>1, AskStep DEF Invariant, TypeOK
  <1>4. CASE Enable /\ UNCHANGED <<views, asking>>
    <2>1. TypeOK'
      BY <1>2, <1>4 DEF Enable, Invariant, TypeOK, rows, views, asking
    <2> QED BY <1>2, <1>4, <2>1, FormStep DEF rows
  <1> QED BY <1>1, <1>3, <1>4 DEF RefreshOrEnable

\* The services serve a request for the list, or fail to.
LEMMA FetchStep ==
    ASSUME Invariant, NEW f \in Fetch, ReadRows(f) \/ LookedUp(f) \/ FetchFails(f)
    PROVE  Invariant'
  <1>1. fetch \in [Fetch -> Request] /\ version \in 0..MaxVersion
    BY DEF Invariant, TypeOK
  <1>2. /\ UNCHANGED <<rows, stored, current, views, form, alone, asked>>
        /\ fetch[f].at # "idle" /\ \A g \in Fetch : g # f => fetch'[g] = fetch[g]
    BY <1>1 DEF ReadRows, LookedUp, FetchFails
  <1>3. /\ fetch' \in [Fetch -> Request]
        /\ fetch'[f].at # "idle" /\ fetch'[f].email = fetch[f].email
        /\ fetch'[f].answer = "rows" =>
              \/ fetch'[f].read = version
              \/ fetch[f].at # "sent" /\ fetch[f].answer = "rows"
                                      /\ fetch'[f].read = fetch[f].read
    <2>1. CASE ReadRows(f)
      <3>1. CASE fetch[f].email \in having
        BY <1>1, <2>1, <3>1 DEF ReadRows, Request
      <3>2. CASE fetch[f].email \notin having
        BY <1>1, <2>1, <3>2 DEF ReadRows, Request
      <3> QED BY <3>1, <3>2
    <2>2. CASE LookedUp(f)
      BY <1>1, <2>2 DEF LookedUp, Request
    <2>3. CASE FetchFails(f)
      BY <1>1, <2>3 DEF FetchFails, Request
    <2> QED BY <2>1, <2>2, <2>3
  <1>4. TypeOK'
    <2>1. \A g \in Fetch : fetch'[g].at # "idle" => fetch'[g].email \in Email
      BY <1>2, <1>3 DEF Invariant, TypeOK
    <2> QED BY <1>2, <1>3, <2>1 DEF Invariant, TypeOK, rows, views, form
  <1> QED BY <1>2, <1>3, <1>4, ServeStep

\* The invariant holds at first.
LEMMA AtFirst == Init => Invariant
  <1> SUFFICES ASSUME Init PROVE Invariant
    OBVIOUS
  <1>1. TypeOK
    <2>1. /\ Idle \in Request /\ Idle.at = "idle" /\ 0 \in 0..MaxVersion
          /\ NoTable \in [email : Email \cup {None}, read : 0..MaxVersion]
      BY DEF Idle, Request, NoTable
    <2> QED BY <2>1 DEF Init, TypeOK
  <1>2. OneAtATime /\ OwnRequest /\ AskedInTime
    BY DEF Init, OneAtATime, OwnRequest, AskedInTime, Idle
  <1>3. NeverBlank /\ OneViewAtATime /\ ShowsOwnFreshList
    BY DEF Init, NeverBlank, OneViewAtATime, ShowsOwnFreshList
  <1> QED BY <1>1, <1>2, <1>3 DEF Invariant

\* Every step keeps it.
LEMMA Step == Invariant /\ [Next]_vars => Invariant'
  <1> SUFFICES ASSUME Invariant, [Next]_vars PROVE Invariant'
    OBVIOUS
  <1>0. TypeOK
    BY DEF Invariant
  <1>1. CASE Load
    BY <1>1, LoadStep
  <1>2. CASE ChangeEmail
    <2>1. TypeOK'
      BY <1>0, <1>2 DEF ChangeEmail, TypeOK, rows, views, asking
    <2> QED BY <1>2, <2>1, FormStep DEF ChangeEmail, rows
  <1>3. CASE Refresh
    <2>1. PICK f \in Fetch : Ask(f, fetch, current)
      BY <1>3 DEF Refresh
    <2> QED BY <1>0, <1>3, <2>1, AskStep DEF Refresh, TypeOK, form
  <1>4. CASE PostAnswered
    BY <1>4, PostStep
  <1>5. ASSUME NEW email \in Email, SubmitEmail(email) PROVE Invariant'
    <2>1. PICK f \in Fetch : Ask(f, fetch, email)
      BY <1>5 DEF SubmitEmail
    <2> QED BY <1>0, <1>5, <2>1, AskStep DEF SubmitEmail, TypeOK, form
  <1>6. ASSUME NEW typed \in Typed, SubmitRepo(typed) PROVE Invariant'
    <2>1. TypeOK'
      BY <1>0, <1>6 DEF SubmitRepo, TypeOK, rows, views, asking
    <2> QED BY <1>6, <2>1, FormStep DEF SubmitRepo, rows
  <1>7. ASSUME NEW f \in Fetch, FetchNext(f) PROVE Invariant'
    BY <1>7, AnsweredStep, FetchStep DEF FetchNext
  <1>8. ASSUME NEW email \in Email, RowsChange(email) PROVE Invariant'
    <2>1. TypeOK'
      BY <1>0, <1>8 DEF RowsChange, TypeOK, views, form, asking
    <2>2. OneAtATime' /\ OwnRequest' /\ AskedInTime'
      BY <1>0, <1>8 DEF RowsChange, TypeOK, Invariant, OneAtATime, OwnRequest, AskedInTime,
                        asking
    <2>3. NeverBlank' /\ OneViewAtATime' /\ ShowsOwnFreshList'
      BY <1>8 DEF RowsChange, Invariant, NeverBlank, OneViewAtATime, ShowsOwnFreshList,
                  views, asking
    <2> QED BY <2>1, <2>2, <2>3 DEF Invariant
  <1>9. CASE UNCHANGED vars
    <2>1. TypeOK'
      BY <1>0, <1>9 DEF vars, rows, views, form, asking, TypeOK
    <2> QED BY <1>9, <2>1, FormStep DEF vars, rows
  <1> QED BY <1>1, <1>2, <1>3, <1>4, <1>5, <1>6, <1>7, <1>8, <1>9 DEF Next, PageNext

\* The inductive invariant of the page holds, for any emails, slots and bounds.
THEOREM InvariantHolds == Spec => []Invariant
  BY AtFirst, Step, PTL DEF Spec

\* Every variable of the page stays within its type.
THEOREM TypeCorrect == Spec => []TypeOK
  <1>1. Invariant => TypeOK
    BY DEF Invariant
  <1> QED BY <1>1, InvariantHolds, PTL

\* However its requests overlap, the page of an email shows the spinner, the
\* list or a message.
THEOREM PageIsNeverBlank == Spec => []NeverBlank
  <1>1. Invariant => NeverBlank
    BY DEF Invariant
  <1> QED BY <1>1, InvariantHolds, PTL

\* While requests do not overlap, exactly one view is shown, the spinner as
\* long as a request is under way.
THEOREM OneViewShown == Spec => []OneViewAtATime
  <1>1. Invariant => OneViewAtATime
    BY DEF Invariant
  <1> QED BY <1>1, InvariantHolds, PTL

\* While requests do not overlap, the list shown is that of the email above it,
\* as of the last click or later.
THEOREM ListIsOwnAndFresh == Spec => []ShowsOwnFreshList
  <1>1. Invariant => ShowsOwnFreshList
    BY DEF Invariant
  <1> QED BY <1>1, InvariantHolds, PTL

-----------------------------------------------------------------------------
(* The lookups *)

LEMMA GrpcTagsFound ==
    ASSUME NEW tracked, NEW names \in SUBSET Names, NEW name \in names
    PROVE  GrpcTags(tracked, names)[name] = TagIn(tracked, name)
  <1>1. GrpcFetchLatestTags(tracked, names) = Reply("OK", TagsIn(tracked, names))
    BY DEF GrpcFetchLatestTags, Names
  <1>2. GrpcTags(tracked, names)[name] = TagsIn(tracked, names)[name]
    BY <1>1 DEF GrpcTags, OrUnset, Reply, TagsIn
  <1> QED BY <1>2 DEF TagsIn

LEMMA RestTagsFound ==
    ASSUME NEW tracked, NEW names \in SUBSET Names, NEW name \in names
    PROVE  /\ RestTags(tracked, names)[name] \in {TagIn(tracked, name), Unset}
           /\ (\A other \in names : Plain(other))
                 => RestTags(tracked, names)[name] = TagIn(tracked, name)
  <1> DEFINE among == UNION {Pieces[other] : other \in names}
             reply == RestGetRepositories(tracked, names)
  <1>1. RestTags(tracked, names)[name] =
            IF reply.status = "OK" /\ name \in DOMAIN reply.tags THEN reply.tags[name] ELSE Unset
    BY DEF RestTags, OrUnset
  <1>2. CASE \A other \in among : Valid(other)
    <2>1. reply = Reply("OK", TagsIn(tracked, among))
      BY <1>2 DEF RestGetRepositories
    <2>2. reply.status = "OK" /\ reply.tags = TagsIn(tracked, among)
      BY <2>1 DEF Reply
    <2>3. name \in among => reply.tags[name] = TagIn(tracked, name)
      BY <2>2 DEF TagsIn
    <2>4. DOMAIN reply.tags = among
      BY <2>2 DEF TagsIn
    <2>5. (\A other \in names : Plain(other)) => name \in among
      BY DEF Plain
    <2> HIDE DEF reply, among
    <2> QED BY <1>1, <2>2, <2>3, <2>4, <2>5
  <1>3. CASE ~(\A other \in among : Valid(other))
    <2>1. reply = Reply("BAD_REQUEST", NoTags)
      BY <1>3 DEF RestGetRepositories
    <2>2. reply.status # "OK"
      BY <2>1 DEF Reply
    <2>3. ~(\A other \in names : Plain(other))
      BY <1>3 DEF Plain, Names
    <2> HIDE DEF reply, among
    <2> QED BY <1>1, <2>2, <2>3
  <1> QED BY <1>2, <1>3

LEMMA SingleTagsFound ==
    ASSUME NEW tracked, NEW name \in Names
    PROVE  GrpcTag(tracked, name) = TagIn(tracked, name)
           /\ RestTag(tracked, name) = TagIn(tracked, name)
  <1>1. Valid(name)
    BY DEF Names
  <1>2. CASE name \in DOMAIN tracked
    <2>1. /\ GrpcFetchLatestTag(tracked, name) = Reply("OK", TagsIn(tracked, {name}))
          /\ RestGetRepository(tracked, name) = Reply("OK", TagsIn(tracked, {name}))
      BY <1>1, <1>2 DEF GrpcFetchLatestTag, RestGetRepository
    <2> QED BY <2>1 DEF GrpcTag, RestTag, OrUnset, Reply, TagsIn
  <1>3. CASE name \notin DOMAIN tracked
    <2>1. /\ GrpcFetchLatestTag(tracked, name) = Reply("NOT_FOUND", NoTags)
          /\ RestGetRepository(tracked, name) = Reply("NOT_FOUND", NoTags)
      BY <1>1, <1>3 DEF GrpcFetchLatestTag, RestGetRepository
    <2>2. TagIn(tracked, name) = Unset
      BY <1>3 DEF TagIn
    <2> QED BY <2>1, <2>2 DEF GrpcTag, RestTag, OrUnset, Reply
  <1> QED BY <1>2, <1>3

\* For every table and every list of names: gRPC answers the tags of the table,
\* REST the same or, for a list with a comma in a name, none.
THEOREM TransportsAgree == LookupsAgree
  <1> SUFFICES ASSUME NEW names \in SUBSET Names, NEW tracked \in Tags, NEW name \in names
               PROVE  /\ name \in DOMAIN tracked
                            => GrpcTags(tracked, names)[name] = tracked[name]
                      /\ RestTags(tracked, names)[name]
                            \in {GrpcTags(tracked, names)[name], Unset}
                      /\ (\A other \in names : Plain(other))
                            => RestTags(tracked, names)[name] = GrpcTags(tracked, names)[name]
                      /\ GrpcTag(tracked, name) = GrpcTags(tracked, names)[name]
                      /\ RestTag(tracked, name) = GrpcTags(tracked, names)[name]
    BY DEF LookupsAgree
  <1>1. GrpcTags(tracked, names)[name] = TagIn(tracked, name)
    BY GrpcTagsFound
  <1>2. name \in DOMAIN tracked => TagIn(tracked, name) = tracked[name]
    BY DEF TagIn
  <1>3. /\ RestTags(tracked, names)[name] \in {TagIn(tracked, name), Unset}
        /\ (\A other \in names : Plain(other))
              => RestTags(tracked, names)[name] = TagIn(tracked, name)
    BY RestTagsFound
  <1>4. GrpcTag(tracked, name) = TagIn(tracked, name)
        /\ RestTag(tracked, name) = TagIn(tracked, name)
    BY SingleTagsFound
  <1> QED BY <1>1, <1>2, <1>3, <1>4

=============================================================================
