----------------------------- MODULE Dashboard -----------------------------
(***************************************************************************)
(* The web dashboard and what it asks the services for: the page (app.js), *)
(* GET /subscriptions with its lookup of tags at the repo-manager, and the *)
(* answers to POST /subscribe.  How that request is served is              *)
(* SubscriptionService: what it writes appears here as changes of the      *)
(* table.  Which tags a lookup finds is TagLookup.                         *)
(*                                                                         *)
(* The page is single-threaded: an action is the code from one event, a    *)
(* click or a response, to the next await.  Its requests overlap, and      *)
(* their responses come in any order.  The subscription form is disabled   *)
(* while it waits, the other buttons are not.                              *)
(***************************************************************************)
EXTENDS TagLookup, FiniteSets

CONSTANTS
    Email,
    Subscribed, \* those who have subscriptions at first
    Typed,      \* what is typed into the form for repositories
    Tag,        \* last seen tags, Unset among them
    Fetch,      \* slots for the requests for the list, own among them
    own,        \* the slot of the request made behind a subscription
    None,       \* no email
    Mode,       \* REPO_MANAGER_COMMUNICATION, for the lookups of tags
    MaxVersion  \* bound on the changes of the subscriptions table

ASSUME DashboardAssumption ==
    /\ Subscribed \subseteq Email /\ None \notin Email /\ Unset \in Tag
    /\ own \in Fetch
    /\ Mode \in {"grpc", "rest"}
    /\ MaxVersion \in Nat

VARIABLES
    having,     \* the emails with rows in the subscriptions table
    version,    \* the number of changes of that table so far
    stored,     \* the email in localStorage
    current,    \* currentEmail; the dashboard is visible when there is one
    loading, empty, listed,     \* which of the three views are not hidden
    table,      \* the rows of the list: whose they are, and the version read
    alert,      \* the alert of the form
    disabled,   \* the button of the form
    post,       \* POST /subscribe: its place and the repository it asks for
    fetch,      \* the requests for the list
    alone,      \* since a request was sent alone, no other was sent beside one
    asked       \* the version when the last request was sent

rows   == <<having, version>>
views  == <<loading, empty, listed, table>>
form   == <<alert, disabled, post>>
asking == <<fetch, alone, asked>>
vars   == <<rows, stored, current, views, form, asking>>

Names == {name \in Name : Valid(name)}

Tags == UNION {[names -> Tag] : names \in SUBSET Names}

\* A request is sent, its rows are read, the tags of some rows are looked up,
\* and its response is ready.
Request == [at : {"idle", "sent", "lookup", "ready"}, email : Email \cup {None},
            answer : {"none", "error", "rows"}, read : 0..MaxVersion]

Idle        == [at |-> "idle", email |-> None, answer |-> "none", read |-> 0]
Sent(email) == [at |-> "sent", email |-> email, answer |-> "none", read |-> 0]
NoPost  == [at |-> "none", repo |-> <<>>]
NoTable == [email |-> None, read |-> 0]

TypeOK ==
    /\ having \subseteq Email
    /\ version \in 0..MaxVersion
    /\ stored = current /\ current \in Email \cup {None}
    /\ loading \in BOOLEAN /\ empty \in BOOLEAN /\ listed \in BOOLEAN
    /\ table \in [email : Email \cup {None}, read : 0..MaxVersion]
    /\ alert \in {"hidden", "success", "warning", "danger"}
    /\ disabled \in BOOLEAN
    /\ post \in {NoPost} \cup [at : {"sent", "refreshing"},
                              repo : {CleanRepoInput(typed) : typed \in Typed}]
    /\ fetch \in [Fetch -> Request]
    /\ \A f \in Fetch : fetch[f].at # "idle" => fetch[f].email \in Email
    /\ alone \in BOOLEAN
    /\ asked \in 0..MaxVersion

\* The page as it is loaded by somebody who has not been here before.
Init ==
    /\ having = Subscribed /\ version = 0
    /\ stored = None /\ current = None
    /\ loading = FALSE /\ empty = FALSE /\ listed = FALSE
    /\ table = NoTable
    /\ alert = "hidden" /\ disabled = FALSE /\ post = NoPost
    /\ fetch = [f \in Fetch |-> Idle]
    /\ alone = TRUE /\ asked = 0

-----------------------------------------------------------------------------
(* Vocabulary *)

Pending(f) == fetch[f].at # "idle"

\* Slips: one of the views is not hidden.
AskBesideEmpty(f, among, email) ==
    /\ among[f].at = "idle"
    /\ fetch' = [among EXCEPT ![f] = Sent(email)]
    /\ loading' = TRUE /\ listed' = FALSE /\ UNCHANGED empty
    /\ alone' = (\A g \in Fetch : among[g].at = "idle")
    /\ asked' = version

AskBesideList(f, among, email) ==
    /\ among[f].at = "idle"
    /\ fetch' = [among EXCEPT ![f] = Sent(email)]
    /\ loading' = TRUE /\ empty' = FALSE /\ UNCHANGED listed
    /\ alone' = (\A g \in Fetch : among[g].at = "idle")
    /\ asked' = version

\* fetchSubscriptions up to its await: the other requests are among.  The
\* spinner takes the place of both views.
Ask(f, among, email) ==
    /\ among[f].at = "idle"
    /\ fetch' = [among EXCEPT ![f] = Sent(email)]
    /\ loading' = TRUE /\ empty' = FALSE /\ listed' = FALSE
    /\ alone' = (\A g \in Fetch : among[g].at = "idle")
    /\ asked' = version

\* setSubscribeLoading(false), and the end of the handler.
Enable == disabled' = FALSE /\ post' = NoPost

\* The alert of a response: its class, by the status and the message.
AlertOf(outcome) ==
    CASE outcome = "RESENT"                               -> "warning"
      [] HttpStatus(outcome) = 200 /\ outcome # "RESENT"  -> "success"
      [] OTHER                                            -> "danger"

\* What POST /subscribe may answer; LOST is a broken connection.
Outcomes == IF Valid(post.repo)
            THEN {"CREATED", "RESENT", "CONFLICT", "NOTFOUND", "TIMEOUT", "ERROR", "LOST"}
            ELSE {"INVALID", "LOST"}

-----------------------------------------------------------------------------
(* Slips a change to the code could make *)

\* Nobody asks whether there still is an email.
RefreshOrEnd(outcome) ==
    \/ /\ HttpStatus(outcome) = 200
       /\ Ask(own, fetch, current)
       /\ post' = [post EXCEPT !.at = "refreshing"]
       /\ UNCHANGED <<disabled, table>>
    \/ /\ HttpStatus(outcome) # 200
       /\ Enable
       /\ UNCHANGED <<views, asking>>

\* An error leaves the handler before the button is enabled.
RefreshOrStay(outcome) ==
    \/ /\ HttpStatus(outcome) = 200 /\ current # None
       /\ Ask(own, fetch, current)
       /\ post' = [post EXCEPT !.at = "refreshing"]
       /\ UNCHANGED <<disabled, table>>
    \/ /\ ~(HttpStatus(outcome) = 200 /\ current # None)
       /\ UNCHANGED <<disabled, post, views, asking>>

\* No rows, nothing to do.
ShowNothing(request) ==
    \/ /\ request.answer = "error"
       /\ empty' = TRUE
       /\ UNCHANGED <<listed, table>>
    \/ /\ request.answer = "none"
       /\ UNCHANGED <<empty, listed, table>>
    \/ /\ request.answer = "rows"
       /\ table' = [email |-> request.email, read |-> request.read]
       /\ listed' = TRUE
       /\ UNCHANGED empty

-----------------------------------------------------------------------------
(* The page *)

\* DOMContentLoaded, by a reload: requests of the page before are forgotten.
Load ==
    LET fresh == [f \in Fetch |-> Idle] IN
    /\ current' = stored
    /\ table' = NoTable
    /\ alert' = "hidden" /\ disabled' = FALSE /\ post' = NoPost
    /\ \/ /\ stored # None
          /\ \E f \in Fetch \ {own} : Ask(f, fresh, stored)
       \/ /\ stored = None
          /\ fetch' = fresh /\ alone' = TRUE /\ asked' = version
          /\ loading' = FALSE /\ empty' = FALSE /\ listed' = FALSE
    /\ UNCHANGED <<rows, stored>>

\* authForm submit: login
SubmitEmail(email) ==
    /\ current = None
    /\ stored' = email /\ current' = email
    /\ \E f \in Fetch \ {own} : Ask(f, fetch, email)
    /\ UNCHANGED <<rows, table, form>>

\* What is in flight stays in flight, and the views stay as they are.
ChangeEmail ==
    /\ current # None
    /\ stored' = None /\ current' = None
    /\ alert' = "hidden"
    /\ UNCHANGED <<rows, views, disabled, post, asking>>

Refresh ==
    /\ current # None
    /\ \E f \in Fetch \ {own} : Ask(f, fetch, current)
    /\ UNCHANGED <<rows, stored, current, table, form>>

SubmitRepo(typed) ==
    /\ current # None /\ ~disabled
    /\ alert' = "hidden" /\ disabled' = TRUE
    /\ post' = [at |-> "sent", repo |-> CleanRepoInput(typed)]
    /\ UNCHANGED <<rows, stored, current, views, asking>>

\* A success refreshes the list of whoever is logged in by now, and the handler
\* awaits that; an error, or nobody, ends it.
RefreshOrEnable(outcome) ==
    \/ /\ HttpStatus(outcome) = 200 /\ current # None
       /\ Ask(own, fetch, current)
       /\ post' = [post EXCEPT !.at = "refreshing"]
       /\ UNCHANGED <<disabled, table>>
    \/ /\ ~(HttpStatus(outcome) = 200 /\ current # None)
       /\ Enable
       /\ UNCHANGED <<views, asking>>

PostAnswered ==
    /\ post.at = "sent"
    /\ \E outcome \in Outcomes :
          alert' = AlertOf(outcome) /\ RefreshOrEnable(outcome)
    /\ UNCHANGED <<rows, stored, current>>

\* renderSubscriptions, or the error in place of the empty list.  Neither hides
\* the other view: the request did when it was sent.
Show(request) ==
    \/ /\ request.answer # "rows"
       /\ empty' = TRUE
       /\ UNCHANGED <<listed, table>>
    \/ /\ request.answer = "rows"
       /\ table' = [email |-> request.email, read |-> request.read]
       /\ listed' = TRUE
       /\ UNCHANGED empty

\* The response of f reaches the page, whoever is logged in by now.
Answered(f) ==
    /\ fetch[f].at = "ready"
    /\ Show(fetch[f])
    /\ loading' = FALSE
    /\ fetch' = [fetch EXCEPT ![f] = Idle]
    /\ IF f = own THEN Enable ELSE UNCHANGED <<disabled, post>>
    /\ UNCHANGED <<rows, stored, current, alert, alone, asked>>

-----------------------------------------------------------------------------
(* GET /subscriptions *)

ReadRows(f) ==
    /\ fetch[f].at = "sent"
    /\ LET some == fetch[f].email \in having IN
       fetch' = [fetch EXCEPT ![f] = [at     |-> IF some THEN "lookup" ELSE "ready",
                                      email  |-> @.email,
                                      answer |-> IF some THEN "rows" ELSE "none",
                                      read   |-> version]]
    /\ UNCHANGED <<rows, stored, current, views, form, alone, asked>>

\* fetchLatestTags: the rows get the tags of GrpcTags or RestTags, or no tags
\* when the repo-manager fails or cannot be reached.
LookedUp(f) ==
    /\ fetch[f].at = "lookup"
    /\ fetch' = [fetch EXCEPT ![f].at = "ready"]
    /\ UNCHANGED <<rows, stored, current, views, form, alone, asked>>

\* The query fails (500), or the connection breaks.
FetchFails(f) ==
    /\ fetch[f].at \in {"sent", "lookup"}
    /\ fetch' = [fetch EXCEPT ![f].at = "ready", ![f].answer = "error"]
    /\ UNCHANGED <<rows, stored, current, views, form, alone, asked>>

-----------------------------------------------------------------------------
(* The other handlers of the service *)

\* A subscription is made, confirmed or taken back.
RowsChange(email) ==
    /\ version < MaxVersion
    /\ version' = version + 1
    /\ having' \in {having \cup {email}, having \ {email}}
    /\ UNCHANGED <<stored, current, views, form, asking>>

-----------------------------------------------------------------------------
PageNext ==
    \/ Load \/ ChangeEmail \/ Refresh \/ PostAnswered
    \/ \E email \in Email : SubmitEmail(email)
    \/ \E typed \in Typed : SubmitRepo(typed)

FetchNext(f) ==
    Answered(f) \/ ReadRows(f) \/ LookedUp(f) \/ FetchFails(f)

Next ==
    \/ PageNext
    \/ \E f \in Fetch : FetchNext(f)
    \/ \E email \in Email : RowsChange(email)

Spec == Init /\ [][Next]_vars

\* Over REST a lookup ends within five seconds; over gRPC it has no deadline.
LookupEnds(f) == Mode = "rest" /\ LookedUp(f)

\* The browser runs its callbacks, the database answers, and every request to
\* subscribe ends (SubscriptionService).  The repo-manager owes no answer.
FairSpec ==
    /\ Spec
    /\ WF_vars(PostAnswered)
    /\ \A f \in Fetch : WF_vars(ReadRows(f) \/ LookupEnds(f) \/ Answered(f))

-----------------------------------------------------------------------------
(* Properties *)

\* Whatever overlaps, the section of the list is never blank: it shows the
\* spinner, the list, or a message.
NeverBlank == current # None => loading \/ empty \/ listed

\* As long as requests do not overlap, exactly one of the three is shown, and
\* the spinner as long as there is something to wait for.
OneViewAtATime ==
    current # None /\ alone =>
        /\ loading <=> \E f \in Fetch : Pending(f)
        /\ ~(empty /\ listed)
        /\ loading <=> ~(empty \/ listed)

\* As long as requests do not overlap, the list that is shown is that of the
\* email above it, and no older than the last click.
ShowsOwnFreshList ==
    current # None /\ alone /\ listed => table.email = current /\ table.read >= asked

\* Over REST a list has the tags it has over gRPC, which are those of the
\* table; a name with a comma may cost it tags, and never shows wrong ones.
LookupsAgree ==
    \A names \in SUBSET Names, tracked \in Tags :
        LET grpc == GrpcTags(tracked, names)
            rest == RestTags(tracked, names)
        IN  \A name \in names :
            /\ name \in DOMAIN tracked => grpc[name] = tracked[name]
            /\ rest[name] \in {grpc[name], Unset}
            /\ (\A other \in names : Plain(other)) => rest[name] = grpc[name]
            /\ GrpcTag(tracked, name) = grpc[name]
            /\ RestTag(tracked, name) = grpc[name]

\* The addresses of the pages of a repository.
Pages(name) ==
    {<<"https:", "", host>> \o name \o page :
        host \in {"github.com", "gist.github.com"},
        page \in {<<>>, <<"">>, <<"issues">>, <<"releases", "tag", "">>}}

\* "Enter the GitHub repository name in owner/repo format or paste the full
\* GitHub repository URL": either way the form asks for that repository.
PastedUrlsWork ==
    [][\A name \in Names, typed \in Typed :
          SubmitRepo(typed) /\ typed \in {name} \cup Pages(name) => post'.repo = name]_vars

\* Over REST the form comes back whatever the repo-manager does, through any
\* change of the email in between.
ButtonComesBack == Mode = "rest" => (disabled ~> ~disabled)

=============================================================================
