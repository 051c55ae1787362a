------------------------------ MODULE Tracking ------------------------------
(***************************************************************************)
(* The two services together: the subscription service and the registrar   *)
(* of the repo-manager, with the messages between them.                    *)
(*                                                                         *)
(* A saga's repository.register reaches the repo-manager only after the    *)
(* transaction that started the saga; a reply reaches the subscription     *)
(* service only out of the repo-manager's outbox, as often as it likes; a  *)
(* repository.untrack is delivered only once it was published.  Everything *)
(* else of both, the deaths of their processes included, is as in the two  *)
(* modules.  The scanner, which neither inserts nor deletes a repository,  *)
(* rests.                                                                  *)
(***************************************************************************)
EXTENDS SubscriptionService

CONSTANTS
    Leave,       \* deliveries of repository.untrack
    Leaves,      \* the repository each of them is about
    OnGithub,    \* the repositories that exist on GitHub
    MaxId,       \* bound on repositories ever inserted
    MaxRepoFaults, MaxRepoCrashes

VARIABLES
    latest, rows, nextId, baseline, outbox, answer, held,
    scanning, todo, news, announced,
    repoAt, repoUp, repoChannel, repoFaults, repoCrashes

repoVars == <<latest, rows, nextId, baseline, outbox, answer, held, scanning, todo, news,
              announced, repoAt, repoUp, repoChannel, repoFaults, repoCrashes>>

NameOf == [h \in Request \cup Leave |-> IF h \in Request THEN RepoOf(h) ELSE Leaves[h]]

RepoManager == INSTANCE RepoManager WITH
    Register <- Request, Untrack <- Leave, Post <- {}, Names <- NameOf, MaxTag <- 1,
    MaxFaults <- MaxRepoFaults, MaxCrashes <- MaxRepoCrashes,
    at <- repoAt, up <- repoUp, channel <- repoChannel,
    faults <- repoFaults, crashes <- repoCrashes

ASSUME TrackingAssumption ==
    /\ Leaves \in [Leave -> Repo] /\ Request \cap Leave = {}
    /\ OnGithub \subseteq Repo
    /\ MaxId \in Nat /\ MaxRepoFaults \in Nat /\ MaxRepoCrashes \in Nat
    /\ None \notin RepoManager!Row \cup RepoManager!News

TrackingInit ==
    /\ Init /\ RepoManager!Init
    /\ \A repo \in Repo : latest[repo] = 0

-----------------------------------------------------------------------------
(* The messages *)

\* The reply that reaches the subscription service is in the outbox.
RepliesWereQueued ==
    \A m \in Message : content[m] = None /\ content'[m] # None =>
        <<content'[m].saga, content'[m].kind>> \in outbox

\* The repository.register that is delivered was in the saga's transaction.
RegistersWereQueued(h) == h \in Request => saga[h] # "none"

\* The repository.untrack that is delivered was published.
UntracksWerePublished(h) == h \in Leave => Leaves[h] \in untracks

-----------------------------------------------------------------------------
SubscriptionNext == Next /\ RepliesWereQueued /\ UNCHANGED repoVars

RepoNext ==
    /\ \/ \E h \in Request \cup Leave :
             /\ RegistersWereQueued(h) /\ UntracksWerePublished(h)
             /\ RepoManager!HandlerNext(h)
       \/ RepoManager!CloseChannel \/ RepoManager!Crash \/ RepoManager!Restart
    /\ UNCHANGED vars

TrackingNext == SubscriptionNext \/ RepoNext

TrackingSpec == TrackingInit /\ [][TrackingNext]_<<vars, repoVars>>

-----------------------------------------------------------------------------
(* Properties *)

\* A completed saga's repository is tracked, so that its subscriber will hear
\* of releases, unless somebody's unsubscription published an untrack for it:
\* the row a reply speaks of is still there when the saga completes and after.
CompletedIsTracked ==
    \A r \in Request :
        saga[r] = "COMPLETED" /\ RepoOf(r) \notin untracks => RepoManager!Tracked(RepoOf(r))

\* Through both services, their outboxes and the broker: 404 is answered only
\* for what GitHub does not have, success only for what it has.
AnswersAreTrue ==
    \A r \in Request :
        /\ resp[r] = "NOTFOUND" => RepoOf(r) \notin OnGithub
        /\ resp[r] = "CREATED" => RepoOf(r) \in OnGithub

=============================================================================
