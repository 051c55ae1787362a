---------------------------- MODULE ReleaseFeed ----------------------------
(***************************************************************************)
(* What the repo-manager promises, without handlers, scans, statements or  *)
(* channels.  A repository is watched under a number that is never given   *)
(* out again.  A release is announced for a number while it is the latest, *)
(* only if it is newer than what was found when the repository was looked  *)
(* up for the number, and than what is recorded as seen.  What is recorded *)
(* as seen was announced for that number, and is newer than what was       *)
(* before.                                                                 *)
(***************************************************************************)
EXTENDS Naturals

CONSTANTS
    Repo,
    OnGithub,   \* the repositories that exist
    Id, Tag,    \* numbers of watched repositories, and of releases
    None        \* not watched

VARIABLES
    latest,     \* the latest release of each repository
    watch,      \* its number and the release recorded as seen, or None
    used,       \* numbers given out
    since,      \* the release found when the repository was looked up for it
    announced   \* how often each release was announced for a number

vars == <<latest, watch, used, since, announced>>

Init ==
    /\ latest \in [Repo -> Tag]
    /\ watch = [r \in Repo |-> None]
    /\ used = {}
    /\ since = [i \in Id |-> 0]
    /\ announced = [i \in Id |-> [t \in Tag |-> 0]]

Watched(r, i) == watch[r] # None /\ watch[r].id = i

Release(r) ==
    /\ r \in OnGithub
    /\ latest' = [latest EXCEPT ![r] = @ + 1]
    /\ UNCHANGED <<watch, used, since, announced>>

\* What was seen at some time since the repository was asked for may be stale.
Watch(r, i, t) ==
    /\ r \in OnGithub /\ watch[r] = None
    /\ i \notin used /\ t <= latest[r]
    /\ watch' = [watch EXCEPT ![r] = [id |-> i, tag |-> t]]
    /\ used' = used \cup {i}
    /\ since' = [since EXCEPT ![i] = t]
    /\ UNCHANGED <<latest, announced>>

\* The number may be out of use by now, and is never another repository's.
Announce(r, i, t) ==
    /\ i \in used /\ since[i] < t
    /\ t = latest[r]
    /\ \A q \in Repo : Watched(q, i) => q = r /\ watch[q].tag < t
    /\ announced' = [announced EXCEPT ![i][t] = @ + 1]
    /\ UNCHANGED <<latest, watch, used, since>>

Record(r, i, t) ==
    /\ Watched(r, i) /\ watch[r].tag < t
    /\ announced[i][t] > 0
    /\ watch' = [watch EXCEPT ![r] = [id |-> i, tag |-> t]]
    /\ UNCHANGED <<latest, used, since, announced>>

Unwatch(r) ==
    /\ watch[r] # None
    /\ watch' = [watch EXCEPT ![r] = None]
    /\ UNCHANGED <<latest, used, since, announced>>

Next == \E r \in Repo :
    \/ Release(r) \/ Unwatch(r)
    \/ \E i \in Id, t \in Tag : Watch(r, i, t) \/ Announce(r, i, t) \/ Record(r, i, t)

Spec == Init /\ [][Next]_vars
=============================================================================
