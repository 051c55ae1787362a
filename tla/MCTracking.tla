----------------------------- MODULE MCTracking -----------------------------
(* A small instance of Tracking for TLC: golang is on GitHub, ghost is not. *)
EXTENDS Tracking, TLC

CONSTANTS r1, r2, u1, golang, ghost

\* Subscribers of a repository, and of a name with none behind it.
Wishes == (r1 :> <<"a@x", golang>>) @@ (r2 :> <<"b@x", ghost>>)

Emails == {"a@x", "b@x"}

Golang == (u1 :> golang)

Interchangeable == Permutations(Message)
=============================================================================
