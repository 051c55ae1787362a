----------------------- MODULE MCSubscriptionService -----------------------
(* Small instances of SubscriptionService for TLC. *)
EXTENDS SubscriptionService, TLC

CONSTANTS r1, r2

\* Two requests for the same email and repository.
SameTwice == (r1 :> <<"a@x", "o/p">>) @@ (r2 :> <<"a@x", "o/p">>)

\* Two subscribers of one repository.
TwoEmails == (r1 :> <<"a@x", "o/p">>) @@ (r2 :> <<"b@x", "o/p">>)

Emails == {"a@x", "b@x"}
Repos == {"o/p"}

Interchangeable == Permutations(Worker) \cup Permutations(Message)
=============================================================================
