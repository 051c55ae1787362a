---------------------------- MODULE MCDashboard ----------------------------
(* A small instance of Dashboard for TLC: one ordinary repository, and one *)
(* whose name has a comma in it.                                           *)
EXTENDS Dashboard, TLC

go   == <<"golang", "go">>
odd  == <<"golang", "go,x">>

SomeNames == {go, odd, <<"x">>}

SomePieces == (go :> {go}) @@ (odd :> {go, <<"x">>}) @@ (<<"x">> :> {<<"x">>})

SomeTyped ==
    {go, <<"golang">>, <<"https:", "", "github.com", "golang", "go">>,
     <<"https:", "", "gist.github.com", "golang", "go", "releases", "tag", "">>}
=============================================================================
