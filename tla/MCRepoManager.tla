--------------------------- MODULE MCRepoManager ---------------------------
(* Small instances of RepoManager for TLC: golang and rust are on GitHub, ghost *)
(* is not.                                                                     *)
EXTENDS RepoManager, TLC

CONSTANTS golang, rust, ghost, AboutGhost, AboutRust

Named == [h \in Handler |-> IF h \in AboutGhost THEN ghost
                             ELSE IF h \in AboutRust THEN rust ELSE golang]

Same == Permutations(Register \ AboutGhost)
=============================================================================
