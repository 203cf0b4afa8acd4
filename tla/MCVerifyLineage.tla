-------------------------- MODULE MCVerifyLineage --------------------------
(* A lineage with one finding, two recipes and one runner. *)
EXTENDS VerifyLineage, TLC

CONSTANTS f, p1, a, o

OneFinding == {f}
Paths == {a, o}
Scopes == f :> {a}
Owners == [r \in 1 .. 2 |-> f]
Needing == (1 :> {a}) @@ (2 :> {})
NoneLeft == {}

=============================================================================
