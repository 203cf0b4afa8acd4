-------------------------- MODULE MCReviewLineage --------------------------
(* Two lenses, three findings and two slices, one of them with two findings. *)
EXTENDS ReviewLineage

CONSTANTS trust, runtime, f, g, h

TwoLenses == {trust, runtime}
Findings == {f, g, h}
Owners == [x \in Findings |-> IF x = h THEN runtime ELSE trust]
TwoSlices == {1, 2}
Manifest == [x \in Findings |-> IF x = f THEN 1 ELSE 2]

\* Two findings of one lens, each a slice of its own.
Pair == {f, g}
PairOwners == [x \in Pair |-> IF x = f THEN trust ELSE runtime]
PairManifest == [x \in Pair |-> IF x = f THEN 1 ELSE 2]

\* The review is over, or nobody can read it any more.
Over == (lin.status \in Terminal \/ ~Intact(lin)) /\ UNCHANGED vars

=============================================================================
