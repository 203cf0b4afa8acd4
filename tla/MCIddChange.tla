---------------------------- MODULE MCIddChange ----------------------------
(***************************************************************************)
(* Instances of IddChange for TLC.  Each one is a short history of a       *)
(* working tree, chosen so that the commands under study have something to *)
(* race with; what an instance does not study has an empty constant.       *)
(***************************************************************************)
EXTENDS IddChange, TLC

CONSTANTS p1, p2, noConfig, unnamed, op1, r1, r2, h1

TwoProcs == {p1, p2}
OneProc == {p1}
ProcSymmetry == Permutations(TwoProcs)

Base == [checks |-> "base", strict |-> FALSE]
Edited == [checks |-> "edited", strict |-> FALSE]
BaseOnly == {Base}
BaseAndEdited == {Base, Edited}

Touches(areas) == [NoDiff EXCEPT !.areas = areas]
NoOtherDiffs == [v \in Version |-> {}]
NoDeclarations == {}
Nothing == {}
NoFitness == [r \in Nothing |-> Nothing]

\* Product code, then its test, then an edit that alters the schema, which is
\* also seen from a base that has the product code.
CheckedDiff == [v \in 0 .. 3 |->
  CASE v = 0 -> NoDiff
    [] v = 1 -> Touches({"product"})
    [] v = 2 -> Touches({"product", "test"})
    [] v = 3 -> [Touches({"product", "test"}) EXCEPT !.hits["persistent-data"] = {h1}]]
CheckedOtherDiffs == [v \in 0 .. 3 |-> IF v = 3 THEN {Touches({"test"})} ELSE {}]
CheckedPassing == [base |-> {0, 2, 3}, edited |-> {0, 1, 2}]

\* A bug is fixed up to the last content, with the configuration of the base
\* and no question; the other kinds meet all the rest and not that content.
Apart ==
  IF st.kind = "bug"
    THEN cfg = Base /\ st.approved = {} /\ st.ckOpen = noConfig /\ st.facts = "none"
    ELSE tree < 3

\* A change that declares a decision whose fitness check fails.
FitnessDiff == [v \in 0 .. 0 |-> NoDiff]
FitnessFails == [r \in {r1} |-> {}]
FitnessDeclarations == {[NoDeclaration EXCEPT !.refs = {r1}]}
FitnessPassing == [base |-> {0}]

\* A decision that touches two references, one of them with a fitness check that
\* fails once the tree changes its component, and a destructive statement.
RecordDiff == [v \in 0 .. 1 |->
  IF v = 0 THEN NoDiff
  ELSE [Touches({"product", "test"}) EXCEPT !.ops = {op1}, !.refs = {r2}, !.adrs = {r1}]]
RecordDeclarations ==
  {[NoDeclaration EXCEPT !.signals = {"multi-unit-or-decision"}, !.refs = {r1}]}
RecordPassing == [base |-> {0, 1}]
RecordFitPassing == [r \in {r2} |-> {0}]

=============================================================================
