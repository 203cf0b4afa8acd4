--------------------------- MODULE MCTrustReview ---------------------------
EXTENDS TrustReview

CONSTANTS f

OneLens == {trust}
OneFinding == {f}
Owner == [x \in OneFinding |-> trust]
OneSlice == {1}
Manifest == [x \in OneFinding |-> 1]

\* No fix fits a bounded correction.
NoneFits == {}

=============================================================================
