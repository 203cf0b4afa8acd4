--------------------------- MODULE ReviewLineage ---------------------------
(***************************************************************************)
(* The quality review of an SDD change: the orchestrator calls the         *)
(* reducers of Lineage as planLineageGate (scripts/lib/review-gate-state.  *)
(* js) answers them, keeps every state they return, and reconciles the     *)
(* calls whose outcome it lost.  A lineage begun before correction slices  *)
(* existed goes on without them until the orchestrator is upgraded; then   *)
(* it migrates.                                                            *)
(*                                                                         *)
(* One orchestrator writes the lineage.  For each operation it holds the   *)
(* state the call that began it returned, which is the copy it gives back  *)
(* when it learns that the operation was committed.                        *)
(***************************************************************************)
EXTENDS Lineage

CONSTANTS Schemas,         \* schema versions of the lineages to start
          UpgradeIn,       \* statuses of the lineage in which the orchestrator is upgraded
          MaxUnknown       \* bound on the outcomes lost

ASSUME ReviewLineageAssumption ==
  /\ Schemas \subseteq {2, 3} /\ UpgradeIn \subseteq Status /\ MaxUnknown \in Nat
  /\ "correction" \notin Lens
  /\ None \notin [slice : Slice \union {None}, forecast : 0 .. Limit]

VARIABLES lin,             \* the lineage
          copies,          \* the state each operation began with, while it is open
          slicing,         \* does the orchestrator correct slice by slice?
          spent, misses,   \* history: lines changed and validations failed, by slice
          unknowns         \* outcomes lost so far

vars == <<lin, copies, slicing, spent, misses, unknowns>>

Operation == Lens \union {"correction"}
Whole == 0                 \* the slice of a correction of the whole review

Init ==
  /\ \E schema \in Schemas : lin = Started(schema)
  /\ copies = [o \in Operation |-> None]
  /\ slicing \in BOOLEAN /\ (lin.schema = 3 => slicing)
  /\ spent = [s \in Slice \union {Whole} |-> 0]
  /\ misses = [s \in Slice \union {Whole} |-> 0]
  /\ unknowns = 0

Keep(o, l) == copies' = [copies EXCEPT ![o] = l]
Drop(o) == Keep(o, None)
Unmeasured == UNCHANGED <<slicing, spent, misses, unknowns>>

-----------------------------------------------------------------------------
(* What the gate answers *)

StartLens(d) ==
  /\ lin' \in BeginLens(lin, d)
  /\ Keep(d, lin')
  /\ Unmeasured

AnswerLens(d) ==
  /\ \E found \in SUBSET {f \in Finding : LensOf[f] = d} : lin' \in RecordLensResult(lin, d, found)
  /\ Drop(d)
  /\ Unmeasured

\* With slices, freezeFindings is given the manifest or the lineage migrates.
Freeze ==
  /\ \E manifest \in {FALSE, slicing} : lin' \in FreezeFindings(lin, manifest)
  /\ UNCHANGED copies /\ Unmeasured

\* The gate answers migrate-remediation-v2 instead of any correction.
Migrate ==
  /\ slicing /\ lin.status \in Working
  /\ lin' \in MigrateReviewLineage(lin)
  /\ UNCHANGED copies /\ Unmeasured

Correct ==
  /\ lin.sliced <=> slicing
  /\ \E forecast \in 0 .. Limit :
       lin' \in BeginCorrection(lin, forecast) \union BeginSliceCorrection(lin, forecast)
  /\ Keep("correction", lin')
  /\ Unmeasured

At(l) == IF l.sliced THEN l.active ELSE Whole

Record ==
  /\ lin.sliced <=> slicing
  /\ \E lines \in 0 .. Limit :
       /\ lin' \in RecordCorrection(lin, lines) \union RecordSliceCorrection(lin, lines)
       /\ spent' = [spent EXCEPT ![At(lin)] = @ + lines]
  /\ Drop("correction")
  /\ UNCHANGED <<slicing, misses, unknowns>>

ValidateWhole ==
  /\ ~slicing
  /\ \E resolved, impacted \in SUBSET lin.found, regression \in BOOLEAN :
       /\ lin' \in ApplyTargetedValidation(lin, resolved, regression, impacted)
       /\ misses' = [misses EXCEPT ![Whole] = IF lin'.status = "approved" THEN @ ELSE @ + 1]
  /\ UNCHANGED <<copies, slicing, spent, unknowns>>

ValidateSlice ==
  /\ slicing
  /\ \E resolved, again \in SUBSET lin.found, reopened \in SUBSET Slice :
       lin' \in ValidateSliceCorrection(lin, resolved, reopened, again)
  /\ misses' = [misses EXCEPT ![lin.active] = IF lin'.slice[lin.active].status = "passed" THEN @ ELSE @ + 1]
  /\ UNCHANGED <<copies, slicing, spent, unknowns>>

-----------------------------------------------------------------------------
(* What happens around it *)

LoseOutcome(o) ==
  /\ unknowns < MaxUnknown
  /\ OpOf(lin, o) = "pending"
  /\ lin' \in MarkOperationUnknown(lin, o)
  /\ unknowns' = unknowns + 1
  /\ UNCHANGED <<copies, slicing, spent, misses>>

NotStarted(o) ==
  /\ lin' \in ReconcileNotStarted(lin, o)
  /\ Drop(o)
  /\ Unmeasured

Committed(o) ==
  /\ copies[o] # None
  /\ lin' \in ReconcileCommitted(lin, o, copies[o])
  /\ UNCHANGED copies /\ Unmeasured

\* The person ends the review.
Terminate ==
  /\ \E status \in {"escalated", "invalidated"} : lin' \in TerminateLineage(lin, status)
  /\ copies' = [o \in Operation |-> None]
  /\ Unmeasured

Upgrade ==
  /\ ~slicing /\ lin.status \in UpgradeIn
  /\ slicing' = TRUE
  /\ UNCHANGED <<lin, copies, spent, misses, unknowns>>

Reconcile == \E o \in Operation : NotStarted(o) \/ Committed(o)

Answered ==
  \/ \E d \in Lens : StartLens(d) \/ AnswerLens(d)
  \/ Freeze \/ Migrate \/ Correct \/ Record \/ ValidateWhole \/ ValidateSlice
  \/ Reconcile

Next ==
  \/ Answered
  \/ \E o \in Operation : LoseOutcome(o)
  \/ Terminate \/ Upgrade

Spec == Init /\ [][Next]_vars

\* The orchestrator goes on with what the gate answers, and finds out in the
\* end what became of an operation it lost.
FairSpec == Spec /\ WF_vars(Answered)

-----------------------------------------------------------------------------
(* Properties *)

TypeOK ==
  /\ lin.status \in Status
  /\ lin.unresolved \subseteq lin.found /\ lin.found \subseteq Finding
  /\ lin.lens \in [Lens -> {"pending", "running", "completed"}]
  /\ lin.op \in [Lens -> {"none", "pending", "unknown"}]
  /\ lin.used \in 0 .. Limit /\ lin.failed \in 0 .. MaxFailed
  /\ \A s \in Slice : lin.slice[s].used \in 0 .. Limit /\ lin.slice[s].failed \in 0 .. MaxFailed
  /\ lin.active \in Slice \union {None}
  /\ slicing \in BOOLEAN /\ unknowns \in 0 .. MaxUnknown

\* A review that is approved has the answer of every lens, no blocking finding
\* left unresolved and no slice that did not pass, whatever was lost and
\* reconciled and however often a regression reopened a slice on the way
\* (freezeFindings, applyTargetedValidation, terminalAfterSliceValidation).
ApprovedResolved ==
  lin.status = "approved" =>
    /\ \A d \in Lens : lin.lens[d] = "completed"
    /\ lin.unresolved = {}
    /\ \A s \in SlicesOf(lin) : lin.sliced => lin.slice[s].status = "passed"

\* While slices are corrected, a slice has passed only if its findings are
\* resolved, and a review that is not over has a slice to work on
\* (nextSliceAction, reopenImpactedSlices).
SlicesTellFindings ==
  lin.sliced =>
    /\ \A s \in InSlice(lin, "passed") : FoundIn(lin, s) \intersect lin.unresolved = {}
    /\ lin.status = "correction-required" => InSlice(lin, "ready") # {}
    /\ lin.status \in {"correcting", "validating"} => InSlice(lin, "correcting") = {lin.active}

\* The lines really changed and the validations really failed stay within the
\* allowance of the slice, or of the whole review, also when operations are
\* lost and reconciled (correction_budget, limit_lines, max_failed_attempts).
CorrectionBounded ==
  \A s \in Slice \union {Whole} : spent[s] <= Limit /\ misses[s] <= MaxFailed

\* What a lens found is never lost or changed, frozen findings stay, a lens
\* that answered is not run again, and what ended stays ended
\* (recordLensResult, verifyLineageInvariants, terminateLineage).
ReviewedOnce ==
  [][/\ \A d \in Lens : lin.lens[d] = "completed" =>
          lin'.lens[d] = "completed" /\ FoundBy(lin', d) = FoundBy(lin, d)
     /\ lin.frozen => lin'.frozen /\ lin'.found = lin.found
     /\ lin.status \in Terminal => lin'.status = lin.status]_vars

\* "A passed slice and every finding it resolves MUST remain resolved when
\* another slice fails", unless the regression names it, and only the active
\* slice consumes its allowance (validateSliceCorrection).
SlicesIndependent ==
  [][lin.sliced => \A s \in Slice \ {lin.active, lin'.active} :
       /\ lin'.slice[s].used = lin.slice[s].used /\ lin'.slice[s].failed = lin.slice[s].failed
       /\ lin'.slice[s].status # lin.slice[s].status =>
            /\ lin.slice[s].status = "passed" /\ lin'.slice[s].status = "ready"
            /\ lin'.slice[lin.active].failed = lin.slice[lin.active].failed + 1
       /\ lin'.slice[s].status = "passed" => FoundIn(lin, s) \intersect lin'.unresolved = {}]_vars

\* Every review of schema 2 comes to an end: regressions may reopen what
\* passed, but each costs an attempt, and a lost outcome is reconciled
\* (planLineageGate, nextSliceAction, reconcilePendingOperation).
ReviewEnds == lin.schema = 2 => <>(lin.status \in Terminal)

\* While the outcome of any operation is unknown, the lineage is only
\* reconciled: "unknown outcomes permit only exact reconciliation".
UnknownOnlyReconciled ==
  (\E o \in Operation : OpOf(lin, o) = "unknown") => lin.status = "reconciliation-required"

\* "Each selected lens executes exactly once": no lens is dispatched again
\* unless its own start is reconciled as not started.
LensOnce ==
  [][\A d \in Lens : lin.lens[d] = "running" /\ lin'.lens[d] = "pending" => lin.op[d] = "unknown"]_vars

\* A lineage that ended can be read, for the gate and for its successor.
EndedReadable == lin.status \in Terminal => Intact(lin)

=============================================================================
