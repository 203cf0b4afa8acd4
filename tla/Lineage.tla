------------------------------ MODULE Lineage ------------------------------
(***************************************************************************)
(* The reducers of a review lineage (scripts/lib/review-lineage.js): pure  *)
(* functions from one state of the lineage to the next, which refuse by    *)
(* throwing.  Here each one is the set of lineages it may return, empty    *)
(* when it refuses.                                                        *)
(*                                                                         *)
(* A finding is a blocking one; the others change nothing.  A candidate is *)
(* its number of corrections.  Schema 1 behaves as 2 in everything that is *)
(* modelled, and schema 3 adds the conditions of Intact.  The digests and  *)
(* the issuance of schema 3 bind data to itself and are left out, and so   *)
(* are exact retries, which return the lineage they are given.             *)
(***************************************************************************)
EXTENDS Integers, FiniteSetsExt

CONSTANTS Lens,            \* selected_domains
          Finding,         \* blocking findings a lens may report
          LensOf,          \* owner of each finding
          Slice,           \* root causes, in the order of slice_order: 1, 2, ...
          SliceOf,         \* the slice of the manifest that holds each finding
          Limit,           \* limit_lines
          MaxFailed,       \* MAX_FAILED_ATTEMPTS
          None

ASSUME LineageAssumption ==
  /\ Lens # {} /\ IsFiniteSet(Slice) /\ Slice \subseteq Nat \ {0}
  /\ LensOf \in [Finding -> Lens] /\ SliceOf \in [Finding -> Slice]
  /\ Limit \in Nat /\ MaxFailed \in Nat \ {0}

Terminal == {"approved", "exhausted", "escalated", "invalidated"}
Working == {"correction-required", "correcting", "validating"}
Status == Terminal \union Working \union {"reviewing", "reconciliation-required"}

NoSlice == [status |-> "absent", used |-> 0, failed |-> 0]

\* startQualityReviewLineage, startK7ReviewLineage.
Started(schema) ==
  [schema |-> schema, status |-> "reviewing",
   lens |-> [d \in Lens |-> "pending"], op |-> [d \in Lens |-> "none"],
   found |-> {}, frozen |-> FALSE, unresolved |-> {},
   used |-> 0, failed |-> 0, candidate |-> 0,
   pending |-> None, pendingOp |-> "none",
   latest |-> [f \in Finding |-> None], fails |-> [s \in Slice |-> 0], vague |-> FALSE,
   sliced |-> FALSE, slice |-> [s \in Slice |-> NoSlice], active |-> None]

FoundBy(l, d) == {f \in l.found : LensOf[f] = d}
FoundIn(l, s) == {f \in l.found : SliceOf[f] = s}
SlicesOf(l) == {SliceOf[f] : f \in l.found}
InSlice(l, status) == {s \in Slice : l.slice[s].status = status}

\* assertLineage: what the reducers of schema 3 refuse to read
\* (assertK7LifecycleIntegrity, assertRemediationV2).
Intact(l) ==
  l.schema = 3 =>
    /\ ~l.frozen => l.status \in {"reviewing", "reconciliation-required"}
    /\ l.status = "approved" => l.unresolved = {}
    /\ l.status \in Working => l.unresolved # {}
    /\ l.status = "exhausted" => l.failed >= MaxFailed
    /\ l.sliced => l.used = MapThenSumSet(LAMBDA s : l.slice[s].used, Slice)

When(allowed, l) == IF allowed THEN {l} ELSE {}

\* prepareMutation.
Mutable(l, status) == Intact(l) /\ l.status = status

-----------------------------------------------------------------------------
(* Lenses and findings *)

BeginLens(l, d) ==
  When(/\ Mutable(l, "reviewing") /\ l.lens[d] = "pending",
       [l EXCEPT !.lens[d] = "running", !.op[d] = "pending"])

RecordLensResult(l, d, found) ==
  When(/\ Mutable(l, "reviewing") /\ l.lens[d] = "running",
       [l EXCEPT !.lens[d] = "completed", !.op[d] = "none", !.found = @ \union found])

\* attachRemediationV2: one slice per root cause of the manifest.  What the
\* validations said of a finding last counts over its resolution.
Attach(l) ==
  LET left(s) == {f \in FoundIn(l, s) :
                    IF l.latest[f] = None THEN f \in l.unresolved ELSE l.latest[f] = "unresolved"}
      status(s) == IF left(s) = {} THEN "passed"
                   ELSE IF l.fails[s] >= MaxFailed THEN "exhausted" ELSE "ready"
  IN  [l EXCEPT !.sliced = TRUE,
                !.slice = [s \in Slice |-> IF s \in SlicesOf(l)
                             THEN [status |-> status(s), used |-> 0, failed |-> l.fails[s]]
                             ELSE NoSlice]]

\* Mutant: the findings freeze while a lens has not answered.
FreezeEarly(l, manifest) ==
  LET frozen == [l EXCEPT !.frozen = TRUE, !.unresolved = l.found,
                   !.status = IF l.found = {} THEN "approved" ELSE "correction-required"]
  IN  When(/\ Mutable(l, "reviewing")
           /\ \A d \in Lens : l.lens[d] # "pending",
           IF manifest THEN Attach(frozen) ELSE frozen)

FreezeFindings(l, manifest) ==
  LET frozen == [l EXCEPT !.frozen = TRUE, !.unresolved = l.found,
                   !.status = IF l.found = {} THEN "approved" ELSE "correction-required"]
  IN  When(/\ Mutable(l, "reviewing")
           /\ \A d \in Lens : l.lens[d] = "completed",
           IF manifest THEN Attach(frozen) ELSE frozen)

\* migrateReviewLineage, which refuses a regression nobody attributed.
MigrateReviewLineage(l) ==
  When(/\ Intact(l) /\ ~l.sliced
       /\ l.pendingOp = "none" /\ l.pending = None /\ l.status # "reconciliation-required"
       /\ ~l.vague,
       Attach(l))

-----------------------------------------------------------------------------
(* Corrections of the whole review, before slices *)

Begun(l, s, forecast) ==
  [l EXCEPT !.status = "correcting", !.pendingOp = "pending",
            !.pending = [slice |-> s, forecast |-> forecast]]

BeginCorrection(l, forecast) ==
  When(/\ ~l.sliced /\ Mutable(l, "correction-required")
       /\ l.failed < MaxFailed /\ l.unresolved # {}
       /\ forecast <= Limit - l.used,
       Begun(l, None, forecast))

Recorded(l) ==
  [l EXCEPT !.status = "validating", !.pendingOp = "none", !.candidate = @ + 1]

RecordCorrection(l, lines) ==
  When(/\ ~l.sliced /\ Mutable(l, "correcting") /\ l.pending # None
       /\ lines <= l.pending.forecast /\ l.used + lines <= Limit,
       [Recorded(l) EXCEPT !.used = @ + lines])

\* applyTargetedValidation: all the unresolved findings are resolved, or none.
\* A regression may name the findings it impacts.
ApplyTargetedValidation(l, resolved, regression, impacted) ==
  LET failed == regression \/ resolved # l.unresolved
      failures == IF failed THEN l.failed + 1 ELSE l.failed
      missed == {SliceOf[f] : f \in (l.unresolved \ resolved) \union impacted}
  IN  When(/\ ~l.sliced /\ Mutable(l, "validating")
           /\ resolved \subseteq l.unresolved
           /\ regression \/ impacted = {},
           [l EXCEPT !.unresolved = IF failed THEN @ ELSE {},
                     !.failed = failures,
                     !.latest = [f \in Finding |->
                                   IF f \in resolved THEN "resolved"
                                   ELSE IF f \in l.unresolved THEN "unresolved" ELSE @[f]],
                     !.fails = [s \in Slice |-> IF s \in missed THEN @[s] + 1 ELSE @[s]],
                     !.vague = @ \/ (regression /\ impacted = {}),
                     !.pending = None, !.pendingOp = "none",
                     !.status = IF ~failed THEN "approved"
                                ELSE IF failures >= MaxFailed THEN "exhausted"
                                ELSE "correction-required"])

-----------------------------------------------------------------------------
(* Corrections of one slice *)

\* nextSliceAction in correction-required.
NextSlice(l) == IF InSlice(l, "ready") = {} THEN None ELSE Min(InSlice(l, "ready"))

BeginSliceCorrection(l, forecast) ==
  LET s == NextSlice(l)
  IN  When(/\ l.sliced /\ Mutable(l, "correction-required") /\ s # None
           /\ forecast <= Limit - l.slice[s].used
           /\ l.schema = 3 => forecast <= Limit - l.used,
           [Begun(l, s, forecast) EXCEPT !.active = s, !.slice[s].status = "correcting"])

\* Mutant: the lines of a correction are not charged to its slice.
RecordSliceUncharged(l, lines) ==
  LET s == l.pending.slice
  IN  When(/\ l.sliced /\ Mutable(l, "correcting") /\ l.pendingOp # "none"
           /\ lines <= l.pending.forecast /\ l.slice[s].used + lines <= Limit
           /\ l.schema = 3 => l.used + lines <= Limit,
           Recorded(l))

RecordSliceCorrection(l, lines) ==
  LET s == l.pending.slice
  IN  When(/\ l.sliced /\ Mutable(l, "correcting") /\ l.pendingOp # "none"
           /\ lines <= l.pending.forecast /\ l.slice[s].used + lines <= Limit
           /\ l.schema = 3 => l.used + lines <= Limit,
           [Recorded(l) EXCEPT !.slice[s].used = @ + lines,
                               !.used = IF l.schema = 3 THEN @ + lines ELSE @])

\* terminalAfterSliceValidation.
Settled(l) ==
  [l EXCEPT !.active = None, !.pending = None,
            !.status = IF InSlice(l, "ready") # {} THEN "correction-required"
                       ELSE IF InSlice(l, "passed") = SlicesOf(l) THEN "approved"
                       ELSE "exhausted"]

\* Mutant: the verdict on one slice decides every finding.
ValidateAllSlices(l, resolved, reopened, again) ==
  LET s == l.active
      failed == reopened # {} \/ resolved # FoundIn(l, s)
  IN  When(/\ l.sliced /\ Mutable(l, "validating")
           /\ resolved \subseteq FoundIn(l, s)
           /\ reopened \subseteq InSlice(l, "passed")
           /\ again \subseteq UNION {FoundIn(l, t) : t \in reopened},
           Settled([l EXCEPT
             !.unresolved = IF failed THEN l.found ELSE @ \ FoundIn(l, s),
             !.slice[s].status = IF ~failed THEN "passed"
                                 ELSE IF @ = "correcting" /\ l.slice[s].failed + 1 >= MaxFailed
                                        THEN "exhausted" ELSE "ready",
             !.slice[s].failed = IF failed THEN @ + 1 ELSE @]))

\* validateSliceCorrection: a regression reopens passed slices it names, by
\* findings of theirs or by paths alone (reopenImpactedSlices).
ValidateSliceCorrection(l, resolved, reopened, again) ==
  LET s == l.active
      failed == reopened # {} \/ resolved # FoundIn(l, s)
      failures == IF failed THEN l.slice[s].failed + 1 ELSE l.slice[s].failed
      verdict == IF ~failed THEN "passed"
                 ELSE IF failures >= MaxFailed THEN "exhausted" ELSE "ready"
  IN  When(/\ l.sliced /\ Mutable(l, "validating")
           /\ resolved \subseteq FoundIn(l, s)
           /\ reopened \subseteq InSlice(l, "passed")
           /\ again \subseteq UNION {FoundIn(l, t) : t \in reopened},
           Settled([l EXCEPT
             !.unresolved = (IF failed THEN @ \union FoundIn(l, s) ELSE @ \ FoundIn(l, s)) \union again,
             !.slice = [t \in Slice |->
                          IF t = s THEN [@[t] EXCEPT !.status = verdict, !.failed = failures]
                          ELSE IF t \in reopened THEN [@[t] EXCEPT !.status = "ready"] ELSE @[t]]]))

-----------------------------------------------------------------------------
(* Unknown outcomes and the end *)

\* The operation of a lens, or that of the correction.
OpOf(l, o) == IF o \in Lens THEN l.op[o] ELSE l.pendingOp

\* markOperationUnknown, in any status.
MarkOperationUnknown(l, o) ==
  LET marked == [l EXCEPT !.status = "reconciliation-required"]
  IN  When(/\ Intact(l) /\ OpOf(l, o) # "none",
           IF o \in Lens THEN [marked EXCEPT !.op[o] = "unknown"]
           ELSE [marked EXCEPT !.pendingOp = "unknown"])

Unknown(l, o) == Intact(l) /\ l.status = "reconciliation-required" /\ OpOf(l, o) = "unknown"

\* Mutant: a correction that was not started leaves its slice in correction.
ReconcileKeepsSlice(l, o) ==
  LET back == [l EXCEPT !.status = "correction-required", !.pendingOp = "none"]
  IN  When(Unknown(l, o),
           IF o \in Lens
             THEN [l EXCEPT !.status = "reviewing", !.lens[o] = "pending", !.op[o] = "none"]
           ELSE IF l.sliced THEN [back EXCEPT !.active = None, !.pending = None]
           ELSE back)

\* reconcilePendingOperation with outcome not_started: back to operation.before.
ReconcileNotStarted(l, o) ==
  LET back == [l EXCEPT !.status = "correction-required", !.pendingOp = "none"]
  IN  When(Unknown(l, o),
           IF o \in Lens
             THEN [l EXCEPT !.status = "reviewing", !.lens[o] = "pending", !.op[o] = "none"]
           ELSE IF l.sliced
             THEN [back EXCEPT !.slice[l.active].status = "ready", !.active = None, !.pending = None]
           ELSE back)

\* verifyLineageInvariants, of a state and the one that replaces it.
SameReview(l, m) ==
  /\ m.used = l.used /\ m.failed = l.failed
  /\ l.frozen => m.frozen /\ m.found = l.found
  /\ \A d \in Lens : l.lens[d] = "completed" =>
       m.lens[d] = "completed" /\ FoundBy(m, d) = FoundBy(l, d)

\* Mutant: reconciliation takes the copy as it comes.
ReconcileUnverified(l, o, copy) ==
  When(/\ Unknown(l, o) /\ Intact(copy) /\ OpOf(copy, o) # "none"
       /\ l.sliced => /\ copy.slice = l.slice /\ copy.pending = l.pending
                      /\ copy.status = "correcting" /\ copy.pendingOp = "pending",
       copy)

\* With outcome committed: the state the caller holds that has the operation.
ReconcileCommitted(l, o, copy) ==
  When(/\ Unknown(l, o) /\ Intact(copy) /\ OpOf(copy, o) # "none"
       /\ SameReview(l, copy)
       /\ l.sliced => /\ copy.slice = l.slice /\ copy.pending = l.pending
                      /\ copy.status = "correcting" /\ copy.pendingOp = "pending",
       copy)

TerminateLineage(l, status) ==
  When(/\ Intact(l) /\ l.status \notin Terminal \union {"reconciliation-required"},
       [l EXCEPT !.status = status, !.pending = None, !.pendingOp = "none",
                 !.op = [d \in Lens |-> "none"]])

\* validateLineageForGate, on the candidate of the lineage.
ValidForGate(l) ==
  /\ Intact(l) /\ l.status = "approved"
  /\ \A o \in Lens \union {"correction"} : OpOf(l, o) # "unknown"

=============================================================================
