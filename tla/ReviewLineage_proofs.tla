------------------------ MODULE ReviewLineage_proofs ------------------------
(***************************************************************************)
(* Proofs about ReviewLineage, for any lenses, findings, slices and        *)
(* allowances and any number of lost outcomes, whenever the orchestrator   *)
(* is upgraded.                                                            *)
(*                                                                         *)
(* Most of what a reducer needs to keep is a relation between the fields   *)
(* of one lineage (Good).  Two parts lie outside: an open correction is    *)
(* the copy that was kept when it began, and the history variables count   *)
(* no more than the allowances count.                                      *)
(*                                                                         *)
(* That the slices agree with what is unresolved (Agreed) is kept by every *)
(* reducer but the migration, which believes the last verdict on each      *)
(* finding over its resolution.  It holds when an orchestrator is upgraded *)
(* before anything was corrected, or after the end.                        *)
(***************************************************************************)
EXTENDS ReviewLineage, WellFoundedInduction, TLAPS

SliceStatus == {"absent", "ready", "correcting", "passed", "exhausted"}

Lineages ==
  [schema : {2, 3}, status : Status,
   lens : [Lens -> {"pending", "running", "completed"}],
   op : [Lens -> {"none", "pending", "unknown"}],
   found : SUBSET Finding, frozen : BOOLEAN, unresolved : SUBSET Finding,
   used : 0 .. Limit, failed : 0 .. MaxFailed, candidate : Nat,
   pending : {None} \union [slice : Slice \union {None}, forecast : 0 .. Limit],
   pendingOp : {"none", "pending", "unknown"},
   latest : [Finding -> {None, "resolved", "unresolved"}], fails : [Slice -> Nat],
   vague : BOOLEAN, sliced : BOOLEAN,
   slice : [Slice -> [status : SliceStatus, used : 0 .. Limit, failed : 0 .. MaxFailed]],
   active : Slice \union {None}]

\* Nothing was corrected or validated yet.
Untouched(l) ==
  /\ l.used = 0 /\ l.failed = 0 /\ l.pendingOp = "none"
  /\ l.latest = [f \in Finding |-> None] /\ l.fails = [s \in Slice |-> 0]

\* The lenses, and what they leave when the findings freeze.
LensesGood(l) ==
  /\ \A d \in Lens : l.op[d] # "none" => l.lens[d] = "running"
  /\ l.status \in Terminal => l.op = [d \in Lens |-> "none"]
  /\ ~l.frozen => /\ l.status \in {"reviewing", "reconciliation-required", "escalated", "invalidated"}
                  /\ ~l.sliced /\ Untouched(l)
  /\ l.frozen => l.status # "reviewing" /\ \A d \in Lens : l.lens[d] = "completed"

\* The correction that is open.
Correcting(l) == l.status \in {"correcting", "validating"} \/ l.pendingOp # "none"

CorrectionGood(l) ==
  /\ l.pendingOp = "pending" <=> l.status = "correcting"
  /\ l.pendingOp = "unknown" => l.status = "reconciliation-required"
  /\ l.unresolved \subseteq l.found

\* The whole review, while it has no slices: its findings are unresolved together,
\* and no root cause was missed more often than the review.
WholeGood(l) ==
  ~l.sliced =>
    /\ Correcting(l) \/ l.status = "correction-required" => l.failed < MaxFailed /\ l.found # {}
    /\ Correcting(l) => l.pending # None
    /\ l.frozen /\ l.status # "approved" => l.unresolved = l.found
    /\ \A s \in Slice : l.fails[s] <= l.failed

\* The slices.
SlicesGood(l) ==
  l.sliced =>
    /\ \A s \in Slice : l.slice[s].status \in {"ready", "correcting", "passed"} =>
         l.slice[s].failed < MaxFailed
    /\ l.status = "correction-required" => InSlice(l, "correcting") = {}
    /\ Correcting(l) => l.active \in Slice /\ InSlice(l, "correcting") = {l.active}
    /\ l.pendingOp # "none" => l.pending \in [slice : {l.active}, forecast : 0 .. Limit]
    /\ l.status = "approved" => SlicesOf(l) \subseteq InSlice(l, "passed")

Good(l) == l \in Lineages /\ LensesGood(l) /\ CorrectionGood(l) /\ WholeGood(l) /\ SlicesGood(l)

\* The slices agree with what is unresolved.
Agreed(l) ==
  /\ l.status = "approved" => l.unresolved = {}
  /\ l.sliced =>
       /\ \A s \in Slice : l.slice[s].status = "passed" => FoundIn(l, s) \intersect l.unresolved = {}
       /\ l.status = "correction-required" => InSlice(l, "ready") # {}

\* Nothing was corrected, and nothing is being corrected.
Pristine(l) == Untouched(l) /\ l.status \notin {"correcting", "validating"}

-----------------------------------------------------------------------------
(* Facts about the constants                                               *)

LEMMA Constants ==
  /\ Lens # {} /\ Slice \subseteq Nat \ {0} /\ LensOf \in [Finding -> Lens] /\ SliceOf \in [Finding -> Slice]
  /\ Limit \in Nat /\ MaxFailed \in Nat \ {0} /\ MaxUnknown \in Nat
  /\ Schemas \subseteq {2, 3} /\ "correction" \notin Lens
  /\ None \notin [slice : Slice \union {None}, forecast : 0 .. Limit]
BY LineageAssumption, ReviewLineageAssumption

\* Some slices have a first one.
LEMMA FirstSlice ==
  ASSUME NEW S \in SUBSET Slice, S # {}
  PROVE  Min(S) \in S
<1> DEFINE R == OpToRel(<, Nat)
<1>1. S \subseteq Nat
  BY Constants
<1>2. PICK r \in S : \A q \in S : ~ (<<q, r>> \in R)
  <2> HIDE DEF R
  <2>1. IsWellFoundedOn(R, Nat)
    BY NatLessThanWellFounded DEF R
  <2> QED BY <1>1, <2>1, WFMin
<1>3. ASSUME NEW q \in S PROVE r =< q
  <2>1. q \in Nat /\ r \in Nat
    BY <1>1
  <2>2. ~ (q < r)
    BY <1>2, <2>1 DEF OpToRel
  <2> QED BY <2>1, <2>2
<1> QED BY <1>3 DEF Min

LEMMA WhenIs == ASSUME NEW b, NEW l, NEW m \in When(b, l) PROVE b /\ m = l
BY DEF When

\* A new lineage.
LEMMA StartedGood ==
  ASSUME NEW v \in {2, 3}
  PROVE  /\ Good(Started(v)) /\ Started(v).status = "reviewing"
         /\ ~Started(v).frozen /\ ~Started(v).sliced
<1>1. NoSlice \in [status : SliceStatus, used : 0 .. Limit, failed : 0 .. MaxFailed]
  BY Constants DEF NoSlice, SliceStatus
<1>2. Started(v) \in Lineages
  BY <1>1, Constants DEF Started, Lineages, Status
<1>3. /\ LensesGood(Started(v)) /\ CorrectionGood(Started(v)) /\ WholeGood(Started(v))
      /\ SlicesGood(Started(v))
  BY DEF Started, LensesGood, CorrectionGood, WholeGood, SlicesGood, Correcting, Untouched, Terminal
<1> QED BY <1>2, <1>3 DEF Good, Started

-----------------------------------------------------------------------------
(* Lenses                                                                  *)

\* Beginning, answering and reconciling a lens change its entries and what it found.
LensChanged(l, m, d) ==
  /\ m.lens = [l.lens EXCEPT ![d] = m.lens[d]] /\ m.op = [l.op EXCEPT ![d] = m.op[d]]
  /\ l.found \subseteq m.found /\ m.unresolved = l.unresolved
  /\ m.frozen = l.frozen /\ m.sliced = l.sliced /\ m.pendingOp = l.pendingOp
  /\ m.used = l.used /\ m.failed = l.failed /\ m.latest = l.latest /\ m.fails = l.fails

LEMMA LensStep ==
  ASSUME NEW l, Good(l), ~l.frozen, NEW d \in Lens, NEW m \in Lineages, LensChanged(l, m, d),
         m.status \in {"reviewing", "reconciliation-required"}, m.op[d] # "none" => m.lens[d] = "running"
  PROVE  Good(m)
<1>1. l.lens \in [Lens -> {"pending", "running", "completed"}] /\ l.op \in [Lens -> {"none", "pending", "unknown"}]
  BY DEF Good, Lineages
<1>2. LensesGood(m)
  BY <1>1 DEF LensChanged, Good, LensesGood, Untouched, Terminal
<1>3. CorrectionGood(m) /\ SlicesGood(m)
  BY DEF LensChanged, Good, LensesGood, CorrectionGood, SlicesGood, Untouched
<1>4. WholeGood(m)
  BY DEF LensChanged, Good, LensesGood, WholeGood, Correcting, Untouched
<1> QED BY <1>2, <1>3, <1>4 DEF Good

LEMMA BeginLensGood ==
  ASSUME NEW l, Good(l), NEW d \in Lens, NEW m \in BeginLens(l, d)
  PROVE  /\ Good(m) /\ ~m.frozen /\ ~m.sliced /\ m.status = "reviewing" /\ m.pendingOp = "none"
         /\ m.used = l.used /\ m.failed = l.failed /\ m.found = l.found /\ ~l.frozen /\ ~l.sliced
         /\ \A e \in Lens : l.lens[e] = "completed" => m.lens[e] = "completed"
<1>1. /\ l.status = "reviewing" /\ l.lens[d] = "pending" /\ l \in Lineages
      /\ m = [l EXCEPT !.lens[d] = "running", !.op[d] = "pending"]
  BY WhenIs DEF BeginLens, Mutable, Good
<1>2. ~l.frozen /\ ~l.sliced /\ l.pendingOp = "none"
  BY <1>1 DEF Good, LensesGood, Untouched
<1>3. /\ m \in Lineages /\ LensChanged(l, m, d) /\ m.status = "reviewing" /\ m.lens[d] = "running"
  BY <1>1 DEF Lineages, LensChanged
<1>4. Good(m)
  BY <1>2, <1>3, LensStep
<1>5. /\ m.frozen = l.frozen /\ m.sliced = l.sliced /\ m.status = l.status /\ m.pendingOp = l.pendingOp
      /\ m.used = l.used /\ m.failed = l.failed /\ m.found = l.found
      /\ m.lens = [l.lens EXCEPT ![d] = "running"] /\ DOMAIN l.lens = Lens
  BY <1>1 DEF Lineages
<1> QED BY <1>1, <1>2, <1>4, <1>5

LEMMA RecordLensGood ==
  ASSUME NEW l, Good(l), NEW d \in Lens, NEW F \in SUBSET {f \in Finding : LensOf[f] = d},
         NEW m \in RecordLensResult(l, d, F)
  PROVE  /\ Good(m) /\ ~m.frozen /\ ~m.sliced /\ m.status = "reviewing" /\ m.pendingOp = "none"
         /\ m.used = l.used /\ m.failed = l.failed /\ m.found = l.found \union F
         /\ ~l.frozen /\ ~l.sliced /\ l.lens[d] = "running"
         /\ \A e \in Lens : l.lens[e] = "completed" => m.lens[e] = "completed"
<1>1. /\ l.status = "reviewing" /\ l.lens[d] = "running" /\ l \in Lineages
      /\ m = [l EXCEPT !.lens[d] = "completed", !.op[d] = "none", !.found = @ \union F]
  BY WhenIs DEF RecordLensResult, Mutable, Good
<1>2. ~l.frozen /\ ~l.sliced /\ l.pendingOp = "none"
  BY <1>1 DEF Good, LensesGood, Untouched
<1>3. /\ m \in Lineages /\ LensChanged(l, m, d) /\ m.status = "reviewing" /\ m.op[d] = "none"
  BY <1>1 DEF Lineages, LensChanged
<1>4. Good(m)
  BY <1>2, <1>3, LensStep
<1>5. /\ m.frozen = l.frozen /\ m.sliced = l.sliced /\ m.status = l.status /\ m.pendingOp = l.pendingOp
      /\ m.used = l.used /\ m.failed = l.failed /\ m.found = l.found \union F
      /\ m.lens = [l.lens EXCEPT ![d] = "completed"] /\ DOMAIN l.lens = Lens
  BY <1>1 DEF Lineages
<1> QED BY <1>1, <1>2, <1>4, <1>5

-----------------------------------------------------------------------------
(* Frozen findings and their slices                                        *)

\* What a step keeps of the review once its findings are frozen.
Kept(l, m) ==
  /\ m.frozen = l.frozen /\ m.found = l.found /\ m.lens = l.lens /\ m.op = l.op
  /\ m.schema = l.schema

LEMMA SlicedType ==
  ASSUME NEW l \in Lineages,
         NEW slices \in [Slice -> [status : SliceStatus, used : 0 .. Limit, failed : 0 .. MaxFailed]]
  PROVE  [l EXCEPT !.sliced = TRUE, !.slice = slices] \in Lineages
  BY DEF Lineages

\* Slices that are attached to findings that nobody is correcting.
LEMMA AttachGood ==
  ASSUME NEW l, l \in Lineages, LensesGood(l), CorrectionGood(l), ~l.sliced, l.frozen,
         l.status \in {"approved", "correction-required"}, l.pendingOp = "none",
         l.status = "approved" => l.found = {}, \A s \in Slice : l.fails[s] < MaxFailed,
         NEW m, m = Attach(l)
  PROVE  /\ Good(m) /\ Kept(l, m) /\ m.sliced /\ m.status = l.status /\ m.pendingOp = "none"
         /\ Untouched(l) /\ l.unresolved = l.found /\ (l.status = "correction-required" => l.found # {}) =>
              Agreed(m)
<1>0. l \in Lineages /\ MaxFailed \in Nat \ {0} /\ Limit \in Nat
  BY Constants
<1> DEFINE left(s) == {f \in FoundIn(l, s) :
                    IF l.latest[f] = None THEN f \in l.unresolved ELSE l.latest[f] = "unresolved"}
           status(s) == IF left(s) = {} THEN "passed"
                        ELSE IF l.fails[s] >= MaxFailed THEN "exhausted" ELSE "ready"
           slices == [s \in Slice |-> IF s \in SlicesOf(l)
                        THEN [status |-> status(s), used |-> 0, failed |-> l.fails[s]] ELSE NoSlice]
<1>1. m = [l EXCEPT !.sliced = TRUE, !.slice = slices]
  BY DEF Attach
<1>2. /\ slices \in [Slice -> [status : SliceStatus, used : 0 .. Limit, failed : 0 .. MaxFailed]]
      /\ \A s \in Slice : slices[s].status \in {"ready", "passed", "absent"} /\ slices[s].failed < MaxFailed
  <2>1. ASSUME NEW s \in Slice
        PROVE  /\ slices[s] \in [status : SliceStatus, used : 0 .. Limit, failed : 0 .. MaxFailed]
               /\ slices[s].status \in {"ready", "passed", "absent"} /\ slices[s].failed < MaxFailed
    <3>1. l.fails[s] \in Nat /\ l.fails[s] < MaxFailed
      BY <1>0 DEF Lineages
    <3>2. status(s) \in {"ready", "passed"}
      BY <1>0, <3>1
    <3>3. slices[s] = IF s \in SlicesOf(l) THEN [status |-> status(s), used |-> 0, failed |-> l.fails[s]]
                      ELSE NoSlice
      OBVIOUS
    <3> HIDE DEF slices, status
    <3> QED BY <1>0, <3>1, <3>2, <3>3 DEF NoSlice, SliceStatus
  <2> QED BY <2>1
<1>3. Untouched(l) /\ l.unresolved = l.found =>
        \A s \in Slice : slices[s].status = IF s \in SlicesOf(l) THEN "ready" ELSE "absent"
  <2> SUFFICES ASSUME Untouched(l), l.unresolved = l.found, NEW s \in Slice
               PROVE  slices[s].status = IF s \in SlicesOf(l) THEN "ready" ELSE "absent"
    OBVIOUS
  <2>1. CASE s \in SlicesOf(l)
    <3>1. PICK f \in l.found : SliceOf[f] = s
      BY <2>1 DEF SlicesOf
    <3>2. f \in Finding /\ l.latest[f] = None /\ f \in l.unresolved /\ l.fails[s] = 0
      BY <1>0, <3>1 DEF Lineages, Untouched
    <3>3. f \in left(s)
      BY <3>1, <3>2 DEF FoundIn
    <3>4. status(s) = "ready"
      BY <1>0, <3>2, <3>3
    <3> HIDE DEF status
    <3> QED BY <2>1, <3>4
  <2>2. CASE s \notin SlicesOf(l)
    BY <2>2 DEF NoSlice
  <2> QED BY <2>1, <2>2
<1> HIDE DEF slices
<1>4. m \in Lineages
  <2>1. [l EXCEPT !.sliced = TRUE, !.slice = slices] \in Lineages
    BY <1>0, <1>2, SlicedType
  <2> QED BY <1>1, <2>1
<1>5. /\ Kept(l, m) /\ m.sliced /\ m.status = l.status /\ m.pendingOp = l.pendingOp
      /\ m.slice = slices /\ m.unresolved = l.unresolved
  BY <1>0, <1>1 DEF Kept, Lineages
<1>6. LensesGood(m) /\ CorrectionGood(m) /\ WholeGood(m)
  BY <1>5 DEF LensesGood, CorrectionGood, WholeGood, Kept
<1>7. SlicesGood(m)
  <2>1. m.pendingOp = "none" /\ ~Correcting(m)
    BY <1>5 DEF Correcting
  <2>2. m.status = "approved" => SlicesOf(m) = {}
    BY <1>5 DEF SlicesOf, Kept
  <2>3. InSlice(m, "correcting") = {}
    BY <1>2, <1>5 DEF InSlice
  <2> QED BY <1>2, <1>5, <2>1, <2>2, <2>3 DEF SlicesGood
<1>8. ASSUME Untouched(l), l.unresolved = l.found, l.status = "correction-required" => l.found # {}
      PROVE  Agreed(m)
  <2>1. \A s \in Slice : m.slice[s].status # "passed"
    BY <1>3, <1>5, <1>8
  <2>2. ASSUME m.status = "correction-required" PROVE InSlice(m, "ready") # {}
    <3>1. PICK f \in l.found : TRUE
      BY <1>5, <1>8, <2>2
    <3>2. SliceOf[f] \in Slice /\ SliceOf[f] \in SlicesOf(l)
      BY <1>0, Constants DEF Lineages, SlicesOf
    <3> QED BY <1>3, <1>5, <1>8, <3>2 DEF InSlice
  <2> QED BY <1>5, <1>8, <2>1, <2>2 DEF Agreed
<1> QED BY <1>4, <1>5, <1>6, <1>7, <1>8 DEF Good

LEMMA FreezeGood ==
  ASSUME NEW l, Good(l), NEW manifest \in BOOLEAN, NEW m \in FreezeFindings(l, manifest)
  PROVE  /\ Good(m) /\ Agreed(m) /\ m.frozen /\ m.found = l.found /\ m.lens = l.lens
         /\ m.sliced <=> manifest
         /\ m.pendingOp = "none" /\ ~l.frozen /\ ~l.sliced
         /\ l.status = "reviewing" /\ \A d \in Lens : l.lens[d] = "completed"
         /\ ~manifest => Pristine(m) /\ m.used = l.used /\ m.failed = l.failed
<1> DEFINE frozen == [l EXCEPT !.frozen = TRUE, !.unresolved = l.found,
                        !.status = IF l.found = {} THEN "approved" ELSE "correction-required"]
<1>1. /\ l.status = "reviewing" /\ l \in Lineages /\ \A d \in Lens : l.lens[d] = "completed"
      /\ m = IF manifest THEN Attach(frozen) ELSE frozen
  BY DEF FreezeFindings, Mutable, Good, When
<1>2. ~l.frozen /\ ~l.sliced /\ Untouched(l) /\ \A d \in Lens : l.op[d] = "none"
  BY <1>1 DEF Good, LensesGood, Lineages
<1>3. frozen \in Lineages
  BY <1>1 DEF Lineages, Status, Terminal, Working
<1>4. /\ frozen.frozen /\ frozen.found = l.found /\ frozen.unresolved = l.found
      /\ frozen.lens = l.lens /\ frozen.op = l.op /\ ~frozen.sliced
      /\ frozen.status = (IF l.found = {} THEN "approved" ELSE "correction-required")
      /\ frozen.pendingOp = l.pendingOp /\ frozen.used = l.used /\ frozen.failed = l.failed
      /\ frozen.latest = l.latest /\ frozen.fails = l.fails
  BY <1>1, <1>2 DEF Lineages
<1> HIDE DEF frozen
<1>5. l.op = [d \in Lens |-> "none"]
  BY <1>1, <1>2 DEF Lineages
<1>6. Pristine(frozen) /\ Untouched(frozen)
  BY <1>2, <1>4 DEF Pristine, Untouched
<1>7. Good(frozen) /\ Agreed(frozen) /\ \A s \in Slice : frozen.fails[s] < MaxFailed
  <2>1. LensesGood(frozen)
    BY <1>1, <1>4, <1>5 DEF LensesGood, Terminal
  <2>2. CorrectionGood(frozen) /\ SlicesGood(frozen) /\ Agreed(frozen)
    BY <1>2, <1>4 DEF CorrectionGood, SlicesGood, Agreed, Untouched
  <2>3. WholeGood(frozen) /\ \A s \in Slice : frozen.fails[s] < MaxFailed
    BY <1>4, <1>6, Constants DEF WholeGood, Correcting, Untouched
  <2> QED BY <1>3, <2>1, <2>2, <2>3 DEF Good
<1>8. CASE ~manifest
  <2>1. m = frozen
    BY <1>1, <1>8
  <2> QED BY <1>1, <1>2, <1>4, <1>6, <1>7, <1>8, <2>1 DEF Untouched
<1>9. CASE manifest
  <2>1. /\ Good(m) /\ Kept(frozen, m) /\ m.sliced /\ m.pendingOp = "none"
        /\ Untouched(frozen) /\ frozen.unresolved = frozen.found
           /\ (frozen.status = "correction-required" => frozen.found # {}) => Agreed(m)
    <3>1. /\ frozen \in Lineages /\ LensesGood(frozen) /\ CorrectionGood(frozen)
          /\ ~frozen.sliced /\ frozen.frozen /\ frozen.status \in {"approved", "correction-required"}
          /\ frozen.pendingOp = "none"
          /\ frozen.status = "approved" => frozen.found = {}
      BY <1>3, <1>4, <1>6, <1>7 DEF Good, Untouched
    <3> QED BY <1>1, <1>7, <1>9, <3>1, AttachGood
  <2> QED BY <1>1, <1>2, <1>4, <1>6, <1>9, <2>1 DEF Kept, Untouched
<1> QED BY <1>8, <1>9

LEMMA MigrateGood ==
  ASSUME NEW l, Good(l), l.status \in Working, NEW m \in MigrateReviewLineage(l)
  PROVE  /\ Good(m) /\ Kept(l, m) /\ m.sliced /\ m.pendingOp = "none" /\ ~l.sliced
         /\ m.status = l.status /\ l.status \notin Terminal
         /\ Pristine(l) => Agreed(m)
<1>1. ~l.sliced /\ l.pendingOp = "none" /\ l.pending = None /\ m = Attach(l)
  BY WhenIs DEF MigrateReviewLineage
<1>2. l.status = "correction-required" /\ l.frozen
  BY <1>1 DEF Good, LensesGood, WholeGood, Correcting, Working
<1>3. l.found # {} /\ l.unresolved = l.found /\ \A s \in Slice : l.fails[s] < MaxFailed
  <2>1. l.found # {} /\ l.unresolved = l.found /\ l.failed < MaxFailed /\ \A s \in Slice : l.fails[s] <= l.failed
    BY <1>1, <1>2 DEF Good, WholeGood
  <2>2. l.failed \in Nat /\ MaxFailed \in Nat /\ \A s \in Slice : l.fails[s] \in Nat
    BY Constants DEF Good, Lineages
  <2> QED BY <2>1, <2>2
<1>4. l \in Lineages /\ LensesGood(l) /\ CorrectionGood(l)
  BY DEF Good
<1>5. /\ Good(m) /\ Kept(l, m) /\ m.sliced /\ m.status = l.status /\ m.pendingOp = "none"
      /\ Untouched(l) /\ l.unresolved = l.found /\ (l.status = "correction-required" => l.found # {}) => Agreed(m)
  BY <1>1, <1>2, <1>3, <1>4, AttachGood
<1> QED BY <1>1, <1>2, <1>3, <1>5 DEF Pristine, Terminal

-----------------------------------------------------------------------------
(* Corrections                                                             *)

\* A correction that begins: of the whole review, or of its next slice.
LEMMA BegunGood ==
  ASSUME NEW l, Good(l), NEW forecast \in 0 .. Limit,
         NEW m \in BeginCorrection(l, forecast) \union BeginSliceCorrection(l, forecast)
  PROVE  /\ Good(m) /\ Kept(l, m) /\ m.status = "correcting" /\ m.pendingOp = "pending"
         /\ l.status = "correction-required" /\ m.used = l.used /\ m.failed = l.failed
         /\ m.unresolved = l.unresolved
         /\ m.sliced <=> l.sliced
         /\ \A s \in Slice : m.slice[s].used = l.slice[s].used /\ m.slice[s].failed = l.slice[s].failed
         /\ l.sliced => /\ m.active \in Slice
                        /\ \A s \in Slice \ {m.active} : m.slice[s] = l.slice[s]
         /\ Agreed(l) => Agreed(m)
<1>0. l \in Lineages /\ MaxFailed \in Nat \ {0} /\ Limit \in Nat
  BY Constants DEF Good
<1>1. CASE m \in BeginCorrection(l, forecast)
  <2>1. /\ ~l.sliced /\ l.status = "correction-required"
        /\ m = Begun(l, None, forecast)
    BY <1>1, WhenIs DEF BeginCorrection, Mutable
  <2>2. m \in Lineages
    BY <1>0, <2>1 DEF Begun, Lineages, Status, Working
  <2>3. /\ Kept(l, m) /\ m.status = "correcting" /\ m.pendingOp = "pending"
        /\ m.used = l.used /\ m.failed = l.failed /\ m.unresolved = l.unresolved
        /\ m.sliced = l.sliced /\ m.slice = l.slice /\ m.fails = l.fails
        /\ m.pending = [slice |-> None, forecast |-> forecast]
    BY <1>0, <2>1 DEF Begun, Kept, Lineages
  <2>4. LensesGood(m)
    BY <2>1, <2>3 DEF Good, LensesGood, Kept, Terminal
  <2>5. CorrectionGood(m) /\ SlicesGood(m)
    BY <2>1, <2>3 DEF Good, CorrectionGood, SlicesGood, Kept
  <2>6. WholeGood(m)
    <3>1. m.pending # None
      BY <2>3, Constants
    <3> QED BY <2>1, <2>3, <3>1 DEF Good, WholeGood, Kept
  <2>7. Agreed(m)
    BY <2>1, <2>3 DEF Agreed
  <2> QED BY <2>1, <2>2, <2>3, <2>4, <2>5, <2>6, <2>7 DEF Good
<1>2. CASE m \in BeginSliceCorrection(l, forecast)
  <2> DEFINE s == NextSlice(l)
  <2>1. /\ l.sliced /\ l.status = "correction-required" /\ s # None
        /\ m = [Begun(l, s, forecast) EXCEPT !.active = s, !.slice[s].status = "correcting"]
    BY <1>2 DEF BeginSliceCorrection, Mutable, When
  <2>2. s \in InSlice(l, "ready")
    BY <2>1, FirstSlice DEF NextSlice, InSlice
  <2> HIDE DEF s
  <2>3. s \in Slice /\ l.slice[s].status = "ready" /\ l.slice[s].failed < MaxFailed
    BY <2>1, <2>2 DEF InSlice, Good, SlicesGood
  <2>4. m = [l EXCEPT !.status = "correcting", !.pendingOp = "pending",
               !.pending = [slice |-> s, forecast |-> forecast], !.active = s,
               !.slice = [l.slice EXCEPT ![s].status = "correcting"]]
    BY <1>0, <2>1 DEF Begun, Lineages
  <2> DEFINE slices == [l.slice EXCEPT ![s].status = "correcting"]
  <2>5. /\ slices \in [Slice -> [status : SliceStatus, used : 0 .. Limit, failed : 0 .. MaxFailed]]
        /\ slices[s].status = "correcting" /\ \A t \in Slice \ {s} : slices[t] = l.slice[t]
        /\ \A t \in Slice : slices[t].used = l.slice[t].used /\ slices[t].failed = l.slice[t].failed
    BY <1>0, <2>3 DEF Lineages, SliceStatus
  <2> HIDE DEF slices
  <2>6. m \in Lineages
    BY <1>0, <2>3, <2>4, <2>5 DEF Lineages, Status, Working, slices
  <2>7. /\ Kept(l, m) /\ m.status = "correcting" /\ m.pendingOp = "pending"
        /\ m.used = l.used /\ m.failed = l.failed /\ m.unresolved = l.unresolved
        /\ m.sliced = l.sliced /\ m.slice = slices /\ m.active = s
        /\ m.pending = [slice |-> s, forecast |-> forecast]
    BY <1>0, <2>4 DEF Kept, Lineages, slices
  <2>8. LensesGood(m)
    BY <2>1, <2>7 DEF Good, LensesGood, Kept, Terminal
  <2>9. CorrectionGood(m) /\ WholeGood(m)
    BY <2>1, <2>7 DEF Good, CorrectionGood, WholeGood, Kept
  <2>10. SlicesGood(m)
    <3>1. InSlice(m, "correcting") = {s}
      BY <2>1, <2>3, <2>5, <2>7 DEF Good, SlicesGood, InSlice
    <3>2. m.pending \in [slice : {m.active}, forecast : 0 .. Limit]
      BY <2>7
    <3>3. \A t \in Slice : m.slice[t].status \in {"ready", "correcting", "passed"} => m.slice[t].failed < MaxFailed
      BY <2>1, <2>3, <2>5, <2>7 DEF Good, SlicesGood
    <3> QED BY <2>3, <2>7, <3>1, <3>2, <3>3 DEF SlicesGood, Correcting
  <2>11. Agreed(l) => Agreed(m)
    BY <2>1, <2>3, <2>5, <2>7 DEF Agreed, Kept, FoundIn
  <2> QED BY <2>1, <2>3, <2>5, <2>6, <2>7, <2>8, <2>9, <2>10, <2>11 DEF Good
<1> QED BY <1>1, <1>2

\* A correction that is recorded.
LEMMA RecordedGood ==
  ASSUME NEW l, Good(l), NEW lines \in 0 .. Limit,
         NEW m \in RecordCorrection(l, lines) \union RecordSliceCorrection(l, lines)
  PROVE  /\ Good(m) /\ Kept(l, m) /\ m.status = "validating" /\ m.pendingOp = "none"
         /\ l.status = "correcting" /\ m.failed = l.failed /\ m.unresolved = l.unresolved
         /\ m.sliced <=> l.sliced
         /\ m.active = l.active
         /\ ~l.sliced => m.used = l.used + lines /\ m.slice = l.slice
         /\ l.sliced => /\ l.active \in Slice
                        /\ m.slice = [l.slice EXCEPT ![l.active].used = @ + lines]
         /\ Agreed(l) => Agreed(m)
<1>0. l \in Lineages /\ MaxFailed \in Nat \ {0} /\ Limit \in Nat
  BY Constants DEF Good
<1>1. CASE m \in RecordCorrection(l, lines)
  <2>1. /\ ~l.sliced /\ l.status = "correcting" /\ l.used + lines <= Limit
        /\ m = [Recorded(l) EXCEPT !.used = @ + lines]
    BY <1>1, WhenIs DEF RecordCorrection, Mutable
  <2>2. m = [l EXCEPT !.status = "validating", !.pendingOp = "none", !.candidate = @ + 1, !.used = @ + lines]
    BY <1>0, <2>1 DEF Recorded, Lineages
  <2>3. m \in Lineages
    <3>1. l.used + lines \in 0 .. Limit /\ l.candidate + 1 \in Nat
      BY <1>0, <2>1 DEF Lineages
    <3> QED BY <1>0, <2>2, <3>1 DEF Lineages, Status, Working
  <2>4. /\ Kept(l, m) /\ m.status = "validating" /\ m.pendingOp = "none"
        /\ m.failed = l.failed /\ m.unresolved = l.unresolved /\ m.active = l.active
        /\ m.sliced = l.sliced /\ m.slice = l.slice /\ m.used = l.used + lines
        /\ m.fails = l.fails /\ m.pending = l.pending
    BY <1>0, <2>2 DEF Kept, Lineages
  <2>5. LensesGood(m)
    BY <2>1, <2>4 DEF Good, LensesGood, Kept, Terminal
  <2>6. CorrectionGood(m) /\ SlicesGood(m) /\ Agreed(m)
    BY <2>1, <2>4 DEF Good, CorrectionGood, SlicesGood, Agreed, Kept
  <2>7. WholeGood(m)
    BY <2>1, <2>4 DEF Good, WholeGood, Correcting, Kept
  <2> QED BY <2>1, <2>3, <2>4, <2>5, <2>6, <2>7 DEF Good
<1>2. CASE m \in RecordSliceCorrection(l, lines)
  <2> DEFINE s == l.active
  <2>1. /\ l.sliced /\ l.status = "correcting" /\ l.pendingOp # "none"
        /\ l.slice[l.pending.slice].used + lines <= Limit
        /\ l.schema = 3 => l.used + lines <= Limit
        /\ m = [Recorded(l) EXCEPT !.slice[l.pending.slice].used = @ + lines,
                                   !.used = IF l.schema = 3 THEN @ + lines ELSE @]
    BY <1>2 DEF RecordSliceCorrection, Mutable, When
  <2>2. l.pending.slice = s /\ s \in Slice /\ InSlice(l, "correcting") = {s}
    BY <2>1 DEF Good, SlicesGood, Correcting
  <2> HIDE DEF s
  <2> DEFINE slices == [l.slice EXCEPT ![s].used = @ + lines]
             total == IF l.schema = 3 THEN l.used + lines ELSE l.used
  <2>3. m = [l EXCEPT !.status = "validating", !.pendingOp = "none", !.candidate = @ + 1,
               !.slice = slices, !.used = total]
    BY <1>0, <2>1, <2>2 DEF Recorded, Lineages
  <2>4. /\ slices \in [Slice -> [status : SliceStatus, used : 0 .. Limit, failed : 0 .. MaxFailed]]
        /\ \A t \in Slice : slices[t].status = l.slice[t].status /\ slices[t].failed = l.slice[t].failed
    <3>1. l.slice[s].used + lines \in 0 .. Limit
      BY <1>0, <2>1, <2>2 DEF Lineages
    <3> QED BY <1>0, <2>2, <3>1 DEF Lineages
  <2>5. total \in 0 .. Limit /\ l.candidate + 1 \in Nat
    BY <1>0, <2>1 DEF Lineages
  <2>6. slices = [l.slice EXCEPT ![s].used = @ + lines]
    OBVIOUS
  <2> HIDE DEF slices, total
  <2>7. m \in Lineages
    BY <1>0, <2>3, <2>4, <2>5 DEF Lineages, Status, Working
  <2>8. /\ Kept(l, m) /\ m.status = "validating" /\ m.pendingOp = "none"
        /\ m.failed = l.failed /\ m.unresolved = l.unresolved /\ m.active = l.active
        /\ m.sliced = l.sliced /\ m.slice = slices
    BY <1>0, <2>3 DEF Kept, Lineages
  <2>9. LensesGood(m)
    BY <2>1, <2>8 DEF Good, LensesGood, Kept, Terminal
  <2>10. CorrectionGood(m) /\ WholeGood(m)
    BY <2>1, <2>8 DEF Good, CorrectionGood, WholeGood, Kept
  <2>11. SlicesGood(m) /\ (Agreed(l) => Agreed(m))
    <3>1. InSlice(m, "correcting") = {s}
      BY <2>2, <2>4, <2>8 DEF InSlice
    <3>2. \A t \in Slice : /\ m.slice[t].status = l.slice[t].status
                           /\ m.slice[t].failed = l.slice[t].failed
                           /\ FoundIn(m, t) = FoundIn(l, t)
      BY <2>4, <2>8 DEF FoundIn, Kept
    <3>3. SlicesGood(m)
      BY <2>1, <2>2, <2>8, <3>1, <3>2 DEF SlicesGood, Good, Correcting, s
    <3> QED BY <2>1, <2>8, <3>2, <3>3 DEF Agreed
  <2> QED BY <2>1, <2>2, <2>6, <2>7, <2>8, <2>9, <2>10, <2>11 DEF Good, s
<1> QED BY <1>1, <1>2

-----------------------------------------------------------------------------
(* Validations                                                             *)

LEMMA SettledType ==
  ASSUME NEW l \in Lineages, NEW verdict \in {"approved", "exhausted", "correction-required"}
  PROVE  [l EXCEPT !.active = None, !.pending = None, !.status = verdict] \in Lineages
<1>1. verdict \in Status
  BY DEF Status, Working, Terminal
<1> QED BY <1>1 DEF Lineages

LEMMA ValidatedWholeGood ==
  ASSUME NEW l, Good(l), NEW resolved \in SUBSET l.found, NEW impacted \in SUBSET l.found,
         NEW regression \in BOOLEAN, NEW m \in ApplyTargetedValidation(l, resolved, regression, impacted)
  PROVE  /\ Good(m) /\ Kept(l, m) /\ m.pendingOp = "none" /\ l.status = "validating"
         /\ m.status \in {"approved", "exhausted", "correction-required"}
         /\ ~l.sliced /\ ~m.sliced /\ m.used = l.used
         /\ m.failed = IF m.status = "approved" THEN l.failed ELSE l.failed + 1
         /\ Agreed(m)
<1>0. l \in Lineages /\ MaxFailed \in Nat \ {0} /\ Limit \in Nat
  BY Constants DEF Good
<1> DEFINE failed == regression \/ resolved # l.unresolved
           failures == IF failed THEN l.failed + 1 ELSE l.failed
           missed == {SliceOf[f] : f \in (l.unresolved \ resolved) \union impacted}
           latest == [f \in Finding |-> IF f \in resolved THEN "resolved"
                                        ELSE IF f \in l.unresolved THEN "unresolved" ELSE l.latest[f]]
           fails == [s \in Slice |-> IF s \in missed THEN l.fails[s] + 1 ELSE l.fails[s]]
           vague == l.vague \/ (regression /\ impacted = {})
           verdict == IF ~failed THEN "approved"
                      ELSE IF failures >= MaxFailed THEN "exhausted" ELSE "correction-required"
           unresolved == IF failed THEN l.unresolved ELSE {}
<1>1. /\ ~l.sliced /\ l.status = "validating"
      /\ resolved \subseteq l.unresolved /\ (regression \/ impacted = {})
      /\ m = [l EXCEPT !.unresolved = unresolved, !.failed = failures, !.latest = latest,
                !.fails = fails, !.vague = vague, !.pending = None, !.pendingOp = "none",
                !.status = verdict]
  BY <1>0 DEF ApplyTargetedValidation, Mutable, When, Lineages
<1>2. l.failed < MaxFailed
  BY <1>1 DEF Good, WholeGood, Correcting
<1>3. /\ failures \in 0 .. MaxFailed /\ latest \in [Finding -> {None, "resolved", "unresolved"}]
      /\ fails \in [Slice -> Nat] /\ vague \in BOOLEAN /\ unresolved \in SUBSET Finding
      /\ verdict \in {"approved", "exhausted", "correction-required"}
      /\ verdict = "approved" <=> ~failed
  BY <1>0, <1>2 DEF Lineages
<1>4. /\ unresolved = IF verdict = "approved" THEN {} ELSE l.unresolved
      /\ failures = IF verdict = "approved" THEN l.failed ELSE l.failed + 1
      /\ verdict = "correction-required" => failures < MaxFailed
  BY <1>0, <1>3
<1>5. \A s \in Slice : fails[s] <= failures
  <2>1. SUFFICES ASSUME NEW s \in Slice PROVE fails[s] <= failures
    OBVIOUS
  <2>2. l.fails[s] \in Nat /\ l.failed \in Nat /\ l.fails[s] <= l.failed
    BY <1>0, <1>1 DEF Lineages, Good, WholeGood
  <2>3. CASE s \in missed
    <3>1. failed
      BY <1>1, <2>3
    <3>2. fails[s] = l.fails[s] + 1 /\ failures = l.failed + 1
      BY <2>3, <3>1
    <3> QED BY <2>2, <3>2
  <2>4. CASE s \notin missed
    <3>1. fails[s] = l.fails[s] /\ failures \in {l.failed, l.failed + 1}
      BY <2>4
    <3> QED BY <2>2, <3>1
  <2> QED BY <2>3, <2>4
<1> HIDE DEF failures, latest, fails, vague, unresolved, verdict
<1>6. m \in Lineages
  <2>1. /\ l \in Lineages /\ unresolved \in SUBSET Finding /\ failures \in 0 .. MaxFailed
        /\ latest \in [Finding -> {None, "resolved", "unresolved"}]
        /\ fails \in [Slice -> Nat] /\ vague \in BOOLEAN /\ verdict \in Status
    BY <1>0, <1>3 DEF Status, Working, Terminal
  <2>2. [l EXCEPT !.unresolved = unresolved, !.failed = failures, !.latest = latest,
           !.fails = fails, !.vague = vague, !.pending = None, !.pendingOp = "none",
           !.status = verdict] \in Lineages
    BY <2>1 DEF Lineages
  <2> QED BY <1>1, <2>2
<1>7. /\ Kept(l, m) /\ m.pendingOp = "none" /\ m.status = verdict /\ m.sliced = l.sliced
      /\ m.used = l.used /\ m.failed = failures /\ m.unresolved = unresolved /\ m.fails = fails
  BY <1>0, <1>1 DEF Lineages, Kept
<1>8. l.frozen /\ l.op = [d \in Lens |-> "none"]
  BY <1>0, <1>1 DEF Good, LensesGood, Lineages
<1>9. LensesGood(m)
  BY <1>3, <1>7, <1>8 DEF Good, LensesGood, Kept
<1>10. CorrectionGood(m) /\ SlicesGood(m) /\ Agreed(m)
  BY <1>1, <1>3, <1>4, <1>7 DEF Good, CorrectionGood, SlicesGood, Agreed, Kept
<1>11. WholeGood(m)
  BY <1>1, <1>3, <1>4, <1>5, <1>7 DEF Good, WholeGood, Correcting, Kept
<1> QED BY <1>1, <1>3, <1>4, <1>6, <1>7, <1>9, <1>10, <1>11 DEF Good

LEMMA ValidatedSliceGood ==
  ASSUME NEW l, Good(l), NEW resolved \in SUBSET l.found, NEW again \in SUBSET l.found,
         NEW reopened \in SUBSET Slice, NEW m \in ValidateSliceCorrection(l, resolved, reopened, again)
  PROVE  /\ Good(m) /\ Kept(l, m) /\ m.pendingOp = "none" /\ l.status = "validating"
         /\ m.status \in {"approved", "exhausted", "correction-required"}
         /\ l.sliced /\ m.sliced /\ l.active \in Slice
         /\ m.slice[l.active].failed = (IF m.slice[l.active].status = "passed" THEN l.slice[l.active].failed
                                        ELSE l.slice[l.active].failed + 1)
         /\ m.slice[l.active].used = l.slice[l.active].used
         /\ \A t \in Slice \ {l.active} :
              /\ m.slice[t].used = l.slice[t].used /\ m.slice[t].failed = l.slice[t].failed
              /\ m.slice[t].status # l.slice[t].status =>
                   /\ l.slice[t].status = "passed" /\ m.slice[t].status = "ready"
                   /\ m.slice[l.active].failed = l.slice[l.active].failed + 1
         /\ Agreed(l) => Agreed(m)
<1>0. l \in Lineages /\ MaxFailed \in Nat \ {0} /\ Limit \in Nat
  BY Constants DEF Good
<1> DEFINE s == l.active
           failed == reopened # {} \/ resolved # FoundIn(l, s)
           failures == IF failed THEN l.slice[s].failed + 1 ELSE l.slice[s].failed
           verdict == IF ~failed THEN "passed"
                      ELSE IF failures >= MaxFailed THEN "exhausted" ELSE "ready"
           unresolved == (IF failed THEN l.unresolved \union FoundIn(l, s)
                          ELSE l.unresolved \ FoundIn(l, s)) \union again
           slices == [t \in Slice |->
                        IF t = s THEN [l.slice[t] EXCEPT !.status = verdict, !.failed = failures]
                        ELSE IF t \in reopened THEN [l.slice[t] EXCEPT !.status = "ready"] ELSE l.slice[t]]
           n == [l EXCEPT !.unresolved = unresolved, !.slice = slices]
<1>1. /\ l.sliced /\ l.status = "validating" /\ resolved \subseteq FoundIn(l, s)
      /\ reopened \subseteq InSlice(l, "passed")
      /\ again \subseteq UNION {FoundIn(l, t) : t \in reopened}
      /\ m = Settled(n)
  BY <1>0 DEF ValidateSliceCorrection, Mutable, When, Lineages
<1>2. s \in Slice /\ InSlice(l, "correcting") = {s} /\ l.slice[s].failed < MaxFailed
  <2>1. s \in Slice /\ InSlice(l, "correcting") = {s}
    BY <1>1 DEF Good, SlicesGood, Correcting
  <2>2. l.slice[s].status = "correcting"
    BY <2>1 DEF InSlice
  <2> QED BY <1>1, <2>1, <2>2 DEF Good, SlicesGood
<1>3. /\ failures \in 0 .. MaxFailed /\ verdict \in {"passed", "exhausted", "ready"}
      /\ verdict = "passed" <=> ~failed
      /\ verdict \in {"passed", "ready"} => failures < MaxFailed
      /\ failures = IF verdict = "passed" THEN l.slice[s].failed ELSE l.slice[s].failed + 1
  BY <1>0, <1>2 DEF Lineages
<1> HIDE DEF verdict, failures, n, failed, s
<1>4. /\ slices \in [Slice -> [status : SliceStatus, used : 0 .. Limit, failed : 0 .. MaxFailed]]
      /\ slices[s].status = verdict /\ slices[s].failed = failures /\ slices[s].used = l.slice[s].used
      /\ \A t \in Slice \ {s} : /\ slices[t].used = l.slice[t].used /\ slices[t].failed = l.slice[t].failed
                                /\ t \in reopened => slices[t].status = "ready"
                                /\ t \notin reopened => slices[t] = l.slice[t]
  <2> DEFINE Entry == [status : SliceStatus, used : 0 .. Limit, failed : 0 .. MaxFailed]
  <2>1. \A t \in Slice : l.slice[t] \in Entry
    BY <1>0 DEF Lineages
  <2>2. /\ slices[s] \in Entry /\ slices[s].status = verdict /\ slices[s].failed = failures
        /\ slices[s].used = l.slice[s].used
    BY <1>2, <1>3, <2>1 DEF SliceStatus
  <2>3. ASSUME NEW t \in Slice \ {s}
        PROVE  /\ slices[t] \in Entry
               /\ slices[t].used = l.slice[t].used /\ slices[t].failed = l.slice[t].failed
               /\ t \in reopened => slices[t].status = "ready"
               /\ t \notin reopened => slices[t] = l.slice[t]
    <3>1. slices[t] = IF t \in reopened THEN [l.slice[t] EXCEPT !.status = "ready"] ELSE l.slice[t]
      BY <2>3
    <3> HIDE DEF slices
    <3> QED BY <2>1, <2>3, <3>1 DEF SliceStatus
  <2> QED BY <1>2, <2>2, <2>3
<1> HIDE DEF slices
<1>5. unresolved \in SUBSET Finding /\ unresolved \subseteq l.found
  BY <1>0 DEF Lineages, FoundIn, Good, CorrectionGood
<1>6. Agreed(l) => \A t \in Slice : slices[t].status = "passed" => FoundIn(l, t) \intersect unresolved = {}
  <2>1. SUFFICES ASSUME Agreed(l), NEW t \in Slice, slices[t].status = "passed", NEW f \in FoundIn(l, t)
                 PROVE  f \notin unresolved
    OBVIOUS
  <2>2. CASE t = s
    <3>1. reopened = {} /\ ~failed
      BY <1>3, <1>4, <2>1, <2>2 DEF failed
    <3>2. again = {}
      BY <1>1, <3>1
    <3> QED BY <2>1, <2>2, <3>1, <3>2
  <2>3. CASE t # s
    <3>1. t \notin reopened /\ l.slice[t].status = "passed"
      BY <1>4, <2>1, <2>3
    <3>2. f \notin l.unresolved
      BY <1>1, <2>1, <3>1 DEF Agreed
    <3>3. f \notin FoundIn(l, s) /\ f \notin again
      BY <1>1, <2>1, <2>3, <3>1 DEF FoundIn
    <3> QED BY <3>2, <3>3
  <2> QED BY <2>2, <2>3
<1> HIDE DEF unresolved
<1>7. /\ n \in Lineages /\ Kept(l, n) /\ n.slice = slices /\ n.unresolved = unresolved
      /\ n.sliced = l.sliced /\ n.pendingOp = l.pendingOp /\ n.failed = l.failed
  BY <1>0, <1>4, <1>5 DEF n, Lineages, Kept
<1> DEFINE status == IF InSlice(n, "ready") # {} THEN "correction-required"
                     ELSE IF InSlice(n, "passed") = SlicesOf(n) THEN "approved" ELSE "exhausted"
<1>8. m = [n EXCEPT !.active = None, !.pending = None, !.status = status]
  BY <1>1 DEF Settled
<1>9. m \in Lineages
  BY <1>7, <1>8, SettledType
<1>10. /\ Kept(l, m) /\ m.slice = slices /\ m.unresolved = unresolved /\ m.sliced = l.sliced
       /\ m.pendingOp = l.pendingOp /\ m.failed = l.failed /\ m.status = status
  BY <1>7, <1>8 DEF Lineages, Kept
<1>11. InSlice(n, "ready") = InSlice(m, "ready") /\ InSlice(n, "passed") = InSlice(m, "passed") /\ SlicesOf(n) = SlicesOf(m)
  BY <1>7, <1>10 DEF InSlice, SlicesOf, Kept
<1>12. /\ m.status \in {"approved", "exhausted", "correction-required"}
       /\ m.status = "correction-required" => InSlice(m, "ready") # {}
       /\ m.status = "approved" => SlicesOf(m) = InSlice(m, "passed")
  BY <1>10, <1>11
<1> HIDE DEF status
<1>13. l.pendingOp = "none" /\ l.frozen /\ l.op = [d \in Lens |-> "none"]
  BY <1>0, <1>1 DEF Good, LensesGood, CorrectionGood, Lineages
<1>14. LensesGood(m)
  BY <1>10, <1>12, <1>13 DEF Good, LensesGood, Kept
<1>15. Agreed(l) => Agreed(m)
  <2>1. SUFFICES ASSUME Agreed(l) PROVE Agreed(m)
    OBVIOUS
  <2>2. \A t \in Slice : m.slice[t].status = "passed" => FoundIn(m, t) \intersect m.unresolved = {}
    BY <1>6, <1>10, <2>1 DEF FoundIn, Kept
  <2>3. m.status = "approved" => m.unresolved = {}
    <3>1. SUFFICES ASSUME m.status = "approved", NEW f \in m.unresolved PROVE FALSE
      OBVIOUS
    <3>2. f \in m.found /\ f \in Finding
      BY <1>5, <1>10 DEF Kept
    <3>3. SliceOf[f] \in Slice /\ m.slice[SliceOf[f]].status = "passed"
      BY <1>12, <3>1, <3>2, Constants DEF SlicesOf, InSlice
    <3> QED BY <2>2, <3>1, <3>2, <3>3 DEF FoundIn
  <2> QED BY <1>12, <2>2, <2>3 DEF Agreed
<1>16. CorrectionGood(m) /\ WholeGood(m)
  <2>1. m.unresolved \subseteq m.found
    BY <1>5, <1>10 DEF Kept
  <2> QED BY <1>1, <1>10, <1>12, <1>13, <2>1 DEF CorrectionGood, WholeGood
<1>17. SlicesGood(m)
  <2>1. InSlice(m, "correcting") = {}
    <3>1. SUFFICES ASSUME NEW t \in Slice PROVE m.slice[t].status # "correcting"
      BY DEF InSlice
    <3>2. CASE t = s
      BY <1>3, <1>4, <1>10, <3>2
    <3>3. CASE t # s
      <4>1. l.slice[t].status # "correcting"
        BY <1>2, <3>3 DEF InSlice
      <4> QED BY <1>4, <1>10, <3>3, <4>1
    <3> QED BY <3>2, <3>3
  <2>2. \A t \in Slice : m.slice[t].status \in {"ready", "correcting", "passed"} => m.slice[t].failed < MaxFailed
    <3>1. SUFFICES ASSUME NEW t \in Slice, m.slice[t].status \in {"ready", "correcting", "passed"}
                   PROVE  m.slice[t].failed < MaxFailed
      OBVIOUS
    <3>2. CASE t = s
      BY <1>3, <1>4, <1>10, <3>1, <3>2
    <3>3. CASE t # s
      <4>1. t \in reopened => l.slice[t].status = "passed"
        BY <1>1 DEF InSlice
      <4> QED BY <1>1, <1>4, <1>10, <3>1, <3>3, <4>1 DEF Good, SlicesGood
    <3> QED BY <3>2, <3>3
  <2>3. ~Correcting(m) /\ m.pendingOp = "none"
    BY <1>10, <1>12, <1>13 DEF Correcting
  <2> QED BY <1>12, <2>1, <2>2, <2>3 DEF SlicesGood
<1>18. \A t \in Slice \ {s} : m.slice[t].status # l.slice[t].status =>
         /\ l.slice[t].status = "passed" /\ m.slice[t].status = "ready"
         /\ m.slice[s].failed = l.slice[s].failed + 1
  <2>1. SUFFICES ASSUME NEW t \in Slice \ {s}, m.slice[t].status # l.slice[t].status
                 PROVE  /\ l.slice[t].status = "passed" /\ m.slice[t].status = "ready"
                        /\ m.slice[s].failed = l.slice[s].failed + 1
    OBVIOUS
  <2>2. t \in reopened /\ failed
    BY <1>4, <1>10, <2>1 DEF failed
  <2> QED BY <1>1, <1>3, <1>4, <1>10, <2>2 DEF InSlice
<1> QED BY <1>1, <1>2, <1>3, <1>4, <1>9, <1>10, <1>12, <1>13, <1>14, <1>15, <1>16, <1>17, <1>18 DEF Good, s

-----------------------------------------------------------------------------
(* Lost outcomes and the end                                               *)

\* What the slices were charged.
SameCharges(l, m) ==
  /\ m.sliced <=> l.sliced
  /\ m.used = l.used /\ m.failed = l.failed
  /\ \A s \in Slice : m.slice[s].used = l.slice[s].used /\ m.slice[s].failed = l.slice[s].failed

LEMMA MarkGood ==
  ASSUME NEW l, Good(l), NEW o \in Operation, OpOf(l, o) = "pending", NEW m \in MarkOperationUnknown(l, o)
  PROVE  /\ Good(m) /\ SameCharges(l, m) /\ m.frozen = l.frozen /\ m.found = l.found /\ m.lens = l.lens
         /\ m.slice = l.slice /\ m.active = l.active /\ m.unresolved = l.unresolved
         /\ l.status \notin Terminal
         /\ o \in Lens => m.pendingOp = "none" /\ ~l.frozen
         /\ o \notin Lens => /\ m = [l EXCEPT !.status = "reconciliation-required", !.pendingOp = "unknown"]
                             /\ l.status = "correcting"
         /\ Agreed(l) => Agreed(m)
<1>0. l \in Lineages
  BY DEF Good
<1>1. CASE o \in Lens
  <2>1. /\ l.op[o] = "pending"
        /\ m = [l EXCEPT !.status = "reconciliation-required", !.op[o] = "unknown"]
    BY <1>1 DEF MarkOperationUnknown, When, OpOf
  <2>2. ~l.frozen /\ l.lens[o] = "running" /\ ~l.sliced /\ l.pendingOp = "none" /\ l.status \notin Terminal
    BY <1>1, <2>1 DEF Good, LensesGood, Untouched
  <2>3. /\ m \in Lineages /\ LensChanged(l, m, o) /\ m.status = "reconciliation-required"
        /\ m.lens = l.lens /\ m.found = l.found /\ m.slice = l.slice /\ m.active = l.active
    BY <1>0, <1>1, <2>1 DEF Lineages, LensChanged, Status
  <2>4. Good(m)
    BY <1>1, <2>2, <2>3, LensStep
  <2> QED BY <1>1, <2>2, <2>3, <2>4 DEF LensChanged, SameCharges, Agreed
<1>2. CASE o \notin Lens
  <2>1. /\ l.pendingOp = "pending"
        /\ m = [l EXCEPT !.status = "reconciliation-required", !.pendingOp = "unknown"]
    BY <1>2 DEF MarkOperationUnknown, When, OpOf
  <2>2. l.status = "correcting" /\ l.frozen
    BY <2>1 DEF Good, LensesGood, CorrectionGood, Untouched
  <2>3. m \in Lineages
    BY <1>0, <2>1 DEF Lineages, Status
  <2>4. /\ Kept(l, m) /\ m.status = "reconciliation-required" /\ m.pendingOp = "unknown"
        /\ m.sliced = l.sliced /\ m.used = l.used /\ m.failed = l.failed /\ m.slice = l.slice
        /\ m.active = l.active /\ m.pending = l.pending /\ m.unresolved = l.unresolved
        /\ m.fails = l.fails
    BY <1>0, <2>1 DEF Lineages, Kept
  <2>5. LensesGood(m)
    BY <2>2, <2>4 DEF Good, LensesGood, Kept, Terminal
  <2>6. CorrectionGood(m)
    BY <2>2, <2>4 DEF Good, CorrectionGood, Kept
  <2>7. SlicesGood(m)
    BY <2>1, <2>2, <2>4 DEF Good, SlicesGood, Kept, Correcting, InSlice, FoundIn
  <2>8. WholeGood(m)
    BY <2>1, <2>2, <2>4 DEF Good, WholeGood, Kept, Correcting
  <2>9. Agreed(l) => Agreed(m)
    BY <2>4 DEF Agreed, Kept, FoundIn
  <2> QED BY <1>2, <2>1, <2>2, <2>3, <2>4, <2>5, <2>6, <2>7, <2>8, <2>9 DEF Good, Kept, SameCharges, Terminal
<1> QED BY <1>1, <1>2

LEMMA NotStartedGood ==
  ASSUME NEW l, Good(l), NEW o \in Operation, NEW m \in ReconcileNotStarted(l, o)
  PROVE  /\ Good(m) /\ SameCharges(l, m) /\ m.frozen = l.frozen /\ m.found = l.found
         /\ \A d \in Lens : l.lens[d] = "completed" => m.lens[d] = "completed"
         /\ l.status \notin Terminal /\ m.pendingOp = "none"
         /\ \A s \in Slice \ {l.active} : m.slice[s] = l.slice[s]
         /\ o \in Lens => ~l.frozen
         /\ o \notin Lens => l.pendingOp = "unknown"
         /\ Agreed(l) => Agreed(m)
<1>0. l \in Lineages
  BY DEF Good
<1>1. CASE o \in Lens
  <2>1. /\ l.op[o] = "unknown" /\ l.status = "reconciliation-required"
        /\ m = [l EXCEPT !.status = "reviewing", !.lens[o] = "pending", !.op[o] = "none"]
    BY <1>1 DEF ReconcileNotStarted, Unknown, When, OpOf
  <2>2. ~l.frozen /\ l.lens[o] = "running" /\ ~l.sliced /\ l.pendingOp = "none"
    BY <1>1, <2>1 DEF Good, LensesGood, Untouched
  <2>3. /\ m \in Lineages /\ LensChanged(l, m, o) /\ m.status = "reviewing" /\ m.op[o] = "none"
        /\ m.lens = [l.lens EXCEPT ![o] = "pending"] /\ m.found = l.found /\ m.slice = l.slice
        /\ DOMAIN l.lens = Lens
    BY <1>0, <1>1, <2>1 DEF Lineages, LensChanged, Status
  <2>4. Good(m)
    BY <1>1, <2>2, <2>3, LensStep
  <2> QED BY <1>1, <2>1, <2>2, <2>3, <2>4 DEF LensChanged, SameCharges, Terminal, Agreed
<1>2. CASE o \notin Lens
  <2> DEFINE back == [l EXCEPT !.status = "correction-required", !.pendingOp = "none"]
  <2>1. /\ l.pendingOp = "unknown" /\ l.status = "reconciliation-required"
        /\ m = IF l.sliced
                 THEN [back EXCEPT !.slice[l.active].status = "ready", !.active = None, !.pending = None]
                 ELSE back
    BY <1>2 DEF ReconcileNotStarted, Unknown, When, OpOf
  <2>2. l.frozen
    BY <2>1 DEF Good, LensesGood, Untouched
  <2>3. CASE ~l.sliced
    <3>1. m \in Lineages
      BY <1>0, <2>1, <2>3 DEF Lineages, Status, Working
    <3>2. /\ Kept(l, m) /\ m.status = "correction-required" /\ m.pendingOp = "none"
          /\ m.sliced = l.sliced /\ m.used = l.used /\ m.failed = l.failed /\ m.slice = l.slice
          /\ m.unresolved = l.unresolved /\ m.fails = l.fails
      BY <1>0, <2>1, <2>3 DEF Lineages, Kept
    <3>3. LensesGood(m) /\ CorrectionGood(m) /\ SlicesGood(m)
      BY <2>2, <2>3, <3>2 DEF Good, LensesGood, CorrectionGood, SlicesGood, Kept, Terminal
    <3>4. WholeGood(m) /\ Agreed(m)
      BY <2>1, <2>3, <3>2 DEF Good, WholeGood, Agreed, Correcting, Kept
    <3> QED BY <1>2, <2>1, <2>3, <3>1, <3>2, <3>3, <3>4 DEF Good, Kept, SameCharges, Terminal
  <2>4. CASE l.sliced
    <3> DEFINE slices == [l.slice EXCEPT ![l.active].status = "ready"]
    <3>1. l.active \in Slice /\ InSlice(l, "correcting") = {l.active}
      BY <2>1, <2>4 DEF Good, SlicesGood, Correcting
    <3>2. l.slice[l.active].status = "correcting"
      BY <3>1 DEF InSlice
    <3>3. /\ slices \in [Slice -> [status : SliceStatus, used : 0 .. Limit, failed : 0 .. MaxFailed]]
          /\ slices[l.active].status = "ready" /\ \A t \in Slice \ {l.active} : slices[t] = l.slice[t]
          /\ \A t \in Slice : slices[t].used = l.slice[t].used /\ slices[t].failed = l.slice[t].failed
      BY <1>0, <3>1 DEF Lineages, SliceStatus
    <3>4. m = [l EXCEPT !.status = "correction-required", !.pendingOp = "none", !.slice = slices,
                 !.active = None, !.pending = None]
      BY <1>0, <2>1, <2>4 DEF Lineages
    <3> HIDE DEF slices
    <3>5. m \in Lineages
      BY <1>0, <3>3, <3>4 DEF Lineages, Status, Working
    <3>6. /\ Kept(l, m) /\ m.status = "correction-required" /\ m.pendingOp = "none"
          /\ m.sliced = l.sliced /\ m.used = l.used /\ m.failed = l.failed /\ m.slice = slices
          /\ m.unresolved = l.unresolved
      BY <1>0, <3>4 DEF Lineages, Kept
    <3>7. LensesGood(m) /\ CorrectionGood(m) /\ WholeGood(m)
      BY <2>2, <2>4, <3>6 DEF Good, LensesGood, CorrectionGood, WholeGood, Kept, Terminal
    <3>8. \A t \in Slice : m.slice[t].status \in {"ready", "correcting", "passed"} => m.slice[t].failed < MaxFailed
      BY <2>4, <3>2, <3>3, <3>6 DEF Good, SlicesGood
    <3>9. InSlice(m, "ready") # {} /\ InSlice(m, "correcting") = {}
      BY <3>1, <3>3, <3>6 DEF InSlice
    <3>10. SlicesGood(m)
      BY <3>6, <3>8, <3>9 DEF SlicesGood, Correcting
    <3>11. Agreed(l) => Agreed(m)
      BY <2>4, <3>2, <3>3, <3>6, <3>9 DEF Agreed, Kept, FoundIn
    <3> QED BY <1>2, <2>1, <2>4, <3>3, <3>5, <3>6, <3>7, <3>10, <3>11 DEF Good, Kept, SameCharges, Terminal
  <2> QED BY <2>3, <2>4
<1> QED BY <1>1, <1>2

\* The state in which the open correction of l began.
Reopened(l) == [l EXCEPT !.status = "correcting", !.pendingOp = "pending"]

LEMMA ReopenedGood ==
  ASSUME NEW l, Good(l), l.pendingOp # "none", NEW m, m = Reopened(l)
  PROVE  /\ Good(m) /\ SameCharges(l, m) /\ Kept(l, m) /\ m.slice = l.slice /\ m.status = "correcting"
         /\ m.pendingOp # "none" /\ Reopened(m) = m
         /\ Agreed(l) => Agreed(m)
<1>0. l \in Lineages
  BY DEF Good
<1>1. m \in Lineages
  BY <1>0 DEF Lineages, Status, Working, Reopened
<1>2. /\ Kept(l, m) /\ m.status = "correcting" /\ m.pendingOp = "pending"
      /\ m.sliced = l.sliced /\ m.used = l.used /\ m.failed = l.failed /\ m.slice = l.slice
      /\ m.active = l.active /\ m.pending = l.pending /\ m.unresolved = l.unresolved
      /\ m.fails = l.fails
  BY <1>0 DEF Lineages, Kept, Reopened
<1>3. l.frozen /\ l.status \notin Terminal
  <2>1. l.pendingOp \in {"pending", "unknown"}
    BY <1>0 DEF Lineages
  <2>2. l.status \in {"correcting", "reconciliation-required"}
    BY <2>1 DEF Good, CorrectionGood
  <2> QED BY <2>2 DEF Good, LensesGood, Untouched, Terminal
<1>4. LensesGood(m)
  BY <1>2, <1>3 DEF Good, LensesGood, Kept, Terminal
<1>5. CorrectionGood(m) /\ WholeGood(m)
  BY <1>2, <1>3 DEF Good, CorrectionGood, WholeGood, Correcting, Kept, Terminal
<1>6. SlicesGood(m)
  BY <1>2, <1>3 DEF Good, SlicesGood, Kept, Correcting, InSlice, FoundIn
<1>7. Reopened(m) = m
  BY <1>1, <1>2 DEF Reopened, Lineages
<1>8. Agreed(l) => Agreed(m)
  BY <1>2 DEF Agreed, Kept, FoundIn
<1> QED BY <1>1, <1>2, <1>4, <1>5, <1>6, <1>7, <1>8 DEF Good, SameCharges

LEMMA TerminatedGood ==
  ASSUME NEW l, Good(l), NEW status \in {"escalated", "invalidated"}, NEW m \in TerminateLineage(l, status)
  PROVE  /\ Good(m) /\ SameCharges(l, m) /\ m.frozen = l.frozen /\ m.found = l.found /\ m.lens = l.lens
         /\ m.slice = l.slice /\ m.pendingOp = "none" /\ m.status = status
         /\ l.status \notin Terminal
         /\ Agreed(l) => Agreed(m)
<1>0. l \in Lineages
  BY DEF Good
<1>1. /\ l.status \notin Terminal
      /\ m = [l EXCEPT !.status = status, !.pending = None, !.pendingOp = "none", !.op = [d \in Lens |-> "none"]]
  BY DEF TerminateLineage, When
<1>2. m \in Lineages
  BY <1>0, <1>1 DEF Lineages, Status, Terminal
<1>3. /\ m.frozen = l.frozen /\ m.found = l.found /\ m.lens = l.lens /\ m.op = [d \in Lens |-> "none"]
      /\ m.slice = l.slice /\ m.active = l.active /\ m.unresolved = l.unresolved /\ m.pendingOp = "none"
      /\ m.status = status /\ m.used = l.used /\ m.failed = l.failed /\ m.sliced = l.sliced
      /\ m.latest = l.latest /\ m.fails = l.fails
  BY <1>0, <1>1 DEF Lineages
<1>4. LensesGood(m)
  BY <1>3 DEF Good, LensesGood, Untouched
<1>5. CorrectionGood(m) /\ WholeGood(m)
  BY <1>1, <1>3 DEF Good, CorrectionGood, WholeGood, Correcting, Terminal
<1>6. SlicesGood(m)
  BY <1>3 DEF Good, SlicesGood, Correcting, InSlice, FoundIn
<1>7. Agreed(l) => Agreed(m)
  BY <1>3 DEF Agreed, FoundIn
<1> QED BY <1>1, <1>2, <1>3, <1>4, <1>5, <1>6, <1>7 DEF Good, SameCharges

-----------------------------------------------------------------------------
(* The invariant: the lineage, its history, the copies and the slicing     *)

\* What really happened is no more than what the allowances count: the whole review
\* until it has slices, then each of them.
Counted(l, sp, ms) ==
  /\ sp \in [Slice \union {Whole} -> 0 .. Limit] /\ ms \in [Slice \union {Whole} -> 0 .. MaxFailed]
  /\ ~l.sliced => /\ sp[Whole] <= l.used /\ ms[Whole] <= l.failed
                  /\ \A s \in Slice : sp[s] = 0 /\ ms[s] = 0
  /\ l.sliced => \A s \in Slice : sp[s] <= l.slice[s].used /\ ms[s] <= l.slice[s].failed

\* The copies that are kept are states the review could go back to.
Held(l, c) ==
  /\ DOMAIN c = Operation
  /\ \A d \in Lens : c[d] # None => Good(c[d]) /\ ~c[d].frozen /\ c[d].status = "reviewing"
  /\ l.pendingOp # "none" => c["correction"] = Reopened(l)

Waiting(l, sl) == sl \in BOOLEAN /\ (l.sliced => sl)

IInv ==
  /\ Good(lin) /\ Counted(lin, spent, misses) /\ Held(lin, copies) /\ Waiting(lin, slicing)
  /\ unknowns \in 0 .. MaxUnknown

\* A lineage that waits for its slices has nothing to tell them.
Unspoiled(l, sl) == sl /\ ~l.sliced /\ l.status \notin Terminal => Pristine(l)

Sound == Agreed(lin) /\ Unspoiled(lin, slicing)

\* The orchestrator is upgraded before anything was corrected, or after the end.
UpgradedUncorrected == slicing' # slicing => lin.status \in Terminal \/ Pristine(lin)

\* What a step may not undo, and what it may not do to the slices it does not work on.
Onward(l, m) ==
  /\ \A d \in Lens : l.lens[d] = "completed" =>
       m.lens[d] = "completed" /\ FoundBy(m, d) = FoundBy(l, d)
  /\ l.frozen => m.frozen /\ m.found = l.found
  /\ l.status \in Terminal => m.status = l.status

Apart(l, m) ==
  l.sliced =>
    /\ m.sliced
    /\ \A s \in Slice \ {l.active, m.active} :
         /\ m.slice[s].used = l.slice[s].used /\ m.slice[s].failed = l.slice[s].failed
         /\ m.slice[s].status # l.slice[s].status =>
              /\ l.slice[s].status = "passed" /\ m.slice[s].status = "ready"
              /\ m.slice[l.active].failed = l.slice[l.active].failed + 1

LEMMA SameCounts ==
  ASSUME NEW l, NEW m, SameCharges(l, m), NEW sp, NEW ms, Counted(l, sp, ms)
  PROVE  Counted(m, sp, ms)
BY DEF Counted, SameCharges

\* A lineage that goes on without slices, or gets them.
LEMMA WholeCounts ==
  ASSUME NEW l, NEW m, Good(m), NEW sp, NEW ms, Counted(l, sp, ms), ~l.sliced,
         ~m.sliced => m.used = l.used /\ m.failed = l.failed
  PROVE  Counted(m, sp, ms)
<1>1. \A s \in Slice : m.slice[s].used \in Nat /\ m.slice[s].failed \in Nat
  BY Constants DEF Good, Lineages
<1> QED BY <1>1 DEF Counted

\* While lenses answer, nothing was corrected.
LEMMA ReviewingSound == ASSUME NEW l, Good(l), ~l.frozen, NEW sl PROVE Agreed(l) /\ Unspoiled(l, sl)
BY DEF Good, LensesGood, Agreed, Unspoiled, Pristine

\* A copy that is kept of the correction is the lineage, as it was when it began.
LEMMA ReopenedSame ==
  ASSUME NEW l, Good(l), l.status = "correcting", l.pendingOp = "pending"
  PROVE  l = Reopened(l)
BY DEF Good, Lineages, Reopened

LEMMA HeldOthers ==
  ASSUME NEW l, NEW m, NEW c, Held(l, c), NEW o \in Operation, m.pendingOp = "none"
  PROVE  Held(m, c) /\ Held(m, [c EXCEPT ![o] = None])
BY DEF Held

LEMMA Initially == Init => IInv /\ Sound
<1> SUFFICES ASSUME Init PROVE IInv /\ Sound
  OBVIOUS
<1>1. PICK schema \in Schemas : lin = Started(schema)
  BY DEF Init
<1>2. Good(lin) /\ lin.status = "reviewing" /\ ~lin.frozen /\ ~lin.sliced
  BY <1>1, Constants, StartedGood
<1>3. Counted(lin, spent, misses)
  BY <1>2, Constants DEF Init, Counted, Good, Lineages
<1>4. Held(lin, copies)
  BY <1>2 DEF Init, Held, Operation, Good, LensesGood, Untouched
<1>5. Waiting(lin, slicing) /\ Sound
  BY <1>2 DEF Init, Waiting, Sound, Agreed, Unspoiled, Pristine, Good, LensesGood
<1> QED BY <1>2, <1>3, <1>4, <1>5, Constants DEF IInv, Init

-----------------------------------------------------------------------------
(* One lemma for each action                                               *)

LEMMA StartLensKeeps ==
  ASSUME IInv, NEW d \in Lens, StartLens(d)
  PROVE  IInv' /\ Onward(lin, lin') /\ Apart(lin, lin') /\ (Sound => Sound')
<1>1. /\ Good(lin') /\ ~lin'.frozen /\ ~lin'.sliced /\ lin'.status = "reviewing" /\ lin'.pendingOp = "none"
      /\ lin'.used = lin.used /\ lin'.failed = lin.failed /\ lin'.found = lin.found
      /\ ~lin.frozen /\ ~lin.sliced
      /\ \A e \in Lens : lin.lens[e] = "completed" => lin'.lens[e] = "completed"
  BY BeginLensGood DEF IInv, StartLens
<1>2. lin.status = "reviewing"
  BY WhenIs DEF StartLens, BeginLens, Mutable
<1>3. Counted(lin', spent', misses')
  BY <1>1, WholeCounts DEF IInv, StartLens, Unmeasured
<1>4. Held(lin', copies')
  BY <1>1, Constants DEF IInv, StartLens, Keep, Held, Operation
<1>5. Waiting(lin', slicing') /\ Sound'
  BY <1>1, ReviewingSound DEF IInv, StartLens, Unmeasured, Waiting, Sound
<1>6. Onward(lin, lin') /\ Apart(lin, lin')
  BY <1>1, <1>2 DEF Onward, Apart, FoundBy, Terminal
<1> QED BY <1>1, <1>3, <1>4, <1>5, <1>6 DEF IInv, StartLens, Unmeasured

LEMMA AnswerLensKeeps ==
  ASSUME IInv, NEW d \in Lens, AnswerLens(d)
  PROVE  IInv' /\ Onward(lin, lin') /\ Apart(lin, lin') /\ (Sound => Sound')
<1>1. PICK F \in SUBSET {f \in Finding : LensOf[f] = d} : lin' \in RecordLensResult(lin, d, F)
  BY DEF AnswerLens
<1>2. /\ Good(lin') /\ ~lin'.frozen /\ ~lin'.sliced /\ lin'.status = "reviewing" /\ lin'.pendingOp = "none"
      /\ lin'.used = lin.used /\ lin'.failed = lin.failed /\ lin'.found = lin.found \union F
      /\ ~lin.frozen /\ ~lin.sliced /\ lin.lens[d] = "running"
      /\ \A e \in Lens : lin.lens[e] = "completed" => lin'.lens[e] = "completed"
  BY <1>1, RecordLensGood DEF IInv
<1>3. lin.status = "reviewing"
  BY <1>1, WhenIs DEF RecordLensResult, Mutable
<1>4. Counted(lin', spent', misses')
  BY <1>2, WholeCounts DEF IInv, AnswerLens, Unmeasured
<1>5. Held(lin', copies')
  BY <1>2, HeldOthers DEF IInv, AnswerLens, Drop, Keep, Operation
<1>6. Waiting(lin', slicing') /\ Sound'
  BY <1>2, ReviewingSound DEF IInv, AnswerLens, Unmeasured, Waiting, Sound
<1>7. Onward(lin, lin') /\ Apart(lin, lin')
  <2>1. ASSUME NEW e \in Lens, lin.lens[e] = "completed" PROVE FoundBy(lin', e) = FoundBy(lin, e)
    BY <1>2, <2>1 DEF FoundBy
  <2> QED BY <1>2, <1>3, <2>1 DEF Onward, Apart, Terminal
<1> QED BY <1>2, <1>4, <1>5, <1>6, <1>7 DEF IInv, AnswerLens, Unmeasured

LEMMA FreezeKeeps ==
  ASSUME IInv, Freeze
  PROVE  IInv' /\ Onward(lin, lin') /\ Apart(lin, lin') /\ (Sound => Sound')
<1>1. PICK manifest \in {FALSE, slicing} : lin' \in FreezeFindings(lin, manifest)
  BY DEF Freeze
<1>2. manifest \in BOOLEAN /\ Good(lin)
  BY DEF IInv, Waiting
<1>3. /\ Good(lin') /\ Agreed(lin') /\ lin'.frozen /\ lin'.found = lin.found /\ lin'.lens = lin.lens
      /\ lin'.sliced <=> manifest
      /\ lin'.pendingOp = "none" /\ ~lin.frozen /\ ~lin.sliced
      /\ lin.status = "reviewing"
      /\ ~manifest => Pristine(lin') /\ lin'.used = lin.used /\ lin'.failed = lin.failed
  BY <1>1, <1>2, FreezeGood
<1>4. Counted(lin', spent', misses')
  BY <1>3, WholeCounts DEF IInv, Freeze, Unmeasured
<1>5. Held(lin', copies')
  BY <1>3 DEF IInv, Freeze, Held
<1>6. Waiting(lin', slicing') /\ Sound'
  BY <1>1, <1>3 DEF IInv, Freeze, Unmeasured, Waiting, Sound, Unspoiled
<1>7. Onward(lin, lin') /\ Apart(lin, lin')
  BY <1>3 DEF Onward, Apart, FoundBy, Terminal
<1> QED BY <1>3, <1>4, <1>5, <1>6, <1>7 DEF IInv, Freeze, Unmeasured

LEMMA MigrateKeeps ==
  ASSUME IInv, Migrate
  PROVE  IInv' /\ Onward(lin, lin') /\ Apart(lin, lin') /\ (Sound => Sound')
<1>1. /\ Good(lin') /\ Kept(lin, lin') /\ lin'.sliced /\ lin'.pendingOp = "none" /\ ~lin.sliced
      /\ lin'.status = lin.status /\ lin.status \notin Terminal
      /\ Pristine(lin) => Agreed(lin')
  BY MigrateGood DEF IInv, Migrate
<1>2. Counted(lin', spent', misses')
  BY <1>1, WholeCounts DEF IInv, Migrate, Unmeasured
<1>3. Held(lin', copies')
  BY <1>1 DEF IInv, Migrate, Held
<1>4. Waiting(lin', slicing') /\ (Sound => Sound')
  BY <1>1 DEF Migrate, Unmeasured, Waiting, Sound, Unspoiled
<1>5. Onward(lin, lin') /\ Apart(lin, lin')
  BY <1>1 DEF Onward, Apart, FoundBy, Kept
<1> QED BY <1>1, <1>2, <1>3, <1>4, <1>5 DEF IInv, Migrate, Unmeasured

LEMMA CorrectKeeps ==
  ASSUME IInv, Correct
  PROVE  IInv' /\ Onward(lin, lin') /\ Apart(lin, lin') /\ (Sound => Sound')
<1>1. PICK forecast \in 0 .. Limit :
        lin' \in BeginCorrection(lin, forecast) \union BeginSliceCorrection(lin, forecast)
  BY DEF Correct
<1>2. /\ Good(lin') /\ Kept(lin, lin') /\ lin'.status = "correcting" /\ lin'.pendingOp = "pending"
      /\ lin.status = "correction-required" /\ lin'.used = lin.used /\ lin'.failed = lin.failed
      /\ lin'.sliced <=> lin.sliced
      /\ \A s \in Slice : lin'.slice[s].used = lin.slice[s].used /\ lin'.slice[s].failed = lin.slice[s].failed
      /\ lin.sliced => \A s \in Slice \ {lin'.active} : lin'.slice[s] = lin.slice[s]
      /\ Agreed(lin) => Agreed(lin')
  BY <1>1, BegunGood DEF IInv
<1>3. Counted(lin', spent', misses')
  BY <1>2, SameCounts DEF SameCharges, IInv, Correct, Unmeasured
<1>4. Held(lin', copies')
  <2>1. lin' = Reopened(lin')
    BY <1>2, ReopenedSame
  <2>2. copies' = [copies EXCEPT !["correction"] = lin']
    BY DEF Correct, Keep
  <2> QED BY <2>1, <2>2, Constants DEF IInv, Held, Operation
<1>5. Waiting(lin', slicing') /\ (Sound => Sound')
  BY <1>2 DEF IInv, Correct, Unmeasured, Waiting, Sound, Unspoiled
<1>6. Onward(lin, lin') /\ Apart(lin, lin')
  BY <1>2 DEF Onward, Apart, FoundBy, Kept, Terminal
<1> QED BY <1>2, <1>3, <1>4, <1>5, <1>6 DEF IInv, Correct, Unmeasured

LEMMA RecordKeeps ==
  ASSUME IInv, Record
  PROVE  IInv' /\ Onward(lin, lin') /\ Apart(lin, lin') /\ (Sound => Sound')
<1>1. PICK lines \in 0 .. Limit :
        /\ lin' \in RecordCorrection(lin, lines) \union RecordSliceCorrection(lin, lines)
        /\ spent' = [spent EXCEPT ![At(lin)] = @ + lines]
  BY DEF Record
<1>2. /\ Good(lin') /\ Kept(lin, lin') /\ lin'.status = "validating" /\ lin'.pendingOp = "none"
      /\ lin.status = "correcting" /\ lin'.failed = lin.failed
      /\ lin'.sliced <=> lin.sliced
      /\ lin'.active = lin.active
      /\ ~lin.sliced => lin'.used = lin.used + lines /\ lin'.slice = lin.slice
      /\ lin.sliced => /\ lin.active \in Slice
                       /\ lin'.slice = [lin.slice EXCEPT ![lin.active].used = @ + lines]
      /\ Agreed(lin) => Agreed(lin')
  BY <1>1, RecordedGood DEF IInv
<1>3. lin \in Lineages
  BY DEF IInv, Good
<1>4. lin.sliced =>
        \A s \in Slice :
          /\ lin'.slice[s].used = IF s = lin.active THEN lin.slice[s].used + lines ELSE lin.slice[s].used
          /\ lin'.slice[s].failed = lin.slice[s].failed /\ lin'.slice[s].status = lin.slice[s].status
  BY <1>2, <1>3 DEF Lineages
<1>5. Counted(lin', spent', misses')
  <2>1. misses' = misses /\ lin' \in Lineages /\ Counted(lin, spent, misses) /\ Limit \in Nat
    BY <1>2, Constants DEF IInv, Record, Good
  <2>2. CASE lin.sliced
    <3>1. lin.active \in Slice /\ Whole # lin.active /\ spent' = [spent EXCEPT ![lin.active] = @ + lines]
      BY <1>1, <1>2, <2>2, Constants DEF At, Whole
    <3>2. spent[lin.active] + lines \in 0 .. Limit /\ spent[lin.active] + lines <= lin'.slice[lin.active].used
      <4>1. /\ spent[lin.active] \in Nat /\ spent[lin.active] <= lin.slice[lin.active].used
            /\ lin.slice[lin.active].used \in Nat /\ lin'.slice[lin.active].used \in 0 .. Limit
        BY <1>3, <2>1, <2>2, <3>1 DEF Counted, Lineages
      <4> QED BY <1>4, <2>1, <2>2, <3>1, <4>1
    <3> QED BY <1>2, <1>4, <2>1, <2>2, <3>1, <3>2 DEF Counted
  <2>3. CASE ~lin.sliced
    <3>1. Whole \notin Slice /\ spent' = [spent EXCEPT ![Whole] = @ + lines]
      BY <1>1, <2>3, Constants DEF At, Whole
    <3>2. spent[Whole] + lines \in 0 .. Limit /\ spent[Whole] + lines <= lin'.used
      <4>1. /\ spent[Whole] \in Nat /\ spent[Whole] <= lin.used
            /\ lin.used \in Nat /\ lin'.used \in 0 .. Limit
        BY <1>3, <2>1, <2>3 DEF Counted, Lineages
      <4> QED BY <1>2, <2>1, <2>3, <4>1
    <3> QED BY <1>2, <2>1, <2>3, <3>1, <3>2 DEF Counted
  <2> QED BY <2>2, <2>3
<1>6. Held(lin', copies')
  BY <1>2, HeldOthers DEF IInv, Record, Drop, Keep, Operation
<1>7. Waiting(lin', slicing') /\ (Sound => Sound')
  BY <1>2 DEF IInv, Record, Waiting, Sound, Unspoiled
<1>8. Onward(lin, lin') /\ Apart(lin, lin')
  BY <1>2, <1>4 DEF Onward, Apart, FoundBy, Kept, Terminal
<1> QED BY <1>2, <1>5, <1>6, <1>7, <1>8 DEF IInv, Record

LEMMA ValidateWholeKeeps ==
  ASSUME IInv, ValidateWhole
  PROVE  IInv' /\ Onward(lin, lin') /\ Apart(lin, lin') /\ (Sound => Sound')
<1>1. PICK resolved \in SUBSET lin.found, impacted \in SUBSET lin.found, regression \in BOOLEAN :
        /\ lin' \in ApplyTargetedValidation(lin, resolved, regression, impacted)
        /\ misses' = [misses EXCEPT ![Whole] = IF lin'.status = "approved" THEN @ ELSE @ + 1]
  BY DEF ValidateWhole
<1>2. /\ Good(lin') /\ Kept(lin, lin') /\ lin'.pendingOp = "none" /\ lin.status = "validating"
      /\ ~lin.sliced /\ ~lin'.sliced /\ lin'.used = lin.used
      /\ lin'.failed = IF lin'.status = "approved" THEN lin.failed ELSE lin.failed + 1
      /\ Agreed(lin')
  BY <1>1, ValidatedWholeGood DEF IInv
<1>3. Counted(lin', spent', misses')
  <2>1. /\ spent' = spent /\ lin' \in Lineages /\ lin \in Lineages /\ Counted(lin, spent, misses)
        /\ MaxFailed \in Nat /\ Whole \notin Slice
    BY <1>2, Constants DEF IInv, ValidateWhole, Good, Whole
  <2>2. misses[Whole] \in Nat /\ misses[Whole] <= lin.failed /\ lin.failed \in Nat /\ lin'.failed \in 0 .. MaxFailed
    BY <1>2, <2>1 DEF Counted, Lineages
  <2> DEFINE count == IF lin'.status = "approved" THEN misses[Whole] ELSE misses[Whole] + 1
  <2>3. count \in 0 .. MaxFailed /\ count <= lin'.failed
    BY <1>2, <2>1, <2>2
  <2>4. misses' = [misses EXCEPT ![Whole] = count]
    BY <1>1
  <2> HIDE DEF count
  <2> QED BY <1>2, <2>1, <2>3, <2>4 DEF Counted
<1>4. Held(lin', copies')
  BY <1>2 DEF IInv, ValidateWhole, Held
<1>5. Waiting(lin', slicing') /\ Sound'
  BY <1>2 DEF ValidateWhole, IInv, Waiting, Sound, Unspoiled
<1>6. Onward(lin, lin') /\ Apart(lin, lin')
  BY <1>2 DEF Onward, Apart, FoundBy, Kept, Terminal
<1> QED BY <1>2, <1>3, <1>4, <1>5, <1>6 DEF IInv, ValidateWhole

LEMMA ValidateSliceKeeps ==
  ASSUME IInv, ValidateSlice
  PROVE  IInv' /\ Onward(lin, lin') /\ Apart(lin, lin') /\ (Sound => Sound')
<1>1. PICK resolved \in SUBSET lin.found, again \in SUBSET lin.found, reopened \in SUBSET Slice :
        lin' \in ValidateSliceCorrection(lin, resolved, reopened, again)
  BY DEF ValidateSlice
<1>2. /\ Good(lin') /\ Kept(lin, lin') /\ lin'.pendingOp = "none" /\ lin.status = "validating"
      /\ lin.sliced /\ lin'.sliced /\ lin.active \in Slice
      /\ lin'.slice[lin.active].failed = (IF lin'.slice[lin.active].status = "passed"
                                            THEN lin.slice[lin.active].failed
                                            ELSE lin.slice[lin.active].failed + 1)
      /\ lin'.slice[lin.active].used = lin.slice[lin.active].used
      /\ \A t \in Slice \ {lin.active} :
           /\ lin'.slice[t].used = lin.slice[t].used /\ lin'.slice[t].failed = lin.slice[t].failed
           /\ lin'.slice[t].status # lin.slice[t].status =>
                /\ lin.slice[t].status = "passed" /\ lin'.slice[t].status = "ready"
                /\ lin'.slice[lin.active].failed = lin.slice[lin.active].failed + 1
      /\ Agreed(lin) => Agreed(lin')
  BY <1>1, ValidatedSliceGood DEF IInv
<1>3. Counted(lin', spent', misses')
  <2> DEFINE a == lin.active
             count == IF lin'.slice[a].status = "passed" THEN misses[a] ELSE misses[a] + 1
  <2>1. /\ spent' = spent /\ lin' \in Lineages /\ lin \in Lineages /\ Counted(lin, spent, misses)
        /\ MaxFailed \in Nat /\ a \in Slice
    BY <1>2, Constants DEF IInv, ValidateSlice, Good
  <2>2. /\ misses[a] \in Nat /\ misses[a] <= lin.slice[a].failed /\ lin.slice[a].failed \in Nat
        /\ lin'.slice[a].failed \in 0 .. MaxFailed
    BY <1>2, <2>1 DEF Counted, Lineages
  <2>3. count \in 0 .. MaxFailed /\ count <= lin'.slice[a].failed
    BY <1>2, <2>1, <2>2
  <2>4. misses' = [misses EXCEPT ![a] = count]
    BY DEF ValidateSlice
  <2>5. \A t \in Slice : t # a => lin'.slice[t].used = lin.slice[t].used /\ lin'.slice[t].failed = lin.slice[t].failed
    BY <1>2
  <2>6. lin'.slice[a].used = lin.slice[a].used /\ lin.sliced /\ lin'.sliced
    BY <1>2
  <2> HIDE DEF count, a
  <2> QED BY <2>1, <2>3, <2>4, <2>5, <2>6 DEF Counted
<1>4. Held(lin', copies')
  BY <1>2 DEF IInv, ValidateSlice, Held
<1>5. Waiting(lin', slicing') /\ (Sound => Sound')
  BY <1>2 DEF ValidateSlice, IInv, Waiting, Sound, Unspoiled
<1>6. Onward(lin, lin') /\ Apart(lin, lin')
  BY <1>2 DEF Onward, Apart, FoundBy, Kept, Terminal
<1> QED BY <1>2, <1>3, <1>4, <1>5, <1>6 DEF IInv, ValidateSlice

LEMMA LoseOutcomeKeeps ==
  ASSUME IInv, NEW o \in Operation, LoseOutcome(o)
  PROVE  IInv' /\ Onward(lin, lin') /\ Apart(lin, lin') /\ (Sound => Sound')
<1>1. /\ Good(lin') /\ SameCharges(lin, lin') /\ lin'.frozen = lin.frozen /\ lin'.found = lin.found
      /\ lin'.lens = lin.lens /\ lin'.slice = lin.slice /\ lin.status \notin Terminal
      /\ o \in Lens => lin'.pendingOp = "none" /\ ~lin.frozen
      /\ o \notin Lens =>
           /\ lin' = [lin EXCEPT !.status = "reconciliation-required", !.pendingOp = "unknown"]
           /\ lin.status = "correcting"
      /\ Agreed(lin) => Agreed(lin')
  BY MarkGood DEF IInv, LoseOutcome
<1>2. Counted(lin', spent', misses')
  BY <1>1, SameCounts DEF IInv, LoseOutcome
<1>3. Held(lin', copies')
  <2>1. CASE o \in Lens
    BY <1>1, <2>1 DEF IInv, LoseOutcome, Held
  <2>2. CASE o \notin Lens
    <3>1. lin.pendingOp # "none" /\ lin \in Lineages
      BY <2>2 DEF LoseOutcome, OpOf, IInv, Good
    <3>2. Reopened(lin') = Reopened(lin)
      BY <1>1, <2>2, <3>1 DEF Reopened, Lineages
    <3> QED BY <3>1, <3>2 DEF IInv, LoseOutcome, Held
  <2> QED BY <2>1, <2>2
<1>4. Waiting(lin', slicing') /\ (Sound => Sound')
  <2>1. CASE o \in Lens
    BY <1>1, <2>1, ReviewingSound DEF IInv, LoseOutcome, Waiting, SameCharges, Sound
  <2>2. CASE o \notin Lens
    BY <1>1, <2>2 DEF IInv, LoseOutcome, Waiting, SameCharges, Sound, Unspoiled, Pristine, Terminal
  <2> QED BY <2>1, <2>2
<1>5. Onward(lin, lin') /\ Apart(lin, lin')
  BY <1>1 DEF Onward, Apart, FoundBy, SameCharges
<1>6. unknowns' \in 0 .. MaxUnknown
  BY Constants DEF IInv, LoseOutcome
<1> QED BY <1>1, <1>2, <1>3, <1>4, <1>5, <1>6 DEF IInv

LEMMA NotStartedKeeps ==
  ASSUME IInv, NEW o \in Operation, NotStarted(o)
  PROVE  IInv' /\ Onward(lin, lin') /\ Apart(lin, lin') /\ (Sound => Sound')
<1>1. /\ Good(lin') /\ SameCharges(lin, lin') /\ lin'.frozen = lin.frozen /\ lin'.found = lin.found
      /\ \A d \in Lens : lin.lens[d] = "completed" => lin'.lens[d] = "completed"
      /\ lin.status \notin Terminal /\ lin'.pendingOp = "none"
      /\ \A s \in Slice \ {lin.active} : lin'.slice[s] = lin.slice[s]
      /\ o \in Lens => ~lin.frozen
      /\ o \notin Lens => lin.pendingOp = "unknown"
      /\ Agreed(lin) => Agreed(lin')
  BY NotStartedGood DEF IInv, NotStarted
<1>2. Counted(lin', spent', misses')
  BY <1>1, SameCounts DEF IInv, NotStarted, Unmeasured
<1>3. Held(lin', copies')
  BY <1>1, HeldOthers DEF IInv, NotStarted, Drop, Keep
<1>4. Waiting(lin', slicing') /\ (Sound => Sound')
  <2>1. CASE o \in Lens
    BY <1>1, <2>1, ReviewingSound DEF IInv, NotStarted, Unmeasured, Waiting, SameCharges, Sound
  <2>2. CASE o \notin Lens
    BY <1>1, <2>2 DEF IInv, NotStarted, Unmeasured, Waiting, SameCharges, Sound, Unspoiled, Pristine, Untouched
  <2> QED BY <2>1, <2>2
<1>5. Onward(lin, lin') /\ Apart(lin, lin')
  BY <1>1 DEF Onward, Apart, FoundBy, SameCharges
<1> QED BY <1>1, <1>2, <1>3, <1>4, <1>5 DEF IInv, NotStarted, Unmeasured

LEMMA CommittedKeeps ==
  ASSUME IInv, NEW o \in Operation, Committed(o)
  PROVE  IInv' /\ Onward(lin, lin') /\ Apart(lin, lin') /\ (Sound => Sound')
<1>0. Good(lin) /\ lin \in Lineages
  BY DEF IInv, Good
<1>1. /\ lin' = copies[o] /\ copies[o] # None /\ copies' = copies /\ SameReview(lin, lin')
      /\ lin.status = "reconciliation-required" /\ OpOf(lin, o) = "unknown"
      /\ UNCHANGED <<slicing, spent, misses, unknowns>>
  <2>1. lin' \in ReconcileCommitted(lin, o, copies[o])
    BY DEF Committed
  <2>2. lin' = copies[o] /\ Unknown(lin, o) /\ SameReview(lin, copies[o])
    BY <2>1, WhenIs DEF ReconcileCommitted
  <2> QED BY <2>2 DEF Committed, Unknown, Unmeasured
<1>2. Onward(lin, lin')
  BY <1>1 DEF SameReview, Onward, Terminal, Working
<1>3. CASE o \in Lens
  <2>1. Good(lin') /\ ~lin'.frozen /\ lin'.status = "reviewing"
    BY <1>1, <1>3 DEF IInv, Held
  <2>2. ~lin.frozen
    BY <1>0, <1>1, <1>3 DEF OpOf, Good, LensesGood
  <2>3. ~lin.sliced /\ ~lin'.sliced /\ lin'.pendingOp = "none"
    BY <1>0, <2>1, <2>2 DEF Good, LensesGood, Untouched
  <2>4. Counted(lin', spent', misses')
    BY <1>1, <2>1, <2>3, WholeCounts DEF IInv, SameReview
  <2>5. Held(lin', copies')
    BY <1>1, <2>3 DEF IInv, Held
  <2>6. Waiting(lin', slicing') /\ Sound'
    BY <1>1, <2>1, <2>3, ReviewingSound DEF IInv, Waiting, Sound
  <2> QED BY <1>1, <1>2, <2>1, <2>3, <2>4, <2>5, <2>6 DEF IInv, Apart
<1>4. CASE o \notin Lens
  <2>1. o = "correction" /\ lin.pendingOp = "unknown"
    BY <1>1, <1>4 DEF Operation, OpOf
  <2>2. lin' = Reopened(lin)
    BY <1>1, <2>1 DEF IInv, Held
  <2>3. /\ Good(lin') /\ SameCharges(lin, lin') /\ lin'.slice = lin.slice
        /\ Reopened(lin') = lin' /\ lin'.pendingOp # "none"
        /\ Agreed(lin) => Agreed(lin')
    BY <1>0, <2>1, <2>2, ReopenedGood
  <2>4. Counted(lin', spent', misses')
    BY <1>1, <2>3, SameCounts DEF IInv
  <2>5. Held(lin', copies')
    BY <1>1, <2>1, <2>3 DEF IInv, Held
  <2>6. Waiting(lin', slicing') /\ (Sound => Sound')
    BY <1>1, <2>1, <2>3 DEF IInv, Waiting, SameCharges, Sound, Unspoiled, Pristine, Untouched, Terminal
  <2>7. Apart(lin, lin')
    BY <2>3 DEF Apart, SameCharges
  <2> QED BY <1>1, <1>2, <2>3, <2>4, <2>5, <2>6, <2>7 DEF IInv
<1> QED BY <1>3, <1>4

LEMMA TerminateKeeps ==
  ASSUME IInv, Terminate
  PROVE  IInv' /\ Onward(lin, lin') /\ Apart(lin, lin') /\ (Sound => Sound')
<1>1. PICK status \in {"escalated", "invalidated"} : lin' \in TerminateLineage(lin, status)
  BY DEF Terminate
<1>2. /\ Good(lin') /\ SameCharges(lin, lin') /\ lin'.frozen = lin.frozen /\ lin'.found = lin.found
      /\ lin'.lens = lin.lens /\ lin'.slice = lin.slice
      /\ lin'.pendingOp = "none" /\ lin'.status = status
      /\ Agreed(lin) => Agreed(lin')
      /\ lin.status \notin Terminal
  BY <1>1, TerminatedGood DEF IInv
<1>3. Counted(lin', spent', misses')
  BY <1>2, SameCounts DEF IInv, Terminate, Unmeasured
<1>4. Held(lin', copies')
  BY <1>2 DEF Terminate, Held, Operation
<1>5. Waiting(lin', slicing') /\ (Sound => Sound')
  BY <1>2 DEF IInv, Terminate, Unmeasured, Waiting, SameCharges, Sound, Unspoiled, Terminal
<1>6. Onward(lin, lin') /\ Apart(lin, lin')
  BY <1>2 DEF Onward, Apart, FoundBy, SameCharges
<1> QED BY <1>2, <1>3, <1>4, <1>5, <1>6 DEF IInv, Terminate, Unmeasured

LEMMA UpgradeKeeps ==
  ASSUME IInv, Upgrade
  PROVE  /\ IInv' /\ Onward(lin, lin') /\ Apart(lin, lin')
         /\ UpgradedUncorrected => (Sound => Sound')
<1>1. lin' = lin /\ ~slicing /\ slicing' = TRUE
  BY DEF Upgrade
<1>2. Onward(lin, lin') /\ Apart(lin, lin')
  BY <1>1 DEF Onward, Apart
<1>3. UpgradedUncorrected => (Sound => Sound')
  BY <1>1 DEF UpgradedUncorrected, Sound, Unspoiled
<1> QED BY <1>1, <1>2, <1>3 DEF IInv, Upgrade, Waiting

LEMMA Preserved ==
  ASSUME IInv, [Next]_vars
  PROVE  /\ IInv' /\ Onward(lin, lin') /\ Apart(lin, lin')
         /\ UpgradedUncorrected => (Sound => Sound')
<1> DEFINE Keeps == IInv' /\ Onward(lin, lin') /\ Apart(lin, lin') /\ (Sound => Sound')
<1>1. ASSUME NEW d \in Lens, StartLens(d) \/ AnswerLens(d) PROVE Keeps
  BY <1>1, StartLensKeeps, AnswerLensKeeps
<1>2. CASE Freeze \/ Migrate \/ Correct \/ Record \/ ValidateWhole \/ ValidateSlice
  BY <1>2, FreezeKeeps, MigrateKeeps, CorrectKeeps, RecordKeeps, ValidateWholeKeeps, ValidateSliceKeeps
<1>3. ASSUME NEW o \in Operation, NotStarted(o) \/ Committed(o) \/ LoseOutcome(o) PROVE Keeps
  BY <1>3, NotStartedKeeps, CommittedKeeps, LoseOutcomeKeeps
<1>4. CASE Terminate \/ Upgrade
  BY <1>4, TerminateKeeps, UpgradeKeeps
<1>5. CASE UNCHANGED vars
  BY <1>5 DEF IInv, vars, Onward, Apart, Sound
<1> QED BY <1>1, <1>2, <1>3, <1>4, <1>5 DEF Next, Answered, Reconcile

LEMMA Inductive == Spec => []IInv
<1>1. IInv /\ [Next]_vars => IInv'
  BY Preserved
<1> QED BY <1>1, Initially, PTL DEF Spec

LEMMA SoundThroughout == Spec /\ [][UpgradedUncorrected]_vars => []Sound
<1>1. IInv /\ Sound /\ [Next]_vars /\ [UpgradedUncorrected]_vars => Sound'
  <2>1. SUFFICES ASSUME IInv, Sound, [Next]_vars, [UpgradedUncorrected]_vars PROVE Sound'
    OBVIOUS
  <2>2. CASE UpgradedUncorrected
    BY <2>1, <2>2, Preserved
  <2>3. CASE UNCHANGED vars
    BY <2>1, <2>3 DEF vars, Sound
  <2> QED BY <2>1, <2>2, <2>3
<1> QED BY <1>1, Initially, Inductive, PTL DEF Spec

-----------------------------------------------------------------------------
(* What follows from it                                                    *)

\* Every state of a review is one of its statuses, within its allowances, whenever the
\* orchestrator is upgraded.
THEOREM TypeCorrect == Spec => []TypeOK
<1>1. IInv => TypeOK
  BY DEF IInv, Good, Lineages, CorrectionGood, Waiting, TypeOK
<1> QED BY <1>1, Inductive, PTL

\* The lines really changed and the validations really failed stay within the allowance
\* of the slice or of the whole review, whenever the orchestrator is upgraded.
THEOREM AllowancesHold == Spec => []CorrectionBounded
<1>1. IInv => CorrectionBounded
  BY Constants DEF IInv, Counted, CorrectionBounded
<1> QED BY <1>1, Inductive, PTL

\* Answers, frozen findings and endings are never taken back, whenever the orchestrator
\* is upgraded.
THEOREM NothingTakenBack == Spec => ReviewedOnce
<1>1. IInv /\ [Next]_vars =>
        [/\ \A d \in Lens : lin.lens[d] = "completed" =>
              lin'.lens[d] = "completed" /\ FoundBy(lin', d) = FoundBy(lin, d)
         /\ lin.frozen => lin'.frozen /\ lin'.found = lin.found
         /\ lin.status \in Terminal => lin'.status = lin.status]_vars
  BY Preserved DEF Onward
<1> QED BY <1>1, Inductive, PTL DEF Spec, ReviewedOnce

\* A review is approved only with the answers of all its lenses, every finding
\* resolved and every slice passed, when no orchestrator is upgraded while it is being
\* corrected.
THEOREM ApprovalIsEarned == Spec /\ [][UpgradedUncorrected]_vars => []ApprovedResolved
<1>1. IInv /\ Sound => ApprovedResolved
  BY DEF IInv, Good, LensesGood, SlicesGood, Sound, Agreed, ApprovedResolved, InSlice, Terminal
<1> QED BY <1>1, Inductive, SoundThroughout, PTL

\* A slice has passed only if its findings are resolved, and a review that is not over
\* has a slice to work on, when no orchestrator is upgraded while it is being corrected.
THEOREM SlicesAreTrue == Spec /\ [][UpgradedUncorrected]_vars => []SlicesTellFindings
<1>1. IInv /\ Sound => SlicesTellFindings
  BY DEF IInv, Good, SlicesGood, Sound, Agreed, Correcting, InSlice, SlicesTellFindings
<1> QED BY <1>1, Inductive, SoundThroughout, PTL

\* What a slice has passed and spent is its own: only the slice at work is charged, and
\* another is reopened only by a regression that costs the one at work an attempt, when
\* no orchestrator is upgraded while the review is being corrected.
THEOREM SlicesStandAlone == Spec /\ [][UpgradedUncorrected]_vars => SlicesIndependent
<1>1. ASSUME IInv, Sound', [Next]_vars, lin.sliced, NEW s \in Slice \ {lin.active, lin'.active}
      PROVE  /\ lin'.slice[s].used = lin.slice[s].used /\ lin'.slice[s].failed = lin.slice[s].failed
             /\ lin'.slice[s].status # lin.slice[s].status =>
                  /\ lin.slice[s].status = "passed" /\ lin'.slice[s].status = "ready"
                  /\ lin'.slice[lin.active].failed = lin.slice[lin.active].failed + 1
             /\ lin'.slice[s].status = "passed" => FoundIn(lin, s) \intersect lin'.unresolved = {}
  <2>1. Onward(lin, lin') /\ Apart(lin, lin')
    BY <1>1, Preserved
  <2>2. lin.frozen
    BY <1>1 DEF IInv, Good, LensesGood
  <2>3. FoundIn(lin', s) = FoundIn(lin, s)
    BY <2>1, <2>2 DEF Onward, FoundIn
  <2>4. lin'.slice[s].status = "passed" => FoundIn(lin', s) \intersect lin'.unresolved = {}
    BY <1>1, <2>1 DEF Apart, Sound, Agreed
  <2> QED BY <1>1, <2>1, <2>3, <2>4 DEF Apart
<1>2. IInv /\ Sound' /\ [Next]_vars =>
        [lin.sliced => \A s \in Slice \ {lin.active, lin'.active} :
           /\ lin'.slice[s].used = lin.slice[s].used /\ lin'.slice[s].failed = lin.slice[s].failed
           /\ lin'.slice[s].status # lin.slice[s].status =>
                /\ lin.slice[s].status = "passed" /\ lin'.slice[s].status = "ready"
                /\ lin'.slice[lin.active].failed = lin.slice[lin.active].failed + 1
           /\ lin'.slice[s].status = "passed" => FoundIn(lin, s) \intersect lin'.unresolved = {}]_vars
  BY <1>1
<1> QED BY <1>2, Inductive, SoundThroughout, PTL DEF Spec, SlicesIndependent

=============================================================================
