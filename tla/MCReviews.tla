----------------------------- MODULE MCReviews -----------------------------
(***************************************************************************)
(* Instances for TLC of what judges a change before it closes: the quality *)
(* review of an SDD change (ReviewLineage), the trust review of an IDD     *)
(* change (TrustReview), the fence on the answers to its gates (TurnFence) *)
(* and the verify lineage of an SDD change (VerifyLineage).  They share no *)
(* state, so a run explores four worlds side by side.                      *)
(***************************************************************************)
EXTENDS MCReviewLineage

CONSTANTS s1, s2, g1, p1, p2, a, o

VARIABLES world,
          code, reviews, ob, proof, asked, answers, checked, closed, cmd, restores,
          layout, count, stop, gate, ended,
          tree, contract, snaps, verified, recheck, journal, preserved, runners, troubles, runs

trusting == <<code, reviews, ob, proof, asked, answers, checked, closed, cmd, restores>>
fencing == <<layout, count, stop, gate, ended>>
verifying == <<tree, contract, snaps, verified, recheck, journal, preserved, runners, troubles, runs>>

\* Three contents; a change of the first one is too large for one correction.
Contents == 0 .. 2

Trust == INSTANCE TrustReview WITH
  Lens <- {trust}, Finding <- {f}, LensOf <- [x \in {f} |-> trust],
  Slice <- {1}, SliceOf <- [x \in {f} |-> 1], Limit <- 1,
  MaxContent <- 2, Clean <- {2}, Fits <- {<<from, to>> \in Contents \X Contents : from > 0},
  MaxReviews <- 2, MaxRestores <- 1

\* Counts are lost where only one is read.
Fence == INSTANCE TurnFence WITH
  Session <- {s1, s2}, Gate <- {g1},
  Layouts <- {"plain", "linked"}, LosesIn <- {"plain"}, MaxTurn <- 3

\* Two recipes of one finding; only the first needs the path that is wrong.
Verify == INSTANCE VerifyLineage WITH
  Finding <- {f}, Path <- {a, o}, AllowedOf <- [x \in {f} |-> {a}],
  Recipe <- 1 .. 2, FindingOf <- [r \in 1 .. 2 |-> f],
  Needs <- [r \in 1 .. 2 |-> IF r = 1 THEN {a} ELSE {}],
  Inherited <- {1}, Proc <- {p1, p2}, MaxTroubles <- 2, MaxGen <- 2,
  lin <- verified, ops <- journal, cmd <- runners

ASSUME Trust!ConstantsOK /\ Fence!ConstantsOK /\ Verify!ConstantsOK

WorldInit ==
  /\ Init /\ Trust!Init /\ Fence!Init /\ Verify!Init
  /\ world \in {"quality", "trust", "fence", "verify"}
  /\ world # "quality" => lin = Started(2) /\ slicing
  /\ world # "fence" => layout = "plain"
  /\ world # "verify" => verified = Verify!NoLineage

\* A lineage that ended, or that only a new discovery or the user can take on.
Blocked == UNCHANGED verifying

WorldNext ==
  \/ world = "quality" /\ (Next \/ Over) /\ UNCHANGED <<world, trusting, fencing, verifying>>
  \/ world = "trust" /\ (Trust!Next \/ (closed /\ UNCHANGED trusting)) /\ UNCHANGED <<world, vars, fencing, verifying>>
  \/ world = "fence" /\ Fence!Next /\ UNCHANGED <<world, vars, trusting, verifying>>
  \/ world = "verify" /\ (Verify!Next \/ Blocked) /\ UNCHANGED <<world, vars, trusting, fencing>>

Trusting == world = "trust"
Verifying == world = "verify"

\* The fairness of each module, in the world where it runs.
WorldSpec ==
  /\ WorldInit /\ [][WorldNext]_<<world, vars, trusting, fencing, verifying>>
  /\ WF_vars(world = "quality" /\ Answered)
  /\ WF_trusting(Trusting /\ Trust!StartRead)
  /\ WF_trusting(Trusting /\ Trust!StartCommit)
  /\ WF_trusting(Trusting /\ Trust!RecordFindings)
  /\ WF_trusting(Trusting /\ Trust!CorrectRead)
  /\ WF_trusting(Trusting /\ Trust!CorrectCommit)
  /\ WF_trusting(Trusting /\ Trust!ValidateCorrection)
  /\ WF_trusting(Trusting /\ Trust!CheckRead)
  /\ WF_trusting(Trusting /\ Trust!CheckRun)
  /\ WF_trusting(Trusting /\ Trust!CheckOutcome)
  /\ WF_trusting(Trusting /\ Trust!CheckCommit)
  /\ WF_trusting(Trusting /\ Trust!CloseChecked)
  /\ WF_trusting(Trusting /\ Trust!Authorize)
  /\ WF_trusting(Trusting /\ Trust!Edit)
  /\ WF_verifying(Verifying /\ Verify!RecordRemediationAttempt)
  /\ WF_verifying(Verifying /\ Verify!RecheckRead)
  /\ WF_verifying(Verifying /\ Verify!RecheckEvaluate)
  /\ \A p \in {p1, p2} : WF_verifying(Verifying /\ Verify!Runner(p))

\* The properties, each in its world.
QualityEnds == world = "quality" => ReviewEnds
SatisfiedByApproval == Trust!SatisfiedByApproval
CheckedCloseReviewed == Trust!CheckedCloseReviewed
WayOn == Trusting => Trust!WayOn
FenceSound == Fence!FenceSound
RunOnce == Verify!RunOnce
VerifiedByRuns == Verify!VerifiedByRuns
ScopeKept == Verify!ScopeKept
LineageEnds == Verifying => Verify!LineageEnds
AllTyped == TypeOK /\ Trust!TypeOK /\ Fence!TypeOK /\ Verify!TypeOK

=============================================================================
