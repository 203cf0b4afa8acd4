---------------------------- MODULE TrustReview ----------------------------
(***************************************************************************)
(* The trust review of an IDD change (scripts/lib/idd-review.js and the    *)
(* review, check and close commands of scripts/ospec.js): each review is a *)
(* lineage of one lens over a frozen candidate, with at most one bounded   *)
(* correction; a successor needs changed code; after MaxReviews of them    *)
(* the person authorizes each further one.                                 *)
(*                                                                         *)
(* review start and review correct read the tree before they lock          *)
(* state.yaml, and a check reads the state, the tree and the reviewed      *)
(* paths at three moments before it settles.  A content is what the paths  *)
(* under review hold, those that a review of them would add included.  The *)
(* obligation is derived throughout; the other obligations of the change   *)
(* are reduced to checks-pass.  The digests, cites and receipts of a       *)
(* result are left out: they accept or refuse what the reviewer answers.   *)
(***************************************************************************)
EXTENDS Lineage, Sequences, SequencesExt

CONSTANTS trust,           \* the only lens
          MaxContent,      \* contents the author goes through: 0 .. MaxContent
          Clean,           \* contents in which no reviewer finds anything
          Fits,            \* changes of content that fit one bounded correction
          MaxReviews,      \* MAX_REVIEWS
          MaxRestores      \* bound on the times the author goes back

Content == 0 .. MaxContent

\* What the constants satisfy.
ConstantsOK ==
  /\ Lens = {trust} /\ Limit > 0
  /\ MaxContent \in Clean /\ Clean \subseteq Content /\ None \notin Content
  /\ Fits \subseteq Content \X Content
  /\ MaxReviews \in Nat \ {0} /\ MaxRestores \in Nat

VARIABLES code,            \* content of the working tree
          reviews,         \* [lin, of, at]: a lineage, its genesis and current candidate
          ob, proof,       \* trust-review, and the review its evidence names
          asked, answers,  \* the review-limit gate: open?, and how often resolved
          checked,         \* the tree that checks-pass proves
          closed,
          cmd,             \* the commands in flight, one of each kind
          restores

vars == <<code, reviews, ob, proof, asked, answers, checked, closed, cmd, restores>>

Idle == [at |-> "idle", saw |-> None, tree |-> None, changed |-> FALSE,
         closing |-> FALSE, quiet |-> TRUE]

Init ==
  /\ code = 0 /\ reviews = <<>>
  /\ ob = "pending" /\ proof = 0
  /\ asked = FALSE /\ answers = 0
  /\ checked = None /\ closed = FALSE
  /\ cmd = [k \in {"start", "correct", "check"} |-> Idle]
  /\ restores = 0

Current == Last(reviews)
Is(status) == reviews # <<>> /\ Current.lin.status = status
Over == reviews # <<>> /\ Current.lin.status \in Terminal
Allowed == MaxReviews + answers

UsedUp == Len(reviews) >= Allowed

At(k, where) == cmd[k].at = where
Become(k, c) == cmd' = [cmd EXCEPT ![k] = c]

\* A command that writes a review; history: a check in flight did not see it.
Disturbed == [cmd EXCEPT !["check"].quiet = FALSE]
Finish(k) == cmd' = [Disturbed EXCEPT ![k] = Idle]

\* withReview, of the review in progress.
Update(l, content) == reviews' = [reviews EXCEPT ![Len(reviews)] =
                                    [@ EXCEPT !.lin = l, !.at = content]]

\* approve.
Approved == ob' = "satisfied" /\ proof' = Len(reviews)

\* What a review or a validation of a content may find.
Findings(content) == IF content \in Clean THEN {{}} ELSE SUBSET Finding

-----------------------------------------------------------------------------
(* review start, record, correct and validate *)

StartRead ==
  /\ ~closed /\ At("start", "idle")
  /\ Become("start", [Idle EXCEPT !.at = "commit", !.tree = code])
  /\ UNCHANGED <<code, reviews, ob, proof, asked, answers, checked, closed, restores>>

\* startQualityReviewLineage and beginLens.
Opened(tree) == [lin |-> CHOOSE l \in BeginLens(Started(2), trust) : TRUE, of |-> tree, at |-> tree]

Oversized(tree) ==
  Is("correction-required") /\ tree # Current.at /\ <<Current.at, tree>> \notin Fits

Escalated ==
  [Current EXCEPT !.lin = CHOOSE l \in TerminateLineage(Current.lin, "escalated") : TRUE]

\* Mutant: the unchanged candidate is reviewed again.
StartUnchanged ==
  LET tree == cmd["start"].tree
  IN  /\ ~closed /\ At("start", "commit")
      /\ reviews' = IF Oversized(tree) /\ ~UsedUp
                      THEN [reviews EXCEPT ![Len(reviews)] = Escalated] \o <<Opened(tree)>>
                    ELSE IF reviews = <<>> \/ (Over /\ ~UsedUp)
                      THEN Append(reviews, Opened(tree))
                    ELSE reviews
      /\ Finish("start")
      /\ UNCHANGED <<code, ob, proof, asked, answers, checked, closed, restores>>

\* startTrustReview: the successor of an oversized correction, the review in
\* progress, a successor, or a refusal.
StartCommit ==
  LET tree == cmd["start"].tree
  IN  /\ ~closed /\ At("start", "commit")
      /\ reviews' = IF Oversized(tree) /\ ~UsedUp
                      THEN [reviews EXCEPT ![Len(reviews)] = Escalated] \o <<Opened(tree)>>
                    ELSE IF reviews = <<>> \/ (/\ Over /\ ob = "pending"
                                               /\ tree # Current.at /\ ~UsedUp)
                      THEN Append(reviews, Opened(tree))
                    ELSE reviews
      /\ Finish("start")
      /\ UNCHANGED <<code, ob, proof, asked, answers, checked, closed, restores>>

\* recordTrustFindings: the findings are recorded and frozen at once.
RecordFindings ==
  /\ ~closed /\ Is("reviewing")
  /\ \E found \in Findings(Current.of) :
     \E recorded \in RecordLensResult(Current.lin, trust, found) :
     \E frozen \in FreezeFindings(recorded, FALSE) :
       /\ Update(frozen, Current.at)
       /\ IF frozen.status = "approved" THEN Approved ELSE UNCHANGED <<ob, proof>>
  /\ cmd' = Disturbed
  /\ UNCHANGED <<code, asked, answers, checked, closed, restores>>

CorrectRead ==
  /\ ~closed /\ At("correct", "idle") /\ Is("correction-required")
  /\ Become("correct", [Idle EXCEPT !.at = "commit", !.tree = code])
  /\ UNCHANGED <<code, reviews, ob, proof, asked, answers, checked, closed, restores>>

\* correctTrustReview: begun and recorded at once, of the tree that was read.
CorrectCommit ==
  LET tree == cmd["correct"].tree
  IN  /\ ~closed /\ At("correct", "commit")
      /\ IF Is("correction-required") /\ tree # Current.at /\ ~Oversized(tree)
           THEN \E begun \in BeginCorrection(Current.lin, 1) :
                \E recorded \in RecordCorrection(begun, 1) : Update(recorded, tree)
           ELSE UNCHANGED reviews
      /\ Finish("correct")
      /\ UNCHANGED <<code, ob, proof, asked, answers, checked, closed, restores>>

\* validateTrustCorrection: a failure ends the review.
ValidateCorrection ==
  /\ ~closed /\ Is("validating")
  /\ \E missed \in Findings(Current.at) :
     \E valid \in ApplyTargetedValidation(Current.lin, Current.lin.unresolved \ missed, FALSE, {}) :
     \E ended \in IF valid.status \in Terminal THEN {valid} ELSE TerminateLineage(valid, "escalated") :
       /\ Update(ended, Current.at)
       /\ IF valid.status = "approved" THEN Approved ELSE UNCHANGED <<ob, proof>>
  /\ cmd' = Disturbed
  /\ UNCHANGED <<code, asked, answers, checked, closed, restores>>

-----------------------------------------------------------------------------
(* check and close *)

Untouched == UNCHANGED <<code, reviews, ob, proof, asked, answers, checked, closed, restores>>

\* check reads the state; with --close it closes once it is ready.
CheckRead ==
  /\ ~closed /\ At("check", "idle")
  /\ \E closing \in BOOLEAN :
       Become("check", [Idle EXCEPT !.at = "run", !.closing = closing,
                                    !.saw = IF reviews = <<>> THEN None ELSE Current.at])
  /\ Untouched

CheckRun ==
  /\ At("check", "run")
  /\ Become("check", [cmd["check"] EXCEPT !.at = "outcome", !.tree = code])
  /\ Untouched

\* readCheckOutcome: whether the paths of the review it read have changed.
CheckOutcome ==
  LET c == cmd["check"]
  IN  /\ At("check", "outcome")
      /\ Become("check", [c EXCEPT !.at = "commit", !.changed = c.saw # None /\ c.saw # code])
      /\ Untouched

\* Mutant: an approved review stays good for whatever the code becomes.
SettleNothing(changed) ==
  /\ IF ob = "pending" /\ ~changed /\ Is("approved")
       THEN Approved
       ELSE UNCHANGED <<ob, proof>>
  /\ asked' = (asked \/ (ob' = "pending" /\ Over /\ UsedUp))

\* Mutant: no check asks for another review.
SettleUnasked(changed) ==
  /\ IF ob = "satisfied" /\ changed
       THEN ob' = "pending" /\ proof' = 0
     ELSE IF ob = "pending" /\ ~changed /\ Is("approved")
       THEN Approved
       ELSE UNCHANGED <<ob, proof>>
  /\ UNCHANGED asked

\* settleReviewFreshness.
SettleReviewFreshness(changed) ==
  /\ IF ob = "satisfied" /\ changed
       THEN ob' = "pending" /\ proof' = 0
     ELSE IF ob = "pending" /\ ~changed /\ Is("approved")
       THEN Approved
       ELSE UNCHANGED <<ob, proof>>
  /\ asked' = (asked \/ (ob' = "pending" /\ Over /\ UsedUp))

\* The checks may fail, and then checks-pass proves no tree.
CheckCommit ==
  LET c == cmd["check"]
      ready == ob' = "satisfied" /\ ~asked' /\ checked' # None
  IN  /\ At("check", "commit")
      /\ IF closed THEN UNCHANGED <<ob, proof, asked, checked>>
         ELSE /\ SettleReviewFreshness(c.changed)
              /\ checked' \in {c.tree, None}
      /\ Become("check", IF c.closing /\ ~closed /\ ready THEN [c EXCEPT !.at = "close"] ELSE Idle)
      /\ UNCHANGED <<code, reviews, answers, closed, restores>>

\* requireFreshEvidence and closeChange.
CanClose == ~closed /\ ob = "satisfied" /\ ~asked /\ checked = code

Close ==
  /\ CanClose
  /\ closed' = TRUE
  /\ UNCHANGED <<code, reviews, ob, proof, asked, answers, checked, cmd, restores>>

\* The close of check --close.
CloseChecked ==
  /\ At("check", "close")
  /\ closed' = (closed \/ CanClose)
  /\ Become("check", Idle)
  /\ UNCHANGED <<code, reviews, ob, proof, asked, answers, checked, restores>>

\* recordGate: the person authorizes one more review.
Authorize ==
  /\ ~closed /\ asked
  /\ asked' = FALSE /\ answers' = answers + 1
  /\ UNCHANGED <<code, reviews, ob, proof, checked, closed, cmd, restores>>

-----------------------------------------------------------------------------
(* The author *)

Edit ==
  /\ ~closed
  /\ code' \in code + 1 .. MaxContent
  /\ UNCHANGED <<reviews, ob, proof, asked, answers, checked, closed, cmd, restores>>

\* Back to the approved content, while no command reads it.
Restore ==
  /\ ~closed /\ restores < MaxRestores
  /\ Is("approved") /\ code # Current.at
  /\ \A k \in DOMAIN cmd : At(k, "idle")
  /\ code' = Current.at
  /\ restores' = restores + 1
  /\ UNCHANGED <<reviews, ob, proof, asked, answers, checked, closed, cmd>>

Next ==
  \/ StartRead \/ StartCommit \/ RecordFindings
  \/ CorrectRead \/ CorrectCommit \/ ValidateCorrection
  \/ CheckRead \/ CheckRun \/ CheckOutcome \/ CheckCommit
  \/ Close \/ CloseChecked \/ Authorize
  \/ Edit \/ Restore

Spec == Init /\ [][Next]_vars

\* The agent follows ospec next, which names a command until the change is
\* closed; the reviewers answer, the person answers, and the author finishes.
Fairness ==
  /\ WF_vars(StartRead) /\ WF_vars(StartCommit) /\ WF_vars(RecordFindings)
  /\ WF_vars(CorrectRead) /\ WF_vars(CorrectCommit) /\ WF_vars(ValidateCorrection)
  /\ WF_vars(CheckRead) /\ WF_vars(CheckRun) /\ WF_vars(CheckOutcome) /\ WF_vars(CheckCommit)
  /\ WF_vars(CloseChecked) /\ WF_vars(Authorize) /\ WF_vars(Edit)

FairSpec == Spec /\ Fairness

-----------------------------------------------------------------------------
(* Properties *)

TypeOK ==
  /\ code \in Content /\ closed \in BOOLEAN /\ asked \in BOOLEAN
  /\ ob \in {"pending", "satisfied"} /\ proof \in 0 .. Len(reviews)
  /\ \A i \in 1 .. Len(reviews) :
       /\ reviews[i].of \in Content /\ reviews[i].at \in Content
       /\ reviews[i].lin.status \in Status
  /\ checked \in Content \union {None}

\* trust-review is satisfied exactly by the approval of the last review, whose
\* blocking findings are all resolved, and never by one that a later review
\* replaced, whichever commands overlap (approve, settleReviewFreshness).
SatisfiedByApproval ==
  ob = "satisfied" =>
    /\ proof = Len(reviews) /\ Is("approved")
    /\ Current.lin.unresolved = {}

\* check --close closes a change only with the code its approved review saw,
\* however the author edits meanwhile, unless another review command ran at
\* the same time (checkAndClose, readCheckOutcome, requireFreshEvidence).
CheckedCloseReviewed ==
  [][At("check", "close") /\ cmd["check"].quiet /\ closed' /\ ~closed => Current.at = code]_vars

\* "MUST NOT leave the change without a way on": once the author is done, the
\* review settles or the change closes.
WayOn == <>[](closed \/ ob = "satisfied")

\* What closes is what was reviewed: frozen-review is "approved for the current
\* candidate" (REQ-idd-016). A plain close breaks it, so no run checks it
\* (README, section 6).
ClosedReviewed == closed => Current.at = code

=============================================================================
