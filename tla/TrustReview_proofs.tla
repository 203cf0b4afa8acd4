-------------------------- MODULE TrustReview_proofs --------------------------
(***************************************************************************)
(* Proofs about TrustReview, for any contents, findings and allowances and *)
(* any number of edits, reviews and commands that overlap.                 *)
(*                                                                         *)
(* A check that closes compares three moments: the review it read, the     *)
(* tree its runs proved and the tree it compared with that review.  The    *)
(* tree only moves on while a command runs (Seen), so what the last moment *)
(* finds unchanged was unchanged between the others.                       *)
(***************************************************************************)
EXTENDS TrustReview, TLAPS

\* The lineages of a trust review: schema 2, corrected as a whole.
Lines ==
  [schema : {2}, status : Status,
   lens : [Lens -> {"pending", "running", "completed"}],
   op : [Lens -> {"none", "pending", "unknown"}],
   found : SUBSET Finding, frozen : BOOLEAN, unresolved : SUBSET Finding,
   used : Nat, failed : Nat, candidate : Nat,
   pending : {None} \union [slice : {None}, forecast : Nat],
   pendingOp : {"none", "pending", "unknown"},
   latest : [Finding -> {None, "resolved", "unresolved"}], fails : [Slice -> Nat],
   vague : BOOLEAN, sliced : {FALSE}, slice : [Slice -> {NoSlice}], active : {None}]

\* One that approves leaves nothing unresolved.
Good(l) == l \in Lines /\ (l.status = "approved" => l.unresolved = {})

Review == {r \in [lin : Lines, of : Content, at : Content] : Good(r.lin)}

Command ==
  [at : {"idle", "run", "outcome", "commit", "close"}, saw : Content \union {None},
   tree : Content \union {None}, changed : BOOLEAN, closing : BOOLEAN, quiet : BOOLEAN]

Kinds == {"start", "correct", "check"}

Typed ==
  /\ code \in Content /\ closed \in BOOLEAN /\ asked \in BOOLEAN
  /\ reviews \in Seq(Review)
  /\ ob \in {"pending", "satisfied"} /\ proof \in 0 .. Len(reviews)
  /\ checked \in Content \union {None}
  /\ cmd \in [Kinds -> Command]
  /\ \A k \in {"start", "correct"} : At(k, "commit") => cmd[k].tree \in Content

\* The evidence names the last review, and that one approves.
Proven == ob = "satisfied" => proof = Len(reviews) /\ Is("approved")

\* What a check c saw, compared with the reviews rs, the tree and the proof there are now.
SeenBy(c, rs, now, proves) ==
  /\ c.at \in {"outcome", "commit", "close"} => c.tree \in Content /\ c.tree <= now
  /\ c.at # "idle" /\ c.quiet => c.saw = IF rs = << >> THEN None ELSE Last(rs).at
  /\ c.at \in {"commit", "close"} /\ ~c.changed /\ c.quiet /\ rs # << >> /\ c.tree = now =>
       Last(rs).at = now
  /\ c.at = "close" => ~c.changed /\ proves = c.tree

Seen == SeenBy(cmd["check"], reviews, code, checked)

IInv == Typed /\ Proven /\ Seen

-----------------------------------------------------------------------------
(* Sequences of reviews                                                    *)

\* The last review replaced.
LEMMA Replaced ==
  ASSUME NEW R, NEW s \in Seq(R), s # << >>, NEW r \in R
  PROVE  /\ [s EXCEPT ![Len(s)] = r] \in Seq(R) /\ Len([s EXCEPT ![Len(s)] = r]) = Len(s)
         /\ [s EXCEPT ![Len(s)] = r] # << >> /\ Last([s EXCEPT ![Len(s)] = r]) = r
BY DEF Last

\* One review more.
LEMMA Appended ==
  ASSUME NEW R, NEW s \in Seq(R), NEW r \in R
  PROVE  /\ Append(s, r) \in Seq(R) /\ Len(Append(s, r)) = Len(s) + 1
         /\ Append(s, r) # << >> /\ Last(Append(s, r)) = r
         /\ s \o <<r>> \in Seq(R) /\ Len(s \o <<r>>) = Len(s) + 1
         /\ s \o <<r>> # << >> /\ Last(s \o <<r>>) = r
BY DEF Last

LEMMA LastOf ==
  ASSUME NEW R, NEW s \in Seq(R), s # << >>
  PROVE  Last(s) \in R
BY DEF Last

-----------------------------------------------------------------------------
(* The reducers, on the lineages of trust reviews                          *)

LEMMA WhenIs == ASSUME NEW b, NEW l, NEW m \in When(b, l) PROVE b /\ m = l
BY DEF When

LEMMA Readable == ASSUME NEW l, l.schema = 2 PROVE Intact(l)
<1>1. ~ (l.schema = 3)
  OBVIOUS
<1> QED BY ONLY <1>1 DEF Intact

LEMMA OpenedGood ==
  ASSUME ConstantsOK, NEW tree \in Content
  PROVE  Opened(tree) \in Review /\ Opened(tree).lin.status = "reviewing" /\ Opened(tree).at = tree
<1>1. Started(2) \in Lines /\ Started(2).status = "reviewing" /\ Started(2).lens[trust] = "pending"
      /\ Started(2).schema = 2
  BY DEF Started, Lines, Status, ConstantsOK
<1> DEFINE l == CHOOSE x \in BeginLens(Started(2), trust) : TRUE
           m == [Started(2) EXCEPT !.lens[trust] = "running", !.op[trust] = "pending"]
<1>2. BeginLens(Started(2), trust) = {m}
  BY <1>1, Readable DEF BeginLens, When, Mutable
<1>3. l = m
  BY <1>2
<1>4. m \in Lines /\ m.status = "reviewing"
  BY <1>1 DEF Lines, ConstantsOK
<1> HIDE DEF l, m
<1>5. Opened(tree) = [lin |-> l, of |-> tree, at |-> tree]
  BY DEF Opened, l
<1> QED BY <1>3, <1>4, <1>5 DEF Review, Good

LEMMA TerminatedGood ==
  ASSUME NEW l \in Lines, NEW m \in TerminateLineage(l, "escalated")
  PROVE  Good(m) /\ m.status = "escalated"
<1>1. m = [l EXCEPT !.status = "escalated", !.pending = None, !.pendingOp = "none",
             !.op = [d \in Lens |-> "none"]]
  BY WhenIs DEF TerminateLineage
<1> QED BY <1>1 DEF Lines, Status, Terminal, Good

LEMMA FoundGood ==
  ASSUME ConstantsOK, NEW l \in Lines, NEW F \in SUBSET Finding,
         NEW m \in RecordLensResult(l, trust, F), NEW n \in FreezeFindings(m, FALSE)
  PROVE  Good(n)
<1>1. m = [l EXCEPT !.lens[trust] = "completed", !.op[trust] = "none", !.found = @ \union F]
  BY WhenIs DEF RecordLensResult
<1>2. m \in Lines
  BY <1>1 DEF Lines, ConstantsOK
<1>3. n = [m EXCEPT !.frozen = TRUE, !.unresolved = m.found,
             !.status = IF m.found = {} THEN "approved" ELSE "correction-required"]
  BY DEF FreezeFindings, When
<1> DEFINE status == IF m.found = {} THEN "approved" ELSE "correction-required"
<1>4. m.found \in SUBSET Finding /\ status \in Status
  BY <1>2 DEF Lines, Status, Terminal, Working
<1>5. status = "approved" => m.found = {}
  OBVIOUS
<1> HIDE DEF status
<1>6. n = [m EXCEPT !.frozen = TRUE, !.unresolved = m.found, !.status = status]
  BY <1>3 DEF status
<1>7. n \in Lines /\ n.status = status /\ n.unresolved = m.found
  BY <1>2, <1>4, <1>6 DEF Lines
<1> QED BY <1>5, <1>7 DEF Good

LEMMA CorrectedGood ==
  ASSUME ConstantsOK, NEW l \in Lines, NEW m \in BeginCorrection(l, 1), NEW n \in RecordCorrection(m, 1)
  PROVE  Good(n) /\ n.status = "validating"
<1>1. m = [l EXCEPT !.status = "correcting", !.pendingOp = "pending",
             !.pending = [slice |-> None, forecast |-> 1]]
  BY WhenIs DEF BeginCorrection, Begun
<1>2. m \in Lines
  BY <1>1 DEF Lines, Status, Working
<1>3. n = [m EXCEPT !.status = "validating", !.pendingOp = "none", !.candidate = @ + 1, !.used = @ + 1]
  <2>1. n = [Recorded(m) EXCEPT !.used = @ + 1]
    BY WhenIs DEF RecordCorrection
  <2> QED BY <1>2, <2>1 DEF Recorded, Lines
<1>4. m.candidate + 1 \in Nat /\ m.used + 1 \in Nat
  BY <1>2 DEF Lines
<1>5. n \in Lines /\ n.status = "validating"
  BY <1>2, <1>3, <1>4 DEF Lines, Status, Working
<1> QED BY <1>5 DEF Good

LEMMA ValidatedGood ==
  ASSUME ConstantsOK, NEW l \in Lines, NEW F \in SUBSET Finding,
         NEW m \in ApplyTargetedValidation(l, F, FALSE, {})
  PROVE  Good(m)
<1> DEFINE failed == FALSE \/ F # l.unresolved
           failures == IF failed THEN l.failed + 1 ELSE l.failed
           missed == {SliceOf[f] : f \in (l.unresolved \ F) \union {}}
           latest == [f \in Finding |-> IF f \in F THEN "resolved"
                                        ELSE IF f \in l.unresolved THEN "unresolved" ELSE l.latest[f]]
           fails == [s \in Slice |-> IF s \in missed THEN l.fails[s] + 1 ELSE l.fails[s]]
           verdict == IF ~failed THEN "approved"
                      ELSE IF failures >= MaxFailed THEN "exhausted" ELSE "correction-required"
           unresolved == IF failed THEN l.unresolved ELSE {}
<1>1. m = [l EXCEPT !.unresolved = unresolved, !.failed = failures, !.latest = latest,
             !.fails = fails, !.vague = l.vague, !.pending = None, !.pendingOp = "none",
             !.status = verdict]
  BY DEF ApplyTargetedValidation, When, Lines
<1>2. /\ failures \in Nat /\ latest \in [Finding -> {None, "resolved", "unresolved"}]
      /\ fails \in [Slice -> Nat] /\ unresolved \in SUBSET Finding /\ verdict \in Status
      /\ verdict = "approved" => unresolved = {}
  BY DEF Lines, Status, Terminal, Working
<1> HIDE DEF failures, latest, fails, unresolved, verdict
<1>3. m \in Lines /\ m.status = verdict /\ m.unresolved = unresolved
  BY <1>1, <1>2 DEF Lines
<1> QED BY <1>2, <1>3 DEF Good

-----------------------------------------------------------------------------
(* Commands that write a review                                            *)

\* They disturb the check in flight.
LEMMA Quieted ==
  ASSUME Typed, Seen, UNCHANGED <<code, checked>>,
         \/ cmd' = Disturbed
         \/ \E k \in {"start", "correct"} : Finish(k)
  PROVE  /\ cmd' \in [Kinds -> Command] /\ Seen'
         /\ \A k \in {"start", "correct"} : At(k, "commit")' => cmd'[k].tree \in Content
<1>1. cmd \in [Kinds -> Command] /\ Idle \in Command
  BY DEF Typed, Idle, Command
<1>2. Disturbed \in [Kinds -> Command] /\ \A k \in {"start", "correct"} : Disturbed[k] = cmd[k]
  BY <1>1 DEF Disturbed, Kinds, Command
<1>3. Disturbed["check"] = [cmd["check"] EXCEPT !.quiet = FALSE]
  BY <1>1 DEF Disturbed, Kinds
<1>4. /\ cmd' \in [Kinds -> Command] /\ cmd'["check"] = [cmd["check"] EXCEPT !.quiet = FALSE]
      /\ \A k \in {"start", "correct"} : cmd'[k] \in {cmd[k], Idle}
  BY <1>1, <1>2, <1>3 DEF Finish, Kinds
<1>5. /\ cmd["check"] \in Command
      /\ cmd'["check"].at = cmd["check"].at /\ cmd'["check"].tree = cmd["check"].tree
      /\ cmd'["check"].changed = cmd["check"].changed /\ ~cmd'["check"].quiet
  BY <1>1, <1>4 DEF Kinds, Command
<1>6. Seen'
  <2>1. SeenBy(cmd["check"], reviews, code, checked)
    BY DEF Seen
  <2>2. SeenBy(cmd'["check"], reviews', code, checked)
    BY <1>5, <2>1 DEF SeenBy
  <2> QED BY <2>2 DEF Seen
<1>7. ASSUME NEW k \in {"start", "correct"}, cmd'[k].at = "commit" PROVE cmd'[k].tree \in Content
  BY <1>4, <1>7 DEF Typed, At, Idle
<1> QED BY <1>4, <1>6, <1>7 DEF At

LEMMA Updated ==
  ASSUME Typed, reviews # << >>, NEW l, Good(l), NEW content \in Content, Update(l, content)
  PROVE  /\ reviews' \in Seq(Review) /\ Len(reviews') = Len(reviews)
         /\ reviews' # << >> /\ Current'.lin = l /\ Current'.at = content
<1> DEFINE r == [Current EXCEPT !.lin = l, !.at = content]
<1>1. Current \in Review /\ reviews \in Seq(Review)
  BY LastOf DEF Typed, Current
<1>2. r \in Review /\ r.lin = l /\ r.at = content
  BY <1>1 DEF Review, Good
<1>3. reviews' = [reviews EXCEPT ![Len(reviews)] = r]
  BY DEF Update, Current, Last
<1> HIDE DEF r
<1> QED BY <1>1, <1>2, <1>3, Replaced DEF Current

LEMMA LinOf ==
  ASSUME Typed, reviews # << >>
  PROVE  Current.lin \in Lines /\ Good(Current.lin) /\ Current.at \in Content /\ Current \in Review
BY LastOf DEF Typed, Current, Review

LEMMA StartKeeps ==
  ASSUME ConstantsOK, IInv, StartCommit
  PROVE  IInv'
<1> DEFINE tree == cmd["start"].tree
<1>1. tree \in Content /\ Opened(tree) \in Review /\ Opened(tree).lin.status = "reviewing"
      /\ reviews \in Seq(Review)
  BY OpenedGood DEF IInv, Typed, StartCommit
<1>2. /\ cmd' \in [Kinds -> Command] /\ Seen'
      /\ \A k \in {"start", "correct"} : At(k, "commit")' => cmd'[k].tree \in Content
  <2>1. UNCHANGED <<code, checked>> /\ Finish("start")
    BY DEF StartCommit
  <2> QED BY <2>1, Quieted DEF IInv
<1>3. UNCHANGED <<code, ob, proof, asked, answers, checked, closed, restores>>
  BY DEF StartCommit
<1>4. CASE Oversized(tree) /\ ~UsedUp
  <2>1. Is("correction-required") /\ ob # "satisfied"
    BY <1>4 DEF Oversized, IInv, Proven, Is
  <2>2. Current.lin \in Lines /\ Current \in Review /\ reviews # << >>
    BY <2>1, LinOf DEF Is, IInv
  <2>3. Escalated \in Review
    <3>1. Current.lin.schema = 2 /\ Current.lin.status = "correction-required"
      BY <2>1, <2>2 DEF Lines, Is
    <3>2. TerminateLineage(Current.lin, "escalated") # {}
      BY <3>1, Readable DEF TerminateLineage, When, Terminal
    <3> DEFINE l == CHOOSE x \in TerminateLineage(Current.lin, "escalated") : TRUE
    <3>3. l \in TerminateLineage(Current.lin, "escalated")
      BY <3>2
    <3> HIDE DEF l
    <3>4. Good(l) /\ l \in Lines
      BY <2>2, <3>3, TerminatedGood DEF Good
    <3>5. Escalated = [Current EXCEPT !.lin = l]
      BY DEF Escalated, l
    <3> QED BY <2>2, <3>4, <3>5 DEF Review
  <2>4. reviews' = [reviews EXCEPT ![Len(reviews)] = Escalated] \o <<Opened(tree)>>
    BY <1>4 DEF StartCommit
  <2>5. reviews' \in Seq(Review) /\ Len(reviews') = Len(reviews) + 1
    <3>1. /\ [reviews EXCEPT ![Len(reviews)] = Escalated] \in Seq(Review)
          /\ Len([reviews EXCEPT ![Len(reviews)] = Escalated]) = Len(reviews)
      BY <1>1, <2>2, <2>3, Replaced
    <3> DEFINE s == [reviews EXCEPT ![Len(reviews)] = Escalated]
    <3>2. s \in Seq(Review) /\ Len(s) = Len(reviews) /\ reviews' = s \o <<Opened(tree)>>
      BY <2>4, <3>1
    <3> HIDE DEF s, tree
    <3> QED BY <1>1, <3>2, Appended
  <2>6. Typed'
    BY <1>2, <1>3, <2>5 DEF IInv, Typed
  <2> QED BY <1>2, <1>3, <2>1, <2>6 DEF IInv, Proven
<1>5. CASE ~(Oversized(tree) /\ ~UsedUp) /\ (reviews = << >> \/ (Over /\ ob = "pending" /\ tree # Current.at /\ ~UsedUp))
  <2>1. reviews' = Append(reviews, Opened(tree)) /\ ob # "satisfied"
    BY <1>5 DEF StartCommit, IInv, Proven, Is
  <2>2. reviews' \in Seq(Review) /\ Len(reviews') = Len(reviews) + 1
    BY <1>1, <2>1, Appended
  <2>3. Typed'
    BY <1>2, <1>3, <2>2 DEF IInv, Typed
  <2> QED BY <1>2, <1>3, <2>1, <2>3 DEF IInv, Proven
<1>6. CASE reviews' = reviews
  BY <1>2, <1>3, <1>6 DEF IInv, Typed, Proven, Is, Current
<1> QED BY <1>4, <1>5, <1>6 DEF StartCommit

LEMMA CorrectKeeps ==
  ASSUME ConstantsOK, IInv, CorrectCommit
  PROVE  IInv'
<1> DEFINE tree == cmd["correct"].tree
<1>1. tree \in Content
  BY DEF IInv, Typed, CorrectCommit
<1>2. /\ cmd' \in [Kinds -> Command] /\ Seen'
      /\ \A k \in {"start", "correct"} : At(k, "commit")' => cmd'[k].tree \in Content
  <2>1. UNCHANGED <<code, checked>> /\ Finish("correct")
    BY DEF CorrectCommit
  <2> QED BY <2>1, Quieted DEF IInv
<1>3. UNCHANGED <<code, ob, proof, asked, answers, checked, closed, restores>>
  BY DEF CorrectCommit
<1>4. CASE reviews' = reviews
  BY <1>2, <1>3, <1>4 DEF IInv, Typed, Proven, Is, Current
<1>5. CASE Is("correction-required") /\ tree # Current.at /\ ~Oversized(tree)
  <2>1. PICK begun \in BeginCorrection(Current.lin, 1) :
          \E recorded \in RecordCorrection(begun, 1) : Update(recorded, tree)
    BY <1>5 DEF CorrectCommit
  <2>2. PICK recorded \in RecordCorrection(begun, 1) : Update(recorded, tree)
    BY <2>1
  <2>3. reviews # << >> /\ ob # "satisfied"
    BY <1>5 DEF Is, IInv, Proven
  <2>4. Good(recorded)
    BY <2>3, CorrectedGood, LinOf DEF IInv
  <2>5. reviews' \in Seq(Review) /\ Len(reviews') = Len(reviews)
    BY <1>1, <2>2, <2>3, <2>4, Updated DEF IInv
  <2>6. Typed'
    BY <1>2, <1>3, <2>5 DEF IInv, Typed
  <2> QED BY <1>2, <1>3, <2>3, <2>6 DEF IInv, Proven
<1> QED BY <1>4, <1>5 DEF CorrectCommit

\* The obligation is satisfied by an approval, and only by one.
LEMMA VerdictKeeps ==
  ASSUME ConstantsOK, IInv, NEW l, Good(l), reviews # << >>,
         Is("reviewing") \/ Is("validating"),
         NEW content \in Content, Update(l, content), cmd' = Disturbed,
         IF l.status = "approved" THEN Approved ELSE UNCHANGED <<ob, proof>>,
         UNCHANGED <<code, asked, answers, checked, closed, restores>>
  PROVE  IInv'
<1>1. /\ cmd' \in [Kinds -> Command] /\ Seen'
      /\ \A k \in {"start", "correct"} : At(k, "commit")' => cmd'[k].tree \in Content
  BY Quieted DEF IInv
<1>2. /\ reviews' \in Seq(Review) /\ Len(reviews') = Len(reviews)
      /\ reviews' # << >> /\ Current'.lin = l
  BY Updated DEF IInv
<1>3. ob # "satisfied"
  BY DEF IInv, Proven, Is
<1>4. CASE l.status = "approved"
  <2>1. ob' = "satisfied" /\ proof' = Len(reviews') /\ Is("approved")'
    BY <1>2, <1>4 DEF Approved, Is
  <2>2. Len(reviews') \in Nat
    BY <1>2
  <2>3. Typed'
    BY <1>1, <1>2, <2>1, <2>2 DEF IInv, Typed
  <2> QED BY <1>1, <2>1, <2>3 DEF IInv, Proven
<1>5. CASE l.status # "approved"
  <2>1. Typed'
    BY <1>1, <1>2, <1>5 DEF IInv, Typed
  <2> QED BY <1>1, <1>3, <1>5, <2>1 DEF IInv, Proven
<1> QED BY <1>4, <1>5

LEMMA RecordKeeps ==
  ASSUME ConstantsOK, IInv, RecordFindings
  PROVE  IInv'
<1>1. PICK found \in Findings(Current.of) :
        \E recorded \in RecordLensResult(Current.lin, trust, found) :
        \E frozen \in FreezeFindings(recorded, FALSE) :
          /\ Update(frozen, Current.at)
          /\ IF frozen.status = "approved" THEN Approved ELSE UNCHANGED <<ob, proof>>
  BY DEF RecordFindings
<1>2. PICK recorded \in RecordLensResult(Current.lin, trust, found) :
        \E frozen \in FreezeFindings(recorded, FALSE) :
          /\ Update(frozen, Current.at)
          /\ IF frozen.status = "approved" THEN Approved ELSE UNCHANGED <<ob, proof>>
  BY <1>1
<1>3. PICK frozen \in FreezeFindings(recorded, FALSE) :
          /\ Update(frozen, Current.at)
          /\ IF frozen.status = "approved" THEN Approved ELSE UNCHANGED <<ob, proof>>
  BY <1>2
<1>4. found \in SUBSET Finding
  BY DEF Findings
<1>5. Is("reviewing") /\ reviews # << >>
  BY DEF RecordFindings, Is
<1>6. Current.lin \in Lines /\ Current.at \in Content
  BY <1>5, LinOf DEF IInv
<1>7. Good(frozen)
  BY <1>4, <1>6, FoundGood
<1>8. cmd' = Disturbed /\ UNCHANGED <<code, asked, answers, checked, closed, restores>>
  BY DEF RecordFindings
<1> QED BY <1>3, <1>5, <1>6, <1>7, <1>8, VerdictKeeps

LEMMA ValidateKeeps ==
  ASSUME ConstantsOK, IInv, ValidateCorrection
  PROVE  IInv'
<1> DEFINE Ended(valid) ==
             IF valid.status \in Terminal THEN {valid} ELSE TerminateLineage(valid, "escalated")
<1>1. PICK missed \in Findings(Current.at) :
        \E valid \in ApplyTargetedValidation(Current.lin, Current.lin.unresolved \ missed, FALSE, {}) :
        \E ended \in Ended(valid) :
          /\ Update(ended, Current.at)
          /\ IF valid.status = "approved" THEN Approved ELSE UNCHANGED <<ob, proof>>
  BY DEF ValidateCorrection
<1>2. PICK valid \in ApplyTargetedValidation(Current.lin, Current.lin.unresolved \ missed, FALSE, {}) :
        \E ended \in Ended(valid) :
          /\ Update(ended, Current.at)
          /\ IF valid.status = "approved" THEN Approved ELSE UNCHANGED <<ob, proof>>
  BY <1>1
<1>3. PICK ended \in Ended(valid) :
          /\ Update(ended, Current.at)
          /\ IF valid.status = "approved" THEN Approved ELSE UNCHANGED <<ob, proof>>
  BY <1>2
<1>4. Is("validating") /\ reviews # << >>
  BY DEF ValidateCorrection, Is
<1>5. Current.lin \in Lines /\ Current.at \in Content
  BY <1>4, LinOf DEF IInv
<1>6. Good(valid) /\ valid \in Lines
  <2>1. Current.lin.unresolved \ missed \in SUBSET Finding
    BY <1>5 DEF Lines
  <2> QED BY <1>2, <1>5, <2>1, ValidatedGood DEF Good
<1>7. Good(ended) /\ (ended.status = "approved" <=> valid.status = "approved")
  <2>1. CASE valid.status \in Terminal
    BY <1>3, <1>6, <2>1
  <2>2. CASE valid.status \notin Terminal
    <3>1. Good(ended) /\ ended.status = "escalated"
      BY <1>3, <1>6, <2>2, TerminatedGood
    <3> QED BY <2>2, <3>1 DEF Terminal
  <2> QED BY <2>1, <2>2
<1>8. cmd' = Disturbed /\ UNCHANGED <<code, asked, answers, checked, closed, restores>>
  BY DEF ValidateCorrection
<1>9. IF ended.status = "approved" THEN Approved ELSE UNCHANGED <<ob, proof>>
  BY <1>3, <1>7
<1> QED BY <1>3, <1>4, <1>5, <1>7, <1>8, <1>9, VerdictKeeps

-----------------------------------------------------------------------------
(* Reads, checks and closes                                                *)

\* A command that goes on.
LEMMA CommandGoes ==
  ASSUME Typed, NEW k \in Kinds, NEW c \in Command, Become(k, c),
         k # "check" /\ c.at = "commit" => c.tree \in Content
  PROVE  /\ cmd' \in [Kinds -> Command] /\ cmd'[k] = c
         /\ \A j \in Kinds \ {k} : cmd'[j] = cmd[j]
         /\ \A j \in {"start", "correct"} : At(j, "commit")' => cmd'[j].tree \in Content
<1>1. cmd \in [Kinds -> Command] /\ cmd' = [cmd EXCEPT ![k] = c]
  BY DEF Typed, Become
<1>2. /\ cmd' \in [Kinds -> Command] /\ cmd'[k] = c
      /\ \A j \in Kinds \ {k} : cmd'[j] = cmd[j]
  BY <1>1
<1>3. ASSUME NEW j \in {"start", "correct"}, cmd'[j].at = "commit" PROVE cmd'[j].tree \in Content
  BY <1>2, <1>3 DEF Typed, At, Kinds
<1> QED BY <1>2, <1>3 DEF At

LEMMA ReadKeeps ==
  ASSUME IInv, StartRead \/ CorrectRead
  PROVE  IInv'
<1>1. PICK k \in {"start", "correct"} : Become(k, [Idle EXCEPT !.at = "commit", !.tree = code])
  BY DEF StartRead, CorrectRead
<1> DEFINE c == [Idle EXCEPT !.at = "commit", !.tree = code]
<1>2. c \in Command /\ c.tree \in Content
  BY DEF Idle, Command, IInv, Typed
<1> HIDE DEF c
<1>3. /\ cmd' \in [Kinds -> Command] /\ cmd'["check"] = cmd["check"]
      /\ \A j \in {"start", "correct"} : At(j, "commit")' => cmd'[j].tree \in Content
  BY <1>1, <1>2, CommandGoes DEF IInv, Kinds, c
<1>4. UNCHANGED <<code, reviews, ob, proof, asked, answers, checked, closed, restores>>
  BY DEF StartRead, CorrectRead
<1> QED BY <1>3, <1>4 DEF IInv, Typed, Proven, Is, Current, Seen

\* The steps of a check that write nothing.
LEMMA CheckGoes ==
  ASSUME IInv, NEW c \in Command, Become("check", c), SeenBy(c, reviews, code, checked), Untouched
  PROVE  IInv'
<1>1. /\ cmd' \in [Kinds -> Command] /\ cmd'["check"] = c
      /\ \A j \in {"start", "correct"} : At(j, "commit")' => cmd'[j].tree \in Content
  BY CommandGoes DEF IInv, Kinds
<1> QED BY <1>1 DEF IInv, Typed, Proven, Is, Current, Seen, Untouched

LEMMA CheckReadKeeps ==
  ASSUME IInv, CheckRead
  PROVE  IInv'
<1> DEFINE c(closing) == [Idle EXCEPT !.at = "run", !.closing = closing,
                            !.saw = IF reviews = << >> THEN None ELSE Current.at]
<1>1. PICK closing \in BOOLEAN : Become("check", c(closing))
  BY DEF CheckRead
<1>2. c(closing) \in Command
  BY LinOf DEF IInv, Idle, Command
<1>3. c(closing).at = "run" /\ c(closing).saw = IF reviews = << >> THEN None ELSE Last(reviews).at
  BY DEF Idle, Current
<1> HIDE DEF c
<1>4. SeenBy(c(closing), reviews, code, checked)
  BY <1>3 DEF SeenBy
<1> QED BY <1>1, <1>2, <1>4, CheckGoes DEF CheckRead

LEMMA CheckRunKeeps ==
  ASSUME ConstantsOK, IInv, CheckRun
  PROVE  IInv'
<1> DEFINE b == cmd["check"]
           c == [b EXCEPT !.at = "outcome", !.tree = code]
<1>1. b \in Command /\ b.at = "run" /\ Become("check", c) /\ SeenBy(b, reviews, code, checked)
      /\ code \in Content
  BY DEF CheckRun, At, IInv, Typed, Seen, Kinds
<1> HIDE DEF b
<1>2. /\ c \in Command /\ c.at = "outcome" /\ c.tree = code /\ c.saw = b.saw /\ c.quiet = b.quiet
  BY <1>1 DEF Command
<1> HIDE DEF c
<1>3. SeenBy(c, reviews, code, checked)
  BY <1>1, <1>2 DEF SeenBy, Content, ConstantsOK
<1> QED BY <1>1, <1>2, <1>3, CheckGoes DEF CheckRun

LEMMA CheckOutcomeKeeps ==
  ASSUME ConstantsOK, IInv, CheckOutcome
  PROVE  IInv'
<1> DEFINE b == cmd["check"]
           changed == b.saw # None /\ b.saw # code
           c == [b EXCEPT !.at = "commit", !.changed = changed]
<1>1. b \in Command /\ b.at = "outcome" /\ Become("check", c) /\ SeenBy(b, reviews, code, checked)
      /\ code \in Content
  BY DEF CheckOutcome, At, IInv, Typed, Seen, Kinds
<1>2. reviews # << >> => Last(reviews).at \in Content /\ Last(reviews).at # None
  BY LinOf DEF IInv, Current, ConstantsOK
<1> HIDE DEF b
<1>3. /\ c \in Command /\ c.at = "commit" /\ c.tree = b.tree /\ c.saw = b.saw /\ c.quiet = b.quiet
      /\ c.changed <=> b.saw # None /\ b.saw # code
  BY <1>1 DEF Command
<1> HIDE DEF c
<1>4. SeenBy(c, reviews, code, checked)
  BY <1>1, <1>2, <1>3 DEF SeenBy
<1> QED BY <1>1, <1>3, <1>4, CheckGoes DEF CheckOutcome, c

LEMMA CheckCommitKeeps ==
  ASSUME ConstantsOK, IInv, CheckCommit
  PROVE  IInv'
<1> DEFINE b == cmd["check"]
           ready == ob' = "satisfied" /\ ~asked' /\ checked' # None
           d == IF b.closing /\ ~closed /\ ready THEN [b EXCEPT !.at = "close"] ELSE Idle
<1>1. b \in Command /\ b.at = "commit" /\ Become("check", d) /\ SeenBy(b, reviews, code, checked)
      /\ b.tree \in Content /\ b.tree <= code
  <2>1. b \in Command /\ b.at = "commit" /\ Become("check", d) /\ SeenBy(b, reviews, code, checked)
    BY DEF CheckCommit, At, IInv, Typed, Seen, Kinds
  <2> QED BY <2>1 DEF SeenBy
<1>2. UNCHANGED <<code, reviews, answers, closed, restores>>
  BY DEF CheckCommit
<1>3. /\ ob' \in {"pending", "satisfied"} /\ asked' \in BOOLEAN /\ proof' \in 0 .. Len(reviews)
      /\ checked' \in Content \union {None}
      /\ ob' = "satisfied" => proof' = Len(reviews) /\ Is("approved")
      /\ ob' = "satisfied" /\ ~closed => ~b.changed /\ checked' \in {b.tree, None}
  <2>0. Len(reviews) \in Nat
    BY DEF IInv, Typed
  <2>1. CASE closed
    BY <2>0, <2>1 DEF CheckCommit, IInv, Typed, Proven
  <2>2. CASE ~closed
    <3>1. SettleReviewFreshness(b.changed) /\ checked' \in {b.tree, None}
      BY <2>2 DEF CheckCommit
    <3>2. asked' \in BOOLEAN
      BY <3>1 DEF SettleReviewFreshness, IInv, Typed
    <3>3. CASE ob = "satisfied" /\ b.changed
      <4>1. ob' = "pending" /\ proof' = 0
        BY <3>1, <3>3 DEF SettleReviewFreshness
      <4> QED BY <1>1, <2>0, <3>1, <3>2, <4>1
    <3>4. CASE ~(ob = "satisfied" /\ b.changed) /\ ob = "pending" /\ ~b.changed /\ Is("approved")
      <4>1. ob' = "satisfied" /\ proof' = Len(reviews)
        BY <3>1, <3>4 DEF SettleReviewFreshness, Approved
      <4> QED BY <1>1, <2>0, <3>1, <3>2, <3>4, <4>1
    <3>5. CASE ~(ob = "satisfied" /\ b.changed) /\ ~(ob = "pending" /\ ~b.changed /\ Is("approved"))
      <4>1. ob' = ob /\ proof' = proof
        BY <3>1, <3>5 DEF SettleReviewFreshness
      <4> QED BY <1>1, <2>0, <3>1, <3>2, <3>5, <4>1 DEF IInv, Typed, Proven
    <3> QED BY <3>3, <3>4, <3>5
  <2> QED BY <2>1, <2>2
<1> HIDE DEF b
<1>4. d \in Command /\ SeenBy(d, reviews, code, checked')
  <2>1. CASE b.closing /\ ~closed /\ ready
    <3>1. d = [b EXCEPT !.at = "close"]
      BY <2>1
    <3> HIDE DEF d
    <3>2. /\ d \in Command /\ d.at = "close" /\ d.tree = b.tree /\ d.saw = b.saw
          /\ d.quiet = b.quiet /\ d.changed = b.changed
      BY <1>1, <3>1 DEF Command
    <3>3. ~b.changed /\ checked' = b.tree
      BY <1>3, <2>1
    <3> QED BY <1>1, <3>2, <3>3 DEF SeenBy
  <2>2. CASE ~(b.closing /\ ~closed /\ ready)
    <3>1. d = Idle
      BY <2>2
    <3> HIDE DEF d
    <3> QED BY <3>1 DEF Idle, Command, SeenBy
  <2> QED BY <2>1, <2>2
<1> HIDE DEF d
<1>5. /\ cmd' \in [Kinds -> Command] /\ cmd'["check"] = d
      /\ \A j \in {"start", "correct"} : At(j, "commit")' => cmd'[j].tree \in Content
  BY <1>1, <1>4, CommandGoes DEF IInv, Kinds
<1>6. Typed'
  BY <1>2, <1>3, <1>5 DEF IInv, Typed
<1>7. Proven' /\ Seen'
  BY <1>2, <1>3, <1>4, <1>5 DEF Proven, Is, Current, Seen
<1> QED BY <1>6, <1>7 DEF IInv

LEMMA CloseCheckedKeeps ==
  ASSUME IInv, CloseChecked
  PROVE  IInv'
<1>1. Idle \in Command /\ Become("check", Idle) /\ SeenBy(Idle, reviews, code, checked)
  BY DEF CloseChecked, Idle, Command, SeenBy
<1>2. /\ cmd' \in [Kinds -> Command] /\ cmd'["check"] = Idle
      /\ \A j \in {"start", "correct"} : At(j, "commit")' => cmd'[j].tree \in Content
  BY <1>1, CommandGoes DEF IInv, Kinds
<1>3. /\ UNCHANGED <<code, reviews, ob, proof, asked, answers, checked, restores>>
      /\ closed' \in BOOLEAN
  BY DEF CloseChecked, IInv, Typed
<1> QED BY <1>1, <1>2, <1>3 DEF IInv, Typed, Proven, Is, Current, Seen

\* The author goes on while commands run, and back only while none does.
LEMMA AuthorKeeps ==
  ASSUME ConstantsOK, IInv, Edit \/ Restore
  PROVE  IInv'
<1>1. UNCHANGED <<reviews, ob, proof, asked, answers, checked, closed, cmd>>
  BY DEF Edit, Restore
<1>2. cmd["check"] \in Command /\ SeenBy(cmd["check"], reviews, code, checked) /\ code \in Content
  BY DEF IInv, Typed, Seen, Kinds
<1>3. code' \in Content /\ SeenBy(cmd["check"], reviews, code', checked)
  <2>1. CASE Edit
    <3>1. code' \in Content /\ code < code'
      BY <1>2, <2>1 DEF Edit, Content, ConstantsOK
    <3>2. ASSUME cmd["check"].tree \in Content, cmd["check"].tree <= code
          PROVE  cmd["check"].tree <= code' /\ cmd["check"].tree # code'
      BY <1>2, <3>1, <3>2 DEF Content, ConstantsOK
    <3> QED BY <1>2, <3>1, <3>2 DEF SeenBy
  <2>2. CASE Restore
    <3>1. cmd["check"].at = "idle"
      BY <2>2 DEF Restore, At, IInv, Typed, Kinds
    <3>2. code' = Current.at /\ reviews # << >>
      BY <2>2 DEF Restore, Is
    <3>3. code' \in Content
      BY <3>2, LinOf DEF IInv
    <3> QED BY <3>1, <3>3 DEF SeenBy
  <2> QED BY <2>1, <2>2
<1> QED BY <1>1, <1>3 DEF IInv, Typed, Proven, Is, Current, Seen, At

LEMMA Initially == ASSUME ConstantsOK, Init PROVE IInv
<1>1. cmd \in [Kinds -> Command] /\ cmd = [k \in Kinds |-> Idle]
  BY DEF Init, Kinds, Idle, Command
<1>2. /\ code \in Content /\ reviews \in Seq(Review) /\ Len(reviews) = 0
      /\ \A k \in Kinds : cmd[k].at = "idle"
  BY <1>1 DEF Init, Content, ConstantsOK, Idle
<1>3. Typed
  <2>1. \A k \in {"start", "correct"} : ~ At(k, "commit")
    BY <1>2 DEF At, Kinds
  <2>2. proof \in 0 .. Len(reviews)
    BY <1>2 DEF Init
  <2>3. code \in Content /\ reviews \in Seq(Review) /\ cmd \in [Kinds -> Command]
    BY <1>1, <1>2
  <2>4. ob = "pending" /\ checked = None /\ closed = FALSE /\ asked = FALSE
    BY DEF Init
  <2> QED BY ONLY <2>1, <2>2, <2>3, <2>4 DEF Typed
<1> QED BY <1>2, <1>3 DEF Init, IInv, Proven, Seen, SeenBy, Kinds

LEMMA Preserved == ASSUME ConstantsOK, IInv, [Next]_vars PROVE IInv'
<1>1. CASE StartCommit \/ CorrectCommit \/ RecordFindings \/ ValidateCorrection
  BY <1>1, StartKeeps, CorrectKeeps, RecordKeeps, ValidateKeeps
<1>2. CASE StartRead \/ CorrectRead
  BY <1>2, ReadKeeps
<1>3. CASE CheckRead \/ CheckRun \/ CheckOutcome \/ CheckCommit \/ CloseChecked
  BY <1>3, CheckReadKeeps, CheckRunKeeps, CheckOutcomeKeeps, CheckCommitKeeps, CloseCheckedKeeps
<1>4. CASE Close \/ Authorize
  <2>1. /\ UNCHANGED <<code, reviews, ob, proof, checked, cmd>>
        /\ asked' \in BOOLEAN /\ closed' \in BOOLEAN
    BY <1>4 DEF Close, Authorize, IInv, Typed
  <2> QED BY <2>1 DEF IInv, Typed, Proven, Is, Current, Seen, At
<1>5. CASE Edit \/ Restore
  BY <1>5, AuthorKeeps
<1>6. CASE UNCHANGED vars
  BY <1>6 DEF vars, IInv, Typed, Proven, Is, Current, Seen, At
<1> QED BY <1>1, <1>2, <1>3, <1>4, <1>5, <1>6 DEF Next

LEMMA Inductive == ASSUME ConstantsOK PROVE Spec => []IInv
<1>1. Init => IInv
  BY Initially
<1>2. IInv /\ [Next]_vars => IInv'
  BY Preserved
<1> QED BY <1>1, <1>2, PTL DEF Spec

-----------------------------------------------------------------------------
(* What follows from it                                                    *)

\* The trees, reviews and commands have their types.
THEOREM TypeCorrect == ASSUME ConstantsOK PROVE Spec => []TypeOK
<1>1. ASSUME IInv PROVE TypeOK
  <2>1. reviews \in Seq(Review)
    BY <1>1 DEF IInv, Typed
  <2>2. \A i \in 1 .. Len(reviews) : reviews[i] \in Review
    BY <2>1
  <2>3. \A i \in 1 .. Len(reviews) :
          /\ reviews[i].of \in Content /\ reviews[i].at \in Content
          /\ reviews[i].lin.status \in Status
    BY <2>2 DEF Review, Lines
  <2> QED BY <1>1, <2>3 DEF IInv, Typed, TypeOK
<1> QED BY <1>1, Inductive, PTL

\* trust-review is satisfied only by the approval of the last review, with nothing
\* left unresolved.
THEOREM ApprovalIsCurrent == ASSUME ConstantsOK PROVE Spec => []SatisfiedByApproval
<1>1. ASSUME IInv PROVE SatisfiedByApproval
  <2>1. SUFFICES ASSUME ob = "satisfied"
                 PROVE  proof = Len(reviews) /\ Is("approved") /\ Current.lin.unresolved = {}
    BY DEF SatisfiedByApproval
  <2>2. proof = Len(reviews) /\ Is("approved")
    BY <1>1, <2>1 DEF IInv, Proven
  <2>3. reviews # << >> /\ Current.lin.status = "approved"
    BY <2>2 DEF Is
  <2>4. Good(Current.lin)
    BY <1>1, <2>3, LinOf DEF IInv
  <2> QED BY <2>2, <2>3, <2>4 DEF Good
<1> QED BY <1>1, Inductive, PTL

\* A check that closes closes the code its review approved, whatever the author edits
\* between its reads.
THEOREM ClosesWhatWasReviewed == ASSUME ConstantsOK PROVE Spec => CheckedCloseReviewed
<1>1. ASSUME IInv, [Next]_vars, At("check", "close"), cmd["check"].quiet, closed', ~closed
      PROVE  Current.at = code
  <2>1. CanClose
    <3>1. CASE Close \/ CloseChecked
      BY <1>1, <3>1 DEF Close, CloseChecked
    <3>2. CASE ~Close /\ ~CloseChecked
      <4>1. closed' = closed
        BY <1>1, <3>2 DEF Next, vars, StartRead, StartCommit, RecordFindings, CorrectRead, CorrectCommit,
             ValidateCorrection, CheckRead, CheckRun, CheckOutcome, CheckCommit, Untouched, Authorize,
             Edit, Restore
      <4> QED BY <1>1, <4>1
    <3> QED BY <3>1, <3>2
  <2>2. checked = code /\ ob = "satisfied"
    BY <2>1 DEF CanClose
  <2>3. reviews # << >>
    BY <1>1, <2>2 DEF IInv, Proven, Is
  <2> QED BY <1>1, <2>2, <2>3 DEF IInv, Seen, SeenBy, At, Current
<1>2. IInv /\ [Next]_vars =>
        [At("check", "close") /\ cmd["check"].quiet /\ closed' /\ ~closed => Current.at = code]_vars
  BY <1>1
<1> QED BY <1>2, Inductive, PTL DEF Spec, CheckedCloseReviewed

=============================================================================
