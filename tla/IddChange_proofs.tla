-------------------------- MODULE IddChange_proofs --------------------------
(***************************************************************************)
(* Proofs about a change, its tree, its configuration and the commands in  *)
(* flight, for any diffs, references, operations and processes.            *)
(*                                                                         *)
(* The reducers come first: what each does to the type of the state, to    *)
(* the answers of the user and to the obligations of the signals (Steady), *)
(* and to what the evidence claims (Upholds, Keeps). A step of the system  *)
(* is one of them applied to the state there is now with what a command    *)
(* read before, so an invariant about a command in flight says what was    *)
(* true when it read (Validated, Witnessed, Cleared).                      *)
(***************************************************************************)
EXTENDS IddChange, TLAPS

LEMMA ObligationOfType == obligationOf \in [Signal -> Obligation]
  BY DEF obligationOf, Signal, Obligation

LEMMA ChecksType ==
  /\ \A c \in Config : c.checks \in Checks /\ c.strict \in BOOLEAN
  /\ BaseConfig \in Config
  BY IddAssumption DEF Checks

LEMMA NoProofType == NoProof \in Proof
  BY IddAssumption, ChecksType DEF NoProof, Proof, Version

LEMMA NoStateType == NoState \in State
  BY NoProofType DEF NoState, State, Kind

LEMMA AddSignalsType ==
  ASSUME NEW s \in State, NEW xs \in SUBSET Signal
  PROVE  AddSignals(s, xs) \in State
<1>1. s.signals \union xs \in SUBSET Signal
  BY DEF State
<1>2. [o \in Obligation |->
               IF ~Active(s, o) /\ \E x \in xs \ s.signals : obligationOf[x] = o
                 THEN "pending" ELSE s.ob[o]]
        \in [Obligation -> {"none", "pending", "satisfied", "withdrawn"}]
  BY DEF State
<1> QED
  BY <1>1, <1>2 DEF AddSignals, State

LEMMA OpenOpsType ==
  ASSUME NEW s \in State, NEW ops \in SUBSET Op
  PROVE  OpenOps(s, ops) \in State
<1>1. s.irr \in [Op \union {Unnamed} -> {"never", "open", "answered"}]
  BY DEF State
<1>2. DOMAIN s.irr = Op \union {Unnamed}
  BY <1>1
<1> QED
  BY <1>1, <1>2 DEF OpenOps, State

LEMMA OpenUnnamedType ==
  ASSUME NEW s \in State
  PROVE  OpenUnnamed(s) \in State
<1>1. s.irr \in [Op \union {Unnamed} -> {"never", "open", "answered"}]
  BY DEF State
<1>2. [s.irr EXCEPT ![Unnamed] = "open"] \in [Op \union {Unnamed} -> {"never", "open", "answered"}]
  BY <1>1
<1>3. [s EXCEPT !.irr[Unnamed] = "open"] = [s EXCEPT !.irr = [s.irr EXCEPT ![Unnamed] = "open"]]
  BY DEF State
<1> QED
  BY <1>1, <1>2, <1>3 DEF OpenUnnamed, State

LEMMA SetObligationType ==
  ASSUME NEW s \in State, NEW o \in Obligation,
         NEW v \in {"none", "pending", "satisfied", "withdrawn"}, NEW e \in Proof
  PROVE  /\ [s EXCEPT !.ob[o] = v, !.proof[o] = e] \in State
         /\ [s EXCEPT !.ob[o] = v] \in State
<1>1. [s.ob EXCEPT ![o] = v] \in [Obligation -> {"none", "pending", "satisfied", "withdrawn"}]
  BY DEF State
<1>2. [s.proof EXCEPT ![o] = e] \in [Obligation -> Proof]
  BY DEF State
<1> QED
  BY <1>1, <1>2 DEF State

LEMMA RecordReferencesType ==
  ASSUME NEW s \in State, NEW refs \in SUBSET Ref
  PROVE  RecordReferences(s, refs) \in State
<1> DEFINE missing == refs \ Declared(s)
           added == [s EXCEPT !.impacts = [r \in Ref |-> IF r \in missing THEN "unset" ELSE s.impacts[r]]]
<1>1. added \in State
  BY DEF State
<1>2. Reopen(added, "adr-impact-declaration") \in State
  BY <1>1, SetObligationType, NoProofType DEF Reopen, Obligation
<1> QED
  BY <1>1, <1>2 DEF RecordReferences

LEMMA DeriveType ==
  ASSUME NEW s \in State, NEW d \in DiffRecord, NEW strict, NEW decl \in Declaration
  PROVE  Derive(s, d, strict, decl) \in Declaration
<1>1. DiffSignals(s, d) \in SUBSET Signal
  BY DEF DiffSignals, DiffRecord, Signal, ByContent
<1> QED
  BY <1>1 DEF Derive, Declaration, DiffRecord, Signal

LEMMA ApplyDerivationType ==
  ASSUME NEW s \in State, NEW d \in Declaration
  PROVE  ApplyDerivation(s, d) \in State
<1>1. d.signals \in SUBSET Signal /\ d.ops \in SUBSET Op /\ d.refs \in SUBSET Ref
  BY DEF Declaration
<1>2. AddSignals(s, d.signals) \in State
  BY <1>1, AddSignalsType
<1>3. OpenOps(AddSignals(s, d.signals), d.ops) \in State
  BY <1>1, <1>2, OpenOpsType
<1> QED
  BY <1>1, <1>3, RecordReferencesType DEF ApplyDerivation

LEMMA ReopenDerivedType ==
  ASSUME NEW s \in State
  PROVE  ReopenDerived(s) \in State
  BY NoProofType DEF ReopenDerived, State

LEMMA SettleChecksChangeType ==
  ASSUME NEW s \in State, NEW c \in Config
  PROVE  SettleChecksChange(s, c) \in State
  BY DEF SettleChecksChange, State

LEMMA SettleType ==
  ASSUME NEW s \in State, NEW o \in Obligation, NEW holds, NEW e \in Proof
  PROVE  Settle(s, o, holds, e) \in State
  BY SetObligationType, NoProofType DEF Settle, Reopen

LEMMA ObservedType ==
  ASSUME NEW c \in Command, NEW fitness \in SUBSET Ref, NEW free \in BOOLEAN
  PROVE  Observed(c, fitness, free) \in Proof
<1>1. c.after \in Fingerprint
  BY DEF Command
<1> QED
  BY <1>1 DEF Observed, Proof, Fingerprint

LEMMA ProductFreePairsType ==
  ASSUME NEW s \in State, NEW d \in DiffRecord
  PROVE  SettleProductFreePairs(s, d) \in State
  BY NoProofType DEF SettleProductFreePairs, State

LEMMA TreeBoundType ==
  ASSUME NEW s \in State, NEW t
  PROVE  SettleTreeBound(s, t) \in State
  BY SetObligationType, NoProofType DEF SettleTreeBound, Reopen, Obligation

LEMMA CheckPartsType ==
  ASSUME NEW s \in State, NEW c \in Command, NEW checked
  PROVE  /\ SettleChecks(s, c) \in State
         /\ SettleBoundary(s, c) \in State
         /\ SettleContract(s, c, checked) \in State
         /\ SettleImpacts(s, c) \in State
         /\ DeferImpacts(s, c) \in State
<1>1. c.plan \in SUBSET Ref
  BY DEF Command
<1>2. /\ Observed(c, {}, FALSE) \in Proof
      /\ Observed(c, {}, c.cp = "free") \in Proof
      /\ Observed(c, c.plan, FALSE) \in Proof
  BY <1>1, ObservedType
<1>3. SettleChecks(s, c) \in State
  BY <1>2, SettleType DEF SettleChecks, Obligation
<1>4. SettleBoundary(s, c) \in State
  BY <1>2, SettleType DEF SettleBoundary, Obligation
<1>5. SettleContract(s, c, checked) \in State
  BY <1>2, SettleType DEF SettleContract, Obligation
<1>6. SettleImpacts(s, c) \in State
  BY <1>2, NoProofType, SettleType DEF SettleImpacts, Obligation
<1>7. DeferImpacts(s, c) \in State
  BY NoProofType, SetObligationType DEF DeferImpacts, Reopen, Obligation
<1> QED
  BY <1>3, <1>4, <1>5, <1>6, <1>7

LEMMA SettleCheckType ==
  ASSUME NEW s \in State, NEW c \in Command
  PROVE  SettleCheck(s, c) \in State
<1> DEFINE derived == ApplyDerivation(s, Derive(s, c.diff, c.cfg.strict, NoDeclaration))
           gated   == SettleChecksChange(ReopenDerived(derived), c.cfg)
           checked == SettleChecks(gated, c)
           tested  == SettleBoundary(checked, c)
           bound   == SettleTreeBound(SettleProductFreePairs(tested, c.diff), c.after.tree)
<1>1. c.diff \in DiffRecord /\ c.cfg \in Config
  BY DEF Command
<1>2. NoDeclaration \in Declaration
  BY DEF NoDeclaration, Declaration
<1>3. derived \in State
  BY <1>1, <1>2, DeriveType, ApplyDerivationType
<1>4. gated \in State
  BY <1>1, <1>3, ReopenDerivedType, SettleChecksChangeType
<1>5. tested \in State
  BY <1>4, CheckPartsType
<1>6. bound \in State
  BY <1>1, <1>5, ProductFreePairsType, TreeBoundType
<1> HIDE DEF bound, gated
<1>7. SettleContract(bound, c, ChecksHold(c) /\ Active(gated, "checks-pass")) \in State
  BY <1>6, CheckPartsType
<1> QED
  BY <1>7, CheckPartsType DEF SettleCheck, bound, gated

LEMMA RecordRunType ==
  ASSUME NEW s \in State, NEW o \in Runnable, NEW v \in Version
  PROVE  [s EXCEPT !.red[o] = @ \union {v}] \in State
<1>1. [s.red EXCEPT ![o] = s.red[o] \union {v}] \in [Runnable -> SUBSET Version]
  BY DEF State
<1> QED
  BY <1>1 DEF State

LEMMA SettleRunType ==
  ASSUME NEW s \in State, NEW c \in Command
  PROVE  SettleRun(s, c) \in State
<1> DEFINE ran == IF c.ok THEN s ELSE [s EXCEPT !.red[c.ob] = @ \union {c.before.tree}]
           evidence == [tree |-> c.before.tree, checks |-> c.before.checks,
                        fitness |-> {}, free |-> c.cp = "free"]
<1>1. c.ob \in Runnable /\ c.ob \in Obligation /\ c.before \in Fingerprint
  BY DEF Command, Runnable, Pairs, Obligation
<1>2. ran \in State
  BY <1>1, RecordRunType DEF Fingerprint
<1>3. evidence \in Proof
  BY <1>1 DEF Proof, Fingerprint
<1>4. Settle(ran, c.ob, c.ok, evidence) \in State
  BY <1>1, <1>2, <1>3, SettleType
<1>5. [s EXCEPT !.ob[c.ob] = "satisfied", !.proof[c.ob] = evidence] \in State
  BY <1>1, <1>3, SetObligationType
<1> QED
  BY <1>2, <1>4, <1>5 DEF SettleRun

LEMMA CloseType ==
  ASSUME NEW s \in State
  PROVE  CloseChange(s) \in State
<1>1. [s.ob EXCEPT !["living-doc"] = IF @ = "pending" THEN "satisfied" ELSE @]
         \in [Obligation -> {"none", "pending", "satisfied", "withdrawn"}]
  BY DEF State
<1> QED
  BY <1>1 DEF CloseChange, State

-----------------------------------------------------------------------------

LEMMA DiffsType ==
  /\ NoDiff \in DiffRecord
  /\ \A v \in Version : Diff[v] \in DiffRecord /\ OtherDiffs[v] \subseteq DiffRecord
  BY IddAssumption DEF NoDiff, DiffRecord

LEMMA IdleType == Idle \in Command
<1>1. NoDeclaration \in Declaration /\ [tree |-> 0, checks |-> BaseConfig.checks] \in Fingerprint
  BY ChecksType, IddAssumption DEF NoDeclaration, Declaration, Fingerprint, Version
<1> QED
  BY <1>1, DiffsType, ChecksType, NoStateType DEF Idle, Command, Runnable, Pairs

LEMMA InputsType ==
  ASSUME TypeOK, NEW c \in Command, NEW d \in DiffRecord
  PROVE  Inputs(c, d) \in Command
<1> DEFINE preview == ApplyDerivation(st, Derive(st, d, cfg.strict, NoDeclaration))
<1>1. NoDeclaration \in Declaration
  BY DEF NoDeclaration, Declaration
<1>2. FitnessPlan(preview) \in SUBSET Ref
  BY DEF FitnessPlan, Declared
<1>3. Active(st, "boundary-tests") \in BOOLEAN /\ st.records \in SUBSET Ref /\ cfg \in Config
  BY DEF TypeOK, State, Active
<1> HIDE DEF preview
<1> QED
  BY <1>2, <1>3 DEF Inputs, Command, preview

LEMMA WithPlanType ==
  ASSUME NEW s \in State, NEW t \in WithPlan(s)
  PROVE  t \in State
<1>1. ASSUME NEW decl \in Declarations
      PROVE  ApplyDerivation(s, Derive(s, NoDiff, cfg.strict, decl)) \in State
  BY ChangeAssumption, DiffsType, DeriveType, ApplyDerivationType
<1> QED
  BY <1>1 DEF WithPlan

LEMMA RecordType ==
  ASSUME TypeOK, Record
  PROVE  TypeOK'
<1> USE DEF TypeOK
<1>0. ASSUME NEW s \in State, Write(s)
      PROVE  TypeOK'
  BY <1>0 DEF Write
<1>1. ASSUME NEW kind \in Kinds, NEW asks \in {FALSE, "open-facts" \in UserGates},
             OpenChange(kind, asks) \/ ResolveIntent(kind, asks) \/ RaiseIntent(kind, asks)
      PROVE  TypeOK'
  <2>1. kind \in Kind
    BY <1>1, ChangeAssumption
  <2>2. [st EXCEPT !.status = "open", !.kind = kind, !.facts = IF asks THEN "open" ELSE "none"] \in State
    BY <2>1 DEF State
  <2>3. [st EXCEPT !.kind = kind, !.facts = IF asks THEN "open" ELSE "none"] \in State
    BY <2>1 DEF State
  <2>4. [st EXCEPT !.kind = kind, !.facts = IF asks THEN "open" ELSE @] \in State
    BY <2>1 DEF State
  <2>5. {"always"} \in SUBSET Signal
    BY DEF Signal
  <2>6. CASE OpenChange(kind, asks)
    <3>1. PICK s \in WithPlan(AddSignals([st EXCEPT !.status = "open", !.kind = kind,
                                 !.facts = IF asks THEN "open" ELSE "none"], {"always"})) : Write(s)
      BY <2>6 DEF OpenChange
    <3> QED
      BY <1>0, <2>2, <2>5, <3>1, AddSignalsType, WithPlanType
  <2>7. CASE ResolveIntent(kind, asks)
    <3>1. PICK s \in WithPlan(AddSignals([st EXCEPT !.kind = kind,
                                 !.facts = IF asks THEN "open" ELSE "none"], {"always"})) : Write(s)
      BY <2>7 DEF ResolveIntent
    <3> QED
      BY <1>0, <2>3, <2>5, <3>1, AddSignalsType, WithPlanType
  <2>8. CASE RaiseIntent(kind, asks)
    <3>1. PICK s \in WithPlan([st EXCEPT !.kind = kind, !.facts = IF asks THEN "open" ELSE @]) : Write(s)
      BY <2>8 DEF RaiseIntent
    <3> QED
      BY <1>0, <2>4, <3>1, WithPlanType
  <2> QED
    BY <1>1, <2>6, <2>7, <2>8
<1>2. CASE OpenAmbiguous
  <2>1. [st EXCEPT !.status = "open"] \in State
    BY DEF State
  <2> QED
    BY <1>0, <1>2, <2>1 DEF OpenAmbiguous
<1>3. ASSUME NEW decl \in Declarations, NEW x \in decl.signals, RecordSignal(x)
      PROVE  TypeOK'
  <2>1. {x} \in SUBSET Signal
    BY ChangeAssumption DEF Declaration
  <2> QED
    BY <1>0, <1>3, <2>1, AddSignalsType DEF RecordSignal
<1>4. ASSUME NEW o \in Op \union {Unnamed}, OpenOperation(o)
      PROVE  TypeOK'
  <2>1. CASE o = Unnamed
    BY <1>0, <1>4, <2>1, OpenUnnamedType DEF OpenOperation
  <2>2. CASE o # Unnamed
    <3>1. {o} \in SUBSET Op
      BY <2>2
    <3> QED
      BY <1>0, <1>4, <2>2, <3>1, OpenOpsType DEF OpenOperation
  <2> QED
    BY <2>1, <2>2
<1>5. CASE OpenAdrGate
  <2>1. [st EXCEPT !.adr = "open"] \in State
    BY DEF State
  <2> QED
    BY <1>0, <1>5, <2>1 DEF OpenAdrGate
<1>6. CASE ResolveFacts
  <2>1. [st EXCEPT !.facts = "resolved"] \in State
    BY DEF State
  <2> QED
    BY <1>0, <1>6, <2>1 DEF ResolveFacts
<1>7. CASE ResolveOperations
  <2>1. DOMAIN st.irr = Op \union {Unnamed}
    BY DEF State
  <2>2. [st EXCEPT !.irr = [o \in DOMAIN st.irr |->
                              IF st.irr[o] = "open" THEN "answered" ELSE st.irr[o]]] \in State
    BY <2>1 DEF State
  <2> QED
    BY <1>0, <1>7, <2>2 DEF ResolveOperations
<1>8. CASE ResolveAdrGate
  <2>1. [st EXCEPT !.adr = "resolved"] \in State
    BY DEF State
  <2> QED
    BY <1>0, <1>8, <2>1 DEF ResolveAdrGate
<1>9. CASE ResolveChecksChanged
  <2>1. st.ckOpen \in Config
    BY <1>9 DEF ResolveChecksChanged, State
  <2>2. [st EXCEPT !.approved = @ \union {st.ckOpen}, !.ckOpen = NoConfig] \in State
    BY <2>1 DEF State
  <2> QED
    BY <1>0, <1>9, <2>2 DEF ResolveChecksChanged
<1>10. ASSUME NEW o \in Obligation, Withdraw(o)
       PROVE  TypeOK'
  <2>1. [st EXCEPT !.ob[o] = "withdrawn"] \in State
    BY SetObligationType, NoProofType
  <2> QED
    BY <1>0, <1>10, <2>1 DEF Withdraw
<1>11. ASSUME NEW x \in Retractable, NEW answered \in BOOLEAN, Retract(x, answered)
       PROVE  TypeOK'
  <2> DEFINE o == obligationOf[x]
             hits == Diff[tree].hits[x]
             ob == [st.ob EXCEPT ![o] = IF st.ob[o] = "pending" THEN "withdrawn" ELSE st.ob[o]]
             retracted == IF answered THEN st.retracted \union {hits} ELSE st.retracted
  <2>1. o \in Obligation
    BY ObligationOfType DEF Retractable, Signal
  <2>2. ob \in [Obligation -> {"none", "pending", "satisfied", "withdrawn"}]
    BY <2>1 DEF State
  <2>3. answered => x \in ByContent
    BY <1>11 DEF Retract
  <2>4. retracted \in SUBSET SUBSET Hit
    BY <2>3, DiffsType DEF State, DiffRecord
  <2>5. [st EXCEPT !.signals = @ \ {x}, !.ob = ob, !.retracted = retracted] \in State
    BY <2>2, <2>4 DEF State
  <2>6. st' = [st EXCEPT !.signals = @ \ {x}, !.ob = ob, !.retracted = retracted]
    BY <1>11 DEF Retract, Write, State
  <2> QED
    BY <1>0, <1>11, <2>5, <2>6 DEF Retract, Write
<1>12. ASSUME NEW r \in Ref, AttachRecord(r)
       PROVE  TypeOK'
  <2>1. [st EXCEPT !.records = @ \union {r}] \in State
    BY DEF State
  <2> QED
    BY <1>0, <1>12, <2>1 DEF AttachRecord
<1>13. ASSUME NEW r \in Ref, NEW i \in Impact, DeclareImpact(r, i)
       PROVE  TypeOK'
  <2>1. [st.impacts EXCEPT ![r] = i] \in [Ref -> {"absent", "unset"} \union Impact]
    BY DEF State
  <2>2. [st EXCEPT !.impacts[r] = i, !.adr = IF i \in {"amends", "contradicts"} THEN "open" ELSE @] \in State
    BY <2>1 DEF State
  <2> QED
    BY <1>0, <1>13, <2>2 DEF DeclareImpact
<1> QED
  BY <1>1, <1>2, <1>3, <1>4, <1>5, <1>6, <1>7, <1>8, <1>9, <1>10, <1>11, <1>12, <1>13 DEF Record

LEMMA CommandType ==
  ASSUME TypeOK, NEW p \in Proc, Commands(p)
  PROVE  TypeOK'
<1> USE DEF TypeOK
<1>0. ASSUME NEW c \in Command, NEW s \in State, Become(p, c), st' = s
      PROVE  TypeOK'
  BY <1>0 DEF Become
<1>a. /\ cmd[p] \in Command /\ Diff[tree] \in DiffRecord
      /\ FingerprintOf(cfg.checks) \in Fingerprint
      /\ FingerprintOf(cmd[p].cfg.checks) \in Fingerprint
  BY DiffsType, ChecksType DEF FingerprintOf, Fingerprint, Command
<1>b. NoDeclaration \in Declaration
  BY DEF NoDeclaration, Declaration
<1>1. ASSUME NEW decl \in Declarations, SignalsRead(p, decl)
      PROVE  TypeOK'
  <2>1. PICK d \in {NoDiff, Diff[tree]} :
          Become(p, [Idle EXCEPT !.op = "signals", !.at = "settle",
                                 !.diff = d, !.cfg = cfg, !.decl = decl])
    BY <1>1 DEF SignalsRead
  <2>2. d \in DiffRecord /\ decl \in Declaration
    BY <1>a, DiffsType, ChangeAssumption
  <2>3. [Idle EXCEPT !.op = "signals", !.at = "settle",
                     !.diff = d, !.cfg = cfg, !.decl = decl] \in Command
    BY <2>2, IdleType DEF Command
  <2> QED
    BY <1>0, <1>1, <2>1, <2>3 DEF SignalsRead
<1>2. CASE SignalsCommit(p)
  <2>1. cmd[p].diff \in DiffRecord /\ cmd[p].decl \in Declaration
    BY <1>a DEF Command
  <2>2. ApplyDerivation(st, Derive(st, cmd[p].diff, cmd[p].cfg.strict, cmd[p].decl)) \in State
    BY <2>1, DeriveType, ApplyDerivationType
  <2> QED
    BY <1>0, <1>2, <2>2, IdleType DEF SignalsCommit, EndWith
<1>3. CASE CheckRead(p)
  <2>1. PICK d \in {Diff[tree]} \union OtherDiffs[tree] :
          Become(p, [Inputs(Idle, d) EXCEPT
                       !.op = "check", !.at = IF ChecksApproved(st, cfg) THEN "fingerprint" ELSE "await"])
    BY <1>3 DEF CheckRead
  <2>2. Inputs(Idle, d) \in Command
    BY <1>a, DiffsType, IdleType, InputsType
  <2>3. [Inputs(Idle, d) EXCEPT
           !.op = "check", !.at = IF ChecksApproved(st, cfg) THEN "fingerprint" ELSE "await"] \in Command
    BY <2>2 DEF Command
  <2> QED
    BY <1>0, <1>3, <2>1, <2>3 DEF CheckRead
<1>4. CASE AwaitApproval(p)
  <2>1. cmd[p].cfg \in Config
    BY <1>a DEF Command
  <2> QED
    BY <1>0, <1>4, <2>1, IdleType, SettleChecksChangeType DEF AwaitApproval, EndWith
<1>5. ASSUME NEW o \in Runnable, RunRead(p, o)
      PROVE  TypeOK'
  <2> DEFINE run == [Idle EXCEPT !.op = "run", !.at = "fingerprint", !.ob = o, !.cfg = cfg,
                                 !.reds = st.red[o]]
  <2>1. st.red[o] \in SUBSET Version
    BY DEF State
  <2>2. run \in Command
    BY <2>1, IdleType DEF Command
  <2>3. Inputs(run, Diff[tree]) \in Command
    BY <1>a, <2>2, InputsType
  <2>4. [Inputs(run, Diff[tree]) EXCEPT !.asCheck = TRUE] \in Command
    BY <2>3 DEF Command
  <2> QED
    BY <1>0, <1>5, <2>2, <2>4 DEF RunRead
<1>6. CASE TakeFingerprint(p)
  <2>1. [cmd[p] EXCEPT !.at = "execute", !.before = FingerprintOf(cmd[p].cfg.checks)] \in Command
    BY <1>a DEF Command
  <2> QED
    BY <1>0, <1>6, <2>1 DEF TakeFingerprint
<1>7. CASE Execute(p)
  <2>1. \A d : Counterproof(d) \subseteq {"none", "skipped", "free", "detected", "undetected"}
    BY DEF Counterproof
  <2>2. cmd[p].plan \in SUBSET Ref /\ cmd[p].wanted \in BOOLEAN
    BY <1>a DEF Command
  <2>3. \E c \in Command : Become(p, c)
    <3> DEFINE c == cmd[p]
               passes == tree \in (IF IsCheck(c) THEN Passing[c.cfg.checks] ELSE TestPassing)
               d == IF IsCheck(c) THEN c.diff ELSE Diff[tree]
               paired == /\ c.op = "run" /\ c.ob \in Pairs /\ passes
                         /\ HasRed(c.reds, c.before.tree)
                         /\ "test" \in d.areas
               boundary == IsCheck(c) /\ c.wanted /\ passes /\ "test" \in d.areas
               fitOK == IF c.op = "check" THEN {r \in c.plan : tree \in FitPassing[r]} ELSE {}
               at == IF IsCheck(c) THEN "observe" ELSE "settle"
    <3>1. PICK cp \in (IF paired \/ boundary THEN Counterproof(d) ELSE {"none"}) :
            Become(p, [c EXCEPT !.at = at, !.ok = passes, !.cp = cp, !.paired = paired,
                                !.boundary = boundary, !.fitOK = fitOK])
      BY <1>7 DEF Execute
    <3>2. /\ passes \in BOOLEAN /\ paired \in BOOLEAN /\ boundary \in BOOLEAN
          /\ fitOK \in SUBSET Ref /\ at \in {"observe", "settle"}
      BY <2>2
    <3>3. cp \in {"none", "skipped", "free", "detected", "undetected"}
      BY <2>1
    <3> HIDE DEF passes, paired, boundary, fitOK, at
    <3> HIDE DEF c, TypeOK
    <3>4. [c EXCEPT !.at = at, !.ok = passes, !.cp = cp, !.paired = paired,
                    !.boundary = boundary, !.fitOK = fitOK] \in Command
      <4>1. c \in Command
        BY <1>a DEF c
      <4> QED
        BY <3>2, <3>3, <4>1 DEF Command
    <3> QED
      BY <3>1, <3>4
  <2> QED
    BY <1>0, <1>7, <2>3 DEF Execute
<1>8. CASE Observe(p)
  <2>1. cmd[p].attached \in SUBSET Ref
    BY <1>a DEF Command
  <2>2. [cmd[p] EXCEPT !.at = "settle", !.after = FingerprintOf(cfg.checks),
                       !.records = cmd[p].attached \intersect Diff[tree].adrs] \in Command
    BY <1>a, <2>1 DEF Command
  <2> QED
    BY <1>0, <1>8, <2>2 DEF Observe
<1>9. CASE CheckCommit(p)
  BY <1>0, <1>9, <1>a, IdleType, SettleCheckType DEF CheckCommit, EndWith
<1>10. CASE RunCommit(p)
  <2>1. SettleRun(st, cmd[p]) \in State
    BY <1>a, SettleRunType
  <2>2. SettleCheck(SettleRun(st, cmd[p]), cmd[p]) \in State
    BY <1>a, <2>1, SettleCheckType
  <2> QED
    BY <1>0, <1>10, <2>1, <2>2, IdleType DEF RunCommit, EndWith
<1>11. ASSUME NEW doc \in BOOLEAN, CloseStart(p, doc)
       PROVE  TypeOK'
  <2>1. [Idle EXCEPT !.op = "close", !.at = "derive", !.saw = st, !.doc = doc,
                     !.before = FingerprintOf(cfg.checks)] \in Command
    BY <1>a, IdleType DEF Command
  <2> QED
    BY <1>0, <1>11, <2>1 DEF CloseStart
<1>12. CASE CloseDerive(p)
  <2>1. [cmd[p] EXCEPT !.at = "close", !.diff = Diff[tree], !.cfg = cfg] \in Command
    BY <1>a DEF Command
  <2> QED
    BY <1>0, <1>12, <2>1, IdleType DEF CloseDerive
<1>13. CASE CloseCommit(p)
  BY <1>0, <1>13, IdleType, CloseType DEF CloseCommit, EndWith
<1> QED
  BY <1>1, <1>2, <1>3, <1>4, <1>5, <1>6, <1>7, <1>8, <1>9, <1>10, <1>11, <1>12, <1>13 DEF Commands

LEMMA TypePreserved ==
  ASSUME TypeOK, [Next]_vars
  PROVE  TypeOK'
<1>1. CASE Edit \/ SetConfig
  BY <1>1, IddAssumption DEF Edit, SetConfig, TypeOK, Version
<1>2. CASE HandEdit
  <2>1. PICK x \in st.signals \ {"always"} :
          \/ Write([st EXCEPT !.signals = @ \ {x}])
          \/ Write([st EXCEPT !.ob[obligationOf[x]] = "withdrawn"])
    BY <1>2 DEF HandEdit
  <2>2. x \in Signal
    BY DEF TypeOK, State
  <2>3. [st EXCEPT !.signals = @ \ {x}] \in State
    BY DEF TypeOK, State
  <2>4. [st EXCEPT !.ob[obligationOf[x]] = "withdrawn"] \in State
    BY <2>2, ObligationOfType, SetObligationType, NoProofType DEF TypeOK
  <2> QED
    BY <2>1, <2>3, <2>4 DEF Write, TypeOK
<1>3. CASE Done \/ UNCHANGED vars
  BY <1>3 DEF Done, vars, TypeOK
<1> QED
  BY <1>1, <1>2, <1>3, RecordType, CommandType DEF Next

\* The state every command leaves is a state that validateState knows, and what
\* a command in flight has read is of the kind it settles (validateState).
THEOREM TypeCorrect == Spec => []TypeOK
<1>1. Init => TypeOK
  BY IdleType, NoStateType, ChecksType, IddAssumption DEF Init, TypeOK, Version
<1> QED
  BY <1>1, TypePreserved, PTL DEF Spec

-----------------------------------------------------------------------------
(* What the reducers of check, run and signals leave alone *)

\* Neither the answers of the user nor the obligations of the signals suffer
\* from what a command derives and settles: it strands no signal that had its
\* obligation.
Steady(s, t) ==
  /\ t.status = s.status /\ t.kind = s.kind /\ t.adr = s.adr
  /\ t.approved = s.approved /\ t.retracted = s.retracted
  /\ \A o \in Op : s.irr[o] = "answered" => t.irr[o] = "answered"
  /\ \A x \in t.signals : Active(t, obligationOf[x]) \/ (x \in s.signals /\ ~Active(s, obligationOf[x]))

LEMMA SteadyTransitive ==
  ASSUME NEW s, NEW t, NEW u, Steady(s, t), Steady(t, u)
  PROVE  Steady(s, u)
  BY DEF Steady

LEMMA SteadyReflexive == \A s : Steady(s, s)
  BY DEF Steady

\* An obligation that stays active while nothing else of Steady changes.
LEMMA SteadyObligations ==
  ASSUME NEW s \in State, NEW t \in State,
         \A o \in Obligation : Active(s, o) => Active(t, o),
         t.signals = s.signals, t.status = s.status, t.kind = s.kind, t.adr = s.adr,
         t.approved = s.approved, t.retracted = s.retracted, t.irr = s.irr
  PROVE  Steady(s, t)
<1>1. \A x \in s.signals : obligationOf[x] \in Obligation
  BY ObligationOfType DEF State
<1> QED
  BY <1>1 DEF Steady

LEMMA AddSignalsSteady ==
  ASSUME NEW s \in State, NEW xs \in SUBSET Signal
  PROVE  Steady(s, AddSignals(s, xs))
<1> DEFINE t == AddSignals(s, xs)
<1>1. t \in State
  BY AddSignalsType
<1>2. /\ t.signals = s.signals \union xs
      /\ t.status = s.status /\ t.kind = s.kind /\ t.adr = s.adr /\ t.irr = s.irr
      /\ t.approved = s.approved /\ t.retracted = s.retracted
      /\ t.ob = [o \in Obligation |->
                   IF ~Active(s, o) /\ \E x \in xs \ s.signals : obligationOf[x] = o
                     THEN "pending" ELSE s.ob[o]]
  BY DEF AddSignals, State
<1> HIDE DEF t
<1>3. ASSUME NEW x \in t.signals, x \in s.signals => Active(s, obligationOf[x])
      PROVE  Active(t, obligationOf[x])
  <2>1. obligationOf[x] \in Obligation
    BY <1>1, ObligationOfType DEF State
  <2>2. CASE x \in s.signals
    BY <1>2, <1>3, <2>1, <2>2 DEF Active
  <2>3. CASE x \notin s.signals
    BY <1>2, <2>1, <2>3 DEF Active
  <2> QED
    BY <2>2, <2>3
<1> QED
  BY <1>2, <1>3 DEF Steady, t

LEMMA OpenOpsSteady ==
  ASSUME NEW s \in State, NEW ops \in SUBSET Op
  PROVE  Steady(s, OpenOps(s, ops))
<1> DEFINE t == OpenOps(s, ops)
<1>1. DOMAIN s.irr = Op \union {Unnamed}
  BY DEF State
<1>2. /\ t.signals = s.signals /\ t.ob = s.ob
      /\ t.status = s.status /\ t.kind = s.kind /\ t.adr = s.adr
      /\ t.approved = s.approved /\ t.retracted = s.retracted
  BY DEF OpenOps, State
<1>3. \A o \in Op : s.irr[o] = "answered" => t.irr[o] = "answered"
  BY <1>1, IddAssumption DEF OpenOps, State
<1> HIDE DEF t
<1> QED
  BY <1>2, <1>3 DEF Steady, Active, t

LEMMA SetObligationSteady ==
  ASSUME NEW s \in State, NEW o \in Obligation, NEW v \in {"pending", "satisfied"}, NEW e \in Proof
  PROVE  Steady(s, [s EXCEPT !.ob[o] = v, !.proof[o] = e])
<1> DEFINE t == [s EXCEPT !.ob[o] = v, !.proof[o] = e]
<1>1. t \in State
  BY SetObligationType
<1>2. /\ t.signals = s.signals /\ t.status = s.status /\ t.kind = s.kind /\ t.adr = s.adr
      /\ t.approved = s.approved /\ t.retracted = s.retracted /\ t.irr = s.irr
      /\ t.ob = [s.ob EXCEPT ![o] = v]
  BY DEF State
<1> HIDE DEF t
<1>3. \A q \in Obligation : Active(s, q) => Active(t, q)
  BY <1>2 DEF Active, State
<1>4. Steady(s, t)
  BY <1>1, <1>2, <1>3, SteadyObligations
<1> QED
  BY <1>4 DEF t

LEMMA ReopenSteady ==
  ASSUME NEW s \in State, NEW o \in Obligation
  PROVE  Steady(s, Reopen(s, o))
  BY SetObligationSteady, NoProofType DEF Reopen

LEMMA RecordReferencesSteady ==
  ASSUME NEW s \in State, NEW refs \in SUBSET Ref
  PROVE  Steady(s, RecordReferences(s, refs))
<1> DEFINE missing == refs \ Declared(s)
           added == [s EXCEPT !.impacts = [r \in Ref |-> IF r \in missing THEN "unset" ELSE s.impacts[r]]]
<1>1. added \in State
  BY DEF State
<1>2. /\ added.signals = s.signals /\ added.status = s.status /\ added.kind = s.kind
      /\ added.adr = s.adr /\ added.approved = s.approved
      /\ added.retracted = s.retracted /\ added.irr = s.irr /\ added.ob = s.ob
  BY DEF State
<1>5. RecordReferences(s, refs) = added \/ RecordReferences(s, refs) = Reopen(added, "adr-impact-declaration")
  BY DEF RecordReferences
<1> HIDE DEF added
<1>3. Steady(s, added)
  BY <1>1, <1>2, SteadyObligations DEF Active
<1>4. Steady(added, Reopen(added, "adr-impact-declaration"))
  BY <1>1, ReopenSteady DEF Obligation
<1> QED
  BY <1>3, <1>4, <1>5, SteadyTransitive

LEMMA ApplyDerivationSteady ==
  ASSUME NEW s \in State, NEW d \in Declaration
  PROVE  Steady(s, ApplyDerivation(s, d))
<1> DEFINE added == AddSignals(s, d.signals)
           asked == OpenOps(added, d.ops)
<1>1. d.signals \in SUBSET Signal /\ d.ops \in SUBSET Op /\ d.refs \in SUBSET Ref
  BY DEF Declaration
<1>2. added \in State /\ Steady(s, added)
  BY <1>1, AddSignalsType, AddSignalsSteady
<1> HIDE DEF added
<1>3. asked \in State /\ Steady(added, asked)
  BY <1>1, <1>2, OpenOpsType, OpenOpsSteady
<1> HIDE DEF asked
<1>4. Steady(asked, RecordReferences(asked, d.refs))
  BY <1>1, <1>3, RecordReferencesSteady
<1>5. Steady(s, asked)
  BY <1>2, <1>3, SteadyTransitive
<1> QED
  BY <1>4, <1>5, SteadyTransitive DEF ApplyDerivation, asked, added

LEMMA SettleSteady ==
  ASSUME NEW s \in State, NEW o \in Obligation, NEW holds, NEW e \in Proof
  PROVE  Steady(s, Settle(s, o, holds, e))
  BY SteadyReflexive, ReopenSteady, SetObligationSteady DEF Settle

LEMMA ReopenDerivedSteady ==
  ASSUME NEW s \in State
  PROVE  Steady(s, ReopenDerived(s))
<1> DEFINE t == ReopenDerived(s)
<1>1. t \in State
  BY ReopenDerivedType
<1>2. /\ t.signals = s.signals /\ t.status = s.status /\ t.kind = s.kind /\ t.adr = s.adr
      /\ t.approved = s.approved /\ t.retracted = s.retracted /\ t.irr = s.irr
      /\ t.ob = [o \in Obligation |-> IF o \in {obligationOf[x] : x \in SignalGaps(s)}
                                        THEN "pending" ELSE s.ob[o]]
  BY DEF ReopenDerived, State
<1> HIDE DEF t
<1>3. \A o \in Obligation : Active(s, o) => Active(t, o)
  BY <1>2 DEF Active
<1>4. Steady(s, t)
  BY <1>1, <1>2, <1>3, SteadyObligations
<1> QED
  BY <1>4 DEF t

LEMMA SettleChecksChangeSteady ==
  ASSUME NEW s \in State, NEW c \in Config
  PROVE  Steady(s, SettleChecksChange(s, c))
<1> DEFINE t == SettleChecksChange(s, c)
<1>1. t \in State
  BY SettleChecksChangeType
<1>2. /\ t.signals = s.signals /\ t.status = s.status /\ t.kind = s.kind /\ t.adr = s.adr
      /\ t.approved = s.approved /\ t.retracted = s.retracted /\ t.irr = s.irr
      /\ t.ob = s.ob
  BY DEF SettleChecksChange, State
<1> HIDE DEF t
<1>3. Steady(s, t)
  BY <1>1, <1>2, SteadyObligations DEF Active
<1> QED
  BY <1>3 DEF t

LEMMA ProductFreePairsSteady ==
  ASSUME NEW s \in State, NEW d \in DiffRecord
  PROVE  Steady(s, SettleProductFreePairs(s, d))
<1> DEFINE t == SettleProductFreePairs(s, d)
<1>1. t \in State
  BY ProductFreePairsType
<1>2. /\ t.signals = s.signals /\ t.status = s.status /\ t.kind = s.kind /\ t.adr = s.adr
      /\ t.approved = s.approved /\ t.retracted = s.retracted /\ t.irr = s.irr
  BY DEF SettleProductFreePairs, State
<1>3. \A o \in Obligation : t.ob[o] = s.ob[o] \/ t.ob[o] = "pending"
  BY DEF SettleProductFreePairs, State
<1> HIDE DEF t
<1>4. Steady(s, t)
  BY <1>1, <1>2, <1>3, SteadyObligations DEF Active
<1> QED
  BY <1>4 DEF t

LEMMA TreeBoundSteady ==
  ASSUME NEW s \in State, NEW v
  PROVE  Steady(s, SettleTreeBound(s, v))
  BY ReopenSteady, SteadyReflexive DEF SettleTreeBound, Obligation

LEMMA CheckPartsSteady ==
  ASSUME NEW s \in State, NEW c \in Command, NEW checked
  PROVE  /\ Steady(s, SettleChecks(s, c))
         /\ Steady(s, SettleBoundary(s, c))
         /\ Steady(s, SettleContract(s, c, checked))
         /\ Steady(s, SettleImpacts(s, c))
         /\ Steady(s, DeferImpacts(s, c))
<1>1. c.plan \in SUBSET Ref
  BY DEF Command
<1>2. /\ Observed(c, {}, FALSE) \in Proof
      /\ Observed(c, {}, c.cp = "free") \in Proof
      /\ Observed(c, c.plan, FALSE) \in Proof
  BY <1>1, ObservedType
<1>3. Steady(s, SettleChecks(s, c))
  BY <1>2, SettleSteady DEF SettleChecks, Obligation
<1>4. Steady(s, SettleBoundary(s, c))
  BY <1>2, SettleSteady DEF SettleBoundary, Obligation
<1>5. Steady(s, SettleContract(s, c, checked))
  BY <1>2, SettleSteady DEF SettleContract, Obligation
<1>6. Steady(s, SettleImpacts(s, c))
  BY <1>2, NoProofType, SettleSteady DEF SettleImpacts, Obligation
<1>7. Steady(s, DeferImpacts(s, c))
  BY ReopenSteady, SteadyReflexive DEF DeferImpacts, Obligation
<1> QED
  BY <1>3, <1>4, <1>5, <1>6, <1>7

LEMMA SettleCheckSteady ==
  ASSUME NEW s \in State, NEW c \in Command
  PROVE  Steady(s, SettleCheck(s, c))
<1> DEFINE derived == ApplyDerivation(s, Derive(s, c.diff, c.cfg.strict, NoDeclaration))
           reopened == ReopenDerived(derived)
           gated   == SettleChecksChange(reopened, c.cfg)
           checked == SettleChecks(gated, c)
           tested  == SettleBoundary(checked, c)
           paired  == SettleProductFreePairs(tested, c.diff)
           bound   == SettleTreeBound(paired, c.after.tree)
           contract == SettleContract(bound, c, ChecksHold(c) /\ Active(gated, "checks-pass"))
<1>1. c.diff \in DiffRecord /\ c.cfg \in Config
  BY DEF Command
<1>2. NoDeclaration \in Declaration
  BY DEF NoDeclaration, Declaration
<1>3. derived \in State /\ Steady(s, derived)
  BY <1>1, <1>2, DeriveType, ApplyDerivationType, ApplyDerivationSteady
<1> HIDE DEF derived
<1>4. reopened \in State /\ Steady(derived, reopened)
  BY <1>3, ReopenDerivedType, ReopenDerivedSteady
<1> HIDE DEF reopened
<1>5. gated \in State /\ Steady(reopened, gated)
  BY <1>1, <1>4, SettleChecksChangeType, SettleChecksChangeSteady
<1> HIDE DEF gated
<1>6. checked \in State /\ Steady(gated, checked)
  BY <1>5, CheckPartsType, CheckPartsSteady
<1> HIDE DEF checked
<1>7. tested \in State /\ Steady(checked, tested)
  BY <1>6, CheckPartsType, CheckPartsSteady
<1> HIDE DEF tested
<1>8. paired \in State /\ Steady(tested, paired)
  BY <1>1, <1>7, ProductFreePairsType, ProductFreePairsSteady
<1> HIDE DEF paired
<1>9. bound \in State /\ Steady(paired, bound)
  BY <1>8, TreeBoundType, TreeBoundSteady
<1> HIDE DEF bound
<1>10. contract \in State /\ Steady(bound, contract)
  BY <1>9, CheckPartsType, CheckPartsSteady
<1> HIDE DEF contract
<1>11. Steady(contract, DeferImpacts(contract, c)) /\ Steady(contract, SettleImpacts(contract, c))
  BY <1>10, CheckPartsSteady
<1>12. Steady(s, contract)
  BY <1>3, <1>4, <1>5, <1>6, <1>7, <1>8, <1>9, <1>10, SteadyTransitive
<1>13. \/ SettleCheck(s, c) = DeferImpacts(contract, c)
       \/ SettleCheck(s, c) = SettleImpacts(contract, c)
  BY DEF SettleCheck, contract, bound, paired, tested, checked, gated, reopened, derived
<1> QED
  BY <1>11, <1>12, <1>13, SteadyTransitive

LEMMA SettleRunSteady ==
  ASSUME NEW s \in State, NEW c \in Command
  PROVE  Steady(s, SettleRun(s, c))
<1> DEFINE failed == [s EXCEPT !.red[c.ob] = @ \union {c.before.tree}]
           ran == IF c.ok THEN s ELSE failed
           evidence == [tree |-> c.before.tree, checks |-> c.before.checks,
                        fitness |-> {}, free |-> c.cp = "free"]
<1>1. c.ob \in Runnable /\ c.ob \in Obligation /\ c.before \in Fingerprint
  BY DEF Command, Runnable, Pairs, Obligation
<1>2. failed \in State
  BY <1>1, RecordRunType DEF Fingerprint
<1>3. Steady(s, failed)
  <2>1. /\ failed.signals = s.signals /\ failed.status = s.status /\ failed.kind = s.kind
        /\ failed.adr = s.adr /\ failed.approved = s.approved
        /\ failed.retracted = s.retracted /\ failed.irr = s.irr /\ failed.ob = s.ob
    BY DEF State
  <2> HIDE DEF failed
  <2> QED
    BY <1>2, <2>1, SteadyObligations DEF Active
<1> HIDE DEF failed
<1>4. ran \in State /\ Steady(s, ran)
  BY <1>2, <1>3, SteadyReflexive
<1>5. evidence \in Proof
  BY <1>1 DEF Proof, Fingerprint
<1> HIDE DEF ran, evidence
<1>6. Steady(ran, Settle(ran, c.ob, c.ok, evidence))
  BY <1>1, <1>4, <1>5, SettleSteady
<1>7. Steady(s, [s EXCEPT !.ob[c.ob] = "satisfied", !.proof[c.ob] = evidence])
  BY <1>1, <1>5, SetObligationSteady
<1> QED
  BY <1>4, <1>6, <1>7, SteadyTransitive DEF SettleRun, ran, evidence, failed

LEMMA WithPlanSteady ==
  ASSUME NEW s \in State, NEW t \in WithPlan(s)
  PROVE  Steady(s, t)
<1>1. ASSUME NEW decl \in Declarations
      PROVE  Steady(s, ApplyDerivation(s, Derive(s, NoDiff, cfg.strict, decl)))
  BY ChangeAssumption, DiffsType, DeriveType, ApplyDerivationSteady
<1> QED
  BY <1>1, SteadyReflexive DEF WithPlan

\* An intent sets the kind of a state and steadily adds to it.
LEMMA IntentSteady ==
  ASSUME TypeOK, NEW kind \in Kind, NEW asks,
         OpenChange(kind, asks) \/ ResolveIntent(kind, asks) \/ RaiseIntent(kind, asks)
  PROVE  \E s \in State :
           /\ s.status = "open" /\ s.kind = kind /\ s.adr = st.adr /\ s.irr = st.irr
           /\ s.approved = st.approved /\ s.retracted = st.retracted
           /\ s.signals = st.signals /\ s.ob = st.ob
           /\ Steady(s, st')
<1>a. st \in State /\ {"always"} \in SUBSET Signal
  BY DEF TypeOK, Signal
<1>1. CASE OpenChange(kind, asks)
  <2> DEFINE s == [st EXCEPT !.status = "open", !.kind = kind, !.facts = IF asks THEN "open" ELSE "none"]
  <2>1. /\ s \in State /\ s.status = "open" /\ s.kind = kind /\ s.adr = st.adr /\ s.irr = st.irr
        /\ s.approved = st.approved /\ s.retracted = st.retracted
        /\ s.signals = st.signals /\ s.ob = st.ob
    BY <1>a DEF State
  <2>2. st' \in WithPlan(AddSignals(s, {"always"}))
    BY <1>1 DEF OpenChange, Write
  <2> HIDE DEF s
  <2>3. Steady(s, st')
    BY <1>a, <2>1, <2>2, AddSignalsType, AddSignalsSteady, WithPlanSteady, SteadyTransitive
  <2> QED
    BY <2>1, <2>3
<1>2. CASE ResolveIntent(kind, asks)
  <2> DEFINE s == [st EXCEPT !.kind = kind, !.facts = IF asks THEN "open" ELSE "none"]
  <2>1. /\ s \in State /\ s.status = "open" /\ s.kind = kind /\ s.adr = st.adr /\ s.irr = st.irr
        /\ s.approved = st.approved /\ s.retracted = st.retracted
        /\ s.signals = st.signals /\ s.ob = st.ob
    BY <1>2, <1>a DEF ResolveIntent, Open, State
  <2>2. st' \in WithPlan(AddSignals(s, {"always"}))
    BY <1>2 DEF ResolveIntent, Write
  <2> HIDE DEF s
  <2>3. Steady(s, st')
    BY <1>a, <2>1, <2>2, AddSignalsType, AddSignalsSteady, WithPlanSteady, SteadyTransitive
  <2> QED
    BY <2>1, <2>3
<1>3. CASE RaiseIntent(kind, asks)
  <2> DEFINE s == [st EXCEPT !.kind = kind, !.facts = IF asks THEN "open" ELSE @]
  <2>1. /\ s \in State /\ s.status = "open" /\ s.kind = kind /\ s.adr = st.adr /\ s.irr = st.irr
        /\ s.approved = st.approved /\ s.retracted = st.retracted
        /\ s.signals = st.signals /\ s.ob = st.ob
    BY <1>3, <1>a DEF RaiseIntent, Resolved, Open, State
  <2>2. st' \in WithPlan(s)
    BY <1>3 DEF RaiseIntent, Write
  <2> HIDE DEF s
  <2> QED
    BY <2>1, <2>2, WithPlanSteady
<1> QED
  BY <1>1, <1>2, <1>3

-----------------------------------------------------------------------------
(* What each step leaves alone *)

\* close validates the state of an open change, and a change that is not open
\* yet has no kind.
Validated ==
  /\ st.status = "none" => st.kind = "unset"
  /\ \A p \in Proc : cmd[p].at \in {"derive", "close"} =>
       cmd[p].op = "close" /\ cmd[p].saw.status = "open"

LEMMA CommandSteady ==
  ASSUME TypeOK, NEW p \in Proc, Commands(p)
  PROVE  \/ CloseCommit(p)
         \/ Steady(st, st') /\ (st.status = "closed" => st' = st)
<1>a. st \in State /\ cmd[p] \in Command
  BY DEF TypeOK
<1>b. Steady(st, st)
  BY SteadyReflexive
<1>1. CASE SignalsCommit(p)
  <2>1. cmd[p].diff \in DiffRecord /\ cmd[p].decl \in Declaration
    BY <1>a DEF Command
  <2>2. Steady(st, ApplyDerivation(st, Derive(st, cmd[p].diff, cmd[p].cfg.strict, cmd[p].decl)))
    BY <1>a, <2>1, DeriveType, ApplyDerivationSteady
  <2> QED
    BY <1>1, <1>b, <2>2 DEF SignalsCommit, EndWith, Resolved, Open
<1>2. CASE AwaitApproval(p)
  <2>1. cmd[p].cfg \in Config
    BY <1>a DEF Command
  <2> QED
    BY <1>2, <1>a, <1>b, <2>1, SettleChecksChangeSteady DEF AwaitApproval, EndWith, Open
<1>3. CASE CheckCommit(p)
  BY <1>3, <1>a, <1>b, SettleCheckSteady DEF CheckCommit, EndWith, Open
<1>4. CASE RunCommit(p)
  <2>1. SettleRun(st, cmd[p]) \in State /\ Steady(st, SettleRun(st, cmd[p]))
    BY <1>a, SettleRunType, SettleRunSteady
  <2>2. Steady(st, SettleCheck(SettleRun(st, cmd[p]), cmd[p]))
    BY <1>a, <2>1, SettleCheckSteady, SteadyTransitive
  <2> QED
    BY <1>4, <1>b, <2>1, <2>2 DEF RunCommit, EndWith, Open
<1>5. CASE UNCHANGED st
  BY <1>5, <1>b
<1> QED
  BY <1>1, <1>2, <1>3, <1>4, <1>5
     DEF Commands, SignalsRead, CheckRead, RunRead, TakeFingerprint, Execute, Observe,
         CloseStart, CloseDerive

LEMMA RankType == rank \in [Kind -> 0 .. 2]
  BY DEF rank, Kind

\* A record command writes one or a few fields of a state that is not closed.
LEMMA RecordDecisions ==
  ASSUME TypeOK, Validated, Record
  PROVE  DecisionsKept /\ st'.status = "open" /\ cmd' = cmd
<1>a. /\ st \in State /\ DOMAIN st.irr = Op \union {Unnamed} /\ Unnamed \notin Op
      /\ st.kind # "unset" => st.kind \in Kind
  BY IddAssumption DEF TypeOK, State
<1>b. \A k \in Kind : k # "unset" /\ rank[k] \in Nat
  BY RankType DEF Kind
<1>c. ASSUME st.status # "closed", cmd' = cmd, st'.status = "open", st'.kind = st.kind,
             st'.irr = st.irr, st.approved \subseteq st'.approved,
             st.retracted \subseteq st'.retracted,
             st.adr = "resolved" => st'.adr = "resolved"
      PROVE  DecisionsKept /\ st'.status = "open" /\ cmd' = cmd
  BY <1>a, <1>b, <1>c DEF DecisionsKept
<1>1. ASSUME NEW kind \in Kinds, NEW asks \in {FALSE, "open-facts" \in UserGates},
             OpenChange(kind, asks) \/ ResolveIntent(kind, asks) \/ RaiseIntent(kind, asks)
      PROVE  DecisionsKept /\ st'.status = "open" /\ cmd' = cmd
  <2>1. kind \in Kind
    BY <1>1, ChangeAssumption
  <2>2. /\ st'.status = "open" /\ st'.kind = kind /\ st'.adr = st.adr
        /\ st'.approved = st.approved /\ st'.retracted = st.retracted
        /\ \A o \in Op : st.irr[o] = "answered" => st'.irr[o] = "answered"
    BY <1>1, <2>1, IntentSteady DEF Steady
  <2>3. st.kind # "unset" => rank[kind] >= rank[st.kind]
    BY <1>1, <1>a, <1>b, <2>1
       DEF OpenChange, ResolveIntent, RaiseIntent, Ambiguous, Validated
  <2>4. st.status # "closed" /\ cmd' = cmd
    BY <1>1 DEF OpenChange, ResolveIntent, RaiseIntent, Write, Open, Resolved
  <2> QED
    BY <1>b, <2>1, <2>2, <2>3, <2>4 DEF DecisionsKept
<1>2. CASE OpenAmbiguous
  <2>1. st' = [st EXCEPT !.status = "open"] /\ cmd' = cmd /\ st.status # "closed"
    BY <1>2 DEF OpenAmbiguous, Write
  <2> QED
    BY <1>a, <1>c, <2>1 DEF State
<1>3. ASSUME NEW decl \in Declarations, NEW x \in decl.signals, RecordSignal(x)
      PROVE  DecisionsKept /\ st'.status = "open" /\ cmd' = cmd
  BY <1>3, <1>a, <1>c DEF RecordSignal, AddSignals, Write, Resolved, Open, State
<1>4. ASSUME NEW o \in Op \union {Unnamed}, OpenOperation(o)
      PROVE  DecisionsKept /\ st'.status = "open" /\ cmd' = cmd
  <2>1. /\ st'.status = "open" /\ st'.kind = st.kind /\ st'.adr = st.adr
        /\ st'.approved = st.approved /\ st'.retracted = st.retracted /\ cmd' = cmd
    BY <1>4, <1>a DEF OpenOperation, OpenOps, OpenUnnamed, Write, Open, State
  <2>2. ASSUME NEW q \in Op, st.irr[q] = "answered"
        PROVE  st'.irr[q] = "answered"
    BY <1>4, <1>a, <2>2 DEF OpenOperation, OpenOps, OpenUnnamed, Write, State
  <2> QED
    BY <1>4, <1>a, <1>b, <2>1, <2>2 DEF DecisionsKept, OpenOperation, Open
<1>5. CASE OpenAdrGate
  BY <1>5, <1>a, <1>c DEF OpenAdrGate, Write, Open, State
<1>6. CASE ResolveFacts
  BY <1>6, <1>a, <1>c DEF ResolveFacts, Write, Open, State
<1>7. CASE ResolveOperations
  <2>1. /\ st'.status = "open" /\ st'.kind = st.kind /\ st'.adr = st.adr
        /\ st'.approved = st.approved /\ st'.retracted = st.retracted /\ cmd' = cmd
    BY <1>7, <1>a DEF ResolveOperations, Write, Open, State
  <2>2. \A q \in Op : st.irr[q] = "answered" => st'.irr[q] = "answered"
    BY <1>7, <1>a DEF ResolveOperations, Write, State
  <2> QED
    BY <1>7, <1>a, <1>b, <2>1, <2>2 DEF DecisionsKept, ResolveOperations, Open
<1>8. CASE ResolveAdrGate
  BY <1>8, <1>a, <1>c DEF ResolveAdrGate, Write, Open, State
<1>9. CASE ResolveChecksChanged
  BY <1>9, <1>a, <1>c DEF ResolveChecksChanged, Write, Open, State
<1>10. ASSUME NEW o \in Obligation, Withdraw(o)
       PROVE  DecisionsKept /\ st'.status = "open" /\ cmd' = cmd
  BY <1>10, <1>a, <1>c DEF Withdraw, Write, Open, State
<1>11. ASSUME NEW x \in Retractable, NEW answered \in BOOLEAN, Retract(x, answered)
       PROVE  DecisionsKept /\ st'.status = "open" /\ cmd' = cmd
  BY <1>11, <1>a, <1>c DEF Retract, Write, Open, State
<1>12. ASSUME NEW r \in Ref, AttachRecord(r)
       PROVE  DecisionsKept /\ st'.status = "open" /\ cmd' = cmd
  BY <1>12, <1>a, <1>c DEF AttachRecord, Write, Resolved, Open, State
<1>13. ASSUME NEW r \in Ref, NEW i \in Impact, DeclareImpact(r, i)
       PROVE  DecisionsKept /\ st'.status = "open" /\ cmd' = cmd
  BY <1>13, <1>a, <1>c DEF DeclareImpact, Write, Resolved, Open, State
<1> QED
  BY <1>1, <1>2, <1>3, <1>4, <1>5, <1>6, <1>7, <1>8, <1>9, <1>10, <1>11, <1>12, <1>13 DEF Record

\* A command in flight that reaches close has validated an open change, and a
\* check that runs its commands has seen them approved.
Advances(p, c) ==
  /\ cmd' = [cmd EXCEPT ![p] = c]
  /\ c.at \in {"derive", "close"} => c.op = "close" /\ c.saw.status = "open"
  /\ c.op = "check" /\ c.at # "await" =>
       \/ ChecksApproved(st, c.cfg)
       \/ cmd[p].op = "check" /\ cmd[p].at # "await" /\ c.cfg = cmd[p].cfg

LEMMA CommandAdvances ==
  ASSUME TypeOK, Validated, NEW p \in Proc, Commands(p)
  PROVE  \E c : Advances(p, c)
<1>a. cmd[p] \in Command /\ Idle.op = "none" /\ Idle.at = "idle"
  BY DEF TypeOK, Idle
<1>1. ASSUME NEW decl \in Declarations, SignalsRead(p, decl)
      PROVE  \E c : Advances(p, c)
  <2>1. PICK d \in {NoDiff, Diff[tree]} :
          Become(p, [Idle EXCEPT !.op = "signals", !.at = "settle",
                                 !.diff = d, !.cfg = cfg, !.decl = decl])
    BY <1>1 DEF SignalsRead
  <2>2. Advances(p, [Idle EXCEPT !.op = "signals", !.at = "settle",
                                 !.diff = d, !.cfg = cfg, !.decl = decl])
    BY <2>1 DEF Advances, Become, Idle
  <2> QED
    BY <2>2
<1>2. CASE SignalsCommit(p) \/ AwaitApproval(p) \/ CheckCommit(p) \/ RunCommit(p) \/ CloseCommit(p)
  <2>1. Advances(p, Idle)
    BY <1>2, <1>a DEF SignalsCommit, AwaitApproval, CheckCommit, RunCommit, CloseCommit,
         EndWith, Become, Advances
  <2> QED
    BY <2>1
<1>3. CASE CheckRead(p)
  <2>1. PICK d \in {Diff[tree]} \union OtherDiffs[tree] :
          Become(p, [Inputs(Idle, d) EXCEPT
                       !.op = "check", !.at = IF ChecksApproved(st, cfg) THEN "fingerprint" ELSE "await"])
    BY <1>3 DEF CheckRead
  <2>2. Inputs(Idle, d) \in Command /\ Inputs(Idle, d).cfg = cfg
    <3>1. d \in DiffRecord
      BY DiffsType DEF TypeOK
    <3>2. Inputs(Idle, d) \in Command
      BY <3>1, IdleType, InputsType
    <3> QED
      BY <3>2 DEF Inputs, Idle
  <2> HIDE DEF Inputs
  <2>3. Advances(p, [Inputs(Idle, d) EXCEPT
                       !.op = "check", !.at = IF ChecksApproved(st, cfg) THEN "fingerprint" ELSE "await"])
    BY <2>1, <2>2 DEF Advances, Become, Command
  <2> QED
    BY <2>3
<1>4. ASSUME NEW o \in Runnable, RunRead(p, o)
      PROVE  \E c : Advances(p, c)
  <2> DEFINE run == [Idle EXCEPT !.op = "run", !.at = "fingerprint", !.ob = o, !.cfg = cfg,
                                 !.reds = st.red[o]]
             alike == [Inputs(run, Diff[tree]) EXCEPT !.asCheck = TRUE]
  <2>1. Become(p, run) \/ Become(p, alike)
    BY <1>4 DEF RunRead
  <2>2. run.op = "run" /\ run.at = "fingerprint" /\ alike.op = "run" /\ alike.at = "fingerprint"
    BY DEF Inputs, Idle
  <2> HIDE DEF run, alike
  <2> QED
    BY <2>1, <2>2 DEF Advances, Become
<1>5. CASE TakeFingerprint(p)
  <2>1. Advances(p, [cmd[p] EXCEPT !.at = "execute", !.before = FingerprintOf(cmd[p].cfg.checks)])
    BY <1>5, <1>a DEF TakeFingerprint, Become, At, Advances, Command
  <2> QED
    BY <2>1
<1>6. CASE Execute(p)
  <2> DEFINE c == cmd[p]
             passes == tree \in (IF IsCheck(c) THEN Passing[c.cfg.checks] ELSE TestPassing)
             d == IF IsCheck(c) THEN c.diff ELSE Diff[tree]
             paired == /\ c.op = "run" /\ c.ob \in Pairs /\ passes
                       /\ HasRed(c.reds, c.before.tree)
                       /\ "test" \in d.areas
             boundary == IsCheck(c) /\ c.wanted /\ passes /\ "test" \in d.areas
             fitOK == IF c.op = "check" THEN {r \in c.plan : tree \in FitPassing[r]} ELSE {}
             at == IF IsCheck(c) THEN "observe" ELSE "settle"
  <2>1. PICK cp \in (IF paired \/ boundary THEN Counterproof(d) ELSE {"none"}) :
          Become(p, [c EXCEPT !.at = at, !.ok = passes, !.cp = cp, !.paired = paired,
                              !.boundary = boundary, !.fitOK = fitOK])
    BY <1>6 DEF Execute
  <2>2. at \in {"observe", "settle"}
    OBVIOUS
  <2> HIDE DEF passes, paired, boundary, fitOK, at
  <2>3. Advances(p, [c EXCEPT !.at = at, !.ok = passes, !.cp = cp, !.paired = paired,
                              !.boundary = boundary, !.fitOK = fitOK])
    BY <1>6, <1>a, <2>1, <2>2 DEF Execute, Become, At, Advances, Command
  <2> QED
    BY <2>3
<1>7. CASE Observe(p)
  <2>1. Advances(p, [cmd[p] EXCEPT !.at = "settle", !.after = FingerprintOf(cfg.checks),
                                   !.records = cmd[p].attached \intersect Diff[tree].adrs])
    BY <1>7, <1>a DEF Observe, Become, At, Advances, Command
  <2> QED
    BY <2>1
<1>8. ASSUME NEW doc \in BOOLEAN, CloseStart(p, doc)
      PROVE  \E c : Advances(p, c)
  <2>1. Advances(p, [Idle EXCEPT !.op = "close", !.at = "derive", !.saw = st, !.doc = doc,
                                 !.before = FingerprintOf(cfg.checks)])
    BY <1>8 DEF CloseStart, CanClose, Become, Advances, Idle
  <2> QED
    BY <2>1
<1>9. CASE CloseDerive(p)
  <2>1. CASE Become(p, Idle)
    <3>1. Advances(p, Idle)
      BY <1>a, <2>1 DEF Become, Advances
    <3> QED
      BY <3>1
  <2>2. CASE Become(p, [cmd[p] EXCEPT !.at = "close", !.diff = Diff[tree], !.cfg = cfg])
    <3>1. Advances(p, [cmd[p] EXCEPT !.at = "close", !.diff = Diff[tree], !.cfg = cfg])
      BY <1>9, <1>a, <2>2 DEF Validated, CloseDerive, Become, At, Advances, Command
    <3> QED
      BY <3>1
  <2> QED
    BY <1>9, <2>1, <2>2 DEF CloseDerive
<1> QED
  BY <1>1, <1>2, <1>3, <1>4, <1>5, <1>6, <1>7, <1>8, <1>9 DEF Commands

LEMMA CloseSteady ==
  ASSUME TypeOK, Validated, NEW p \in Proc, CloseCommit(p)
  PROVE  \/ Steady(st, st')
         \/ /\ st.status = "open" /\ st'.status = "closed"
            /\ Steady(st, [st' EXCEPT !.status = "open"])
<1>a. st \in State
  BY DEF TypeOK
<1>1. CASE st = cmd[p].saw
  <2> DEFINE t == [CloseChange(st) EXCEPT !.status = "open"]
  <2>1. st.status = "open" /\ st' = CloseChange(st)
    BY <1>1 DEF CloseCommit, EndWith, At, Validated
  <2>2. t \in State
    <3>1. CloseChange(st) \in State
      BY <1>a, CloseType
    <3> QED
      BY <3>1 DEF State
  <2>3. /\ t.signals = st.signals /\ t.status = st.status /\ t.kind = st.kind /\ t.adr = st.adr
        /\ t.approved = st.approved /\ t.retracted = st.retracted /\ t.irr = st.irr
        /\ t.ob = [st.ob EXCEPT !["living-doc"] = IF @ = "pending" THEN "satisfied" ELSE @]
        /\ st'.status = "closed"
    <3>1. st.ob["living-doc"] = [st EXCEPT !.status = "closed"].ob["living-doc"]
      BY <1>a DEF State
    <3> QED
      BY <1>a, <2>1, <3>1 DEF CloseChange, State
  <2> HIDE DEF t
  <2>4. \A o \in Obligation : Active(st, o) => Active(t, o)
    BY <1>a, <2>3 DEF Active, State
  <2>5. Steady(st, t)
    BY <1>a, <2>2, <2>3, <2>4, SteadyObligations
  <2>6. t = [st' EXCEPT !.status = "open"]
    BY <2>1 DEF t
  <2> QED
    BY <2>1, <2>3, <2>5, <2>6
<1>2. CASE st # cmd[p].saw
  BY <1>2, SteadyReflexive DEF CloseCommit, EndWith
<1> QED
  BY <1>1, <1>2

LEMMA NextDecisions ==
  ASSUME TypeOK, Validated, [Next]_vars
  PROVE  DecisionsKept /\ Validated'
<1>a. st \in State /\ (st.kind # "unset" => st.kind \in Kind /\ rank[st.kind] >= rank[st.kind])
  <2>1. st \in State /\ (st.kind # "unset" => st.kind \in Kind)
    BY DEF TypeOK, State
  <2> QED
    BY <2>1, RankType
<1>1. CASE Record
  BY <1>1, RecordDecisions DEF Validated
<1>2. ASSUME NEW p \in Proc, Commands(p)
      PROVE  DecisionsKept /\ Validated'
  <2>1. PICK c : Advances(p, c)
    BY <1>2, CommandAdvances
  <2>2. \A q \in Proc : cmd'[q].at \in {"derive", "close"} =>
          cmd'[q].op = "close" /\ cmd'[q].saw.status = "open"
    BY <2>1 DEF Advances, Validated, TypeOK
  <2>3. CASE Steady(st, st') /\ (st.status = "closed" => st' = st)
    BY <1>a, <2>2, <2>3 DEF Steady, DecisionsKept, Validated
  <2>4. CASE CloseCommit(p)
    <3>1. CASE Steady(st, st') /\ st.status # "closed"
      BY <2>3, <3>1
    <3>2. CASE Steady(st, [st' EXCEPT !.status = "open"]) /\ st.status = "open" /\ st'.status = "closed"
      <4>1. /\ st'.kind = st.kind /\ st'.adr = st.adr /\ st'.approved = st.approved
            /\ st'.retracted = st.retracted
            /\ \A o \in Op : st.irr[o] = "answered" => st'.irr[o] = "answered"
        <5>1. st' \in State
          BY TypePreserved, <1>2 DEF TypeOK, Next
        <5> QED
          BY <3>2, <5>1 DEF Steady, State
      <4> QED
        BY <1>a, <2>2, <3>2, <4>1 DEF DecisionsKept, Validated
    <3>3. CASE st.status = "closed"
      BY <1>a, <2>2, <2>4, <3>3 DEF CloseCommit, EndWith, At, Validated, DecisionsKept
    <3> QED
      BY <2>4, <3>1, <3>2, <3>3, CloseSteady
  <2> QED
    BY <1>2, <2>3, <2>4, CommandSteady
<1>3. CASE HandEdit
  <2>1. PICK x \in st.signals \ {"always"} :
          \/ Write([st EXCEPT !.signals = @ \ {x}])
          \/ Write([st EXCEPT !.ob[obligationOf[x]] = "withdrawn"])
    BY <1>3 DEF HandEdit
  <2>2. /\ st'.status = "open" /\ st.status = "open" /\ st'.kind = st.kind /\ st'.adr = st.adr
        /\ st'.approved = st.approved /\ st'.retracted = st.retracted /\ st'.irr = st.irr
        /\ cmd' = cmd
    BY <1>a, <1>3, <2>1 DEF HandEdit, Write, Open, State
  <2> QED
    BY <1>a, <2>2 DEF DecisionsKept, Validated
<1>4. CASE Edit \/ SetConfig \/ Done \/ UNCHANGED vars
  BY <1>a, <1>4 DEF Edit, SetConfig, Done, vars, DecisionsKept, Validated
<1> QED
  BY <1>1, <1>2, <1>3, <1>4 DEF Next

-----------------------------------------------------------------------------
(* The decisions of the user *)

LEMMA ValidatedAlways == Spec => []Validated
<1>1. Init => Validated
  BY DEF Init, Validated, NoState, Idle
<1>2. TypeOK /\ Validated /\ [Next]_vars => Validated'
  BY NextDecisions
<1> QED
  BY <1>1, <1>2, TypeCorrect, PTL DEF Spec

\* What the user decided stands: a closed change is final, the kind only rises,
\* answers and approvals are kept, whatever commands are in flight (raiseIntent,
\* openIrreversible, settleChecksChange, recordImpact, recordRetract).
THEOREM DecisionsAreKept == Spec => DecisionsStand
<1>1. TypeOK /\ Validated /\ [Next]_vars => [DecisionsKept]_vars
  BY NextDecisions
<1> QED
  BY <1>1, TypeCorrect, ValidatedAlways, PTL DEF Spec, DecisionsStand

LEMMA ApprovedPreserved ==
  ASSUME TypeOK, Validated, RunsOnlyApproved, [Next]_vars
  PROVE  RunsOnlyApproved'
<1>1. st.approved \subseteq st'.approved
  BY NextDecisions DEF DecisionsKept
<1>2. \A c : ChecksApproved(st, c) => ChecksApproved(st', c)
  BY <1>1 DEF ChecksApproved
<1>3. ASSUME NEW q \in Proc, Commands(q)
      PROVE  RunsOnlyApproved'
  <2>1. PICK c : Advances(q, c)
    BY <1>3, CommandAdvances
  <2>2. cmd' = [cmd EXCEPT ![q] = c] /\ cmd \in [Proc -> Command]
    BY <2>1 DEF Advances, TypeOK
  <2>3. ASSUME NEW p \in Proc, cmd'[p].op = "check", cmd'[p].at # "await"
        PROVE  ChecksApproved(st', cmd'[p].cfg)
    <3>1. CASE p = q
      BY <1>2, <2>1, <2>2, <2>3, <3>1 DEF Advances, RunsOnlyApproved, Busy
    <3>2. CASE p # q
      BY <1>2, <2>2, <2>3, <3>2 DEF RunsOnlyApproved, Busy
    <3> QED
      BY <3>1, <3>2
  <2> QED
    BY <2>3 DEF RunsOnlyApproved, Busy
<1>4. CASE UNCHANGED cmd
  BY <1>2, <1>4 DEF RunsOnlyApproved, Busy
<1>5. Record => UNCHANGED cmd
  BY RecordDecisions
<1> QED
  BY <1>3, <1>4, <1>5 DEF Next, Edit, SetConfig, HandEdit, Write, Done, vars

\* A check never runs a configuration that is neither the one of the base nor
\* one the user approved, however the file changes under it (checksApproved,
\* awaitChecksApproval).
THEOREM ChecksAreApproved == Spec => []RunsOnlyApproved
<1>1. Init => RunsOnlyApproved
  BY DEF Init, RunsOnlyApproved, Busy, Idle
<1> QED
  BY <1>1, ApprovedPreserved, TypeCorrect, ValidatedAlways, PTL DEF Spec

-----------------------------------------------------------------------------
(* Signals and their obligations *)

\* No two signals share an obligation, so that retracting one strands no other.
LEMMA ObligationOfInjective ==
  \A x, y \in Signal : obligationOf[x] = obligationOf[y] => x = y
  BY DEF obligationOf, Signal

\* No signal that had its obligation, and no new one, is left without.
NoNewGaps == SignalGaps(st') \subseteq SignalGaps(st)

LEMMA RecordGaps ==
  ASSUME TypeOK, Record
  PROVE  NoNewGaps
<1>a. st \in State
  BY DEF TypeOK
<1>b. ASSUME \A x \in st'.signals :
               Active(st', obligationOf[x]) \/ (x \in st.signals /\ ~Active(st, obligationOf[x]))
      PROVE  NoNewGaps
  BY <1>b DEF NoNewGaps, SignalGaps
<1>c. ASSUME st'.signals = st.signals, st'.ob = st.ob
      PROVE  NoNewGaps
  BY <1>a, <1>b, <1>c DEF Active
<1>d. ASSUME NEW s \in State, s.signals = st.signals, s.ob = st.ob,
             NEW xs \in SUBSET Signal, st' = AddSignals(s, xs)
      PROVE  NoNewGaps
  <2>1. Steady(s, st')
    BY <1>d, AddSignalsSteady
  <2> QED
    BY <1>b, <1>d, <2>1 DEF Steady, Active
<1>1. ASSUME NEW kind \in Kinds, NEW asks \in {FALSE, "open-facts" \in UserGates},
             OpenChange(kind, asks) \/ ResolveIntent(kind, asks) \/ RaiseIntent(kind, asks)
      PROVE  NoNewGaps
  <2>1. kind \in Kind /\ {"always"} \in SUBSET Signal
    BY <1>1, ChangeAssumption DEF Signal
  <2>2. PICK s \in State : s.signals = st.signals /\ s.ob = st.ob /\ Steady(s, st')
    BY <1>1, <2>1, IntentSteady
  <2> QED
    BY <1>a, <1>b, <2>2 DEF Steady, Active
<1>2. ASSUME NEW decl \in Declarations, NEW x \in decl.signals, RecordSignal(x)
      PROVE  NoNewGaps
  <2>1. {x} \in SUBSET Signal
    BY ChangeAssumption DEF Declaration
  <2> QED
    BY <1>2, <1>a, <1>d, <2>1 DEF RecordSignal, Write
<1>3. ASSUME NEW o \in Op \union {Unnamed}, OpenOperation(o)
      PROVE  NoNewGaps
  BY <1>3, <1>a, <1>c DEF OpenOperation, OpenOps, OpenUnnamed, Write, State
<1>4. CASE ResolveOperations
  BY <1>4, <1>a, <1>c DEF ResolveOperations, Write, State
<1>5. CASE OpenAmbiguous \/ OpenAdrGate \/ ResolveFacts \/ ResolveAdrGate \/ ResolveChecksChanged
  BY <1>5, <1>a, <1>c
     DEF OpenAmbiguous, OpenAdrGate, ResolveFacts, ResolveAdrGate, ResolveChecksChanged, Write, State
<1>6. ASSUME NEW o \in Obligation, Withdraw(o)
      PROVE  NoNewGaps
  <2>1. st'.signals = st.signals /\ st'.ob = [st.ob EXCEPT ![o] = "withdrawn"]
    BY <1>6, <1>a DEF Withdraw, Write, State
  <2>2. \A x \in st.signals : obligationOf[x] # o /\ obligationOf[x] \in Obligation
    BY <1>6, <1>a, ObligationOfType DEF Withdraw, State
  <2> QED
    BY <1>a, <1>b, <2>1, <2>2 DEF Active, State
<1>7. ASSUME NEW x \in Retractable, NEW answered \in BOOLEAN, Retract(x, answered)
      PROVE  NoNewGaps
  <2>1. /\ st'.signals = st.signals \ {x}
        /\ \A o \in Obligation \ {obligationOf[x]} : st'.ob[o] = st.ob[o]
    BY <1>7, <1>a DEF Retract, Write, State
  <2>2. x \in Signal /\ \A y \in st.signals : y \in Signal /\ obligationOf[y] \in Obligation
    BY <1>a, ObligationOfType DEF Retractable, Signal, State
  <2> QED
    BY <1>a, <1>b, <2>1, <2>2, ObligationOfInjective DEF Active
<1>8. ASSUME NEW r \in Ref, AttachRecord(r)
      PROVE  NoNewGaps
  BY <1>8, <1>a, <1>c DEF AttachRecord, Write, State
<1>9. ASSUME NEW r \in Ref, NEW i \in Impact, DeclareImpact(r, i)
      PROVE  NoNewGaps
  BY <1>9, <1>a, <1>c DEF DeclareImpact, Write, State
<1> QED
  BY <1>1, <1>2, <1>3, <1>4, <1>5, <1>6, <1>7, <1>8, <1>9 DEF Record

LEMMA NextGaps ==
  ASSUME TypeOK, Validated, [Next]_vars, ~HandEdit
  PROVE  NoNewGaps
<1>1. ASSUME NEW p \in Proc, Commands(p)
      PROVE  NoNewGaps
  <2>1. CASE Steady(st, st')
    BY <2>1 DEF NoNewGaps, SignalGaps, Steady
  <2>2. CASE Steady(st, [st' EXCEPT !.status = "open"])
    <3>1. SignalGaps([st' EXCEPT !.status = "open"]) \subseteq SignalGaps(st)
      BY <2>2 DEF SignalGaps, Steady
    <3>2. st' \in State
      BY <1>1, TypePreserved DEF TypeOK, Next
    <3> QED
      BY <3>1, <3>2 DEF NoNewGaps, SignalGaps, Active, State
  <2> QED
    BY <1>1, <2>1, <2>2, CommandSteady, CloseSteady
<1>2. CASE UNCHANGED st
  BY <1>2 DEF NoNewGaps, SignalGaps, Active
<1> QED
  BY <1>1, <1>2, RecordGaps DEF Next, Edit, SetConfig, Done, vars

\* A signal loses the obligation it derives only when someone edits state.yaml by
\* hand: whatever is recorded, withdrawn, retracted, derived again and settled,
\* no step of the program strands one that had it, also in a state that was
\* edited before (canWithdraw, recordRetract, addSignal).
THEOREM GapsAreMadeByHand == Spec => [][~HandEdit => NoNewGaps]_vars
<1>1. TypeOK /\ Validated /\ [Next]_vars => [~HandEdit => NoNewGaps]_vars
  BY NextGaps
<1> QED
  BY <1>1, TypeCorrect, ValidatedAlways, PTL DEF Spec

\* As long as nobody edits state.yaml by hand, every active signal has the
\* obligation it derives (canWithdraw, recordRetract, addSignal, signalGaps).
THEOREM SignalsKeepObligations == Spec /\ [][~HandEdit]_vars => []NoSignalGaps
<1>1. Init => NoSignalGaps
  BY DEF Init, NoSignalGaps, SignalGaps, NoState
<1>2. NoSignalGaps /\ [~HandEdit => NoNewGaps]_vars /\ [~HandEdit]_vars => NoSignalGaps'
  <2>1. NoSignalGaps /\ UNCHANGED vars => NoSignalGaps'
    BY DEF NoSignalGaps, SignalGaps, Active, vars
  <2> QED
    BY <2>1 DEF NoSignalGaps, NoNewGaps
<1> QED
  BY <1>1, <1>2, GapsAreMadeByHand, PTL DEF Spec

-----------------------------------------------------------------------------
(* What the evidence says *)

\* What the evidence e of obligation o says, with the failing runs reds, of a
\* tree that has come as far as version now.
TrueProof(o, e, reds, now) ==
  /\ o \in {"checks-pass", "boundary-tests", "contract-spec-and-test"} => e.tree \in Passing[e.checks]
  /\ o \in Runnable =>
       /\ e.tree <= now
       /\ e.tree = now => now \in TestPassing \union Passing[e.checks]
  /\ o \in Pairs => \E red \in reds[o] : red # e.tree

FitnessTrue(e) == \A r \in e.fitness : e.tree \in FitPassing[r]

\* Every reference has its impact, and the user has answered each departure.
AllAnswered(s) ==
  \A r \in Declared(s) :
    /\ s.impacts[r] # "unset"
    /\ s.impacts[r] \in {"amends", "contradicts"} => s.adr = "resolved"

\* The obligations whose evidence says something; the document is settled by close.
Judged == Obligation \ {"living-doc"}

\* What state s claims is true while the tree is at version now.
Sound(s, now) ==
  /\ \A o \in Judged : s.ob[o] = "satisfied" => TrueProof(o, s.proof[o], s.red, now)
  /\ FitnessTrue(s.proof["adr-impact-declaration"])
  /\ s.ob["adr-impact-declaration"] = "satisfied" => AllAnswered(s)

\* The commands of c passed and its fitness checks held on version v.
Ran(c, v) ==
  /\ c.ok => v \in (IF IsCheck(c) THEN Passing[c.cfg.checks] ELSE TestPassing)
  /\ \A r \in c.fitOK : v \in FitPassing[r]

\* What a check or a run in flight knows: its commands ran on a version between
\* the one of its first fingerprint and the present one, and a check took its
\* second fingerprint after that.
Witnessed(c, now) ==
  c.op \in {"check", "run"} =>
    /\ c.at \in {"execute", "observe", "settle"} =>
         c.before.tree <= now /\ c.before.checks = c.cfg.checks
    /\ c.at = "observe" => IsCheck(c) /\ \E v \in c.before.tree .. now : Ran(c, v)
    /\ c.at = "settle" =>
         \E v \in c.before.tree .. now : Ran(c, v) /\ (IsCheck(c) => v <= c.after.tree)

\* What a close in flight has validated.
Cleared(c) ==
  /\ c.at \in {"derive", "close"} => CanClose(c.saw, c.doc) /\ Stale(c.saw, c.before) = {}
  /\ c.at = "close" => LacksNothing(c.saw, c.diff, c.cfg)

\* The signal that every change of a known kind has.
Always(s) == s.kind # "unset" => "always" \in s.signals

\* The inductive invariant.
Justified ==
  /\ Sound(st, tree) /\ Always(st)
  /\ \A p \in Proc : Witnessed(cmd[p], tree) /\ Cleared(cmd[p])

\* t claims nothing that s did not: what it holds satisfied s held satisfied by
\* the same evidence, over the same references, answers and failing runs.
Upholds(s, t) ==
  /\ \A o \in Judged : \/ t.ob[o] = s.ob[o] /\ t.proof[o] = s.proof[o]
                       \/ t.ob[o] # "satisfied" /\ t.proof[o] \in {s.proof[o], NoProof}
  /\ \A o \in Runnable : s.red[o] \subseteq t.red[o]
  /\ t.ob["adr-impact-declaration"] = "satisfied" => t.impacts = s.impacts
  /\ s.adr = "resolved" => t.adr = "resolved"
  /\ "always" \in s.signals => "always" \in t.signals

\* A reducer that keeps what is sound so, and the signal every change has.
Keeps(s, t, now) ==
  /\ Sound(s, now) => Sound(t, now)
  /\ "always" \in s.signals => "always" \in t.signals

LEMMA JudgedType ==
  /\ Judged \subseteq Obligation /\ Runnable \subseteq Judged /\ Pairs \subseteq Runnable
  /\ {"checks-pass", "boundary-tests", "contract-spec-and-test", "adr-impact-declaration"} \subseteq Judged
  /\ Judged = {"checks-pass", "boundary-tests", "contract-spec-and-test", "adr-impact-declaration",
               "repro-test", "tdd-red-green", "migration-compat-and-test"}
  BY DEF Judged, Obligation, Runnable, Pairs

LEMMA UpholdsTransitive ==
  ASSUME NEW s, NEW t, NEW u, Upholds(s, t), Upholds(t, u)
  PROVE  Upholds(s, u)
<1>1. \A o \in Judged : \/ u.ob[o] = s.ob[o] /\ u.proof[o] = s.proof[o]
                        \/ u.ob[o] # "satisfied" /\ u.proof[o] \in {s.proof[o], NoProof}
  BY DEF Upholds
<1>2. u.ob["adr-impact-declaration"] = "satisfied" => u.impacts = s.impacts
  BY JudgedType DEF Upholds
<1>3. \A o \in Runnable : s.red[o] \subseteq u.red[o]
  BY DEF Upholds
<1>4. /\ s.adr = "resolved" => u.adr = "resolved"
      /\ "always" \in s.signals => "always" \in u.signals
  BY DEF Upholds
<1> QED
  BY <1>1, <1>2, <1>3, <1>4 DEF Upholds

LEMMA UpholdsReflexive == \A s : Upholds(s, s)
  BY DEF Upholds

LEMMA UpheldSound ==
  ASSUME NEW s, NEW t, NEW now, Upholds(s, t), Sound(s, now)
  PROVE  Sound(t, now)
<1>1. ASSUME NEW o \in Judged, t.ob[o] = "satisfied"
      PROVE  TrueProof(o, t.proof[o], t.red, now)
  <2>1. s.ob[o] = "satisfied" /\ t.proof[o] = s.proof[o]
    BY <1>1 DEF Upholds
  <2>2. TrueProof(o, s.proof[o], s.red, now)
    BY <2>1 DEF Sound
  <2>3. o \in Pairs => s.red[o] \subseteq t.red[o]
    BY JudgedType DEF Upholds
  <2> QED
    BY <2>1, <2>2, <2>3 DEF TrueProof
<1>2. FitnessTrue(t.proof["adr-impact-declaration"])
  <2>1. t.proof["adr-impact-declaration"] \in {s.proof["adr-impact-declaration"], NoProof}
    BY JudgedType DEF Upholds
  <2> QED
    BY <2>1 DEF Sound, FitnessTrue, NoProof
<1>3. ASSUME t.ob["adr-impact-declaration"] = "satisfied"
      PROVE  AllAnswered(t)
  <2>1. s.ob["adr-impact-declaration"] = "satisfied"
    BY <1>3, JudgedType DEF Upholds
  <2>2. t.impacts = s.impacts /\ (s.adr = "resolved" => t.adr = "resolved")
    BY <1>3 DEF Upholds
  <2> QED
    BY <2>1, <2>2 DEF Sound, AllAnswered, Declared
<1> QED
  BY <1>1, <1>2, <1>3 DEF Sound

LEMMA UpheldKeeps ==
  ASSUME NEW s, NEW t, NEW now, Upholds(s, t)
  PROVE  Keeps(s, t, now)
  BY UpheldSound DEF Keeps, Upholds

LEMMA KeepsTransitive ==
  ASSUME NEW s, NEW t, NEW u, NEW now, Keeps(s, t, now), Keeps(t, u, now)
  PROVE  Keeps(s, u, now)
  BY DEF Keeps

\* What a reducer upholds that changes only obligations and their evidence.
LEMMA UpholdsObligations ==
  ASSUME NEW s, NEW t, t.signals = s.signals, t.adr = s.adr, t.impacts = s.impacts, t.red = s.red,
         \A o \in Judged : \/ t.ob[o] = s.ob[o] /\ t.proof[o] = s.proof[o]
                           \/ t.ob[o] # "satisfied" /\ t.proof[o] \in {s.proof[o], NoProof}
  PROVE  Upholds(s, t)
  BY DEF Upholds

LEMMA AddSignalsUpholds ==
  ASSUME NEW s \in State, NEW xs \in SUBSET Signal
  PROVE  Upholds(s, AddSignals(s, xs)) /\ xs \subseteq AddSignals(s, xs).signals
<1> DEFINE t == AddSignals(s, xs)
<1>1. /\ t.signals = s.signals \union xs
      /\ t.adr = s.adr /\ t.impacts = s.impacts /\ t.red = s.red /\ t.proof = s.proof
      /\ t.ob = [o \in Obligation |->
                   IF ~Active(s, o) /\ \E x \in xs \ s.signals : obligationOf[x] = o
                     THEN "pending" ELSE s.ob[o]]
  BY DEF AddSignals, State
<1> HIDE DEF t
<1>2. \A o \in Judged : t.ob[o] = s.ob[o] \/ t.ob[o] # "satisfied"
  BY <1>1, JudgedType
<1>3. Upholds(s, t) /\ xs \subseteq t.signals
  BY <1>1, <1>2 DEF Upholds
<1> QED
  BY <1>3 DEF t

LEMMA OpenOpsUpholds ==
  ASSUME NEW s \in State, NEW ops
  PROVE  Upholds(s, OpenOps(s, ops))
<1> DEFINE t == OpenOps(s, ops)
<1>1. /\ t.signals = s.signals /\ t.adr = s.adr /\ t.impacts = s.impacts /\ t.red = s.red
      /\ t.ob = s.ob /\ t.proof = s.proof
  BY DEF OpenOps, State
<1> HIDE DEF t
<1>2. Upholds(s, t)
  BY <1>1, UpholdsObligations
<1> QED
  BY <1>2 DEF t

LEMMA ReopenUpholds ==
  ASSUME NEW s \in State, NEW o \in Obligation
  PROVE  Upholds(s, Reopen(s, o))
<1> DEFINE t == Reopen(s, o)
<1>1. /\ t.signals = s.signals /\ t.adr = s.adr /\ t.impacts = s.impacts /\ t.red = s.red
      /\ t.ob = [s.ob EXCEPT ![o] = "pending"] /\ t.proof = [s.proof EXCEPT ![o] = NoProof]
  BY DEF Reopen, State
<1>2. DOMAIN s.ob = Obligation /\ DOMAIN s.proof = Obligation
  BY DEF State
<1> HIDE DEF t
<1>3. \A q \in Judged : \/ t.ob[q] = s.ob[q] /\ t.proof[q] = s.proof[q]
                        \/ t.ob[q] # "satisfied" /\ t.proof[q] \in {s.proof[q], NoProof}
  BY <1>1, <1>2, JudgedType
<1>4. Upholds(s, t)
  BY <1>1, <1>3, UpholdsObligations
<1> QED
  BY <1>4 DEF t

\* A new reference reopens the declaration, so what is still satisfied is satisfied
\* over the same references.
LEMMA RecordReferencesUpholds ==
  ASSUME NEW s \in State, NEW refs \in SUBSET Ref
  PROVE  Upholds(s, RecordReferences(s, refs))
<1> DEFINE missing == refs \ Declared(s)
           impacts == [r \in Ref |-> IF r \in missing THEN "unset" ELSE s.impacts[r]]
           added == [s EXCEPT !.impacts = impacts]
           adr == "adr-impact-declaration"
           t == RecordReferences(s, refs)
<1>1. /\ added.signals = s.signals /\ added.adr = s.adr /\ added.red = s.red
      /\ added.ob = s.ob /\ added.proof = s.proof /\ added.impacts = impacts
  BY DEF State
<1>2. /\ t.signals = s.signals /\ t.adr = s.adr /\ t.red = s.red /\ t.impacts = impacts
      /\ IF missing # {} /\ s.ob[adr] = "satisfied"
           THEN t.ob = [s.ob EXCEPT ![adr] = "pending"] /\ t.proof = [s.proof EXCEPT ![adr] = NoProof]
           ELSE t.ob = s.ob /\ t.proof = s.proof
  <2>1. t = IF missing # {} /\ s.ob[adr] = "satisfied" THEN Reopen(added, adr) ELSE added
    BY DEF RecordReferences
  <2>2. /\ Reopen(added, adr).signals = added.signals /\ Reopen(added, adr).adr = added.adr
        /\ Reopen(added, adr).red = added.red /\ Reopen(added, adr).impacts = added.impacts
        /\ Reopen(added, adr).ob = [added.ob EXCEPT ![adr] = "pending"]
        /\ Reopen(added, adr).proof = [added.proof EXCEPT ![adr] = NoProof]
    <3>1. added \in State
      BY DEF State
    <3> HIDE DEF added
    <3> QED
      BY <3>1 DEF Reopen, State
  <2> HIDE DEF t, added
  <2> QED
    BY <1>1, <2>1, <2>2
<1>3. missing = {} => impacts = s.impacts
  BY DEF State
<1>4. DOMAIN s.ob = Obligation /\ DOMAIN s.proof = Obligation
  BY DEF State
<1> HIDE DEF t, missing, impacts
<1>5. t.ob[adr] = "satisfied" => t.impacts = s.impacts
  BY <1>2, <1>3, <1>4, JudgedType
<1>6. \A q \in Judged : \/ t.ob[q] = s.ob[q] /\ t.proof[q] = s.proof[q]
                        \/ t.ob[q] # "satisfied" /\ t.proof[q] \in {s.proof[q], NoProof}
  BY <1>2, <1>4, JudgedType
<1>7. Upholds(s, t)
  BY <1>2, <1>5, <1>6 DEF Upholds
<1> QED
  BY <1>7 DEF t

LEMMA ApplyDerivationUpholds ==
  ASSUME NEW s \in State, NEW d \in Declaration
  PROVE  Upholds(s, ApplyDerivation(s, d))
<1> DEFINE added == AddSignals(s, d.signals)
           asked == OpenOps(added, d.ops)
<1>1. d.signals \in SUBSET Signal /\ d.ops \in SUBSET Op /\ d.refs \in SUBSET Ref
  BY DEF Declaration
<1>2. added \in State /\ Upholds(s, added)
  BY <1>1, AddSignalsType, AddSignalsUpholds
<1> HIDE DEF added
<1>3. asked \in State /\ Upholds(added, asked)
  BY <1>1, <1>2, OpenOpsType, OpenOpsUpholds
<1> HIDE DEF asked
<1>4. Upholds(asked, RecordReferences(asked, d.refs))
  BY <1>1, <1>3, RecordReferencesUpholds
<1>5. Upholds(s, asked)
  BY <1>2, <1>3, UpholdsTransitive
<1> QED
  BY <1>4, <1>5, UpholdsTransitive DEF ApplyDerivation, asked, added

LEMMA ReopenDerivedUpholds ==
  ASSUME NEW s \in State
  PROVE  Upholds(s, ReopenDerived(s))
<1> DEFINE t == ReopenDerived(s)
           lost == {obligationOf[x] : x \in SignalGaps(s)}
<1>1. /\ t.signals = s.signals /\ t.adr = s.adr /\ t.impacts = s.impacts /\ t.red = s.red
      /\ t.ob = [o \in Obligation |-> IF o \in lost THEN "pending" ELSE s.ob[o]]
      /\ t.proof = [o \in Obligation |-> IF o \in lost THEN NoProof ELSE s.proof[o]]
  BY DEF ReopenDerived, State
<1> HIDE DEF t, lost
<1>2. \A q \in Judged : \/ t.ob[q] = s.ob[q] /\ t.proof[q] = s.proof[q]
                        \/ t.ob[q] # "satisfied" /\ t.proof[q] \in {s.proof[q], NoProof}
  BY <1>1, JudgedType
<1>3. Upholds(s, t)
  BY <1>1, <1>2, UpholdsObligations
<1> QED
  BY <1>3 DEF t

LEMMA SettleChecksChangeUpholds ==
  ASSUME NEW s \in State, NEW c
  PROVE  Upholds(s, SettleChecksChange(s, c))
<1> DEFINE t == SettleChecksChange(s, c)
<1>1. /\ t.signals = s.signals /\ t.adr = s.adr /\ t.impacts = s.impacts /\ t.red = s.red
      /\ t.ob = s.ob /\ t.proof = s.proof
  BY DEF SettleChecksChange, State
<1> HIDE DEF t
<1>2. Upholds(s, t)
  BY <1>1, UpholdsObligations
<1> QED
  BY <1>2 DEF t

LEMMA ProductFreePairsUpholds ==
  ASSUME NEW s \in State, NEW d
  PROVE  Upholds(s, SettleProductFreePairs(s, d))
<1> DEFINE t == SettleProductFreePairs(s, d)
           undone == {o \in Pairs : s.ob[o] = "satisfied" /\ s.proof[o].free}
<1>1. CASE ProductFree(d)
  BY <1>1, UpholdsReflexive DEF SettleProductFreePairs
<1>2. CASE ~ProductFree(d)
  <2>1. /\ t.signals = s.signals /\ t.adr = s.adr /\ t.impacts = s.impacts /\ t.red = s.red
        /\ t.ob = [o \in Obligation |-> IF o \in undone THEN "pending" ELSE s.ob[o]]
        /\ t.proof = [o \in Obligation |-> IF o \in undone THEN NoProof ELSE s.proof[o]]
    BY <1>2 DEF SettleProductFreePairs, State
  <2> HIDE DEF t, undone
  <2>2. \A q \in Judged : \/ t.ob[q] = s.ob[q] /\ t.proof[q] = s.proof[q]
                          \/ t.ob[q] # "satisfied" /\ t.proof[q] \in {s.proof[q], NoProof}
    BY <2>1, JudgedType
  <2>3. Upholds(s, t)
    BY <2>1, <2>2, UpholdsObligations
  <2> QED
    BY <2>3 DEF t
<1> QED
  BY <1>1, <1>2

LEMMA TreeBoundUpholds ==
  ASSUME NEW s \in State, NEW v
  PROVE  Upholds(s, SettleTreeBound(s, v))
  BY ReopenUpholds, UpholdsReflexive DEF SettleTreeBound, Obligation

LEMMA DeferImpactsUpholds ==
  ASSUME NEW s \in State, NEW c
  PROVE  Upholds(s, DeferImpacts(s, c))
  BY ReopenUpholds, UpholdsReflexive DEF DeferImpacts, Obligation

LEMMA WithPlanUpholds ==
  ASSUME NEW s \in State, NEW t \in WithPlan(s)
  PROVE  Upholds(s, t)
<1>1. ASSUME NEW decl \in Declarations
      PROVE  Upholds(s, ApplyDerivation(s, Derive(s, NoDiff, cfg.strict, decl)))
  BY ChangeAssumption, DiffsType, DeriveType, ApplyDerivationUpholds
<1> QED
  BY <1>1, UpholdsReflexive DEF WithPlan

\* A failing run is recorded beside the others.
LEMMA RecordRunUpholds ==
  ASSUME NEW s \in State, NEW o \in Runnable, NEW v
  PROVE  Upholds(s, [s EXCEPT !.red[o] = @ \union {v}])
<1> DEFINE t == [s EXCEPT !.red[o] = @ \union {v}]
<1>1. /\ t.signals = s.signals /\ t.adr = s.adr /\ t.impacts = s.impacts
      /\ t.ob = s.ob /\ t.proof = s.proof /\ t.red = [s.red EXCEPT ![o] = s.red[o] \union {v}]
  BY DEF State
<1>2. \A q \in Runnable : s.red[q] \subseteq t.red[q]
  BY <1>1 DEF State
<1> HIDE DEF t
<1>3. Upholds(s, t)
  BY <1>1, <1>2 DEF Upholds
<1> QED
  BY <1>3 DEF t

\* What is settled with evidence that is true stays sound.
LEMMA SatisfiedKeeps ==
  ASSUME NEW s \in State, NEW o \in Judged, NEW e, NEW now,
         TrueProof(o, e, s.red, now), FitnessTrue(e),
         o = "adr-impact-declaration" => AllAnswered(s)
  PROVE  Keeps(s, [s EXCEPT !.ob[o] = "satisfied", !.proof[o] = e], now)
<1> DEFINE t == [s EXCEPT !.ob[o] = "satisfied", !.proof[o] = e]
<1>1. /\ t.signals = s.signals /\ t.adr = s.adr /\ t.impacts = s.impacts /\ t.red = s.red
      /\ t.ob = [s.ob EXCEPT ![o] = "satisfied"] /\ t.proof = [s.proof EXCEPT ![o] = e]
      /\ DOMAIN s.ob = Obligation /\ DOMAIN s.proof = Obligation
  BY DEF State
<1> HIDE DEF t
<1>2. ASSUME Sound(s, now) PROVE Sound(t, now)
  <2>1. ASSUME NEW q \in Judged, t.ob[q] = "satisfied"
        PROVE  TrueProof(q, t.proof[q], t.red, now)
    <3>1. CASE q = o
      BY <1>1, <3>1, JudgedType
    <3>2. CASE q # o
      BY <1>1, <1>2, <2>1, <3>2, JudgedType DEF Sound
    <3> QED
      BY <3>1, <3>2
  <2>2. FitnessTrue(t.proof["adr-impact-declaration"])
    BY <1>1, <1>2, JudgedType DEF Sound
  <2>3. t.ob["adr-impact-declaration"] = "satisfied" => AllAnswered(t)
    <3>1. AllAnswered(s) => AllAnswered(t)
      BY <1>1 DEF AllAnswered, Declared
    <3> QED
      BY <1>1, <1>2, <3>1, JudgedType DEF Sound
  <2> QED
    BY <2>1, <2>2, <2>3 DEF Sound
<1>3. Keeps(s, t, now)
  BY <1>1, <1>2 DEF Keeps
<1> QED
  BY <1>3 DEF t

LEMMA SettleKeeps ==
  ASSUME NEW s \in State, NEW o \in Judged, NEW holds, NEW e, NEW now,
         holds => /\ TrueProof(o, e, s.red, now) /\ FitnessTrue(e)
                  /\ o = "adr-impact-declaration" => AllAnswered(s)
  PROVE  Keeps(s, Settle(s, o, holds, e), now)
<1>1. Keeps(s, s, now) /\ Keeps(s, Reopen(s, o), now)
  BY UpheldKeeps, UpholdsReflexive, ReopenUpholds, JudgedType
<1>2. holds => Keeps(s, [s EXCEPT !.ob[o] = "satisfied", !.proof[o] = e], now)
  BY SatisfiedKeeps
<1> QED
  BY <1>1, <1>2 DEF Settle

\* A check that finds the fingerprint unchanged ran on the tree that it names.
LEMMA Measured ==
  ASSUME NEW c \in Command, NEW now \in Nat, c.op \in {"check", "run"}, c.at = "settle",
         Witnessed(c, now), IsCheck(c), c.before = c.after
  PROVE  /\ c.ok => c.after.tree \in Passing[c.after.checks]
         /\ \A r \in c.fitOK : c.after.tree \in FitPassing[r]
<1>1. c.before.tree \in Nat /\ c.after.tree = c.before.tree /\ c.after.checks = c.before.checks
  BY DEF Command, Fingerprint, Version
<1>2. PICK v \in c.before.tree .. now : Ran(c, v) /\ v <= c.after.tree
  BY DEF Witnessed
<1>3. v = c.after.tree
  BY <1>1, <1>2
<1>4. c.before.checks = c.cfg.checks
  BY DEF Witnessed
<1> QED
  BY <1>1, <1>2, <1>3, <1>4 DEF Ran

LEMMA NothingRun ==
  /\ FitnessTrue(NoProof)
  /\ \A reds, now : TrueProof("adr-impact-declaration", NoProof, reds, now)
  BY DEF FitnessTrue, NoProof, TrueProof, Runnable, Pairs

LEMMA CheckPartsKeep ==
  ASSUME NEW s \in State, NEW c \in Command, NEW now \in Nat, NEW checked, checked => ChecksHold(c),
         c.op \in {"check", "run"}, c.at = "settle", Witnessed(c, now), IsCheck(c)
  PROVE  /\ Keeps(s, SettleChecks(s, c), now)
         /\ Keeps(s, SettleBoundary(s, c), now)
         /\ Keeps(s, SettleContract(s, c, checked), now)
         /\ Keeps(s, SettleImpacts(s, c), now)
<1>1. /\ "checks-pass" \in Judged /\ "boundary-tests" \in Judged
      /\ "contract-spec-and-test" \in Judged /\ "adr-impact-declaration" \in Judged
  BY JudgedType
<1>2. ASSUME ChecksHold(c), NEW o \in {"checks-pass", "boundary-tests", "contract-spec-and-test"}, NEW free
      PROVE  TrueProof(o, Observed(c, {}, free), s.red, now) /\ FitnessTrue(Observed(c, {}, free))
  <2>1. c.after.tree \in Passing[c.after.checks]
    BY <1>2, Measured DEF ChecksHold
  <2> QED
    BY <2>1 DEF TrueProof, FitnessTrue, Observed, Runnable, Pairs
<1>3. Keeps(s, SettleChecks(s, c), now)
  BY <1>1, <1>2, SettleKeeps DEF SettleChecks
<1>4. Keeps(s, SettleBoundary(s, c), now)
  BY <1>1, <1>2, SettleKeeps DEF SettleBoundary
<1>5. Keeps(s, SettleContract(s, c, checked), now)
  BY <1>1, <1>2, SettleKeeps DEF SettleContract
<1>6. Keeps(s, SettleImpacts(s, c), now)
  <2> DEFINE holds == /\ Declared(s) # {}
                      /\ c.plan \subseteq c.fitOK
                      /\ c.plan # {} => c.before = c.after
                      /\ ImpactsDeclared(s, c.records)
             e == IF c.plan = {} THEN NoProof ELSE Observed(c, c.plan, FALSE)
             adr == "adr-impact-declaration"
  <2>1. holds => AllAnswered(s)
    BY DEF ImpactsDeclared, AllAnswered
  <2>2. holds => TrueProof(adr, e, s.red, now) /\ FitnessTrue(e)
    <3>1. CASE c.plan = {}
      BY <3>1, NothingRun
    <3>2. CASE c.plan # {} /\ holds
      <4>1. \A r \in c.plan : c.after.tree \in FitPassing[r]
        BY <3>2, Measured
      <4> QED
        BY <3>2, <4>1 DEF TrueProof, FitnessTrue, Observed, Runnable, Pairs
    <3> QED
      BY <3>1, <3>2
  <2>3. SettleImpacts(s, c) = Settle(s, adr, holds, e)
    BY DEF SettleImpacts
  <2> HIDE DEF holds, e
  <2> QED
    BY <1>1, <2>1, <2>2, <2>3, SettleKeeps
<1> QED
  BY <1>3, <1>4, <1>5, <1>6

LEMMA SettleCheckKeeps ==
  ASSUME NEW s \in State, NEW c \in Command, NEW now \in Nat,
         c.op \in {"check", "run"}, c.at = "settle", Witnessed(c, now), IsCheck(c)
  PROVE  Keeps(s, SettleCheck(s, c), now)
<1> DEFINE derived == ApplyDerivation(s, Derive(s, c.diff, c.cfg.strict, NoDeclaration))
           reopened == ReopenDerived(derived)
           gated   == SettleChecksChange(reopened, c.cfg)
           checked == SettleChecks(gated, c)
           tested  == SettleBoundary(checked, c)
           paired  == SettleProductFreePairs(tested, c.diff)
           bound   == SettleTreeBound(paired, c.after.tree)
           known   == ChecksHold(c) /\ Active(gated, "checks-pass")
           contract == SettleContract(bound, c, known)
<1>1. c.diff \in DiffRecord /\ c.cfg \in Config /\ NoDeclaration \in Declaration
  BY DEF Command, NoDeclaration, Declaration
<1>2. SettleCheck(s, c) = DeferImpacts(contract, c) \/ SettleCheck(s, c) = SettleImpacts(contract, c)
  BY DEF SettleCheck
<1>a. known => ChecksHold(c)
  OBVIOUS
<1>3. derived \in State /\ Keeps(s, derived, now)
  BY <1>1, DeriveType, ApplyDerivationType, ApplyDerivationUpholds, UpheldKeeps
<1> HIDE DEF derived
<1>4. reopened \in State /\ Keeps(derived, reopened, now)
  BY <1>3, ReopenDerivedType, ReopenDerivedUpholds, UpheldKeeps
<1> HIDE DEF reopened
<1>5. gated \in State /\ Keeps(reopened, gated, now)
  BY <1>1, <1>4, SettleChecksChangeType, SettleChecksChangeUpholds, UpheldKeeps
<1> HIDE DEF gated, known
<1>6. checked \in State /\ Keeps(gated, checked, now)
  BY <1>5, CheckPartsType, CheckPartsKeep
<1> HIDE DEF checked
<1>7. tested \in State /\ Keeps(checked, tested, now)
  BY <1>6, CheckPartsType, CheckPartsKeep
<1> HIDE DEF tested
<1>8. paired \in State /\ Keeps(tested, paired, now)
  BY <1>1, <1>7, ProductFreePairsType, ProductFreePairsUpholds, UpheldKeeps
<1> HIDE DEF paired
<1>9. bound \in State /\ Keeps(paired, bound, now)
  BY <1>8, TreeBoundType, TreeBoundUpholds, UpheldKeeps
<1> HIDE DEF bound
<1>10. contract \in State /\ Keeps(bound, contract, now)
  BY <1>9, <1>a, CheckPartsType, CheckPartsKeep
<1> HIDE DEF contract
<1>11. Keeps(contract, DeferImpacts(contract, c), now) /\ Keeps(contract, SettleImpacts(contract, c), now)
  BY <1>10, CheckPartsKeep, DeferImpactsUpholds, UpheldKeeps
<1>12. Keeps(s, gated, now)
  BY <1>3, <1>4, <1>5, KeepsTransitive
<1>13. Keeps(s, paired, now)
  BY <1>12, <1>6, <1>7, <1>8, KeepsTransitive
<1>14. Keeps(s, contract, now)
  BY <1>13, <1>9, <1>10, KeepsTransitive
<1> QED
  BY <1>2, <1>11, <1>14, KeepsTransitive

\* A run that counts for an obligation ran on a version that is not older than the
\* one its evidence names, so that it is true of that one as long as it is there.
LEMMA SettleRunKeeps ==
  ASSUME NEW s \in State, NEW c \in Command, NEW now \in Nat,
         c.op = "run", c.at = "settle", Witnessed(c, now)
  PROVE  Keeps(s, SettleRun(s, c), now)
<1> DEFINE o == c.ob
           failed == [s EXCEPT !.red[o] = @ \union {c.before.tree}]
           ran == IF c.ok THEN s ELSE failed
           evidence == [tree |-> c.before.tree, checks |-> c.before.checks,
                        fitness |-> {}, free |-> c.cp = "free"]
           paired == /\ c.ok /\ Active(s, o) /\ c.paired /\ CounterproofHolds(c.cp)
                     /\ HasRed(s.red[o], c.before.tree)
<1>1. c.ob \in Runnable /\ c.ob \in Judged /\ c.before.tree \in Version /\ c.before.tree \in Nat
  <2>1. c.ob \in Runnable /\ c.before \in Fingerprint
    BY DEF Command
  <2>2. c.before.tree \in Version /\ c.before.tree \in Nat
    BY <2>1 DEF Fingerprint, Version
  <2> QED
    BY <2>1, <2>2, JudgedType
<1>2. ran \in State /\ Upholds(s, ran)
  BY <1>1, RecordRunType, RecordRunUpholds, UpholdsReflexive
<1>3. FitnessTrue(evidence) /\ evidence.tree = c.before.tree /\ evidence.checks = c.cfg.checks
  BY DEF FitnessTrue, Witnessed
<1>4. ASSUME c.ok, c.before.tree = now
      PROVE  now \in TestPassing \union Passing[c.cfg.checks]
  <2>1. PICK v \in c.before.tree .. now : Ran(c, v)
    BY DEF Witnessed
  <2>2. v = now
    BY <1>1, <1>4, <2>1
  <2> QED
    BY <1>4, <2>1, <2>2 DEF Ran
<1>5. c.before.tree <= now
  BY DEF Witnessed
<1> HIDE DEF ran, failed, evidence
<1>6. CASE o = "migration-compat-and-test"
  <2>1. c.ok => TrueProof(o, evidence, ran.red, now)
    BY <1>1, <1>3, <1>4, <1>5, <1>6 DEF TrueProof, Pairs
  <2>2. Keeps(ran, Settle(ran, o, c.ok, evidence), now)
    BY <1>1, <1>2, <1>3, <1>6, <2>1, SettleKeeps
  <2>3. SettleRun(s, c) = Settle(ran, o, c.ok, evidence)
    BY <1>6 DEF SettleRun, ran, failed, evidence
  <2> QED
    BY <1>2, <2>2, <2>3, UpheldKeeps, KeepsTransitive
<1>7. CASE o # "migration-compat-and-test" /\ paired
  <2>1. TrueProof(o, evidence, s.red, now)
    <3>1. o \notin {"checks-pass", "boundary-tests", "contract-spec-and-test"}
      BY <1>1 DEF Runnable, Pairs
    <3>2. \E red \in s.red[o] : red # evidence.tree
      BY <1>3, <1>7 DEF HasRed
    <3> QED
      BY <1>3, <1>4, <1>5, <1>7, <3>1, <3>2 DEF TrueProof
  <2>2. SettleRun(s, c) = [s EXCEPT !.ob[o] = "satisfied", !.proof[o] = evidence]
    BY <1>7 DEF SettleRun, evidence
  <2>3. o # "adr-impact-declaration"
    BY <1>1 DEF Runnable, Pairs
  <2>4. Keeps(s, [s EXCEPT !.ob[o] = "satisfied", !.proof[o] = evidence], now)
    BY <1>1, <1>3, <2>1, <2>3, SatisfiedKeeps
  <2> QED
    BY <2>2, <2>4
<1>8. CASE o # "migration-compat-and-test" /\ ~paired
  <2>1. SettleRun(s, c) = ran
    BY <1>8 DEF SettleRun, ran, failed
  <2> QED
    BY <1>2, <2>1, UpheldKeeps
<1> QED
  BY <1>6, <1>7, <1>8

-----------------------------------------------------------------------------
(* What each step does to what is claimed *)

LEMMA VersionType ==
  ASSUME TypeOK
  PROVE  tree \in Nat /\ tree \in Version
  BY IddAssumption DEF TypeOK, Version

\* What a command in flight witnessed stays so while the tree is edited.
LEMMA WitnessedLater ==
  ASSUME NEW c \in Command, NEW v \in Nat, NEW w \in Nat, v <= w, Witnessed(c, v)
  PROVE  Witnessed(c, w)
<1>1. c.before.tree \in Nat
  BY DEF Command, Fingerprint, Version
<1>2. c.before.tree .. v \subseteq c.before.tree .. w
  BY <1>1
<1> QED
  BY <1>1, <1>2 DEF Witnessed

\* A close has validated what it closes, and what it has derived lacks nothing.
LEMMA CommandTold ==
  ASSUME TypeOK, NEW p \in Proc, Commands(p), Witnessed(cmd[p], tree), Cleared(cmd[p])
  PROVE  \E c : /\ cmd' = [cmd EXCEPT ![p] = c] /\ tree' = tree
                /\ Witnessed(c, tree) /\ Cleared(c)
<1> DEFINE Told(c) == Become(p, c) /\ Witnessed(c, tree) /\ Cleared(c)
<1> SUFFICES \E c : Told(c)
  BY DEF Become
<1>a. cmd[p] \in Command /\ Idle.op = "none" /\ Idle.at = "idle" /\ tree \in Nat
  BY VersionType DEF TypeOK, Idle
<1>1. ASSUME NEW decl \in Declarations, SignalsRead(p, decl)
      PROVE  \E c : Told(c)
  <2>1. PICK d \in {NoDiff, Diff[tree]} :
          Become(p, [Idle EXCEPT !.op = "signals", !.at = "settle",
                                 !.diff = d, !.cfg = cfg, !.decl = decl])
    BY <1>1 DEF SignalsRead
  <2> DEFINE n == [Idle EXCEPT !.op = "signals", !.at = "settle",
                               !.diff = d, !.cfg = cfg, !.decl = decl]
  <2>2. n.op = "signals" /\ n.at = "settle"
    BY DEF Idle
  <2> HIDE DEF n
  <2>3. Told(n)
    BY <2>1, <2>2 DEF n, Witnessed, Cleared
  <2> QED
    BY <2>3
<1>2. CASE SignalsCommit(p) \/ AwaitApproval(p) \/ CheckCommit(p) \/ RunCommit(p) \/ CloseCommit(p)
  <2>1. Become(p, Idle)
    BY <1>2 DEF SignalsCommit, AwaitApproval, CheckCommit, RunCommit, CloseCommit, EndWith
  <2>2. Told(Idle)
    BY <1>a, <2>1 DEF Witnessed, Cleared
  <2> QED
    BY <2>2
<1>3. CASE CheckRead(p)
  <2>1. PICK d \in {Diff[tree]} \union OtherDiffs[tree] :
          Become(p, [Inputs(Idle, d) EXCEPT
                       !.op = "check", !.at = IF ChecksApproved(st, cfg) THEN "fingerprint" ELSE "await"])
    BY <1>3 DEF CheckRead
  <2> DEFINE n == [Inputs(Idle, d) EXCEPT
                     !.op = "check", !.at = IF ChecksApproved(st, cfg) THEN "fingerprint" ELSE "await"]
  <2>2. n.at \in {"await", "fingerprint"}
    BY DEF Inputs, Idle
  <2> HIDE DEF n
  <2>3. Told(n)
    BY <2>1, <2>2 DEF n, Witnessed, Cleared
  <2> QED
    BY <2>3
<1>4. ASSUME NEW o \in Runnable, RunRead(p, o)
      PROVE  \E c : Told(c)
  <2> DEFINE run == [Idle EXCEPT !.op = "run", !.at = "fingerprint", !.ob = o, !.cfg = cfg,
                                 !.reds = st.red[o]]
             alike == [Inputs(run, Diff[tree]) EXCEPT !.asCheck = TRUE]
  <2>1. Become(p, run) \/ Become(p, alike)
    BY <1>4 DEF RunRead
  <2>2. run.at = "fingerprint" /\ alike.at = "fingerprint"
    BY DEF Inputs, Idle
  <2> HIDE DEF run, alike
  <2>3. Told(run) \/ Told(alike)
    BY <2>1, <2>2 DEF Witnessed, Cleared
  <2> QED
    BY <2>3
<1>5. CASE TakeFingerprint(p)
  <2> DEFINE n == [cmd[p] EXCEPT !.at = "execute", !.before = FingerprintOf(cmd[p].cfg.checks)]
  <2>1. Become(p, n)
    BY <1>5 DEF TakeFingerprint
  <2>2. n.at = "execute" /\ n.cfg = cmd[p].cfg /\ n.before.tree = tree /\ n.before.checks = n.cfg.checks
    BY <1>a DEF FingerprintOf, Command
  <2> HIDE DEF n
  <2> QED
    BY <1>a, <2>1, <2>2 DEF Witnessed, Cleared
<1>6. CASE Execute(p)
  <2> DEFINE c == cmd[p]
             passes == tree \in (IF IsCheck(c) THEN Passing[c.cfg.checks] ELSE TestPassing)
             d == IF IsCheck(c) THEN c.diff ELSE Diff[tree]
             paired == /\ c.op = "run" /\ c.ob \in Pairs /\ passes
                       /\ HasRed(c.reds, c.before.tree)
                       /\ "test" \in d.areas
             boundary == IsCheck(c) /\ c.wanted /\ passes /\ "test" \in d.areas
             fitOK == IF c.op = "check" THEN {r \in c.plan : tree \in FitPassing[r]} ELSE {}
             at == IF IsCheck(c) THEN "observe" ELSE "settle"
  <2>1. PICK cp \in (IF paired \/ boundary THEN Counterproof(d) ELSE {"none"}) :
          Become(p, [c EXCEPT !.at = at, !.ok = passes, !.cp = cp, !.paired = paired,
                              !.boundary = boundary, !.fitOK = fitOK])
    BY <1>6 DEF Execute
  <2> DEFINE n == [c EXCEPT !.at = at, !.ok = passes, !.cp = cp, !.paired = paired,
                            !.boundary = boundary, !.fitOK = fitOK]
  <2>2. /\ n.at = at /\ n.ok = passes /\ n.fitOK = fitOK
        /\ n.op = c.op /\ n.asCheck = c.asCheck /\ n.cfg = c.cfg /\ n.before = c.before
    <3> HIDE DEF passes, paired, boundary, fitOK, at
    <3> QED
      BY <1>a DEF Command
  <2>3. IsCheck(n) <=> IsCheck(c)
    BY <2>2 DEF IsCheck
  <2>4. (passes <=> tree \in (IF IsCheck(n) THEN Passing[n.cfg.checks] ELSE TestPassing))
        /\ \A r \in fitOK : tree \in FitPassing[r]
    BY <2>2, <2>3
  <2>5. at \in {"observe", "settle"} /\ (at = "observe" <=> IsCheck(c))
    OBVIOUS
  <2> HIDE DEF n, passes, fitOK, at
  <2>6. Ran(n, tree)
    BY <2>2, <2>4 DEF Ran
  <2>7. Cleared(n)
    BY <2>2, <2>5 DEF Cleared
  <2>8. Witnessed(n, tree)
    <3>1. SUFFICES ASSUME n.op \in {"check", "run"}
                   PROVE  Witnessed(n, tree)
      BY DEF Witnessed
    <3>2. c.before.tree <= tree /\ c.before.checks = c.cfg.checks
      BY <1>6, <2>2, <3>1 DEF Witnessed, Execute, At
    <3>3. c.before.tree \in Nat
      BY <1>a DEF Command, Fingerprint, Version
    <3>4. tree \in n.before.tree .. tree
      BY <1>a, <2>2, <3>2, <3>3
    <3> QED
      BY <2>2, <2>3, <2>5, <2>6, <3>2, <3>4 DEF Witnessed
  <2> QED
    BY <2>1, <2>7, <2>8 DEF n
<1>7. CASE Observe(p)
  <2> DEFINE c == cmd[p]
             n == [c EXCEPT !.at = "settle", !.after = FingerprintOf(cfg.checks),
                            !.records = c.attached \intersect Diff[tree].adrs]
  <2>1. Become(p, n)
    BY <1>7 DEF Observe
  <2>2. /\ n.at = "settle" /\ n.after.tree = tree /\ n.ok = c.ok /\ n.fitOK = c.fitOK
        /\ n.op = c.op /\ n.asCheck = c.asCheck /\ n.cfg = c.cfg /\ n.before = c.before
    BY <1>a DEF Command, FingerprintOf
  <2> HIDE DEF n
  <2>3. Cleared(n)
    BY <2>2 DEF Cleared
  <2>4. Witnessed(n, tree)
    <3>1. SUFFICES ASSUME n.op \in {"check", "run"}
                   PROVE  Witnessed(n, tree)
      BY DEF Witnessed
    <3>2. /\ c.before.tree <= tree /\ c.before.checks = c.cfg.checks
          /\ \E v \in c.before.tree .. tree : Ran(c, v)
      BY <1>7, <2>2, <3>1 DEF Witnessed, Observe, At
    <3>3. PICK v \in c.before.tree .. tree : Ran(c, v)
      BY <3>2
    <3>4. Ran(n, v)
      BY <2>2, <3>3 DEF Ran, IsCheck
    <3>5. v <= tree
      BY <3>3
    <3> QED
      BY <2>2, <3>2, <3>3, <3>4, <3>5 DEF Witnessed
  <2> QED
    BY <2>1, <2>3, <2>4
<1>8. ASSUME NEW doc \in BOOLEAN, CloseStart(p, doc)
      PROVE  \E c : Told(c)
  <2> DEFINE n == [Idle EXCEPT !.op = "close", !.at = "derive", !.saw = st, !.doc = doc,
                               !.before = FingerprintOf(cfg.checks)]
  <2>1. Become(p, n) /\ CanClose(st, doc) /\ Stale(st, FingerprintOf(cfg.checks)) = {}
    BY <1>8 DEF CloseStart
  <2>2. /\ n.op = "close" /\ n.at = "derive" /\ n.saw = st /\ n.doc = doc
        /\ n.before = FingerprintOf(cfg.checks)
    BY DEF Idle
  <2> HIDE DEF n
  <2> QED
    BY <2>1, <2>2 DEF Witnessed, Cleared
<1>9. CASE CloseDerive(p)
  <2>1. CASE Become(p, Idle)
    <3>1. Told(Idle)
      BY <1>a, <2>1 DEF Witnessed, Cleared
    <3> QED
      BY <3>1
  <2>2. CASE /\ LacksNothing(cmd[p].saw, Diff[tree], cfg)
             /\ Become(p, [cmd[p] EXCEPT !.at = "close", !.diff = Diff[tree], !.cfg = cfg])
    <3> DEFINE n == [cmd[p] EXCEPT !.at = "close", !.diff = Diff[tree], !.cfg = cfg]
    <3>1. /\ n.op = cmd[p].op /\ n.at = "close" /\ n.saw = cmd[p].saw /\ n.doc = cmd[p].doc
          /\ n.before = cmd[p].before /\ n.diff = Diff[tree] /\ n.cfg = cfg
      BY <1>a DEF Command
    <3>2. Become(p, n) /\ cmd[p].at = "derive"
      BY <1>9, <2>2 DEF CloseDerive, At
    <3> HIDE DEF n
    <3> QED
      BY <2>2, <3>1, <3>2 DEF Witnessed, Cleared
  <2> QED
    BY <1>9, <2>1, <2>2 DEF CloseDerive
<1> QED
  BY <1>1, <1>2, <1>3, <1>4, <1>5, <1>6, <1>7, <1>8, <1>9 DEF Commands

LEMMA IntentUpholds ==
  ASSUME TypeOK, Always(st), NEW kind \in Kind, NEW asks,
         OpenChange(kind, asks) \/ ResolveIntent(kind, asks) \/ RaiseIntent(kind, asks)
  PROVE  Upholds(st, st') /\ "always" \in st'.signals
<1>a. st \in State /\ {"always"} \in SUBSET Signal
  BY DEF TypeOK, Signal
<1>b. ASSUME NEW s \in State, s.signals = st.signals, s.ob = st.ob, s.proof = st.proof,
             s.red = st.red, s.impacts = st.impacts, s.adr = st.adr,
             \/ st' \in WithPlan(AddSignals(s, {"always"}))
             \/ st' \in WithPlan(s) /\ "always" \in st.signals
      PROVE  Upholds(st, st') /\ "always" \in st'.signals
  <2>1. Upholds(st, s)
    BY <1>b, UpholdsObligations
  <2>2. CASE st' \in WithPlan(AddSignals(s, {"always"}))
    <3>1. /\ AddSignals(s, {"always"}) \in State /\ Upholds(s, AddSignals(s, {"always"}))
          /\ "always" \in AddSignals(s, {"always"}).signals
      BY <1>a, AddSignalsType, AddSignalsUpholds
    <3>2. Upholds(AddSignals(s, {"always"}), st')
      BY <2>2, <3>1, WithPlanUpholds
    <3>3. Upholds(st, st')
      BY <2>1, <3>1, <3>2, UpholdsTransitive
    <3> QED
      BY <3>1, <3>2, <3>3 DEF Upholds
  <2>3. CASE st' \in WithPlan(s) /\ "always" \in st.signals
    <3>1. Upholds(s, st')
      BY <2>3, WithPlanUpholds
    <3>2. Upholds(st, st')
      BY <2>1, <3>1, UpholdsTransitive
    <3> QED
      BY <2>3, <3>2 DEF Upholds
  <2> QED
    BY <1>b, <2>2, <2>3
<1>1. CASE OpenChange(kind, asks)
  <2> DEFINE s == [st EXCEPT !.status = "open", !.kind = kind, !.facts = IF asks THEN "open" ELSE "none"]
  <2>1. /\ s \in State /\ s.signals = st.signals /\ s.ob = st.ob /\ s.proof = st.proof
        /\ s.red = st.red /\ s.impacts = st.impacts /\ s.adr = st.adr
    BY <1>a DEF State
  <2>2. st' \in WithPlan(AddSignals(s, {"always"}))
    BY <1>1 DEF OpenChange, Write
  <2> HIDE DEF s
  <2> QED
    BY <1>b, <2>1, <2>2
<1>2. CASE ResolveIntent(kind, asks)
  <2> DEFINE s == [st EXCEPT !.kind = kind, !.facts = IF asks THEN "open" ELSE "none"]
  <2>1. /\ s \in State /\ s.signals = st.signals /\ s.ob = st.ob /\ s.proof = st.proof
        /\ s.red = st.red /\ s.impacts = st.impacts /\ s.adr = st.adr
    BY <1>a DEF State
  <2>2. st' \in WithPlan(AddSignals(s, {"always"}))
    BY <1>2 DEF ResolveIntent, Write
  <2> HIDE DEF s
  <2> QED
    BY <1>b, <2>1, <2>2
<1>3. CASE RaiseIntent(kind, asks)
  <2> DEFINE s == [st EXCEPT !.kind = kind, !.facts = IF asks THEN "open" ELSE @]
  <2>1. /\ s \in State /\ s.signals = st.signals /\ s.ob = st.ob /\ s.proof = st.proof
        /\ s.red = st.red /\ s.impacts = st.impacts /\ s.adr = st.adr
    BY <1>a DEF State
  <2>2. st' \in WithPlan(s)
    BY <1>3 DEF RaiseIntent, Write
  <2>3. "always" \in st.signals
    BY <1>3 DEF RaiseIntent, Resolved, Ambiguous, Always
  <2> HIDE DEF s
  <2> QED
    BY <1>b, <2>1, <2>2, <2>3
<1> QED
  BY <1>1, <1>2, <1>3

\* A record command claims nothing new: the impact it declares is of a reference
\* that had none, so the declaration is not satisfied.
LEMMA RecordUpholds ==
  ASSUME TypeOK, Validated, Always(st), Sound(st, tree), Record
  PROVE  Upholds(st, st') /\ Always(st')
<1>a. st \in State /\ DOMAIN st.ob = Obligation /\ DOMAIN st.proof = Obligation
  BY DEF TypeOK, State
<1>b. ASSUME st'.kind = st.kind, Upholds(st, st')
      PROVE  Upholds(st, st') /\ Always(st')
  BY <1>b DEF Always, Upholds
<1>c. ASSUME st'.kind = st.kind, "always" \in st.signals => "always" \in st'.signals,
             st.adr = "resolved" => st'.adr = "resolved",
             st'.impacts = st.impacts, st'.red = st.red, st'.proof = st.proof,
             \A o \in Judged : st'.ob[o] = st.ob[o] \/ st'.ob[o] # "satisfied"
      PROVE  Upholds(st, st') /\ Always(st')
  BY <1>b, <1>c DEF Upholds
<1>1. ASSUME NEW kind \in Kinds, NEW asks \in {FALSE, "open-facts" \in UserGates},
             OpenChange(kind, asks) \/ ResolveIntent(kind, asks) \/ RaiseIntent(kind, asks)
      PROVE  Upholds(st, st') /\ Always(st')
  BY <1>1, ChangeAssumption, IntentUpholds DEF Always
<1>2. ASSUME NEW decl \in Declarations, NEW x \in decl.signals, RecordSignal(x)
      PROVE  Upholds(st, st') /\ Always(st')
  <2>1. {x} \in SUBSET Signal
    BY ChangeAssumption DEF Declaration
  <2>2. st' = AddSignals(st, {x})
    BY <1>2 DEF RecordSignal, Write
  <2>3. st'.kind = st.kind
    BY <1>a, <2>2 DEF AddSignals, State
  <2> QED
    BY <1>a, <1>b, <2>1, <2>2, <2>3, AddSignalsUpholds
<1>3. ASSUME NEW o \in Op \union {Unnamed}, OpenOperation(o)
      PROVE  Upholds(st, st') /\ Always(st')
  <2>1. /\ st'.kind = st.kind /\ st'.signals = st.signals /\ st'.adr = st.adr
        /\ st'.impacts = st.impacts /\ st'.red = st.red /\ st'.proof = st.proof /\ st'.ob = st.ob
    BY <1>3, <1>a DEF OpenOperation, OpenOps, OpenUnnamed, Write, State
  <2> QED
    BY <1>c, <2>1
<1>4. CASE OpenAmbiguous \/ ResolveFacts \/ ResolveOperations \/ ResolveChecksChanged
  <2>1. /\ st'.kind = st.kind /\ st'.signals = st.signals /\ st'.adr = st.adr
        /\ st'.impacts = st.impacts /\ st'.red = st.red /\ st'.proof = st.proof /\ st'.ob = st.ob
    <3> DEFINE Alike == /\ st'.kind = st.kind /\ st'.signals = st.signals /\ st'.adr = st.adr
                        /\ st'.impacts = st.impacts /\ st'.red = st.red
                        /\ st'.proof = st.proof /\ st'.ob = st.ob
    <3>1. OpenAmbiguous => Alike
      BY <1>a DEF OpenAmbiguous, Write, State
    <3>2. ResolveFacts => Alike
      BY <1>a DEF ResolveFacts, Write, State
    <3>3. ResolveOperations => Alike
      BY <1>a DEF ResolveOperations, Write, State
    <3>4. ResolveChecksChanged => Alike
      BY <1>a DEF ResolveChecksChanged, Write, State
    <3> QED
      BY <1>4, <3>1, <3>2, <3>3, <3>4
  <2> QED
    BY <1>c, <2>1
<1>5. CASE OpenAdrGate \/ ResolveAdrGate
  <2>1. /\ st'.kind = st.kind /\ st'.signals = st.signals /\ (st.adr = "resolved" => st'.adr = "resolved")
        /\ st'.impacts = st.impacts /\ st'.red = st.red /\ st'.proof = st.proof /\ st'.ob = st.ob
    BY <1>5, <1>a DEF OpenAdrGate, ResolveAdrGate, Write, State
  <2> QED
    BY <1>c, <2>1
<1>6. ASSUME NEW o \in Obligation, Withdraw(o)
      PROVE  Upholds(st, st') /\ Always(st')
  <2>1. /\ st'.kind = st.kind /\ st'.signals = st.signals /\ st'.adr = st.adr
        /\ st'.impacts = st.impacts /\ st'.red = st.red /\ st'.proof = st.proof
        /\ st'.ob = [st.ob EXCEPT ![o] = "withdrawn"]
    BY <1>6, <1>a DEF Withdraw, Write, State
  <2>2. \A q \in Judged : st'.ob[q] = st.ob[q] \/ st'.ob[q] # "satisfied"
    BY <1>a, <2>1, JudgedType
  <2> QED
    BY <1>c, <2>1, <2>2
<1>7. ASSUME NEW x \in Retractable, NEW answered \in BOOLEAN, Retract(x, answered)
      PROVE  Upholds(st, st') /\ Always(st')
  <2> DEFINE o == obligationOf[x]
  <2>1. /\ st'.kind = st.kind /\ st'.signals = st.signals \ {x} /\ st'.adr = st.adr
        /\ st'.impacts = st.impacts /\ st'.red = st.red /\ st'.proof = st.proof
        /\ st'.ob = [st.ob EXCEPT ![o] = IF @ = "pending" THEN "withdrawn" ELSE @]
    BY <1>7, <1>a DEF Retract, Write, State
  <2>2. x # "always"
    BY DEF Retractable
  <2>3. \A q \in Judged : st'.ob[q] = st.ob[q] \/ st'.ob[q] # "satisfied"
    BY <1>a, <2>1, JudgedType
  <2> QED
    BY <1>c, <2>1, <2>2, <2>3
<1>8. ASSUME NEW r \in Ref, AttachRecord(r)
      PROVE  Upholds(st, st') /\ Always(st')
  <2>1. /\ st'.kind = st.kind /\ st'.signals = st.signals /\ st'.adr = st.adr
        /\ st'.impacts = st.impacts /\ st'.red = st.red /\ st'.proof = st.proof /\ st'.ob = st.ob
    BY <1>8, <1>a DEF AttachRecord, Write, State
  <2> QED
    BY <1>c, <2>1
<1>9. ASSUME NEW r \in Ref, NEW i \in Impact, DeclareImpact(r, i)
      PROVE  Upholds(st, st') /\ Always(st')
  <2>1. /\ st'.kind = st.kind /\ st'.signals = st.signals
        /\ st'.red = st.red /\ st'.proof = st.proof /\ st'.ob = st.ob
        /\ st'.adr = IF i \in {"amends", "contradicts"} THEN "open" ELSE st.adr
    BY <1>9, <1>a DEF DeclareImpact, Write, State
  <2>2. st.impacts[r] = "unset" /\ (i \in {"amends", "contradicts"} => st.adr # "resolved")
    BY <1>9 DEF DeclareImpact
  <2>3. st.ob["adr-impact-declaration"] # "satisfied"
    BY <2>2 DEF Sound, AllAnswered, Declared
  <2>4. Upholds(st, st')
    BY <2>1, <2>2, <2>3 DEF Upholds
  <2> QED
    BY <1>b, <2>1, <2>4
<1> QED
  BY <1>1, <1>2, <1>3, <1>4, <1>5, <1>6, <1>7, <1>8, <1>9 DEF Record

LEMMA CloseUpholds ==
  ASSUME NEW s \in State
  PROVE  Upholds(s, CloseChange(s))
<1> DEFINE t == CloseChange(s)
           v == IF s.ob["living-doc"] = "pending" THEN "satisfied" ELSE s.ob["living-doc"]
<1>1. /\ t.signals = s.signals /\ t.adr = s.adr /\ t.impacts = s.impacts /\ t.red = s.red
      /\ t.proof = s.proof /\ \A o \in Judged : t.ob[o] = s.ob[o]
  BY DEF CloseChange, State, Judged
<1> HIDE DEF t
<1>2. Upholds(s, t)
  BY <1>1, UpholdsObligations
<1> QED
  BY <1>2 DEF t

LEMMA CommandKeeps ==
  ASSUME TypeOK, NEW p \in Proc, Commands(p), Witnessed(cmd[p], tree)
  PROVE  Keeps(st, st', tree)
<1>a. st \in State /\ cmd[p] \in Command /\ tree \in Nat
  BY VersionType DEF TypeOK
<1>b. Keeps(st, st, tree)
  BY UpheldKeeps, UpholdsReflexive
<1>1. CASE SignalsCommit(p)
  <2>1. cmd[p].diff \in DiffRecord /\ cmd[p].decl \in Declaration
    BY <1>a DEF Command
  <2>2. Keeps(st, ApplyDerivation(st, Derive(st, cmd[p].diff, cmd[p].cfg.strict, cmd[p].decl)), tree)
    BY <1>a, <2>1, DeriveType, ApplyDerivationUpholds, UpheldKeeps
  <2> QED
    BY <1>1, <1>b, <2>2 DEF SignalsCommit, EndWith
<1>2. CASE AwaitApproval(p)
  <2>1. Keeps(st, SettleChecksChange(st, cmd[p].cfg), tree)
    BY <1>a, SettleChecksChangeUpholds, UpheldKeeps
  <2> QED
    BY <1>2, <1>b, <2>1 DEF AwaitApproval, EndWith
<1>3. CASE CheckCommit(p)
  <2>1. Keeps(st, SettleCheck(st, cmd[p]), tree)
    BY <1>3, <1>a, SettleCheckKeeps DEF CheckCommit, Busy, At, IsCheck
  <2> QED
    BY <1>3, <1>b, <2>1 DEF CheckCommit, EndWith
<1>4. CASE RunCommit(p)
  <2> DEFINE ran == SettleRun(st, cmd[p])
  <2>1. cmd[p].op = "run" /\ cmd[p].at = "settle"
    BY <1>4 DEF RunCommit, Busy, At
  <2>2. ran \in State /\ Keeps(st, ran, tree)
    BY <1>a, <2>1, SettleRunType, SettleRunKeeps
  <2>3. st' = st \/ st' = ran \/ (cmd[p].asCheck /\ st' = SettleCheck(ran, cmd[p]))
    BY <1>4 DEF RunCommit, EndWith
  <2> HIDE DEF ran
  <2>4. cmd[p].asCheck => Keeps(ran, SettleCheck(ran, cmd[p]), tree)
    BY <1>a, <2>1, <2>2, SettleCheckKeeps DEF IsCheck
  <2> QED
    BY <1>b, <2>2, <2>3, <2>4, KeepsTransitive
<1>5. CASE CloseCommit(p)
  <2>1. Keeps(st, CloseChange(st), tree)
    BY <1>a, CloseUpholds, UpheldKeeps
  <2> QED
    BY <1>5, <1>b, <2>1 DEF CloseCommit, EndWith
<1>6. CASE UNCHANGED st
  BY <1>6, <1>b
<1> QED
  BY <1>1, <1>2, <1>3, <1>4, <1>5, <1>6
     DEF Commands, SignalsRead, CheckRead, RunRead, TakeFingerprint, Execute, Observe,
         CloseStart, CloseDerive

\* No evidence names the version the tree is edited to.
LEMMA EditSound ==
  ASSUME TypeOK, Sound(st, tree), NEW w \in Nat, tree < w
  PROVE  Sound(st, w)
<1>1. st \in State /\ tree \in Nat
  BY VersionType DEF TypeOK
<1>2. ASSUME NEW o \in Judged, st.ob[o] = "satisfied"
      PROVE  TrueProof(o, st.proof[o], st.red, w)
  <2>1. TrueProof(o, st.proof[o], st.red, tree)
    BY <1>2 DEF Sound
  <2>2. st.proof[o].tree \in Nat
    BY <1>1, JudgedType DEF State, Proof, Version
  <2>3. o \in Runnable => st.proof[o].tree <= tree
    BY <2>1 DEF TrueProof
  <2>4. o \in Runnable => st.proof[o].tree <= w /\ st.proof[o].tree # w
    BY <1>1, <2>2, <2>3
  <2> QED
    BY <2>1, <2>4 DEF TrueProof
<1> QED
  BY <1>2 DEF Sound

LEMMA HandEditUpholds ==
  ASSUME TypeOK, HandEdit
  PROVE  Upholds(st, st') /\ st'.kind = st.kind /\ UNCHANGED <<tree, cfg, cmd>>
<1>a. st \in State /\ DOMAIN st.ob = Obligation
  BY DEF TypeOK, State
<1>1. PICK x \in st.signals \ {"always"} :
        \/ Write([st EXCEPT !.signals = @ \ {x}])
        \/ Write([st EXCEPT !.ob[obligationOf[x]] = "withdrawn"])
  BY DEF HandEdit
<1>2. /\ st'.kind = st.kind /\ st'.adr = st.adr /\ st'.impacts = st.impacts
      /\ st'.red = st.red /\ st'.proof = st.proof
      /\ st'.signals \in {st.signals, st.signals \ {x}}
      /\ st'.ob \in {st.ob, [st.ob EXCEPT ![obligationOf[x]] = "withdrawn"]}
  BY <1>1, <1>a DEF Write, State
<1>3. \A o \in Judged : st'.ob[o] = st.ob[o] \/ st'.ob[o] # "satisfied"
  BY <1>a, <1>2, JudgedType
<1>4. "always" \in st.signals => "always" \in st'.signals
  BY <1>2
<1> QED
  BY <1>1, <1>2, <1>3, <1>4 DEF Upholds, Write

\* A command leaves the kind alone.
LEMMA CommandKind ==
  ASSUME TypeOK, Validated, NEW p \in Proc, Commands(p)
  PROVE  st'.kind = st.kind
<1>1. ASSUME Steady(st, [st' EXCEPT !.status = "open"])
      PROVE  st'.kind = st.kind
  <2>1. st' \in State
    BY TypePreserved DEF TypeOK, Next
  <2> QED
    BY <1>1, <2>1 DEF Steady, State
<1> QED
  BY <1>1, CommandSteady, CloseSteady DEF Steady

LEMMA NextJustified ==
  ASSUME TypeOK, Validated, Justified, [Next]_vars
  PROVE  Justified'
<1>a. tree \in Nat /\ cmd \in [Proc -> Command]
  BY VersionType DEF TypeOK
<1>1. CASE Record
  <2>1. Upholds(st, st') /\ Always(st') /\ cmd' = cmd
    BY <1>1, RecordUpholds, RecordDecisions DEF Justified
  <2>2. tree' = tree
    BY <1>1 DEF Record, OpenChange, OpenAmbiguous, ResolveIntent, RaiseIntent, RecordSignal,
                OpenOperation, OpenAdrGate, ResolveFacts, ResolveOperations, ResolveAdrGate,
                ResolveChecksChanged, Withdraw, Retract, AttachRecord, DeclareImpact, Write
  <2>3. Sound(st', tree)
    BY <2>1, UpheldSound DEF Justified
  <2> QED
    BY <2>1, <2>2, <2>3 DEF Justified
<1>2. ASSUME NEW p \in Proc, Commands(p)
      PROVE  Justified'
  <2>1. Witnessed(cmd[p], tree) /\ Cleared(cmd[p])
    BY DEF Justified
  <2>2. PICK c : cmd' = [cmd EXCEPT ![p] = c] /\ tree' = tree /\ Witnessed(c, tree) /\ Cleared(c)
    BY <1>2, <2>1, CommandTold
  <2>3. Keeps(st, st', tree) /\ st'.kind = st.kind
    BY <1>2, <2>1, CommandKeeps, CommandKind
  <2>4. Sound(st', tree) /\ Always(st')
    BY <2>3 DEF Keeps, Justified, Always
  <2>5. \A q \in Proc : Witnessed(cmd'[q], tree) /\ Cleared(cmd'[q])
    BY <1>a, <2>2 DEF Justified
  <2> QED
    BY <2>2, <2>4, <2>5 DEF Justified
<1>3. CASE HandEdit
  <2>1. Upholds(st, st') /\ st'.kind = st.kind /\ tree' = tree /\ cmd' = cmd
    BY <1>3, HandEditUpholds
  <2>2. Sound(st', tree) /\ Always(st')
    BY <2>1, UpheldSound DEF Justified, Always, Upholds
  <2> QED
    BY <2>1, <2>2 DEF Justified
<1>4. CASE Edit
  <2>1. tree' \in Nat /\ tree < tree' /\ st' = st /\ cmd' = cmd
    BY <1>4, <1>a, IddAssumption DEF Edit
  <2>2. Sound(st, tree')
    BY <2>1, EditSound DEF Justified
  <2>3. \A q \in Proc : Witnessed(cmd[q], tree') /\ Cleared(cmd[q])
    <3>1. tree <= tree'
      BY <1>a, <2>1
    <3> QED
      BY <1>a, <2>1, <3>1, WitnessedLater DEF Justified
  <2> QED
    BY <2>1, <2>2, <2>3 DEF Justified
<1>5. CASE SetConfig \/ Done \/ UNCHANGED vars
  BY <1>5 DEF SetConfig, Done, vars, Justified
<1> QED
  BY <1>1, <1>2, <1>3, <1>4, <1>5 DEF Next

LEMMA JustifiedAlways == Spec => []Justified
<1>1. Init => Justified
  <2> SUFFICES ASSUME Init
               PROVE  Justified
    OBVIOUS
  <2>1. Sound(st, tree)
    <3>1. /\ \A o \in Obligation : st.ob[o] = "none"
          /\ st.proof["adr-impact-declaration"] = NoProof
      BY DEF Init, NoState, Obligation
    <3> QED
      BY <3>1, JudgedType DEF Sound, FitnessTrue, NoProof
  <2>2. Always(st)
    BY DEF Init, NoState, Always
  <2>3. \A p \in Proc : cmd[p].op = "none" /\ cmd[p].at = "idle"
    BY DEF Init, Idle
  <2> QED
    BY <2>1, <2>2, <2>3 DEF Justified, Witnessed, Cleared
<1>2. TypeOK /\ Validated /\ Justified /\ [Next]_vars => Justified'
  BY NextJustified
<1> QED
  BY <1>1, <1>2, TypeCorrect, ValidatedAlways, PTL DEF Spec

-----------------------------------------------------------------------------
(* What the evidence says is true *)

\* What the evidence of a satisfied obligation says is true of the tree and of
\* the checks it names, however the tree, the configuration and the state moved
\* while the commands ran (settleChecks, settleBoundary, settleContract,
\* settlePair, settleMigration, settleImpacts).
THEOREM EvidenceIsTrue == Spec => []EvidenceTrue
<1>1. TypeOK /\ Justified => EvidenceTrue
  <2> SUFFICES ASSUME TypeOK, Justified
               PROVE  EvidenceTrue
    OBVIOUS
  <2>1. \A o \in Judged : st.ob[o] = "satisfied" => TrueProof(o, st.proof[o], st.red, tree)
    BY DEF Justified, Sound
  <2>2. FitnessTrue(st.proof["adr-impact-declaration"])
    BY DEF Justified, Sound
  <2> QED
    BY <2>1, <2>2, JudgedType DEF TrueProof, FitnessTrue, EvidenceTrue
<1> QED
  BY <1>1, TypeCorrect, JustifiedAlways, PTL

\* While the impact declaration is satisfied every reference has its impact and
\* every departure its answer, also the references other commands added since
\* the check read them (recordReferences, recordImpact, settleImpacts).
THEOREM ImpactsAreAnswered == Spec => []ImpactsAnswered
<1>1. Justified => ImpactsAnswered
  BY DEF Justified, Sound, AllAnswered, ImpactsAnswered
<1> QED
  BY <1>1, JustifiedAlways, PTL

-----------------------------------------------------------------------------
(* What close may close *)

\* Only a close closes, and the state it validated.
LEMMA OnlyCloseCloses ==
  ASSUME TypeOK, Validated, [Next]_vars, st.status = "open", st'.status = "closed"
  PROVE  \E p \in Proc : CloseCommit(p) /\ st = cmd[p].saw /\ st' = CloseChange(st)
<1>a. st \in State
  BY DEF TypeOK
<1>1. ~Record
  BY RecordDecisions
<1>2. ~HandEdit
  BY <1>a DEF HandEdit, Write, State
<1>3. ~(Edit \/ SetConfig \/ Done \/ UNCHANGED vars)
  BY DEF Edit, SetConfig, Done, vars
<1>4. PICK p \in Proc : Commands(p)
  BY <1>1, <1>2, <1>3 DEF Next
<1>5. CloseCommit(p)
  BY <1>4, CommandSteady DEF Steady
<1> QED
  BY <1>5 DEF CloseCommit, EndWith

LEMMA ClosingState ==
  ASSUME TypeOK, Justified, NEW p \in Proc, CloseCommit(p), st = cmd[p].saw
  PROVE  /\ CanClose(st, cmd[p].doc) /\ Stale(st, cmd[p].before) = {}
         /\ LacksNothing(st, cmd[p].diff, cmd[p].cfg)
  BY DEF Justified, Cleared, CloseCommit, At

\* A state that can close has passed its checks, on the tree close saw.
LEMMA ChecksSettled ==
  ASSUME NEW s \in State, NEW doc, NEW f, CanClose(s, doc), Stale(s, f) = {}, Always(s)
  PROVE  /\ s.ob["checks-pass"] = "satisfied"
         /\ s.proof["checks-pass"].tree = f.tree /\ s.proof["checks-pass"].checks = f.checks
<1> DEFINE o == "checks-pass"
<1>1. "always" \in s.signals /\ obligationOf["always"] = o
  BY DEF CanClose, Ambiguous, Always, obligationOf, Signal
<1>2. Active(s, o)
  BY <1>1 DEF CanClose, SignalGaps
<1>3. o \in Obligation /\ o \in TreeBound /\ o # "living-doc"
      /\ o # "adr-impact-declaration" /\ o # "migration-compat-and-test"
  BY DEF Obligation, TreeBound
<1>4. s.ob[o] # "pending"
  BY <1>3 DEF CanClose, Pending
<1>5. s.ob[o] = "satisfied"
  BY <1>2, <1>4 DEF Active
<1> QED
  BY <1>3, <1>5 DEF Stale

\* The derived state lacks no signal of the diff, and its configuration is approved.
LEMMA NothingLacks ==
  ASSUME NEW s \in State, NEW doc, NEW d, NEW c \in Config, CanClose(s, doc), LacksNothing(s, d, c)
  PROVE  DiffSignals(s, d) \subseteq s.signals /\ ChecksApproved(s, c)
<1>1. DiffSignals(s, d) \subseteq s.signals
  BY DEF LacksNothing, Derive
<1>2. s.ckOpen = NoConfig
  BY DEF CanClose, OpenGates
<1>3. SettleChecksChange(s, c).ckOpen = IF ChecksApproved(s, c) THEN NoConfig ELSE c
  BY DEF SettleChecksChange, State
<1>4. SettleChecksChange(s, c) = s
  BY DEF LacksNothing
<1> QED
  BY <1>1, <1>2, <1>3, <1>4, IddAssumption

\* Closing settles the document, the one obligation that may still be pending.
LEMMA NothingPending ==
  ASSUME NEW s \in State, NEW doc, CanClose(s, doc)
  PROVE  Pending(CloseChange(s)) = {}
<1> DEFINE t == CloseChange(s)
<1>1. /\ \A o \in Obligation \ {"living-doc"} : t.ob[o] = s.ob[o]
      /\ t.ob["living-doc"] # "pending"
  BY DEF CloseChange, State, Obligation
<1>2. Pending(s) \subseteq {"living-doc"}
  BY DEF CanClose
<1> HIDE DEF t
<1>3. Pending(t) = {}
  BY <1>1, <1>2 DEF Pending
<1> QED
  BY <1>3 DEF t

\* A change closes only in a state that is settled, with checks that passed on
\* the tree and the configuration close saw, and that lacks no signal of the
\* diff close read, whatever other commands write while close works outside the
\* lock (close, requireFreshEvidence, requireDerived).
THEOREM ClosesAreAlwaysJustified == Spec => ClosesJustified
<1>1. ASSUME TypeOK, Validated, Justified, [Next]_vars
      PROVE  ClosesAreJustified
  <2> SUFFICES ASSUME st.status = "open", st'.status = "closed"
               PROVE  ClosesAreJustified
    BY DEF ClosesAreJustified
  <2>1. PICK p \in Proc : CloseCommit(p) /\ st = cmd[p].saw /\ st' = CloseChange(st)
    BY <1>1, OnlyCloseCloses
  <2>a. st \in State /\ cmd[p] \in Command /\ At(p, "close")
    BY <1>1, <2>1 DEF TypeOK, CloseCommit
  <2>b. cmd[p].cfg \in Config
    BY <2>a DEF Command
  <2>2. /\ CanClose(st, cmd[p].doc) /\ Stale(st, cmd[p].before) = {}
        /\ LacksNothing(st, cmd[p].diff, cmd[p].cfg)
    BY <1>1, <2>1, ClosingState
  <2>3. Pending(st') = {} /\ OpenGates(st) = {} /\ SignalGaps(st) = {}
    <3>1. Pending(CloseChange(st)) = {}
      BY <2>a, <2>2, NothingPending
    <3>2. OpenGates(st) = {} /\ SignalGaps(st) = {}
      BY <2>2 DEF CanClose
    <3>3. Pending(st') = Pending(CloseChange(st))
      BY <2>1
    <3> QED
      BY <3>1, <3>2, <3>3
  <2>4. /\ st.ob["checks-pass"] = "satisfied"
        /\ st.proof["checks-pass"].tree = cmd[p].before.tree
        /\ st.proof["checks-pass"].checks = cmd[p].before.checks
    BY <1>1, <2>a, <2>2, ChecksSettled DEF Justified
  <2>5. st.proof["checks-pass"].tree \in Passing[st.proof["checks-pass"].checks]
    BY <1>1, <2>4, JudgedType DEF Justified, Sound, TrueProof
  <2>6. DiffSignals(st, cmd[p].diff) \subseteq st.signals /\ ChecksApproved(st, cmd[p].cfg)
    BY <2>a, <2>b, <2>2, NothingLacks
  <2> QED
    BY <2>a, <2>3, <2>4, <2>5, <2>6 DEF ClosesAreJustified
<1>2. TypeOK /\ Validated /\ Justified /\ [Next]_vars => [ClosesAreJustified]_vars
  BY <1>1
<1> QED
  BY <1>2, TypeCorrect, ValidatedAlways, JustifiedAlways, PTL DEF Spec, ClosesJustified

=============================================================================
