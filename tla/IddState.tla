------------------------------ MODULE IddState ------------------------------
(***************************************************************************)
(* The state of one IDD change (state.yaml) and the reducers the commands  *)
(* apply to it, each a function from a state to a state as in              *)
(* lib/idd-record.js, lib/idd-signals.js, lib/idd-check.js and             *)
(* lib/idd-close.js.  IddChange runs them against an edited working tree.  *)
(*                                                                         *)
(* Data is abstracted to what the reducers tell apart: a working tree is a *)
(* version number and what its diff against the change's base touches, the *)
(* configuration is its list of checks and strict_tdd, an answer of the    *)
(* user is the fact that it was given.  security-boundary and its          *)
(* trust-review obligation have a life of their own and are left out.      *)
(***************************************************************************)
EXTENDS Naturals

CONSTANTS
  MaxTree,       \* versions of the working tree: 0 is the change's base
  Config,        \* what idd/config.yaml may declare: [checks, strict]
  NoConfig,      \* no checks-changed entry is open
  BaseConfig,    \* what it declared at the base
  Op, Unnamed,   \* irreversible operations, and the gate opened without a reason
  Ref,           \* ADRs and quality scenarios
  FitRef,        \* those with an executable fitness check at the base
  Hit,           \* lines whose content derives a signal
  Diff,          \* Diff[v]: the diff of version v against the change's base
  OtherDiffs,    \* OtherDiffs[v]: its diffs against what --base may name
  Passing,       \* Passing[c]: the versions on which the checks c all pass
  TestPassing,   \* the versions on which the command of `ospec run` passes
  FitPassing,    \* FitPassing[r]: the versions on which the fitness check of r passes
  Detects        \* the versions whose tests fail on the base and not as their control

Version == 0 .. MaxTree
Checks  == {c.checks : c \in Config}

Signal == {"always", "strict-tdd", "bug-fix", "untested-product", "public-contract",
           "persistent-data", "multi-unit-or-decision", "adr-or-quality-attribute"}
Obligation == {"checks-pass", "tdd-red-green", "repro-test", "boundary-tests",
               "contract-spec-and-test", "migration-compat-and-test", "living-doc",
               "adr-impact-declaration"}
Retractable == {"multi-unit-or-decision", "public-contract", "persistent-data"}
ByContent   == {"public-contract", "persistent-data"}

obligationOf ==
  [x \in Signal |->
     CASE x = "always"                   -> "checks-pass"
       [] x = "strict-tdd"               -> "tdd-red-green"
       [] x = "bug-fix"                  -> "repro-test"
       [] x = "untested-product"         -> "boundary-tests"
       [] x = "public-contract"          -> "contract-spec-and-test"
       [] x = "persistent-data"          -> "migration-compat-and-test"
       [] x = "multi-unit-or-decision"   -> "living-doc"
       [] x = "adr-or-quality-attribute" -> "adr-impact-declaration"]

Pairs   == {"repro-test", "tdd-red-green"}
Runnable == Pairs \union {"migration-compat-and-test"}
\* The obligations whose evidence names the tree it holds on (staleEvidence).
TreeBound == {"checks-pass", "boundary-tests", "contract-spec-and-test",
              "migration-compat-and-test", "adr-impact-declaration"}

Area   == {"product", "test", "contract-document", "contract-test", "contract-removed"}
Impact == {"conforms", "amends", "contradicts"}   \* none and supersedes act like the first two
Kind   == {"docs", "refactor", "bug", "feature"}
rank   == [docs |-> 0, refactor |-> 1, bug |-> 2, feature |-> 2]

\* The evidence an obligation holds: the tree and the checks it names, the
\* fitness checks that passed for it, and whether its counterproof was skipped
\* because the diff changed no product code.
Proof   == [tree : Version, checks : Checks, fitness : SUBSET Ref, free : BOOLEAN]
NoProof == [tree |-> 0, checks |-> BaseConfig.checks, fitness |-> {}, free |-> FALSE]

State ==
  [status    : {"none", "open", "closed"},
   kind      : Kind \union {"unset"},              \* unset: ambiguous-intent is open
   facts     : {"none", "open", "resolved"},       \* the open-facts gate
   signals   : SUBSET Signal,
   ob        : [Obligation -> {"none", "pending", "satisfied", "withdrawn"}],
   proof     : [Obligation -> Proof],
   retracted : SUBSET SUBSET Hit,                  \* the hits each user answer covers
   irr       : [Op \union {Unnamed} -> {"never", "open", "answered"}],
   ckOpen    : Config \union {NoConfig},           \* the unanswered checks-changed entry
   approved  : SUBSET Config,                      \* the resolved ones
   adr       : {"none", "open", "resolved"},       \* adr-amend-or-contradict
   impacts   : [Ref -> {"absent", "unset"} \union Impact],
   records   : SUBSET Ref,                         \* impacts with a new ADR attached
   red       : [Runnable -> SUBSET Version]]       \* trees of the failing runs

NoState ==
  [status |-> "none", kind |-> "unset", facts |-> "none", signals |-> {},
   ob |-> [o \in Obligation |-> "none"], proof |-> [o \in Obligation |-> NoProof],
   retracted |-> {}, irr |-> [o \in Op \union {Unnamed} |-> "never"],
   ckOpen |-> NoConfig, approved |-> {}, adr |-> "none",
   impacts |-> [r \in Ref |-> "absent"], records |-> {},
   red |-> [o \in Runnable |-> {}]]

Declaration == [signals : SUBSET Signal, ops : SUBSET Op, refs : SUBSET Ref]

\* What a diff touches, the signals its paths and its content derive, its
\* destructive statements, the references of the components it touches, and
\* the new ADRs the tree holds that pass the lint and cite the one they amend.
DiffRecord ==
  [areas : SUBSET Area, signals : SUBSET Signal, hits : [ByContent -> SUBSET Hit],
   ops : SUBSET Op, refs : SUBSET Ref, adrs : SUBSET Ref]

ASSUME IddAssumption ==
  /\ MaxTree \in Nat
  /\ Config \subseteq [checks : Checks, strict : BOOLEAN]
  /\ BaseConfig \in Config /\ NoConfig \notin Config
  /\ FitRef \subseteq Ref /\ Unnamed \notin Op
  /\ Diff \in [Version -> DiffRecord]
  /\ OtherDiffs \in [Version -> SUBSET DiffRecord]
  /\ Passing \in [Checks -> SUBSET Version]
  /\ FitPassing \in [FitRef -> SUBSET Version]

-----------------------------------------------------------------------------
(* Reading the state *)

Active(s, o) == s.ob[o] \in {"pending", "satisfied"}

\* The intent is ambiguous exactly while its kind is not set.
Ambiguous(s) == s.kind = "unset"

\* signalGaps: the signals whose obligation was removed or withdrawn.
SignalGaps(s) == {x \in s.signals : ~Active(s, obligationOf[x])}

OpenGates(s) ==
  (IF Ambiguous(s) THEN {"ambiguous-intent"} ELSE {})
  \union (IF s.facts = "open" THEN {"open-facts"} ELSE {})
  \union (IF s.adr = "open" THEN {"adr-amend-or-contradict"} ELSE {})
  \union (IF \E o \in DOMAIN s.irr : s.irr[o] = "open" THEN {"irreversible-operation"} ELSE {})
  \union (IF s.ckOpen # NoConfig THEN {"checks-changed"} ELSE {})

Pending(s) == {o \in Obligation : s.ob[o] = "pending"}

ChecksApproved(s, c) == c = BaseConfig \/ c \in s.approved

\* isExempt: the user answered for a departure from the reference.
Exempt(s, r) == s.impacts[r] \in {"amends", "contradicts"} /\ s.adr = "resolved"

Declared(s) == {r \in Ref : s.impacts[r] # "absent"}

\* changeFitness and fitnessPlan.
FitnessPlan(s) ==
  IF Active(s, "adr-impact-declaration")
    THEN {r \in Declared(s) \intersect FitRef : ~Exempt(s, r)}
    ELSE {}

-----------------------------------------------------------------------------
(* Deriving signals *)

\* onlyTestsAndDocs.
ProductFree(d) == "test" \in d.areas /\ "product" \notin d.areas

\* kindMismatch: a diff that contradicts the declared kind.
KindMismatch(s, d) ==
  \/ s.kind = "docs" /\ "product" \in d.areas
  \/ s.kind = "refactor" /\ "contract-removed" \in d.areas

\* userRetracted: an answer covers every hit the diff holds.
FreshHits(s, x, d) ==
  d.hits[x] # {} /\ ~\E answered \in s.retracted : d.hits[x] \subseteq answered

\* The signals the diff alone derives.
DiffSignals(s, d) ==
  d.signals
  \union {x \in ByContent : FreshHits(s, x, d)}
  \union (IF s.kind \in {"bug", "feature"} /\ "product" \in d.areas /\ "test" \notin d.areas
            THEN {"untested-product"} ELSE {})
  \union (IF d.refs # {} THEN {"adr-or-quality-attribute"} ELSE {})

NoDeclaration == [signals |-> {}, ops |-> {}, refs |-> {}]

\* deriveSignals: from the intent, the configuration, a declaration and a diff.
Derive(s, d, strict, decl) ==
  [signals |->
     {"always"} \union decl.signals \union DiffSignals(s, d)
     \union (IF strict /\ s.kind \notin {"docs", "refactor"} THEN {"strict-tdd"} ELSE {})
     \union (IF s.kind = "bug" THEN {"bug-fix"} ELSE {})
     \union (IF decl.refs # {} THEN {"adr-or-quality-attribute"} ELSE {}),
   ops  |-> decl.ops \union d.ops,
   refs |-> decl.refs \union d.refs]

-----------------------------------------------------------------------------
(* Recording *)

\* addSignal for each of xs: an obligation is created, or reopened if withdrawn.
AddSignals(s, xs) ==
  [s EXCEPT
     !.signals = @ \union xs,
     !.ob = [o \in Obligation |->
               IF ~Active(s, o) /\ \E x \in xs \ s.signals : obligationOf[x] = o
                 THEN "pending" ELSE s.ob[o]]]

\* openIrreversible for named operations: one no entry lists joins the open
\* entry or opens one.  The entry it joins is no longer the unnamed one.
OpenOps(s, ops) ==
  LET new == {o \in ops : s.irr[o] = "never"}
  IN  [s EXCEPT !.irr =
         [o \in DOMAIN s.irr |->
            IF o \in new THEN "open"
            ELSE IF o = Unnamed /\ s.irr[o] = "open" /\ new # {} THEN "never"
            ELSE s.irr[o]]]

\* openIrreversible without a reason.
OpenUnnamed(s) ==
  IF \E o \in DOMAIN s.irr : s.irr[o] = "open" \/ s.irr[Unnamed] # "never"
    THEN s ELSE [s EXCEPT !.irr[Unnamed] = "open"]

Reopen(s, o) == [s EXCEPT !.ob[o] = "pending", !.proof[o] = NoProof]

\* Mutant: a new reference joins a declaration that stays settled.
KeepSettled(s, refs) ==
  [s EXCEPT !.impacts = [r \in Ref |-> IF r \in refs \ Declared(s) THEN "unset" ELSE s.impacts[r]]]

\* recordReferences: a new reference reopens a settled declaration.
RecordReferences(s, refs) ==
  LET missing == refs \ Declared(s)
      added   == [s EXCEPT !.impacts = [r \in Ref |-> IF r \in missing THEN "unset" ELSE s.impacts[r]]]
  IN  IF missing # {} /\ s.ob["adr-impact-declaration"] = "satisfied"
        THEN Reopen(added, "adr-impact-declaration") ELSE added

ApplyDerivation(s, d) == RecordReferences(OpenOps(AddSignals(s, d.signals), d.ops), d.refs)

\* reopenDerived: what a hand edit removed or withdrew comes back.
ReopenDerived(s) ==
  LET lost == {obligationOf[x] : x \in SignalGaps(s)}
  IN  [s EXCEPT !.ob = [o \in Obligation |-> IF o \in lost THEN "pending" ELSE s.ob[o]],
                !.proof = [o \in Obligation |-> IF o \in lost THEN NoProof ELSE s.proof[o]]]

\* settleChecksChange: the one unanswered entry follows the configuration.
SettleChecksChange(s, c) == [s EXCEPT !.ckOpen = IF ChecksApproved(s, c) THEN NoConfig ELSE c]

-----------------------------------------------------------------------------
(* Settling what a check or a run observed                                  *)
(*                                                                          *)
(* c is the record of the command: c.diff and c.cfg as read before the runs,*)
(* c.before and c.after the fingerprints ([tree, checks]) around them, c.ok *)
(* whether they passed, c.plan and c.fitOK the fitness checks it ran and    *)
(* those that passed, c.cp the counterproof and c.paired and c.boundary what*)
(* it was run for, c.records the new ADRs read.                             *)

\* An active obligation is satisfied with this evidence, or reopened.
Settle(s, o, holds, evidence) ==
  IF ~Active(s, o) THEN s
  ELSE IF holds THEN [s EXCEPT !.ob[o] = "satisfied", !.proof[o] = evidence]
  ELSE Reopen(s, o)

Observed(c, fitness, free) ==
  [tree |-> c.after.tree, checks |-> c.after.checks, fitness |-> fitness, free |-> free]

CounterproofHolds(cp) == cp \in {"detected", "free", "skipped"}

\* Mutant: the runs count for the tree that is there once they ended.
ChecksHoldUnbound(c) == c.ok

\* Every run passed on the tree that is still there.
ChecksHold(c) == c.ok /\ c.before = c.after

SettleChecks(s, c) == Settle(s, "checks-pass", ChecksHold(c), Observed(c, {}, FALSE))

SettleBoundary(s, c) ==
  Settle(s, "boundary-tests",
         ChecksHold(c) /\ "test" \in c.diff.areas /\ c.boundary /\ CounterproofHolds(c.cp),
         Observed(c, {}, c.cp = "free"))

\* settleProductFreePairs: a pair that needed no counterproof needs one now.
SettleProductFreePairs(s, d) ==
  IF ProductFree(d) THEN s
  ELSE LET undone == {o \in Pairs : s.ob[o] = "satisfied" /\ s.proof[o].free}
       IN  [s EXCEPT !.ob = [o \in Obligation |-> IF o \in undone THEN "pending" ELSE s.ob[o]],
                     !.proof = [o \in Obligation |-> IF o \in undone THEN NoProof ELSE s.proof[o]]]

SettleTreeBound(s, tree) ==
  LET o == "migration-compat-and-test"
  IN  IF s.ob[o] = "satisfied" /\ s.proof[o].tree # tree THEN Reopen(s, o) ELSE s

\* `checked` is the evidence settleChecks has just recorded, if it did.
SettleContract(s, c, checked) ==
  Settle(s, "contract-spec-and-test",
         checked /\ {"contract-document", "contract-test"} \subseteq c.diff.areas,
         Observed(c, {}, FALSE))

\* impactReason: what still holds the declared impacts back, negated.
ImpactsDeclared(s, records) ==
  \A r \in Declared(s) :
    /\ s.impacts[r] # "unset"
    /\ s.impacts[r] \in {"amends", "contradicts"} => s.adr = "resolved"
    /\ s.impacts[r] = "amends" => r \in s.records /\ r \in records

\* settleImpacts: over the references stored now, with the fitness runs of this check.
SettleImpacts(s, c) ==
  Settle(s, "adr-impact-declaration",
         /\ Declared(s) # {}
         /\ c.plan \subseteq c.fitOK
         /\ c.plan # {} => c.before = c.after
         /\ ImpactsDeclared(s, c.records),
         IF c.plan = {} THEN NoProof ELSE Observed(c, c.plan, FALSE))

\* deferImpacts: a run that counts as the check runs no fitness check.
DeferImpacts(s, c) ==
  LET o == "adr-impact-declaration"
      kept == /\ s.ob[o] = "satisfied" /\ s.proof[o].fitness # {}
              /\ s.proof[o].tree = c.after.tree /\ s.proof[o].checks = c.after.checks
  IN  IF ~Active(s, o) \/ kept THEN s ELSE Reopen(s, o)

\* settleCheck.
SettleCheck(s, c) ==
  LET derived == ApplyDerivation(s, Derive(s, c.diff, c.cfg.strict, NoDeclaration))
      gated   == SettleChecksChange(ReopenDerived(derived), c.cfg)
      checked == SettleChecks(gated, c)
      tested  == SettleBoundary(checked, c)
      bound   == SettleTreeBound(SettleProductFreePairs(tested, c.diff), c.after.tree)
      contract == SettleContract(bound, c, ChecksHold(c) /\ Active(gated, "checks-pass"))
  IN  IF c.op = "run" /\ c.plan # {} THEN DeferImpacts(contract, c) ELSE SettleImpacts(contract, c)

\* Mutant: a failing run on the same tree will do.
AnyRed(reds, v) == reds # {}

\* pairRed: a failing run on another tree than v.
HasRed(reds, v) == \E red \in reds : red # v

\* recordRuns and settlePair or settleMigration, for the run of obligation c.ob.
SettleRun(s, c) ==
  LET o   == c.ob
      ran == IF c.ok THEN s ELSE [s EXCEPT !.red[o] = @ \union {c.before.tree}]
      evidence == [tree |-> c.before.tree, checks |-> c.before.checks, fitness |-> {}, free |-> c.cp = "free"]
  IN  IF o = "migration-compat-and-test" THEN Settle(ran, o, c.ok, evidence)
      ELSE IF /\ c.ok /\ Active(s, o) /\ c.paired /\ CounterproofHolds(c.cp)
              /\ HasRed(s.red[o], c.before.tree)
             THEN [s EXCEPT !.ob[o] = "satisfied", !.proof[o] = evidence]
             ELSE ran

-----------------------------------------------------------------------------
(* Closing *)

\* staleEvidence, for fingerprint f.
Stale(s, f) ==
  {o \in TreeBound :
     /\ s.ob[o] = "satisfied"
     /\ o = "adr-impact-declaration" => s.proof[o].fitness # {}
     /\ \/ s.proof[o].tree # f.tree
        \/ o # "migration-compat-and-test" /\ s.proof[o].checks # f.checks}

\* closeChange: refused, or the living document is settled and the change closed.
CanClose(s, docCurrent) ==
  /\ s.status = "open" /\ ~Ambiguous(s)
  /\ SignalGaps(s) = {}
  /\ Pending(s) \subseteq (IF docCurrent THEN {"living-doc"} ELSE {})
  /\ OpenGates(s) = {}

CloseChange(s) ==
  [s EXCEPT !.status = "closed",
            !.ob["living-doc"] = IF @ = "pending" THEN "satisfied" ELSE @]

\* requireDerived: the state lacks nothing the diff and the configuration derive now.
LacksNothing(s, d, c) ==
  LET now == Derive(s, d, c.strict, NoDeclaration)
  IN  /\ ~KindMismatch(s, d)
      /\ s.ob["boundary-tests"] = "satisfied" => "test" \in d.areas
      /\ s.ob["contract-spec-and-test"] = "satisfied" =>
           {"contract-document", "contract-test"} \subseteq d.areas
      /\ now.signals \subseteq s.signals
      /\ \A o \in now.ops : s.irr[o] # "never"
      /\ now.refs \subseteq Declared(s)
      /\ SettleChecksChange(s, c) = s

=============================================================================
