----------------------------- MODULE IddChange -----------------------------
(***************************************************************************)
(* One IDD change while its working tree and its configuration are edited  *)
(* and several `ospec` commands are in flight (scripts/ospec.js).          *)
(*                                                                         *)
(* A record command is one locked read-reduce-write of the state           *)
(* (mutateChange, see StateStore), hence one step.  signals, check, run    *)
(* and close read the tree, the configuration or the state first, work     *)
(* outside the lock, and settle what they saw on whatever the state has    *)
(* become: they take a step for each read, and cmd[p] holds what the       *)
(* command of process p has read so far.                                   *)
(***************************************************************************)
EXTENDS IddState

CONSTANTS Proc,          \* the processes that run commands, one at a time each
          Kinds,         \* the kinds the user declares
          Declarations,  \* what `ospec signals` is told
          UserGates,     \* the gates someone opens with `ospec record`
          HandEdits      \* may someone edit state.yaml by hand?

ASSUME ChangeAssumption ==
  /\ Kinds \subseteq Kind /\ Declarations \subseteq Declaration
  /\ UserGates \subseteq {"open-facts", "irreversible-operation", "adr-amend-or-contradict"}
  /\ HandEdits \in BOOLEAN

VARIABLES tree,   \* the version of the working tree
          cfg,    \* idd/config.yaml
          st,     \* state.yaml
          cmd     \* cmd[p]: the command p runs

vars == <<tree, cfg, st, cmd>>

NoDiff == [areas |-> {}, signals |-> {}, hits |-> [x \in ByContent |-> {}],
           ops |-> {}, refs |-> {}, adrs |-> {}]

Fingerprint == [tree : Version, checks : Checks]

Command ==
  [op : {"none", "signals", "check", "run", "close"},
   at : {"idle", "await", "fingerprint", "execute", "observe", "settle", "derive", "close"},
   diff : DiffRecord, cfg : Config, decl : Declaration,
   ob : Runnable, asCheck : BOOLEAN,             \* what `ospec run` proves
   plan : SUBSET Ref, wanted : BOOLEAN,          \* read from the state: fitness checks,
   reds : SUBSET Version, attached : SUBSET Ref, \* boundary-tests, failing runs, new ADRs
   before : Fingerprint, after : Fingerprint,
   ok : BOOLEAN, fitOK : SUBSET Ref,
   cp : {"none", "skipped", "free", "detected", "undetected"},
   paired : BOOLEAN, boundary : BOOLEAN, records : SUBSET Ref,
   saw : State, doc : BOOLEAN]                   \* close: the state it validated

Idle ==
  [op |-> "none", at |-> "idle", diff |-> NoDiff, cfg |-> BaseConfig, decl |-> NoDeclaration,
   ob |-> "repro-test", asCheck |-> FALSE, plan |-> {}, wanted |-> FALSE, reds |-> {},
   attached |-> {}, before |-> [tree |-> 0, checks |-> BaseConfig.checks],
   after |-> [tree |-> 0, checks |-> BaseConfig.checks], ok |-> FALSE, fitOK |-> {},
   cp |-> "none", paired |-> FALSE, boundary |-> FALSE, records |-> {},
   saw |-> NoState, doc |-> FALSE]

TypeOK ==
  /\ tree \in Version
  /\ cfg \in Config
  /\ st \in State
  /\ cmd \in [Proc -> Command]

Init ==
  /\ tree = 0
  /\ cfg = BaseConfig
  /\ st = NoState
  /\ cmd = [p \in Proc |-> Idle]

-----------------------------------------------------------------------------
(* Record commands: one step each *)

Open == st.status = "open"
Resolved == Open /\ ~Ambiguous(st)

Write(s) == st' = s /\ UNCHANGED <<tree, cfg, cmd>>

\* The plan that may ride on an intent is declared in the same write (declarePlan).
WithPlan(s) ==
  {s} \union {ApplyDerivation(s, Derive(s, NoDiff, cfg.strict, decl)) : decl \in Declarations}

\* recordIntent on no state.
OpenChange(kind, asks) ==
  /\ st.status = "none"
  /\ \E s \in WithPlan(AddSignals([st EXCEPT !.status = "open", !.kind = kind,
                                     !.facts = IF asks THEN "open" ELSE "none"], {"always"})) :
       Write(s)

OpenAmbiguous ==
  /\ st.status = "none"
  /\ Write([st EXCEPT !.status = "open"])

\* recordIntent on an ambiguous one: the user's answer resolves the gate.
ResolveIntent(kind, asks) ==
  /\ Open /\ Ambiguous(st)
  /\ \E s \in WithPlan(AddSignals([st EXCEPT !.kind = kind, !.facts = IF asks THEN "open" ELSE "none"],
                                  {"always"})) :
       Write(s)

\* Mutant: any other kind replaces the recorded one.
ReplaceIntent(kind, asks) ==
  /\ Resolved /\ st.facts # "open" /\ kind # st.kind
  /\ Write([st EXCEPT !.kind = kind, !.facts = IF asks THEN "open" ELSE @])

\* raiseIntent: the kind only rises, and not while a question is unanswered.
RaiseIntent(kind, asks) ==
  /\ Resolved /\ st.facts # "open" /\ rank[kind] > rank[st.kind]
  /\ \E s \in WithPlan([st EXCEPT !.kind = kind, !.facts = IF asks THEN "open" ELSE @]) : Write(s)

\* recordSignal: a signal named by hand.
RecordSignal(x) ==
  /\ Resolved /\ x \notin st.signals
  /\ Write(AddSignals(st, {x}))

\* recordGate.
OpenOperation(o) ==
  /\ Open /\ "irreversible-operation" \in UserGates
  /\ Write(IF o = Unnamed THEN OpenUnnamed(st) ELSE OpenOps(st, {o}))

OpenAdrGate ==
  /\ Open /\ st.adr = "none" /\ "adr-amend-or-contradict" \in UserGates
  /\ Write([st EXCEPT !.adr = "open"])

ResolveFacts ==
  /\ Open /\ st.facts = "open"
  /\ Write([st EXCEPT !.facts = "resolved"])

ResolveOperations ==
  /\ Open /\ \E o \in DOMAIN st.irr : st.irr[o] = "open"
  /\ Write([st EXCEPT !.irr = [o \in DOMAIN st.irr |->
                                 IF st.irr[o] = "open" THEN "answered" ELSE st.irr[o]]])

ResolveAdrGate ==
  /\ Open /\ st.adr = "open"
  /\ Write([st EXCEPT !.adr = "resolved"])

\* Mutant: the answer is taken although no entry is open.
ResolveNoChange ==
  /\ Open
  /\ Write([st EXCEPT !.approved = @ \union {st.ckOpen}, !.ckOpen = NoConfig])

\* The answer approves the configuration its entry names, not the present one.
ResolveChecksChanged ==
  /\ Open /\ st.ckOpen # NoConfig
  /\ Write([st EXCEPT !.approved = @ \union {st.ckOpen}, !.ckOpen = NoConfig])

\* Mutant: canWithdraw does not look at the signals.
WithdrawAny(o) ==
  /\ Open /\ st.ob[o] = "pending"
  /\ Write([st EXCEPT !.ob[o] = "withdrawn"])

\* recordWithdraw: no active signal may derive the obligation.
Withdraw(o) ==
  /\ Open /\ st.ob[o] = "pending"
  /\ \A x \in st.signals : obligationOf[x] # o
  /\ Write([st EXCEPT !.ob[o] = "withdrawn"])

\* recordRetract with diffConfirmation: without an answer only a signal the
\* diff does not derive, with one only a signal the content alone derives.
Retract(x, answered) ==
  LET d == Diff[tree]
      confirmed == x \in DiffSignals(st, d)
      contentOnly == /\ x \in ByContent /\ FreshHits(st, x, d) /\ x \notin d.signals
                     /\ x = "public-contract" => "contract-document" \notin d.areas
      o == obligationOf[x]
  IN  /\ Open /\ x \in Retractable \intersect st.signals
      /\ IF answered THEN contentOnly ELSE ~confirmed
      /\ st.ob[o] # "satisfied"
      /\ Write([st EXCEPT !.signals = @ \ {x},
                          !.ob[o] = IF @ = "pending" THEN "withdrawn" ELSE @,
                          !.retracted = IF answered THEN @ \union {d.hits[x]} ELSE @])

\* recordImpact: once per reference; a departure from it is asked of the user,
\* and refused once the user has answered.
DeclareImpact(r, i) ==
  /\ Resolved /\ st.impacts[r] = "unset"
  /\ i \in {"amends", "contradicts"} => st.adr # "resolved"
  /\ Write([st EXCEPT !.impacts[r] = i,
                      !.adr = IF i \in {"amends", "contradicts"} THEN "open" ELSE @])

AttachRecord(r) ==
  /\ Resolved /\ st.impacts[r] = "amends" /\ r \notin st.records
  /\ Write([st EXCEPT !.records = @ \union {r}])

Record ==
  \/ \E kind \in Kinds, asks \in {FALSE, "open-facts" \in UserGates} :
       OpenChange(kind, asks) \/ ResolveIntent(kind, asks) \/ RaiseIntent(kind, asks)
  \/ OpenAmbiguous
  \/ \E decl \in Declarations : \E x \in decl.signals : RecordSignal(x)
  \/ \E o \in Op \union {Unnamed} : OpenOperation(o)
  \/ OpenAdrGate \/ ResolveFacts \/ ResolveOperations \/ ResolveAdrGate \/ ResolveChecksChanged
  \/ \E o \in Obligation : Withdraw(o)
  \/ \E x \in Retractable, answered \in BOOLEAN : Retract(x, answered)
  \/ \E r \in Ref : AttachRecord(r) \/ \E i \in Impact : DeclareImpact(r, i)

-----------------------------------------------------------------------------
(* Commands that work outside the lock *)

Busy(p, op) == cmd[p].op = op
At(p, where) == cmd[p].at = where
Become(p, c) == cmd' = [cmd EXCEPT ![p] = c] /\ UNCHANGED <<tree, cfg>>
\* The command ends; s is what it leaves in state.yaml.
EndWith(p, s) == st' = s /\ Become(p, Idle)

FingerprintOf(checks) == [tree |-> tree, checks |-> checks]

\* signals: with --diff or --base it also reads a diff.
SignalsRead(p, decl) ==
  /\ At(p, "idle") /\ st.status # "none"
  /\ \E d \in {NoDiff, Diff[tree]} :
       Become(p, [Idle EXCEPT !.op = "signals", !.at = "settle",
                              !.diff = d, !.cfg = cfg, !.decl = decl])
  /\ UNCHANGED st

SignalsCommit(p) ==
  LET c == cmd[p]
  IN  /\ Busy(p, "signals")
      /\ EndWith(p, IF Resolved THEN ApplyDerivation(st, Derive(st, c.diff, c.cfg.strict, c.decl))
                    ELSE st)

\* readCheckInputs, on diff d: what a check reads before it runs anything.
Inputs(c, d) ==
  LET preview == ApplyDerivation(st, Derive(st, d, cfg.strict, NoDeclaration))
  IN  [c EXCEPT !.diff = d, !.cfg = cfg, !.plan = FitnessPlan(preview),
                !.wanted = Active(st, "boundary-tests"), !.attached = st.records]

\* Mutant: the commands run before the configuration is compared.
CheckUnapproved(p) ==
  /\ At(p, "idle") /\ Resolved
  /\ \E d \in {Diff[tree]} \union OtherDiffs[tree] :
       /\ ~KindMismatch(st, d)
       /\ Become(p, [Inputs(Idle, d) EXCEPT !.op = "check", !.at = "fingerprint"])
  /\ UNCHANGED st

\* check: a configuration nobody approved runs nothing.
CheckRead(p) ==
  /\ At(p, "idle") /\ Resolved
  /\ \E d \in {Diff[tree]} \union OtherDiffs[tree] :
       /\ ~KindMismatch(st, d)
       /\ Become(p, [Inputs(Idle, d) EXCEPT
                       !.op = "check", !.at = IF ChecksApproved(st, cfg) THEN "fingerprint" ELSE "await"])
  /\ UNCHANGED st

\* awaitChecksApproval.
AwaitApproval(p) ==
  /\ At(p, "await")
  /\ EndWith(p, IF Open THEN SettleChecksChange(st, cmd[p].cfg) ELSE st)

\* runObligation: the command may be the declared check, and then the run
\* counts as that check unless check would refuse the diff.
RunRead(p, o) ==
  /\ At(p, "idle") /\ Resolved /\ Active(st, o)
  /\ LET run == [Idle EXCEPT !.op = "run", !.at = "fingerprint", !.ob = o, !.cfg = cfg,
                             !.reds = st.red[o]]
     IN  \/ Become(p, run)
         \/ /\ ~KindMismatch(st, Diff[tree])
            /\ Become(p, [Inputs(run, Diff[tree]) EXCEPT !.asCheck = TRUE])
  /\ UNCHANGED st

TakeFingerprint(p) ==
  /\ At(p, "fingerprint")
  /\ Become(p, [cmd[p] EXCEPT !.at = "execute", !.before = FingerprintOf(cmd[p].cfg.checks)])
  /\ UNCHANGED st

IsCheck(c) == c.op = "check" \/ c.asCheck

\* runCounterproof: skipped on a diff without product code, skipped when the
\* base cannot be mounted or tells nothing, and run otherwise.
Counterproof(d) ==
  IF ProductFree(d) THEN {"free"}
  ELSE {"skipped", IF tree \in Detects THEN "detected" ELSE "undetected"}

\* The commands run on whatever the tree is now, and so do the fitness checks
\* (of a check) and the counterproof the outcome asks for.
Execute(p) ==
  LET c == cmd[p]
      passes == tree \in (IF IsCheck(c) THEN Passing[c.cfg.checks] ELSE TestPassing)
      d == IF IsCheck(c) THEN c.diff ELSE Diff[tree]
      paired == /\ c.op = "run" /\ c.ob \in Pairs /\ passes
                /\ HasRed(c.reds, c.before.tree)
                /\ "test" \in d.areas
      boundary == IsCheck(c) /\ c.wanted /\ passes /\ "test" \in d.areas
  IN  /\ At(p, "execute")
      /\ \E cp \in (IF paired \/ boundary THEN Counterproof(d) ELSE {"none"}) :
           Become(p, [c EXCEPT
             !.at = IF IsCheck(c) THEN "observe" ELSE "settle",
             !.ok = passes, !.cp = cp, !.paired = paired, !.boundary = boundary,
             !.fitOK = IF c.op = "check" THEN {r \in c.plan : tree \in FitPassing[r]} ELSE {}])
      /\ UNCHANGED st

\* The fingerprints and the new ADRs read once the commands ran.
Observe(p) ==
  /\ At(p, "observe")
  /\ Become(p, [cmd[p] EXCEPT !.at = "settle", !.after = FingerprintOf(cfg.checks),
                              !.records = cmd[p].attached \intersect Diff[tree].adrs])
  /\ UNCHANGED st

CheckCommit(p) ==
  /\ Busy(p, "check") /\ At(p, "settle")
  /\ EndWith(p, IF Open THEN SettleCheck(st, cmd[p]) ELSE st)

RunCommit(p) ==
  LET c == cmd[p]
      ran == SettleRun(st, c)
  IN  /\ Busy(p, "run") /\ At(p, "settle")
      /\ EndWith(p, IF ~Open THEN st ELSE IF c.asCheck THEN SettleCheck(ran, c) ELSE ran)

\* close, alone under its own lock: it validates a state it read, off the lock
\* of the state, and closes that state or none.
CloseStart(p, doc) ==
  /\ At(p, "idle") /\ \A q \in Proc : ~Busy(q, "close")
  /\ Stale(st, FingerprintOf(cfg.checks)) = {}
  /\ CanClose(st, doc)
  /\ Become(p, [Idle EXCEPT !.op = "close", !.at = "derive", !.saw = st, !.doc = doc,
                            !.before = FingerprintOf(cfg.checks)])
  /\ UNCHANGED st

\* requireDerived.
CloseDerive(p) ==
  /\ At(p, "derive")
  /\ Become(p, IF LacksNothing(cmd[p].saw, Diff[tree], cfg)
                 THEN [cmd[p] EXCEPT !.at = "close", !.diff = Diff[tree], !.cfg = cfg]
                 ELSE Idle)
  /\ UNCHANGED st

\* Mutant: the state is closed whatever was recorded since it was validated.
CloseAnyway(p) ==
  /\ At(p, "close")
  /\ EndWith(p, IF CanClose(st, cmd[p].doc) THEN CloseChange(st) ELSE st)

CloseCommit(p) ==
  /\ At(p, "close")
  /\ EndWith(p, IF st = cmd[p].saw THEN CloseChange(st) ELSE st)

Commands(p) ==
  \/ \E decl \in Declarations : SignalsRead(p, decl)
  \/ SignalsCommit(p)
  \/ CheckRead(p) \/ AwaitApproval(p)
  \/ \E o \in Runnable : RunRead(p, o)
  \/ TakeFingerprint(p) \/ Execute(p) \/ Observe(p)
  \/ CheckCommit(p) \/ RunCommit(p)
  \/ \E doc \in BOOLEAN : CloseStart(p, doc)
  \/ CloseDerive(p) \/ CloseCommit(p)

-----------------------------------------------------------------------------
(* What happens around the commands *)

\* The tree is edited; no content comes back.
Edit ==
  /\ st.status # "closed"
  /\ tree' \in tree + 1 .. MaxTree
  /\ UNCHANGED <<cfg, st, cmd>>

SetConfig ==
  /\ st.status # "closed"
  /\ cfg' \in Config \ {cfg}
  /\ UNCHANGED <<tree, st, cmd>>

\* Someone removes a signal from state.yaml, or marks its obligation withdrawn.
HandEdit ==
  /\ HandEdits /\ Open
  /\ \E x \in st.signals \ {"always"} :
       \/ Write([st EXCEPT !.signals = @ \ {x}])
       \/ Write([st EXCEPT !.ob[obligationOf[x]] = "withdrawn"])

\* The change is closed and nothing runs.
Done == st.status = "closed" /\ (\A p \in Proc : At(p, "idle")) /\ UNCHANGED vars

Next ==
  \/ Record
  \/ \E p \in Proc : Commands(p)
  \/ Edit \/ SetConfig \/ HandEdit \/ Done

Spec == Init /\ [][Next]_vars

-----------------------------------------------------------------------------
(* Properties *)

\* Without hand edits of state.yaml no signal is ever left without the
\* obligation it derives, whatever is withdrawn, retracted, derived again or
\* settled in between (canWithdraw, recordRetract, addSignal, signalGaps).
NoSignalGaps == SignalGaps(st) = {}

\* What the evidence of a satisfied obligation says is true of the tree and of
\* the checks it names, however the tree, the configuration and the state moved
\* while the commands ran: the checks passed, the pair went from red to green
\* on two trees, every fitness check it counts passed.  A run of a pair or of
\* the migration test names the tree it started on, so its evidence is only
\* true of that tree while it is still the one there (settleChecks,
\* settleBoundary, settleContract, settlePair, settleMigration, settleImpacts).
EvidenceTrue ==
  /\ \A o \in {"checks-pass", "boundary-tests", "contract-spec-and-test"} :
       st.ob[o] = "satisfied" => st.proof[o].tree \in Passing[st.proof[o].checks]
  /\ \A o \in Runnable :
       st.ob[o] = "satisfied" /\ st.proof[o].tree = tree =>
         tree \in TestPassing \union Passing[st.proof[o].checks]
  /\ \A o \in Pairs :
       st.ob[o] = "satisfied" => \E red \in st.red[o] : red # st.proof[o].tree
  /\ LET proof == st.proof["adr-impact-declaration"]
     IN  \A r \in proof.fitness : proof.tree \in FitPassing[r]

\* While the impact declaration is satisfied, every reference of the change has
\* its impact and the user has answered every departure, also the references
\* that other commands added since the check read them (recordReferences,
\* recordImpact, settleImpacts).
ImpactsAnswered ==
  st.ob["adr-impact-declaration"] = "satisfied" =>
    \A r \in Declared(st) :
      /\ st.impacts[r] # "unset"
      /\ st.impacts[r] \in {"amends", "contradicts"} => st.adr = "resolved"

\* ospec check runs the commands of idd/config.yaml only when they are those of
\* the base or the user approved them, also while they change under it
\* (checksApproved, awaitChecksApproval).
RunsOnlyApproved ==
  \A p \in Proc :
    Busy(p, "check") /\ cmd[p].at # "await" => ChecksApproved(st, cmd[p].cfg)

\* A change closes only in a state that is settled, with checks that passed on
\* the tree and the configuration close saw, and that lacks no signal of the
\* diff close read, even when other commands write and the tree is edited while
\* close works outside the lock (close, requireFreshEvidence, requireDerived).
ClosesAreJustified ==
  st.status = "open" /\ st'.status = "closed" =>
    \E p \in Proc :
      LET c == cmd[p]
          proof == st.proof["checks-pass"]
      IN  /\ At(p, "close")
          /\ Pending(st') = {} /\ OpenGates(st) = {} /\ SignalGaps(st) = {}
          /\ st.ob["checks-pass"] = "satisfied"
          /\ proof.tree = c.before.tree /\ proof.checks = c.before.checks
          /\ proof.tree \in Passing[proof.checks]
          /\ DiffSignals(st, c.diff) \subseteq st.signals
          /\ ChecksApproved(st, c.cfg)
ClosesJustified == [][ClosesAreJustified]_vars

\* What the user decided stands, whatever commands are in flight: a closed
\* change is final, the kind only rises, an answered operation is not asked
\* again, an approved configuration and an answered departure stay so, and the
\* answers that retract a signal are kept (raiseIntent, openIrreversible,
\* settleChecksChange, recordImpact, recordRetract).
DecisionsKept ==
  /\ st.status = "closed" => st' = st
  /\ st.kind # "unset" => st'.kind # "unset" /\ rank[st'.kind] >= rank[st.kind]
  /\ \A o \in Op : st.irr[o] = "answered" => st'.irr[o] = "answered"
  /\ st.approved \subseteq st'.approved
  /\ st.retracted \subseteq st'.retracted
  /\ st.adr = "resolved" => st'.adr = "resolved"
DecisionsStand == [][DecisionsKept]_vars

\* Of a closed change with an active impact declaration, every fitness check of
\* its references ran and passed, save those the user exempted (REQ-idd-022).
FitnessCovered ==
  st.status = "closed" /\ st.ob["adr-impact-declaration"] = "satisfied" =>
    FitnessPlan(st) \subseteq st.proof["adr-impact-declaration"].fitness

\* A pair that skipped its counterproof because its diff changed no product
\* code does not close a change whose diff does: "once it does, the obligation
\* reopens" (settleProductFreePairs).
ProductFreePairsRerun ==
  \A p \in Proc, o \in Pairs :
    At(p, "close") /\ cmd[p].saw.ob[o] = "satisfied" /\ cmd[p].saw.proof[o].free =>
      ProductFree(cmd[p].diff)

=============================================================================
