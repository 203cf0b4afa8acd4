---------------------------- MODULE VerifyLineage ----------------------------
(***************************************************************************)
(* The verify lineage of an SDD change (lib/verify-lineage.js): what       *)
(* verification found is frozen with its recipes and its paths, fixed in   *)
(* at most two attempts inside those paths and rechecked by those recipes. *)
(* A lineage whose snapshot is lost, or whose operations were left         *)
(* inconclusive, may go on as a successor, which the runner of             *)
(* verify-lineage-recheck.js checks with a journal: each recipe is an      *)
(* operation that is persisted before its command runs and completed       *)
(* before its result counts.                                               *)
(*                                                                         *)
(* A tree tells the content of each path; a candidate is a tree, and its   *)
(* snapshot can be recovered while git keeps the objects.  One chain of    *)
(* lineages is modelled, from a discovery to its last successor.           *)
(***************************************************************************)
EXTENDS Integers

CONSTANTS Finding,    \* what discovery may find
          Path,
          AllowedOf,  \* the paths each finding may be fixed in
          Recipe,
          FindingOf,  \* the finding each recipe validates
          Needs,      \* the paths that must be right for it to pass
          Inherited,  \* the attempts of lineages that older versions left
          Proc,       \* processes that run the recheck of a successor
          MaxTroubles, \* bound on edits, new contracts, pruned snapshots and crashes
          MaxGen      \* bound on the generations

\* What the constants satisfy.
ConstantsOK ==
  /\ Finding # {} /\ AllowedOf \in [Finding -> SUBSET Path]
  /\ FindingOf \in [Recipe -> Finding]
  /\ \A f \in Finding : \E r \in Recipe : FindingOf[r] = f   \* startVerifyLineage wants one
  /\ Recipe \subseteq Nat   \* in the frozen order
  /\ Needs \in [Recipe -> SUBSET Path]
  /\ Inherited \subseteq 0 .. 2
  /\ {MaxTroubles, MaxGen} \subseteq Nat

VARIABLES tree,      \* the workspace
          contract,  \* the bytes of the contract's artifacts: how often they changed
          snaps,     \* the trees git still has
          lin,       \* verify_lineage of state.yaml
          recheck,   \* is the agent rechecking a lineage without a journal?
          ops,       \* the operations persisted in the change root
          preserved, \* those disposed of as non-reconcilable
          cmd,       \* the runners
          troubles,
          runs       \* history: how often the command of each operation ran

vars == <<tree, contract, snaps, lin, recheck, ops, preserved, cmd, troubles, runs>>

MAX_REMEDIATION_ATTEMPTS == 2

Tree == [Path -> 0 .. 1]

\* A path is right where the tree says 1.
Passes(r, t) == \A x \in Needs[r] : t[x] = 1

Changed(t, u) == {x \in Path : t[x] # u[x]}
RecipesOf(l) == {r \in Recipe : FindingOf[r] \in l.findings}
Allowed(l) == UNION {AllowedOf[f] : f \in l.unresolved}

\* Nothing has been fixed yet.
Base == [x \in Path |-> 0]

NoLineage ==
  [status |-> "none", reason |-> "none", gen |-> 0, genesis |-> Base, current |-> Base,
   contract |-> 0, attempts |-> 0, findings |-> {}, unresolved |-> {}, successor |-> FALSE]

Ended == lin.status \in {"closed", "exhausted", "superseded"}

\* The operation of a recipe.  Its file is named by its content, which names the
\* lineage and the journal; those of older versions name no journal.
Journal(l) == [gen |-> l.gen, journalled |-> TRUE, candidate |-> l.current, contract |-> l.contract]
Legacy(l) == [gen |-> l.gen, journalled |-> FALSE, candidate |-> Base, contract |-> 0]
Op(j, r) == <<j, r>>
Present(k) == k \in DOMAIN ops
With(f, k, v) == [x \in DOMAIN f \union {k} |-> IF x = k THEN v ELSE f[x]]
Completed(k) == Present(k) /\ ops[k] # "pending"

\* The recipe that comes first in the frozen order.
First(S) == CHOOSE r \in S : \A q \in S : r <= q

Idle == [at |-> "idle", lin |-> NoLineage, left |-> {}, created |-> {}, known |-> {},
         outcome |-> "none", result |-> NoLineage]

\* What the runner of an older version left behind after n attempts.
Left(n) ==
  [NoLineage EXCEPT !.status = "recheck-pending", !.gen = 1, !.attempts = n,
                    !.findings = Finding, !.unresolved = Finding, !.successor = TRUE]

Init ==
  /\ tree = Base /\ contract = 0
  /\ recheck = FALSE /\ preserved = {}
  /\ troubles = 0
  /\ \/ lin = NoLineage /\ snaps = {} /\ ops = << >>
     \/ /\ \E n \in Inherited : lin = Left(n)
        /\ snaps = {Base}
        /\ ops = [k \in {Op(Legacy(lin), r) : r \in Recipe} |-> "pending"]
  /\ cmd = [p \in Proc |-> Idle]
  /\ runs = [k \in DOMAIN ops |-> 1]

-----------------------------------------------------------------------------
(* Discovery and the agent that fixes what it found.                       *)

runner == <<ops, preserved, cmd, runs>>

\* captureCandidateSnapshot writes the tree of the workspace into git.
Capture == snaps' = snaps \union {tree}

\* startVerifyLineageFromWorkspace.
StartVerifyLineage ==
  /\ lin.status = "none"
  /\ \E F \in (SUBSET Finding) \ {{}} :
       lin' = [NoLineage EXCEPT !.status = "remediation-pending", !.gen = 1,
                 !.genesis = tree, !.current = tree, !.contract = contract,
                 !.findings = F, !.unresolved = F]
  /\ Capture
  /\ UNCHANGED <<tree, contract, recheck, runner, troubles>>

\* prepareRemediation names the paths; the agent sets one of them right.  An attempt
\* that fails leaves them as they are.
Remediate ==
  /\ lin.status = "remediation-pending"
  /\ \E x \in Allowed(lin) : tree[x] = 0 /\ tree' = [tree EXCEPT ![x] = 1]
  /\ UNCHANGED <<contract, snaps, lin, recheck, runner, troubles>>

\* Mutant: an attempt that is not counted.
RecordUncounted ==
  /\ lin.status = "remediation-pending" /\ lin.current \in snaps
  /\ Capture
  /\ lin' = IF Changed(lin.current, tree) \subseteq Allowed(lin)
              THEN [lin EXCEPT !.current = tree, !.status = "recheck-pending"]
              ELSE lin
  /\ UNCHANGED <<tree, contract, recheck, runner, troubles>>

\* Mutant: a delta that is compared with the paths of the delta itself.
RecordAnyScope ==
  /\ lin.status = "remediation-pending" /\ lin.current \in snaps
  /\ Capture
  /\ lin' = [lin EXCEPT !.current = tree, !.attempts = @ + 1, !.status = "recheck-pending"]
  /\ UNCHANGED <<tree, contract, recheck, runner, troubles>>

\* recordRemediationAttempt: the paths that changed between the two snapshots are
\* among those of the unresolved findings, or the attempt does not count.
RecordRemediationAttempt ==
  /\ lin.status = "remediation-pending" /\ lin.current \in snaps
  /\ Capture
  /\ LET attempts == lin.attempts + 1
         attempted == [lin EXCEPT !.current = tree, !.attempts = attempts]
     IN lin' = IF ~ Changed(lin.current, tree) \subseteq Allowed(lin) THEN lin
               ELSE IF attempts > MAX_REMEDIATION_ATTEMPTS
                 THEN [attempted EXCEPT !.status = "exhausted", !.reason = "attempts"]
                 ELSE [attempted EXCEPT !.status = "recheck-pending"]
  /\ UNCHANGED <<tree, contract, recheck, runner, troubles>>

\* What evaluateRecheck makes of l when `fixed` passed and `caused` was observed in
\* the paths that changed.
EvaluateRecheck(l, fixed, caused) ==
  LET unresolved == (l.findings \ fixed) \union caused
      judged == [l EXCEPT !.findings = @ \union caused, !.unresolved = unresolved]
  IN IF contract # l.contract THEN [l EXCEPT !.status = "superseded", !.reason = "contract"]
     ELSE IF unresolved = {} THEN [judged EXCEPT !.status = "closed", !.reason = "verified"]
     ELSE IF l.attempts >= MAX_REMEDIATION_ATTEMPTS
       THEN [judged EXCEPT !.status = "exhausted", !.reason = "attempts"]
     ELSE [judged EXCEPT !.status = "remediation-pending"]

\* getLineageNextAction, for the candidate in the workspace.
NextActionOf(l) ==
  IF l.status = "none" THEN "run-discovery"
  ELSE IF contract # l.contract THEN "supersede-and-discovery"
  ELSE IF l.status = "exhausted" THEN "require-user-intervention"
  ELSE IF l.status = "superseded" THEN "run-discovery"
  ELSE IF tree # l.current THEN "supersede-and-discovery"
  ELSE IF l.status = "closed" THEN "return-cached-pass"
  ELSE IF l.status = "remediation-pending" THEN "apply-remediation"
  ELSE IF l.successor THEN "run-recovery-successor-recheck"
  ELSE "run-targeted-recheck"

\* The agent recovers the snapshot, compares it with the workspace and routes, ...
RecheckRead ==
  /\ ~ recheck /\ lin.current \in snaps /\ tree = lin.current
  /\ NextActionOf(lin) = "run-targeted-recheck"
  /\ recheck' = TRUE
  /\ UNCHANGED <<tree, contract, snaps, lin, runner, troubles>>

\* ... then runs the recipes and reports what it saw.  A finding in a path that
\* the remediation changed is one it caused.
RecheckEvaluate ==
  /\ recheck /\ recheck' = FALSE
  /\ LET fixed == {f \in lin.findings : \A r \in Recipe : FindingOf[r] = f => Passes(r, tree)}
         regressed == {f \in Finding : AllowedOf[f] \intersect Changed(lin.genesis, lin.current) # {}}
     IN \E caused \in SUBSET (regressed \ lin.findings) : lin' = EvaluateRecheck(lin, fixed, caused)
  /\ UNCHANGED <<tree, contract, snaps, runner, troubles>>

-----------------------------------------------------------------------------
(* Successors.                                                             *)

\* terminalizeIrrecoverableLineage: the audit found the tree nowhere.
TerminalizeIrrecoverableLineage ==
  /\ lin.status = "remediation-pending" /\ lin.current \notin snaps
  /\ lin' = [lin EXCEPT !.status = "superseded", !.reason = "irrecoverable"]
  /\ UNCHANGED <<tree, contract, snaps, recheck, runner, troubles>>

\* The lineage that goes on from l in the captured workspace.
Successor(l) ==
  [l EXCEPT !.status = "recheck-pending", !.reason = "none", !.gen = @ + 1,
            !.genesis = tree, !.current = tree, !.contract = contract, !.successor = TRUE]

StartRecoverySuccessor ==
  /\ lin.status = "superseded" /\ lin.reason = "irrecoverable" /\ lin.gen < MaxGen
  /\ Capture /\ lin' = Successor(lin)
  /\ UNCHANGED <<tree, contract, recheck, runner, troubles>>

\* preserveDirectedRecheckOperation refuses what is completed.
Preserve ==
  /\ \E k \in DOMAIN ops \ preserved :
       /\ k[1].gen = lin.gen /\ ~ Completed(k)
       /\ preserved' = preserved \union {k}
  /\ UNCHANGED <<tree, contract, snaps, lin, recheck, ops, cmd, runs, troubles>>

\* collectReconciliationSuccessorAudit wants a disposition of the operation each
\* recipe has without a journal (frozenDirectedRecipes).
Audited(l) == \A r \in RecipesOf(l) : Op(Legacy(l), r) \in preserved

StartReconciliationSuccessor ==
  /\ lin.status \in {"remediation-pending", "recheck-pending"}
  /\ Audited(lin) /\ tree # lin.current /\ lin.gen < MaxGen
  /\ Capture /\ lin' = Successor(lin)
  /\ UNCHANGED <<tree, contract, recheck, runner, troubles>>

-----------------------------------------------------------------------------
(* runRecoverySuccessorRecheck, a file or a command at a time.             *)

Quiet == UNCHANGED <<tree, contract, snaps, recheck, preserved, troubles>>
At(p, at) == cmd[p].at = at
OpOf(p, r) == Op(Journal(cmd[p].lin), r)

Begin(p) ==
  /\ At(p, "idle") /\ lin.status = "recheck-pending" /\ lin.successor
  /\ contract = lin.contract /\ lin.current \in snaps /\ tree = lin.current
  /\ ~ \E r \in Recipe : Present(Op(Legacy(lin), r))
  /\ cmd' = [cmd EXCEPT ![p] = [Idle EXCEPT !.at = "persist", !.lin = lin, !.left = RecipesOf(lin)]]
  /\ Quiet /\ UNCHANGED <<lin, ops, runs>>

\* Mutant: what another runner persisted is run as well.
DecideAnyway(c) == [c EXCEPT !.at = "run", !.left = RecipesOf(c.lin) \ c.known]

\* Recipes that are neither completed nor this runner's require reconciliation.
Decide(c) ==
  LET todo == RecipesOf(c.lin) \ c.known
  IN IF todo \subseteq c.created THEN [c EXCEPT !.at = "run", !.left = todo] ELSE Idle

\* persistRecoveryOperation links a file that may be there, then its completion is read.
PersistOperation(p) ==
  /\ At(p, "persist")
  /\ LET r == First(cmd[p].left)
         k == OpOf(p, r)
         c == [cmd[p] EXCEPT !.left = @ \ {r},
                 !.created = IF Present(k) THEN @ ELSE @ \union {r},
                 !.known = IF Completed(k) THEN @ \union {r} ELSE @]
     IN /\ ops' = IF Present(k) THEN ops ELSE With(ops, k, "pending")
        /\ runs' = IF Present(k) THEN runs ELSE With(runs, k, 0)
        /\ cmd' = [cmd EXCEPT ![p] = IF c.left = {} THEN Decide(c) ELSE c]
  /\ Quiet /\ UNCHANGED lin

Invoke(p) ==
  /\ At(p, "run") /\ cmd[p].left # {}
  /\ LET r == First(cmd[p].left)
     IN /\ runs' = [runs EXCEPT ![OpOf(p, r)] = @ + 1]
        /\ cmd' = [cmd EXCEPT ![p].at = "complete",
                              ![p].outcome = IF Passes(r, tree) THEN "passed" ELSE "failed"]
  /\ Quiet /\ UNCHANGED <<lin, ops>>

\* completeDirectedRecheckOperation.
Complete(p) ==
  /\ At(p, "complete")
  /\ LET r == First(cmd[p].left)
         k == OpOf(p, r)
     IN /\ ops' = IF Completed(k) THEN ops ELSE [ops EXCEPT ![k] = cmd[p].outcome]
        /\ cmd' = [cmd EXCEPT ![p].at = "run", ![p].outcome = "none",
                              ![p].left = @ \ {r}, ![p].known = @ \union {r}]
  /\ Quiet /\ UNCHANGED <<lin, runs>>

\* Mutant: a finding counts as fixed when any of its recipes passed.
ReduceAny(l) ==
  {f \in l.findings : \E r \in RecipesOf(l) : FindingOf[r] = f /\ ops[Op(Journal(l), r)] = "passed"}

\* normalizeRecheckResults: the findings all of whose recipes passed.
Reduce(l) ==
  {f \in l.findings : \A r \in RecipesOf(l) : FindingOf[r] = f => ops[Op(Journal(l), r)] = "passed"}

\* The result is persisted if state.yaml still holds the lineage that was checked, ...
Evaluate(p) ==
  /\ At(p, "run") /\ cmd[p].left = {}
  /\ cmd' = [cmd EXCEPT ![p] =
       IF lin = @.lin
         THEN [@ EXCEPT !.at = "install", !.result = EvaluateRecheck(lin, Reduce(lin), {})]
         ELSE Idle]
  /\ Quiet /\ UNCHANGED <<lin, ops, runs>>

\* ... and renames the new one over it, under no lock.
InstallState(p) ==
  /\ At(p, "install")
  /\ lin' = cmd[p].result
  /\ cmd' = [cmd EXCEPT ![p] = Idle]
  /\ Quiet /\ UNCHANGED <<ops, runs>>

Runner(p) ==
  \/ Begin(p) \/ PersistOperation(p) \/ Invoke(p) \/ Complete(p)
  \/ Evaluate(p) \/ InstallState(p)

-----------------------------------------------------------------------------
(* What happens meanwhile.                                                 *)

Trouble == troubles < MaxTroubles /\ troubles' = troubles + 1

Crash(p) ==
  /\ Trouble /\ ~ At(p, "idle")
  /\ cmd' = [cmd EXCEPT ![p] = Idle]
  /\ UNCHANGED <<tree, contract, snaps, lin, recheck, ops, preserved, runs>>

Edit ==
  /\ Trouble
  /\ \E x \in Path : tree' = [tree EXCEPT ![x] = 1 - @]
  /\ UNCHANGED <<contract, snaps, lin, recheck, runner>>

Redesign ==
  /\ Trouble /\ contract' = contract + 1
  /\ UNCHANGED <<tree, snaps, lin, recheck, runner>>

\* No reference holds the tree of a snapshot: git may prune it.
Prune ==
  /\ Trouble /\ lin.current \in snaps
  /\ snaps' = snaps \ {lin.current}
  /\ UNCHANGED <<tree, contract, lin, recheck, runner>>

Next ==
  \/ StartVerifyLineage \/ Remediate \/ RecordRemediationAttempt
  \/ RecheckRead \/ RecheckEvaluate
  \/ TerminalizeIrrecoverableLineage \/ StartRecoverySuccessor
  \/ Preserve \/ StartReconciliationSuccessor
  \/ \E p \in Proc : Runner(p) \/ Crash(p)
  \/ Edit \/ Redesign \/ Prune

Fairness ==
  /\ WF_vars(RecordRemediationAttempt) /\ WF_vars(RecheckRead) /\ WF_vars(RecheckEvaluate)
  /\ \A p \in Proc : WF_vars(Runner(p))

Spec == Init /\ [][Next]_vars /\ Fairness

-----------------------------------------------------------------------------
(* Properties.                                                             *)

Statuses == {"none", "remediation-pending", "recheck-pending", "closed", "exhausted", "superseded"}

Lineage ==
  [status : Statuses, reason : {"none", "attempts", "contract", "verified", "irrecoverable"},
   gen : Nat, genesis : Tree, current : Tree, contract : Nat,
   attempts : 0 .. MAX_REMEDIATION_ATTEMPTS,
   findings : SUBSET Finding, unresolved : SUBSET Finding, successor : BOOLEAN]

Command ==
  [at : {"idle", "persist", "run", "complete", "install"}, lin : Lineage, left : SUBSET Recipe,
   created : SUBSET Recipe, known : SUBSET Recipe, outcome : {"none", "passed", "failed"},
   result : Lineage]

TypeOK ==
  /\ tree \in Tree /\ contract \in Nat /\ snaps \subseteq Tree
  /\ lin \in Lineage /\ lin.unresolved \subseteq lin.findings
  /\ recheck \in BOOLEAN /\ troubles \in 0 .. MaxTroubles
  /\ preserved \subseteq DOMAIN ops /\ DOMAIN runs = DOMAIN ops
  /\ \A k \in DOMAIN ops : ops[k] \in {"pending", "passed", "failed"} /\ runs[k] \in Nat
  /\ cmd \in [Proc -> Command]

\* The command of an operation runs at most once, however many runners meet in one
\* journal, are killed and are started again.
RunOnce == \A k \in DOMAIN runs : runs[k] <= 1

\* A successor is closed only when every recipe of every finding has a completion
\* that passed, in the journal of the candidate it verifies.
VerifiedByRuns ==
  lin.status = "closed" /\ lin.successor =>
    \A r \in RecipesOf(lin) : Present(Op(Journal(lin), r)) /\ ops[Op(Journal(lin), r)] = "passed"

\* What separates the candidate of a lineage from the one it began with lies in the
\* paths of its findings, whatever else was edited meanwhile.
ScopeKept ==
  Changed(lin.genesis, lin.current) \subseteq UNION {AllowedOf[f] : f \in lin.findings}

\* An operation is left inconclusive when the runner that created it is gone.
Inconclusive(k) ==
  /\ k[1].gen = lin.gen /\ ~ Completed(k)
  /\ \A p \in Proc : At(p, "idle") \/ k[2] \notin cmd[p].created \/ k[1] # Journal(cmd[p].lin)

\* Every lineage ends, once nothing disturbs it: the workspace and the snapshot are
\* those of its candidate and no operation is inconclusive.
Undisturbed ==
  /\ lin.status # "none" /\ lin.current \in snaps /\ contract = lin.contract
  /\ Changed(lin.current, tree) \subseteq (IF lin.status = "remediation-pending" THEN Allowed(lin) ELSE {})
  /\ \A k \in DOMAIN ops : ~ Inconclusive(k)

LineageEnds == <>[](Undisturbed \/ Ended) => <>Ended

\* The runner asks for a reconciliation when operations of its lineage are
\* inconclusive; once all of them are preserved one can be started.
Reconcilable ==
  LET inconclusive == {k \in DOMAIN ops : Inconclusive(k)}
  IN lin.status = "recheck-pending" /\ inconclusive # {} /\ inconclusive \subseteq preserved => Audited(lin)

=============================================================================
