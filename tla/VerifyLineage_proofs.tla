------------------------ MODULE VerifyLineage_proofs ------------------------
(***************************************************************************)
(* Proofs about VerifyLineage, for any findings, recipes, paths, runners   *)
(* and troubles.                                                           *)
(*                                                                         *)
(* A lineage is Good by itself: its attempts and the paths it may have     *)
(* changed do not depend on what happens around it, so the copies that     *)
(* the runners hold are good as well, and one may be installed over a      *)
(* newer lineage.  A command runs once because one runner creates the      *)
(* file of an operation and only that runner, until it dies, runs it.      *)
(***************************************************************************)
EXTENDS VerifyLineage, WellFoundedInduction, TLAPS

ScopeOf(l) == UNION {AllowedOf[f] : f \in l.findings}

Good(l) ==
  /\ l.unresolved \subseteq l.findings
  /\ l.status # "none" => l.findings # {}
  /\ l.status = "remediation-pending" => l.attempts < MAX_REMEDIATION_ATTEMPTS
  /\ Changed(l.genesis, l.current) \subseteq ScopeOf(l)

\* Only what was found is rechecked.
Found ==
  /\ recheck => lin.status # "none"
  /\ \A p \in Proc : ~At(p, "idle") => cmd[p].lin.status # "none"
  /\ \A p \in Proc : At(p, "install") => cmd[p].result.status # "none"

AllGood == Good(lin) /\ Found /\ \A p \in Proc : Good(cmd[p].lin) /\ Good(cmd[p].result)

Typed == TypeOK /\ AllGood

-----------------------------------------------------------------------------
(* Lineages *)

\* The empty lineage, and those that older versions left.
LEMMA FirstLineages ==
  ASSUME ConstantsOK
  PROVE  /\ NoLineage \in Lineage /\ Good(NoLineage)
         /\ \A n \in Inherited : Left(n) \in Lineage /\ Good(Left(n))
<1>1. Base \in Tree /\ Changed(Base, Base) = {}
  BY DEF Base, Tree, Changed
<1>2. NoLineage \in Lineage /\ Good(NoLineage)
  BY <1>1 DEF NoLineage, Lineage, Statuses, Good, MAX_REMEDIATION_ATTEMPTS
<1>3. ASSUME NEW n \in Inherited PROVE Left(n) \in Lineage /\ Good(Left(n))
  <2>1. n \in 0 .. 2
    BY DEF ConstantsOK
  <2>2. Left(n) \in Lineage
    BY <1>2, <2>1 DEF NoLineage, Left, Lineage, Statuses, MAX_REMEDIATION_ATTEMPTS
  <2>3. /\ Left(n).status = "recheck-pending" /\ Left(n).findings = Left(n).unresolved
        /\ Left(n).findings = Finding /\ Finding # {}
        /\ Left(n).genesis = Base /\ Left(n).current = Base
    BY DEF NoLineage, Left, ConstantsOK
  <2> QED BY <1>1, <2>2, <2>3 DEF Good
<1> QED BY <1>2, <1>3

LEMMA IdleCommand == ASSUME ConstantsOK PROVE Idle \in Command /\ Good(Idle.lin) /\ Good(Idle.result)
BY FirstLineages DEF Idle, Command

\* The fields of a lineage.
LEMMA Fields ==
  ASSUME NEW l \in Lineage
  PROVE  /\ l.status \in Statuses /\ l.gen \in Nat /\ l.genesis \in Tree /\ l.current \in Tree
         /\ l.contract \in Nat /\ l.attempts \in 0 .. MAX_REMEDIATION_ATTEMPTS
         /\ l.findings \in SUBSET Finding /\ l.unresolved \in SUBSET Finding
         /\ l.successor \in BOOLEAN
BY DEF Lineage

\* A recheck gives a lineage of the same candidate, whatever it observed.
LEMMA RecheckFields ==
  ASSUME NEW l \in Lineage, NEW fixed, NEW caused \in SUBSET Finding
  PROVE  LET e == EvaluateRecheck(l, fixed, caused)
         IN  /\ e \in Lineage
             /\ e.gen = l.gen /\ e.genesis = l.genesis /\ e.current = l.current
             /\ e.contract = l.contract /\ e.attempts = l.attempts /\ e.successor = l.successor
             /\ e.status # "none"
             /\ \/ e.status = "superseded" /\ e.findings = l.findings /\ e.unresolved = l.unresolved
                \/ /\ e.findings = l.findings \union caused
                   /\ e.unresolved = (l.findings \ fixed) \union caused
                   /\ e.status = "remediation-pending" => l.attempts < MAX_REMEDIATION_ATTEMPTS
                   /\ e.status = "closed" => e.unresolved = {}
<1> DEFINE unresolved == (l.findings \ fixed) \union caused
           judged == [l EXCEPT !.findings = @ \union caused, !.unresolved = unresolved]
<1>1. unresolved \in SUBSET Finding /\ l.findings \union caused \in SUBSET Finding
  BY Fields
<1>2. judged \in Lineage
  BY <1>1 DEF Lineage
<1>3. CASE contract # l.contract
  BY <1>3 DEF EvaluateRecheck, Lineage, Statuses
<1>4. CASE contract = l.contract /\ unresolved = {}
  BY <1>2, <1>4 DEF EvaluateRecheck, Lineage, Statuses
<1>5. CASE contract = l.contract /\ unresolved # {} /\ l.attempts >= MAX_REMEDIATION_ATTEMPTS
  BY <1>2, <1>5 DEF EvaluateRecheck, Lineage, Statuses
<1>6. CASE contract = l.contract /\ unresolved # {} /\ ~ l.attempts >= MAX_REMEDIATION_ATTEMPTS
  <2>1. l.attempts < MAX_REMEDIATION_ATTEMPTS
    BY <1>6, Fields DEF MAX_REMEDIATION_ATTEMPTS
  <2> QED BY <1>2, <1>6, <2>1 DEF EvaluateRecheck, Lineage, Statuses
<1> QED BY <1>3, <1>4, <1>5, <1>6

LEMMA RecheckGood ==
  ASSUME NEW l \in Lineage, Good(l), l.status # "none", NEW fixed, NEW caused \in SUBSET Finding
  PROVE  EvaluateRecheck(l, fixed, caused) \in Lineage /\ Good(EvaluateRecheck(l, fixed, caused))
<1> DEFINE e == EvaluateRecheck(l, fixed, caused)
<1> HIDE DEF e
<1>0. /\ e \in Lineage /\ e.genesis = l.genesis /\ e.current = l.current /\ e.attempts = l.attempts
      /\ \/ e.status = "superseded" /\ e.findings = l.findings /\ e.unresolved = l.unresolved
         \/ /\ e.findings = l.findings \union caused
            /\ e.unresolved = (l.findings \ fixed) \union caused
            /\ e.status = "remediation-pending" => l.attempts < MAX_REMEDIATION_ATTEMPTS
  BY RecheckFields DEF e
<1>1. e.unresolved \subseteq e.findings /\ l.findings \subseteq e.findings
  BY <1>0 DEF Good
<1>2. ScopeOf(l) \subseteq ScopeOf(e)
  BY <1>1 DEF ScopeOf
<1>3. Changed(e.genesis, e.current) = Changed(l.genesis, l.current)
  BY <1>0
<1>4. e.status = "remediation-pending" => e.attempts < MAX_REMEDIATION_ATTEMPTS
  BY <1>0
<1>5. e.findings # {}
  BY <1>1 DEF Good
<1>6. e \in Lineage /\ Good(e)
  BY <1>0, <1>5, <1>1, <1>2, <1>3, <1>4 DEF Good
<1> QED BY <1>6 DEF e

\* So does a successor, which begins where the workspace is.
LEMMA SuccessorGood ==
  ASSUME NEW l \in Lineage, Good(l), l.status # "none", tree \in Tree, contract \in Nat
  PROVE  Successor(l) \in Lineage /\ Good(Successor(l))
<1>1. Successor(l) \in Lineage
  <2>1. l.gen + 1 \in Nat
    BY Fields
  <2> QED BY <2>1 DEF Lineage, Statuses, Successor
<1>2. /\ Successor(l).status = "recheck-pending" /\ Successor(l).genesis = Successor(l).current
      /\ Successor(l).findings = l.findings /\ Successor(l).unresolved = l.unresolved
  BY DEF Lineage, Successor
<1> QED BY <1>1, <1>2 DEF Good, Changed

-----------------------------------------------------------------------------
(* Types                                                                   *)

\* The first of some recipes is one of them.
LEMMA FirstIn ==
  ASSUME ConstantsOK, NEW S \in SUBSET Recipe, S # {}
  PROVE  First(S) \in S
<1> DEFINE R == OpToRel(<, Nat)
<1>1. S \subseteq Nat
  BY DEF ConstantsOK
<1>2. PICK r \in S : \A q \in S : ~ (<<q, r>> \in R)
  <2> HIDE DEF R
  <2>1. IsWellFoundedOn(R, Nat)
    BY NatLessThanWellFounded DEF R
  <2> QED BY <1>1, <2>1, WFMin
<1>3. ASSUME NEW q \in S PROVE r <= q
  <2>1. q \in Nat /\ r \in Nat
    BY <1>1
  <2>2. ~ (q < r)
    BY <1>2, <2>1 DEF OpToRel
  <2> QED BY <2>1, <2>2
<1> QED BY <1>3 DEF First

\* What the agent and the person do to the lineage keeps it good.
LEMMA LineageTyped ==
  ASSUME ConstantsOK, Typed
  PROVE  /\ StartVerifyLineage => lin' \in Lineage /\ Good(lin)'
         /\ RecordRemediationAttempt => lin' \in Lineage /\ Good(lin)'
         /\ RecheckEvaluate => lin' \in Lineage /\ Good(lin)'
         /\ TerminalizeIrrecoverableLineage => lin' \in Lineage /\ Good(lin)'
         /\ StartRecoverySuccessor => lin' \in Lineage /\ Good(lin)'
         /\ StartReconciliationSuccessor => lin' \in Lineage /\ Good(lin)'
<1> USE DEF Typed, TypeOK, AllGood
<1>1. ASSUME StartVerifyLineage PROVE lin' \in Lineage /\ Good(lin)'
  <2>1. PICK F \in (SUBSET Finding) \ {{}} :
          lin' = [NoLineage EXCEPT !.status = "remediation-pending", !.gen = 1,
                    !.genesis = tree, !.current = tree, !.contract = contract,
                    !.findings = F, !.unresolved = F]
    BY <1>1 DEF StartVerifyLineage
  <2>2. lin' \in Lineage
    BY <2>1, FirstLineages DEF NoLineage, Lineage, Statuses, MAX_REMEDIATION_ATTEMPTS
  <2>3. /\ lin'.attempts = 0 /\ lin'.genesis = lin'.current
        /\ lin'.findings = F /\ lin'.unresolved = F
    BY <2>1 DEF NoLineage
  <2>4. F # {}
    BY <2>1
  <2>5. Changed(lin'.genesis, lin'.current) = {}
    BY <2>3 DEF Changed
  <2> QED BY <2>3, <2>2, <2>4, <2>5 DEF Good, Changed, MAX_REMEDIATION_ATTEMPTS
<1>2. ASSUME RecordRemediationAttempt PROVE lin' \in Lineage /\ Good(lin)'
  <2>1. lin.attempts + 1 \in 0 .. MAX_REMEDIATION_ATTEMPTS
    BY <1>2, Fields DEF RecordRemediationAttempt, Good, MAX_REMEDIATION_ATTEMPTS
  <2>2. \/ lin' = lin
        \/ /\ lin' = [lin EXCEPT !.current = tree, !.attempts = lin.attempts + 1,
                                 !.status = "recheck-pending"]
           /\ Changed(lin.current, tree) \subseteq Allowed(lin)
    BY <1>2, <2>1 DEF RecordRemediationAttempt, Lineage, MAX_REMEDIATION_ATTEMPTS
  <2>3. CASE lin' = lin
    BY <2>3 DEF Good, Changed, ScopeOf
  <2>4. CASE /\ lin' = [lin EXCEPT !.current = tree, !.attempts = lin.attempts + 1,
                                   !.status = "recheck-pending"]
             /\ Changed(lin.current, tree) \subseteq Allowed(lin)
    <3>1. lin' \in Lineage
      BY <2>1, <2>4 DEF Lineage, Statuses
    <3>2. /\ lin'.status = "recheck-pending" /\ lin'.current = tree /\ lin'.genesis = lin.genesis
          /\ lin'.findings = lin.findings /\ lin'.unresolved = lin.unresolved
      BY <2>4 DEF Lineage
    <3>6. lin.findings # {}
      BY <1>2 DEF RecordRemediationAttempt, Good
    <3>3. Allowed(lin) \subseteq ScopeOf(lin)
      BY DEF Good, Allowed, ScopeOf
    <3>4. Changed(lin.genesis, tree) \subseteq Changed(lin.genesis, lin.current) \union Changed(lin.current, tree)
      BY DEF Changed
    <3>5. Changed(lin'.genesis, lin'.current) \subseteq ScopeOf(lin')
      BY <2>4, <3>2, <3>3, <3>4 DEF Good, ScopeOf
    <3> QED BY <3>1, <3>2, <3>5, <3>6 DEF Good, Changed, ScopeOf
  <2> QED BY <2>2, <2>3, <2>4
<1>3. ASSUME RecheckEvaluate PROVE lin' \in Lineage /\ Good(lin)'
  <2> DEFINE fixed == {f \in lin.findings : \A r \in Recipe : FindingOf[r] = f => Passes(r, tree)}
  <2>1. PICK caused \in SUBSET Finding : lin' = EvaluateRecheck(lin, fixed, caused)
    BY <1>3 DEF RecheckEvaluate
  <2>2. lin' \in Lineage /\ Good(lin')
    BY <1>3, <2>1, RecheckGood DEF RecheckEvaluate, Found
  <2> QED BY <2>2 DEF Good, Changed, ScopeOf
<1>4. ASSUME TerminalizeIrrecoverableLineage PROVE lin' \in Lineage /\ Good(lin)'
  <2>1. lin' \in Lineage
    BY <1>4 DEF TerminalizeIrrecoverableLineage, Lineage, Statuses
  <2>2. /\ lin'.status = "superseded" /\ lin'.current = lin.current /\ lin'.genesis = lin.genesis
        /\ lin'.findings = lin.findings /\ lin'.unresolved = lin.unresolved
        /\ lin.findings # {}
    BY <1>4 DEF TerminalizeIrrecoverableLineage, Lineage, Good
  <2> QED BY <2>1, <2>2 DEF Good, Changed, ScopeOf
<1>5. ASSUME StartRecoverySuccessor \/ StartReconciliationSuccessor PROVE lin' \in Lineage /\ Good(lin)'
  <2>1. lin' \in Lineage /\ Good(lin')
    BY <1>5, SuccessorGood DEF StartRecoverySuccessor, StartReconciliationSuccessor
  <2> QED BY <2>1 DEF Good, Changed, ScopeOf
<1> QED BY <1>1, <1>2, <1>3, <1>4, <1>5

-----------------------------------------------------------------------------
(* Runners                                                                 *)

\* What a step of the runner p makes of its command, and of the files.
Turns(p, c) == c \in Command /\ cmd' = [cmd EXCEPT ![p] = c]
NoFile == ops' = ops /\ runs' = runs

LEMMA BeginFacts ==
  ASSUME ConstantsOK, Typed, NEW p \in Proc, Begin(p)
  PROVE  \E c : /\ Turns(p, c) /\ c.at = "persist" /\ c.lin = lin /\ c.left = RecipesOf(lin)
                /\ c.created = {} /\ c.known = {} /\ c.result = NoLineage
                /\ lin.status = "recheck-pending" /\ lin.successor /\ lin' = lin /\ NoFile
<1> DEFINE c == [Idle EXCEPT !.at = "persist", !.lin = lin, !.left = RecipesOf(lin)]
<1>1. RecipesOf(lin) \in SUBSET Recipe
  BY DEF RecipesOf
<1>2. c \in Command
  BY <1>1, IdleCommand DEF Typed, TypeOK, Command, Idle
<1>3. /\ c.at = "persist" /\ c.lin = lin /\ c.left = RecipesOf(lin)
      /\ c.created = {} /\ c.known = {} /\ c.result = NoLineage
  BY DEF Idle
<1> QED BY <1>2, <1>3 DEF Begin, Turns, NoFile

LEMMA PersistFacts ==
  ASSUME ConstantsOK, Typed, NEW p \in Proc, PersistOperation(p), cmd[p].left # {}
  PROVE  \E r \in cmd[p].left, c \in Command :
           LET k == OpOf(p, r)
               d == IF c.left = {} THEN Decide(c) ELSE c
           IN  /\ c.at = "persist" /\ c.lin = cmd[p].lin /\ c.left = cmd[p].left \ {r}
               /\ c.result = cmd[p].result
               /\ c.created = IF Present(k) THEN cmd[p].created ELSE cmd[p].created \union {r}
               /\ c.known = IF Completed(k) THEN cmd[p].known \union {r} ELSE cmd[p].known
               /\ cmd' = [cmd EXCEPT ![p] = d] /\ lin' = lin
               /\ Present(k) => NoFile
               /\ ~Present(k) => ops' = With(ops, k, "pending") /\ runs' = With(runs, k, 0)
<1> DEFINE r == First(cmd[p].left)
           k == OpOf(p, r)
           c == [cmd[p] EXCEPT !.left = @ \ {r},
                   !.created = IF Present(k) THEN @ ELSE @ \union {r},
                   !.known = IF Completed(k) THEN @ \union {r} ELSE @]
<1>1. cmd[p] \in Command
  BY DEF Typed, TypeOK
<1>2. r \in cmd[p].left /\ r \in Recipe
  BY <1>1, FirstIn DEF Command
<1>3. c \in Command
  BY <1>1, <1>2 DEF Command
<1>4. /\ c.at = "persist" /\ c.lin = cmd[p].lin /\ c.left = cmd[p].left \ {r}
      /\ c.result = cmd[p].result
      /\ c.created = IF Present(k) THEN cmd[p].created ELSE cmd[p].created \union {r}
      /\ c.known = IF Completed(k) THEN cmd[p].known \union {r} ELSE cmd[p].known
  BY <1>1 DEF Command, PersistOperation, At
<1>5. /\ cmd' = [cmd EXCEPT ![p] = IF c.left = {} THEN Decide(c) ELSE c] /\ lin' = lin
      /\ Present(k) => NoFile
      /\ ~Present(k) => ops' = With(ops, k, "pending") /\ runs' = With(runs, k, 0)
  BY DEF PersistOperation, NoFile
<1> QED BY <1>2, <1>3, <1>4, <1>5

LEMMA DecideFacts ==
  ASSUME ConstantsOK, NEW c \in Command, c.at = "persist"
  PROVE  /\ Decide(c) \in Command
         /\ \/ Decide(c) = Idle
            \/ /\ Decide(c).at = "run" /\ Decide(c).lin = c.lin /\ Decide(c).result = c.result
               /\ Decide(c).left = RecipesOf(c.lin) \ c.known /\ Decide(c).left \subseteq c.created
               /\ Decide(c).created = c.created /\ Decide(c).known = c.known
<1> DEFINE todo == RecipesOf(c.lin) \ c.known
           d == [c EXCEPT !.at = "run", !.left = todo]
<1>1. todo \in SUBSET Recipe
  BY DEF RecipesOf
<1>2. d \in Command
  BY <1>1 DEF Command
<1>3. /\ d.at = "run" /\ d.lin = c.lin /\ d.result = c.result /\ d.left = todo
      /\ d.created = c.created /\ d.known = c.known
  BY DEF Command
<1>4. CASE todo \subseteq c.created
  BY <1>2, <1>3, <1>4 DEF Decide
<1>5. CASE ~ todo \subseteq c.created
  BY <1>5, IdleCommand DEF Decide
<1> QED BY <1>4, <1>5

LEMMA InvokeFacts ==
  ASSUME ConstantsOK, Typed, NEW p \in Proc, Invoke(p)
  PROVE  \E c : LET r == First(cmd[p].left)
                IN  /\ Turns(p, c) /\ c.at = "complete" /\ c.lin = cmd[p].lin
                    /\ c.left = cmd[p].left /\ c.created = cmd[p].created
                    /\ c.known = cmd[p].known /\ c.result = cmd[p].result
                    /\ c.outcome \in {"passed", "failed"} /\ r \in cmd[p].left
                    /\ runs' = [runs EXCEPT ![OpOf(p, r)] = @ + 1]
                    /\ ops' = ops /\ lin' = lin
<1> DEFINE r == First(cmd[p].left)
           c == [cmd[p] EXCEPT !.at = "complete",
                               !.outcome = IF Passes(r, tree) THEN "passed" ELSE "failed"]
<1>1. cmd[p] \in Command
  BY DEF Typed, TypeOK
<1>2. r \in cmd[p].left
  BY <1>1, FirstIn DEF Command, Invoke
<1>3. c \in Command
  BY <1>1 DEF Command
<1>4. /\ c.at = "complete" /\ c.lin = cmd[p].lin /\ c.left = cmd[p].left
      /\ c.created = cmd[p].created /\ c.known = cmd[p].known /\ c.result = cmd[p].result
      /\ c.outcome \in {"passed", "failed"}
  BY <1>1 DEF Command
<1>5. /\ cmd' = [cmd EXCEPT ![p] = c] /\ ops' = ops /\ lin' = lin
      /\ runs' = [runs EXCEPT ![OpOf(p, r)] = @ + 1]
  BY DEF Invoke, Typed, TypeOK
<1> QED BY <1>2, <1>3, <1>4, <1>5 DEF Turns

LEMMA CompleteFacts ==
  ASSUME ConstantsOK, Typed, NEW p \in Proc, Complete(p), cmd[p].left # {}
  PROVE  \E c : LET r == First(cmd[p].left)
                    k == OpOf(p, r)
                IN  /\ Turns(p, c) /\ c.at = "run" /\ c.lin = cmd[p].lin /\ r \in cmd[p].left
                    /\ c.left = cmd[p].left \ {r} /\ c.created = cmd[p].created
                    /\ c.known = cmd[p].known \union {r} /\ c.result = cmd[p].result
                    /\ ops' = IF Completed(k) THEN ops ELSE [ops EXCEPT ![k] = cmd[p].outcome]
                    /\ runs' = runs /\ lin' = lin
<1> DEFINE r == First(cmd[p].left)
           c == [cmd[p] EXCEPT !.at = "run", !.outcome = "none",
                               !.left = @ \ {r}, !.known = @ \union {r}]
<1>1. cmd[p] \in Command
  BY DEF Typed, TypeOK
<1>2. r \in cmd[p].left /\ r \in Recipe
  BY <1>1, FirstIn DEF Command
<1>3. c \in Command
  BY <1>1, <1>2 DEF Command
<1>4. /\ c.at = "run" /\ c.lin = cmd[p].lin /\ c.left = cmd[p].left \ {r}
      /\ c.created = cmd[p].created /\ c.known = cmd[p].known \union {r}
      /\ c.result = cmd[p].result
  BY <1>1 DEF Command
<1>5. /\ cmd' = [cmd EXCEPT ![p] = c] /\ runs' = runs /\ lin' = lin
      /\ ops' = IF Completed(OpOf(p, r)) THEN ops
                ELSE [ops EXCEPT ![OpOf(p, r)] = cmd[p].outcome]
  BY DEF Complete, Typed, TypeOK
<1> QED BY <1>2, <1>3, <1>4, <1>5 DEF Turns

\* A result is what a recheck makes of the present lineage, and is good like it.
LEMMA EvaluateFacts ==
  ASSUME ConstantsOK, Typed, NEW p \in Proc, Evaluate(p)
  PROVE  \E c : /\ Turns(p, c) /\ lin' = lin /\ NoFile
                /\ \/ c = Idle
                   \/ /\ c.at = "install" /\ c.lin = lin /\ lin = cmd[p].lin
                      /\ c.created = cmd[p].created /\ c.known = cmd[p].known
                      /\ c.result = EvaluateRecheck(lin, Reduce(lin), {})
                      /\ Good(c.result) /\ c.result.status # "none"
<1> DEFINE res == EvaluateRecheck(lin, Reduce(lin), {})
           c == [cmd[p] EXCEPT !.at = "install", !.result = res]
<1>1. cmd[p] \in Command /\ lin \in Lineage /\ Good(lin)
  BY DEF Typed, TypeOK, AllGood
<1>2. cmd' = [cmd EXCEPT ![p] = IF lin = cmd[p].lin THEN c ELSE Idle] /\ lin' = lin /\ NoFile
  BY DEF Evaluate, Typed, TypeOK, NoFile
<1>3. CASE lin = cmd[p].lin
  <2>1. lin.status # "none"
    BY <1>3 DEF Evaluate, Typed, AllGood, Found, At
  <2>2. res \in Lineage /\ Good(res)
    BY <1>1, <2>1, RecheckGood
  <2>3. res.status # "none"
    BY <1>1, RecheckFields
  <2>4. c \in Command
    BY <1>1, <2>2 DEF Command
  <2>5. /\ c.at = "install" /\ c.lin = lin /\ c.created = cmd[p].created
        /\ c.known = cmd[p].known /\ c.result = res
    BY <1>1, <1>3 DEF Command
  <2> QED BY <1>2, <1>3, <2>2, <2>3, <2>4, <2>5 DEF Turns
<1>4. CASE lin # cmd[p].lin
  BY <1>2, <1>4, IdleCommand DEF Turns
<1> QED BY <1>3, <1>4

\* An installed lineage is the result the runner computed.
LEMMA LastFacts ==
  ASSUME ConstantsOK, Typed, NEW p \in Proc
  PROVE  /\ InstallState(p) => /\ Turns(p, Idle) /\ NoFile /\ lin' = cmd[p].result
                               /\ At(p, "install")
         /\ Crash(p) => Turns(p, Idle) /\ NoFile /\ lin' = lin
BY IdleCommand DEF InstallState, Crash, Turns, NoFile

\* What a command has left to do agrees with where it is.
Shape(c) ==
  /\ c.at = "idle" => c.created = {} /\ c.known = {}
  /\ c.at \in {"persist", "complete"} => c.left # {}
  /\ c.at \in {"run", "complete"} =>
       c.left \subseteq c.created /\ RecipesOf(c.lin) \subseteq c.left \union c.known
  /\ c.at = "complete" => c.outcome # "none"
  /\ c.at = "install" => RecipesOf(c.lin) \subseteq c.known

Shaped == \A p \in Proc : Shape(cmd[p])

Sound(c) ==
  /\ Good(c.lin) /\ Good(c.result) /\ Shape(c)
  /\ c.at # "idle" => c.lin.status # "none"
  /\ c.at = "install" => c.result.status # "none"

\* A lineage with findings has recipes.
LEMMA SomeRecipe ==
  ASSUME ConstantsOK, NEW l \in Lineage, Good(l), l.status # "none"
  PROVE  RecipesOf(l) # {}
BY DEF ConstantsOK, Good, Lineage, RecipesOf

LEMMA IdleSound == ASSUME ConstantsOK PROVE Sound(Idle)
BY IdleCommand DEF Sound, Shape, Idle

\* A step of a runner leaves a sound command and a good lineage.
LEMMA RunnerSound ==
  ASSUME ConstantsOK, Typed, Shaped, NEW p \in Proc, Runner(p) \/ Crash(p)
  PROVE  \E c : /\ Turns(p, c) /\ Sound(c)
                /\ lin' = lin \/ (At(p, "install") /\ lin' = cmd[p].result)
<1>1. Sound(cmd[p]) /\ cmd[p] \in Command
  BY DEF Typed, TypeOK, AllGood, Found, Shaped, Sound, At
<1>2. CASE Begin(p)
  <2>1. PICK c : /\ Turns(p, c) /\ c.at = "persist" /\ c.lin = lin /\ c.left = RecipesOf(lin)
                 /\ c.created = {} /\ c.known = {} /\ c.result = NoLineage
                 /\ lin.status = "recheck-pending" /\ lin.successor /\ lin' = lin /\ NoFile
    BY <1>2, BeginFacts
  <2>2. RecipesOf(lin) # {} /\ Good(lin) /\ Good(NoLineage)
    BY <2>1, SomeRecipe, FirstLineages DEF Typed, TypeOK, AllGood
  <2> QED BY <2>1, <2>2 DEF Sound, Shape
<1>3. CASE PersistOperation(p)
  <2>1. cmd[p].left # {}
    BY <1>1, <1>3 DEF Sound, Shape, PersistOperation, At
  <2>2. PICK r \in cmd[p].left, c \in Command :
           LET d == IF c.left = {} THEN Decide(c) ELSE c
           IN  /\ c.at = "persist" /\ c.lin = cmd[p].lin /\ c.result = cmd[p].result
               /\ cmd' = [cmd EXCEPT ![p] = d] /\ lin' = lin
    BY <1>3, <2>1, PersistFacts
  <2>3. CASE c.left # {}
    BY <1>1, <1>3, <2>2, <2>3 DEF Sound, Shape, Turns, PersistOperation, At
  <2>4. CASE c.left = {}
    <3>1. \/ Decide(c) = Idle
          \/ /\ Decide(c) \in Command
             /\ Decide(c).at = "run" /\ Decide(c).lin = c.lin /\ Decide(c).result = c.result
             /\ Decide(c).left = RecipesOf(c.lin) \ c.known /\ Decide(c).left \subseteq c.created
             /\ Decide(c).created = c.created /\ Decide(c).known = c.known
      BY <2>2, DecideFacts
    <3>2. Sound(Decide(c)) /\ Decide(c) \in Command
      BY <1>1, <1>3, <2>2, <3>1, IdleSound, IdleCommand DEF Sound, Shape, PersistOperation, At
    <3> QED BY <2>2, <2>4, <3>2 DEF Turns
  <2> QED BY <2>3, <2>4
<1>4. CASE Invoke(p)
  <2>1. PICK c : /\ Turns(p, c) /\ c.at = "complete" /\ c.lin = cmd[p].lin
                 /\ c.left = cmd[p].left /\ c.created = cmd[p].created
                 /\ c.known = cmd[p].known /\ c.result = cmd[p].result /\ lin' = lin
                 /\ c.outcome # "none"
    BY <1>4, InvokeFacts
  <2> QED BY <1>1, <1>4, <2>1 DEF Sound, Shape, Invoke, At
<1>5. CASE Complete(p)
  <2>1. cmd[p].left # {}
    BY <1>1, <1>5 DEF Sound, Shape, Complete, At
  <2>2. PICK c : /\ Turns(p, c) /\ c.at = "run" /\ c.lin = cmd[p].lin
                 /\ c.left = cmd[p].left \ {First(cmd[p].left)} /\ c.created = cmd[p].created
                 /\ c.known = cmd[p].known \union {First(cmd[p].left)}
                 /\ c.result = cmd[p].result /\ lin' = lin
    BY <1>5, <2>1, CompleteFacts
  <2> QED BY <1>1, <1>5, <2>2 DEF Sound, Shape, Complete, At
<1>6. CASE Evaluate(p)
  <2>1. PICK c : /\ Turns(p, c) /\ lin' = lin
                 /\ \/ c = Idle
                    \/ /\ c.at = "install" /\ c.lin = lin /\ lin = cmd[p].lin
                       /\ c.known = cmd[p].known /\ Good(c.result) /\ c.result.status # "none"
    BY <1>6, EvaluateFacts
  <2>2. CASE c = Idle
    BY <2>1, <2>2, IdleSound
  <2>3. CASE /\ c.at = "install" /\ c.lin = lin /\ lin = cmd[p].lin
             /\ c.known = cmd[p].known /\ Good(c.result) /\ c.result.status # "none"
    BY <1>1, <1>6, <2>1, <2>3 DEF Sound, Shape, Evaluate, At
  <2> QED BY <2>1, <2>2, <2>3
<1>7. CASE InstallState(p) \/ Crash(p)
  BY <1>7, LastFacts, IdleSound
<1> QED BY <1>2, <1>3, <1>4, <1>5, <1>6, <1>7 DEF Runner

-----------------------------------------------------------------------------
(* Files: an operation is never removed, and never changes once completed. *)

OpsTyped ==
  /\ DOMAIN runs = DOMAIN ops
  /\ \A k \in DOMAIN ops : ops[k] \in {"pending", "passed", "failed"} /\ runs[k] \in Nat

Grows ==
  /\ DOMAIN ops \subseteq DOMAIN ops'
  /\ \A k \in DOMAIN ops : ops[k] # "pending" => ops'[k] = ops[k]

LEMMA FilesGrow ==
  ASSUME ConstantsOK, Typed, Shaped, NEW p \in Proc, Runner(p) \/ Crash(p)
  PROVE  OpsTyped' /\ Grows
<1>1. OpsTyped
  BY DEF Typed, TypeOK, OpsTyped
<1>2. CASE NoFile
  BY <1>1, <1>2 DEF NoFile, OpsTyped, Grows
<1>3. CASE PersistOperation(p)
  <2>1. cmd[p].left # {}
    BY <1>3 DEF Shaped, Shape, PersistOperation, At
  <2>2. PICK r \in cmd[p].left :
          \/ NoFile
          \/ LET k == OpOf(p, r)
             IN  ~Present(k) /\ ops' = With(ops, k, "pending") /\ runs' = With(runs, k, 0)
    BY <1>3, <2>1, PersistFacts
  <2>3. ASSUME NEW k, ~Present(k), ops' = With(ops, k, "pending"), runs' = With(runs, k, 0)
        PROVE  OpsTyped' /\ Grows
    BY <1>1, <2>3 DEF OpsTyped, Grows, With, Present
  <2> QED BY <1>2, <2>2, <2>3
<1>4. CASE Invoke(p)
  <2>1. PICK k : ops' = ops /\ runs' = [runs EXCEPT ![k] = @ + 1]
    BY <1>4, InvokeFacts
  <2> QED BY <1>1, <2>1 DEF OpsTyped, Grows
<1>5. CASE Complete(p)
  <2>1. cmd[p].left # {} /\ cmd[p].outcome \in {"passed", "failed"}
    BY <1>5 DEF Shaped, Shape, Complete, At, Typed, TypeOK, Command
  <2>2. PICK k : ops' = (IF Completed(k) THEN ops ELSE [ops EXCEPT ![k] = cmd[p].outcome]) /\ runs' = runs
    BY <1>5, <2>1, CompleteFacts
  <2> QED BY <1>1, <2>1, <2>2 DEF OpsTyped, Grows, Completed, Present
<1>6. CASE Begin(p) \/ Evaluate(p) \/ InstallState(p) \/ Crash(p)
  BY <1>2, <1>6, BeginFacts, EvaluateFacts, LastFacts
<1> QED BY <1>3, <1>4, <1>5, <1>6 DEF Runner

-----------------------------------------------------------------------------
(* The type invariant, and with it the scope of a lineage.                 *)

IInv == Typed /\ Shaped

LEMMA Initially == ASSUME ConstantsOK, Init PROVE IInv
<1>1. Idle \in Command /\ Good(Idle.lin) /\ Good(Idle.result) /\ Idle.at = "idle"
  BY IdleCommand DEF Idle
<1>2. /\ cmd \in [Proc -> Command]
      /\ \A p \in Proc : cmd[p] = Idle
  BY <1>1 DEF Init
<1>3. Shaped
  BY <1>2, IdleSound DEF Shaped, Sound
<1>4. lin \in Lineage /\ Good(lin) /\ snaps \subseteq Tree /\ tree \in Tree
  <2>1. Base \in Tree
    BY DEF Base, Tree
  <2>2. lin \in Lineage /\ Good(lin)
    BY FirstLineages DEF Init
  <2> QED BY <2>1, <2>2 DEF Init
<1>5. OpsTyped
  BY DEF Init, OpsTyped
<1>6. TypeOK
  <2>1. preserved \subseteq DOMAIN ops /\ recheck \in BOOLEAN /\ contract \in Nat
    BY DEF Init
  <2>2. troubles \in 0 .. MaxTroubles
    BY DEF Init, ConstantsOK
  <2> QED BY <1>2, <1>4, <1>5, <2>1, <2>2 DEF TypeOK, OpsTyped, Good
<1>7. AllGood
  BY <1>1, <1>2, <1>4 DEF AllGood, Found, At, Init
<1> QED BY <1>3, <1>6, <1>7 DEF IInv, Typed

\* A step of the agent or of the person leaves the runners as they are.
LEMMA AgentKeeps ==
  ASSUME ConstantsOK, IInv, UNCHANGED <<ops, cmd, runs>>,
         lin' \in Lineage, Good(lin)', lin.status # "none" => lin'.status # "none",
         tree' \in Tree, contract' \in Nat, snaps' \subseteq Tree,
         recheck' \in BOOLEAN, recheck' => lin'.status # "none",
         troubles' \in 0 .. MaxTroubles, preserved' \subseteq DOMAIN ops
  PROVE  IInv'
<1>1. TypeOK'
  BY DEF IInv, Typed, TypeOK, Good
<1>2. AllGood'
  <2>1. \A p \in Proc : Good(cmd[p].lin)' /\ Good(cmd[p].result)'
    BY DEF IInv, Typed, AllGood, Good, Changed, ScopeOf
  <2>2. Found'
    BY DEF IInv, Typed, AllGood, Found, At
  <2> QED BY <2>1, <2>2 DEF AllGood
<1>3. Shaped'
  BY DEF IInv, Shaped, Shape, RecipesOf
<1> QED BY <1>1, <1>2, <1>3 DEF IInv, Typed

LEMMA RunnerKeeps ==
  ASSUME ConstantsOK, IInv, NEW p \in Proc, Runner(p) \/ Crash(p)
  PROVE  IInv'
<1>1. PICK c : /\ Turns(p, c) /\ Sound(c)
               /\ lin' = lin \/ (At(p, "install") /\ lin' = cmd[p].result)
  BY RunnerSound DEF IInv
<1>2. OpsTyped' /\ DOMAIN ops \subseteq DOMAIN ops'
  BY FilesGrow DEF IInv, Grows
<1>3. /\ UNCHANGED <<tree, contract, snaps, recheck, preserved>>
      /\ troubles' \in 0 .. MaxTroubles
  <2>1. CASE Runner(p)
    BY <2>1 DEF Runner, Begin, PersistOperation, Invoke, Complete, Evaluate, InstallState,
                Quiet, IInv, Typed, TypeOK
  <2>2. CASE Crash(p)
    BY <2>2 DEF Crash, Trouble, IInv, Typed, TypeOK, ConstantsOK
  <2> QED BY <2>1, <2>2
<1>4. cmd' \in [Proc -> Command] /\ \A q \in Proc : cmd'[q] = IF q = p THEN c ELSE cmd[q]
  BY <1>1 DEF Turns, IInv, Typed, TypeOK
<1>5. \A q \in Proc : Sound(cmd[q])
  BY DEF IInv, Typed, AllGood, Found, Shaped, Sound, At
<1>6. \A q \in Proc : Sound(cmd'[q])
  BY <1>1, <1>4, <1>5
<1>7. lin' \in Lineage /\ Good(lin') /\ (lin.status # "none" => lin'.status # "none")
  BY <1>1, <1>5 DEF IInv, Typed, TypeOK, AllGood, Found, At, Command
<1>8. TypeOK'
  BY <1>2, <1>3, <1>4, <1>7 DEF TypeOK, OpsTyped, Good, IInv, Typed
<1>9. AllGood'
  <2>1. Good(lin)' /\ \A q \in Proc : Good(cmd[q].lin)' /\ Good(cmd[q].result)'
    BY <1>6, <1>7 DEF Sound, Good, Changed, ScopeOf
  <2>2. Found'
    BY <1>3, <1>6, <1>7 DEF Found, At, Sound, IInv, Typed, AllGood
  <2> QED BY <2>1, <2>2 DEF AllGood
<1>10. Shaped'
  BY <1>6 DEF Shaped, Sound, Shape, RecipesOf
<1> QED BY <1>8, <1>9, <1>10 DEF IInv, Typed

LEMMA Preserved == ASSUME ConstantsOK, IInv, [Next]_vars PROVE IInv'
<1> USE DEF Capture, runner
<1>0. /\ tree \in Tree /\ contract \in Nat /\ snaps \subseteq Tree /\ recheck \in BOOLEAN
      /\ troubles \in 0 .. MaxTroubles /\ preserved \subseteq DOMAIN ops
      /\ lin \in Lineage /\ Good(lin) /\ (recheck => lin.status # "none") /\ MaxTroubles \in Nat
  BY DEF IInv, Typed, TypeOK, AllGood, Found, ConstantsOK
<1>1. CASE StartVerifyLineage
  <2>1. lin'.status = "remediation-pending"
    BY <1>1 DEF StartVerifyLineage, NoLineage
  <2> QED BY <1>0, <1>1, <2>1, LineageTyped, AgentKeeps DEF StartVerifyLineage, IInv
<1>2. CASE RecordRemediationAttempt
  <2>1. lin'.status # "none"
    BY <1>0, <1>2 DEF RecordRemediationAttempt, Lineage
  <2> QED BY <1>0, <1>2, <2>1, LineageTyped, AgentKeeps DEF RecordRemediationAttempt, IInv
<1>3. CASE RecheckEvaluate
  <2>1. lin'.status # "none"
    BY <1>0, <1>3, RecheckFields DEF RecheckEvaluate
  <2> QED BY <1>0, <1>3, <2>1, LineageTyped, AgentKeeps DEF RecheckEvaluate, IInv
<1>4. CASE TerminalizeIrrecoverableLineage
  <2>1. lin'.status = "superseded"
    BY <1>0, <1>4 DEF TerminalizeIrrecoverableLineage, Lineage
  <2> QED BY <1>0, <1>4, <2>1, LineageTyped, AgentKeeps DEF TerminalizeIrrecoverableLineage, IInv
<1>5. CASE StartRecoverySuccessor \/ StartReconciliationSuccessor
  <2>1. lin'.status = "recheck-pending"
    BY <1>0, <1>5 DEF StartRecoverySuccessor, StartReconciliationSuccessor, Successor, Lineage
  <2> QED BY <1>0, <1>5, <2>1, LineageTyped, AgentKeeps
          DEF StartRecoverySuccessor, StartReconciliationSuccessor, IInv
<1>6. ASSUME lin' = lin, UNCHANGED <<ops, cmd, runs>>, tree' \in Tree, contract' \in Nat,
             snaps' \subseteq Tree, recheck' \in BOOLEAN, recheck' => lin.status # "none",
             troubles' \in 0 .. MaxTroubles, preserved' \subseteq DOMAIN ops
      PROVE  IInv'
  <2>1. Good(lin)'
    BY <1>0, <1>6 DEF Good, Changed, ScopeOf
  <2> QED BY <1>0, <1>6, <2>1, AgentKeeps
<1>7. CASE Remediate
  <2>1. PICK x : tree' = [tree EXCEPT ![x] = 1]
    BY <1>7 DEF Remediate
  <2>2. tree' \in Tree
    <3>1. DOMAIN tree' = Path /\ \A y \in Path : tree'[y] = 1 \/ tree'[y] = tree[y]
      BY <1>0, <2>1 DEF Tree
    <3>2. tree' = [y \in Path |-> tree'[y]]
      BY <1>0, <2>1, <3>1 DEF Tree
    <3> QED BY <1>0, <3>1, <3>2 DEF Tree
  <2> QED BY <1>0, <1>6, <1>7, <2>2 DEF Remediate
<1>8. CASE RecheckRead
  <2>1. lin.status # "none"
    BY <1>8 DEF RecheckRead, NextActionOf
  <2> QED BY <1>0, <1>6, <1>8, <2>1 DEF RecheckRead
<1>9. CASE Preserve
  BY <1>0, <1>6, <1>9 DEF Preserve
<1>10. CASE Edit
  <2>1. tree' \in Tree
    BY <1>0, <1>10 DEF Edit, Tree
  <2> QED BY <1>0, <1>6, <1>10, <2>1 DEF Edit, Trouble
<1>11. CASE Redesign \/ Prune
  BY <1>0, <1>6, <1>11 DEF Redesign, Prune, Trouble
<1>12. ASSUME NEW p \in Proc, Runner(p) \/ Crash(p) PROVE IInv'
  BY <1>12, RunnerKeeps
<1>13. CASE UNCHANGED vars
  BY <1>0, <1>6, <1>13 DEF vars
<1> QED BY <1>1, <1>2, <1>3, <1>4, <1>5, <1>7, <1>8, <1>9, <1>10, <1>11, <1>12, <1>13 DEF Next

LEMMA Inductive == ASSUME ConstantsOK PROVE Spec => []IInv
<1>1. Init => IInv
  BY Initially
<1>2. IInv /\ [Next]_vars => IInv'
  BY Preserved
<1> QED BY <1>1, <1>2, PTL DEF Spec

\* Every variable has its type: two attempts at most, and what is unresolved was found.
THEOREM TypeCorrect == ASSUME ConstantsOK PROVE Spec => []TypeOK
<1>1. IInv => TypeOK
  BY DEF IInv, Typed
<1> QED BY <1>1, Inductive, PTL

\* What separates the candidate of a lineage from the one it began with lies in the
\* paths of its findings, whatever was edited meanwhile and whichever runner installed
\* its result over it.
THEOREM FixesStayInScope == ASSUME ConstantsOK PROVE Spec => []ScopeKept
<1>1. IInv => ScopeKept
  BY DEF IInv, Typed, AllGood, Good, ScopeKept, ScopeOf
<1> QED BY <1>1, Inductive, PTL

-----------------------------------------------------------------------------
(* Commands run once.                                                      *)

\* The recipes of a runner whose command has not run yet.
ToRun(c) ==
  IF c.at = "persist" THEN c.created
  ELSE IF c.at = "run" THEN c.left
  ELSE IF c.at = "complete" THEN c.left \ {First(c.left)} ELSE {}

KeyOf(c, r) == Op(Journal(c.lin), r)

\* The file of an operation a runner created is there, as is the completion of one it knows.
Files == \A p \in Proc : /\ \A r \in cmd[p].created : Present(KeyOf(cmd[p], r))
                         /\ \A r \in cmd[p].known : Completed(KeyOf(cmd[p], r))

Fresh == \A p \in Proc : \A r \in ToRun(cmd[p]) : runs[KeyOf(cmd[p], r)] = 0

\* No two runners created the same operation.
Exclusive == \A p, q \in Proc : \A r \in cmd[p].created :
               r \in cmd[q].created /\ KeyOf(cmd[p], r) = KeyOf(cmd[q], r) => p = q

Once == Files /\ Fresh /\ Exclusive /\ RunOnce

\* What is left to run was created by the runner.
LEMMA RunsItsOwn ==
  ASSUME NEW c, Shape(c) PROVE ToRun(c) \subseteq c.created
BY DEF Shape, ToRun

LEMMA SameKey ==
  ASSUME NEW c, NEW d, NEW r, NEW q PROVE KeyOf(c, r) = KeyOf(d, q) => r = q
BY DEF KeyOf, Op

\* What a command that becomes c must satisfy for its runner and the others to stay so.
LEMMA OnceKept ==
  ASSUME ConstantsOK, IInv, Once, Grows, OpsTyped', NEW p \in Proc, NEW c, Turns(p, c),
         \A r \in c.created : KeyOf(c, r) \in DOMAIN ops',
         \A r \in c.known : KeyOf(c, r) \in DOMAIN ops' /\ ops'[KeyOf(c, r)] # "pending",
         \A r \in ToRun(c) : runs'[KeyOf(c, r)] = 0,
         \A q \in Proc : q # p => \A r \in cmd[q].created : r \in c.created => KeyOf(c, r) # KeyOf(cmd[q], r),
         \A q \in Proc : q # p => \A r \in ToRun(cmd[q]) :
           runs'[KeyOf(cmd[q], r)] = runs[KeyOf(cmd[q], r)],
         \A k \in DOMAIN runs' : runs'[k] <= 1
  PROVE  Once'
<1>1. \A q \in Proc : cmd'[q] = IF q = p THEN c ELSE cmd[q]
  BY DEF Turns, IInv, Typed, TypeOK
<1>2. /\ \A k : Present(k) => k \in DOMAIN ops'
      /\ \A k : Completed(k) => k \in DOMAIN ops' /\ ops'[k] # "pending"
  BY DEF Grows, Present, Completed
<1>3. ASSUME NEW q \in Proc
      PROVE  /\ \A r \in cmd'[q].created : KeyOf(cmd'[q], r) \in DOMAIN ops'
             /\ \A r \in cmd'[q].known : /\ KeyOf(cmd'[q], r) \in DOMAIN ops'
                                         /\ ops'[KeyOf(cmd'[q], r)] # "pending"
             /\ \A r \in ToRun(cmd'[q]) : runs'[KeyOf(cmd'[q], r)] = 0
  <2>1. CASE q = p
    <3>1. cmd'[q] = c
      BY <1>1, <2>1
    <3> QED BY <3>1
  <2>2. CASE q # p
    <3>1. cmd'[q] = cmd[q]
      BY <1>1, <2>2
    <3>2. /\ \A r \in cmd[q].created : KeyOf(cmd[q], r) \in DOMAIN ops'
          /\ \A r \in cmd[q].known : /\ KeyOf(cmd[q], r) \in DOMAIN ops'
                                     /\ ops'[KeyOf(cmd[q], r)] # "pending"
      BY <1>2 DEF Once, Files
    <3>3. \A r \in ToRun(cmd[q]) : runs'[KeyOf(cmd[q], r)] = 0
      BY <2>2 DEF Once, Fresh
    <3> QED BY <3>1, <3>2, <3>3
  <2> QED BY <2>1, <2>2
<1>4. Exclusive'
  <2>1. ASSUME NEW q1 \in Proc, NEW q2 \in Proc, NEW r \in cmd'[q1].created,
               r \in cmd'[q2].created, KeyOf(cmd'[q1], r) = KeyOf(cmd'[q2], r)
        PROVE  q1 = q2
    BY <1>1, <2>1 DEF Once, Exclusive
  <2> QED BY <2>1 DEF Exclusive, KeyOf, Op, Journal
<1>5. Files'
  BY <1>3 DEF Files, KeyOf, Op, Journal, Present, Completed
<1>6. Fresh'
  BY <1>3 DEF Fresh, KeyOf, Op, Journal, ToRun, First
<1> QED BY <1>4, <1>5, <1>6 DEF Once, RunOnce

LEMMA CommandShape ==
  ASSUME IInv, NEW p \in Proc
  PROVE  cmd[p] \in Command /\ Shape(cmd[p])
BY DEF IInv, Typed, TypeOK, Shaped

\* A step that writes no file and creates nothing.
LEMMA QuietOnce ==
  ASSUME ConstantsOK, IInv, Once, Grows, OpsTyped', NEW p \in Proc, NEW c, Turns(p, c), NoFile,
         \/ c.created = {} /\ c.known = {} /\ ToRun(c) = {}
         \/ /\ c.lin = cmd[p].lin /\ c.created = cmd[p].created /\ c.known = cmd[p].known
            /\ ToRun(c) = {}
  PROVE  Once'
<1>1. runs' = runs /\ ops' = ops
  BY DEF NoFile
<1>2. \A k \in DOMAIN runs' : runs'[k] <= 1
  BY <1>1 DEF Once, RunOnce
<1>3. CASE c.created = {} /\ c.known = {} /\ ToRun(c) = {}
  BY <1>1, <1>2, <1>3, OnceKept
<1>4. CASE /\ c.lin = cmd[p].lin /\ c.created = cmd[p].created /\ c.known = cmd[p].known
           /\ ToRun(c) = {}
  <2>1. \A r : KeyOf(c, r) = KeyOf(cmd[p], r)
    BY <1>4 DEF KeyOf
  <2>2. /\ \A r \in c.created : KeyOf(c, r) \in DOMAIN ops'
        /\ \A r \in c.known : KeyOf(c, r) \in DOMAIN ops' /\ ops'[KeyOf(c, r)] # "pending"
    BY <1>1, <1>4, <2>1 DEF Once, Files, Present, Completed
  <2>3. \A q \in Proc : q # p => \A r \in cmd[q].created : r \in c.created => KeyOf(c, r) # KeyOf(cmd[q], r)
    BY <1>4, <2>1 DEF Once, Exclusive
  <2> QED BY <1>1, <1>2, <1>4, <2>2, <2>3, OnceKept
<1> QED BY <1>3, <1>4

LEMMA PersistOnce ==
  ASSUME ConstantsOK, IInv, Once, NEW p \in Proc, PersistOperation(p)
  PROVE  Once'
<1>0. Grows /\ OpsTyped'
  BY FilesGrow DEF IInv, Runner
<1>1. cmd[p] \in Command /\ cmd[p].left # {} /\ cmd[p].at = "persist"
  BY CommandShape DEF PersistOperation, At, Shape
<1>2. PICK r \in cmd[p].left, c \in Command :
           LET k == OpOf(p, r)
               d == IF c.left = {} THEN Decide(c) ELSE c
           IN  /\ c.at = "persist" /\ c.lin = cmd[p].lin
               /\ c.created = IF Present(k) THEN cmd[p].created ELSE cmd[p].created \union {r}
               /\ c.known = IF Completed(k) THEN cmd[p].known \union {r} ELSE cmd[p].known
               /\ cmd' = [cmd EXCEPT ![p] = d]
               /\ Present(k) => NoFile
               /\ ~Present(k) => ops' = With(ops, k, "pending") /\ runs' = With(runs, k, 0)
  BY <1>1, PersistFacts DEF IInv
<1> DEFINE k == KeyOf(cmd[p], r)
           d == IF c.left = {} THEN Decide(c) ELSE c
<1>3. k = OpOf(p, r) /\ \A q : KeyOf(c, q) = KeyOf(cmd[p], q)
  BY <1>2 DEF KeyOf, OpOf
<1>4. /\ \A q \in cmd[p].created : KeyOf(cmd[p], q) \in DOMAIN ops
      /\ \A q \in cmd[p].known : KeyOf(cmd[p], q) \in DOMAIN ops /\ ops[KeyOf(cmd[p], q)] # "pending"
      /\ \A q \in cmd[p].created : runs[KeyOf(cmd[p], q)] = 0
  BY <1>1 DEF Once, Files, Fresh, ToRun, Present, Completed
<1>5. DOMAIN runs = DOMAIN ops
  BY DEF IInv, Typed, TypeOK
<1>6. /\ \A x \in DOMAIN ops : runs'[x] = runs[x] /\ x \in DOMAIN ops'
      /\ \A x \in DOMAIN runs' : x \in DOMAIN runs \/ (runs'[x] = 0)
      /\ ~Present(k) => k \in DOMAIN ops' /\ runs'[k] = 0
  BY <1>2, <1>3, <1>5 DEF NoFile, With, Present
<1> HIDE DEF k
<1>7. \A q \in c.created : KeyOf(c, q) \in DOMAIN ops' /\ runs'[KeyOf(c, q)] = 0
  BY <1>2, <1>3, <1>4, <1>6 DEF k
<1>8. \A q \in c.known : KeyOf(c, q) \in DOMAIN ops' /\ ops'[KeyOf(c, q)] # "pending"
  BY <1>0, <1>2, <1>3, <1>4, <1>6 DEF Grows, Completed, Present, k
<1>9. ASSUME NEW q \in Proc, q # p, NEW o \in cmd[q].created, o \in c.created
      PROVE  KeyOf(c, o) # KeyOf(cmd[q], o)
  <2>1. KeyOf(cmd[q], o) \in DOMAIN ops
    BY <1>9 DEF Once, Files, Present
  <2>2. CASE o \in cmd[p].created
    BY <1>3, <1>9, <2>2 DEF Once, Exclusive
  <2>3. CASE o \notin cmd[p].created
    <3>1. ~Present(k) /\ o = r
      BY <1>2, <1>3, <1>9, <2>3
    <3> QED BY <1>3, <2>1, <3>1 DEF Present, k
  <2> QED BY <2>2, <2>3
<1>10. ASSUME NEW q \in Proc, NEW o \in ToRun(cmd[q])
       PROVE  runs'[KeyOf(cmd[q], o)] = runs[KeyOf(cmd[q], o)]
  <2>1. o \in cmd[q].created
    BY CommandShape, RunsItsOwn
  <2>2. KeyOf(cmd[q], o) \in DOMAIN ops
    BY <2>1 DEF Once, Files, Present
  <2> QED BY <1>6, <2>2
<1>11. \A x \in DOMAIN runs' : runs'[x] <= 1
  BY <1>5, <1>6 DEF Once, RunOnce
<1>12. CASE c.left # {}
  <2>1. Turns(p, c) /\ ToRun(c) = c.created
    BY <1>2, <1>12 DEF Turns, ToRun
  <2> QED BY <1>0, <1>7, <1>8, <1>9, <1>10, <1>11, <2>1, OnceKept
<1>13. CASE c.left = {}
  <2>1. Turns(p, Decide(c))
    BY <1>2, <1>13, DecideFacts DEF Turns
  <2>2. CASE Decide(c) = Idle
    <3>1. Idle.created = {} /\ Idle.known = {} /\ ToRun(Idle) = {}
      BY DEF Idle, ToRun
    <3> QED BY <1>0, <1>10, <1>11, <2>1, <2>2, <3>1, OnceKept
  <2>3. CASE /\ Decide(c).at = "run" /\ Decide(c).lin = c.lin
             /\ Decide(c).left \subseteq c.created
             /\ Decide(c).created = c.created /\ Decide(c).known = c.known
    <3>1. ToRun(Decide(c)) \subseteq c.created /\ \A q : KeyOf(Decide(c), q) = KeyOf(c, q)
      BY <2>3 DEF ToRun, KeyOf
    <3> HIDE DEF d
    <3> DEFINE e == Decide(c)
    <3>2. /\ ToRun(e) \subseteq c.created /\ \A q : KeyOf(e, q) = KeyOf(c, q)
          /\ e.created = c.created /\ e.known = c.known /\ Turns(p, e)
      BY <2>1, <2>3, <3>1
    <3> HIDE DEF e
    <3>3. /\ \A q \in e.created : KeyOf(e, q) \in DOMAIN ops'
          /\ \A q \in e.known : KeyOf(e, q) \in DOMAIN ops' /\ ops'[KeyOf(e, q)] # "pending"
          /\ \A q \in ToRun(e) : runs'[KeyOf(e, q)] = 0
      BY <1>7, <1>8, <3>2
    <3>4. \A q \in Proc : q # p => \A o \in cmd[q].created : o \in e.created => KeyOf(e, o) # KeyOf(cmd[q], o)
      BY <1>9, <3>2
    <3>5. \A q \in Proc : q # p => \A o \in ToRun(cmd[q]) :
            runs'[KeyOf(cmd[q], o)] = runs[KeyOf(cmd[q], o)]
      BY <1>10
    <3>6. Turns(p, e)
      BY <3>2
    <3> QED BY ONLY ConstantsOK, IInv, Once, p \in Proc, <1>0, <1>11, <3>3, <3>4, <3>5, <3>6, OnceKept
  <2> QED BY <1>2, <2>2, <2>3, DecideFacts
<1> QED BY <1>12, <1>13

LEMMA InvokeOnce ==
  ASSUME ConstantsOK, IInv, Once, NEW p \in Proc, Invoke(p)
  PROVE  Once'
<1>0. Grows /\ OpsTyped'
  BY FilesGrow DEF IInv, Runner
<1> DEFINE r == First(cmd[p].left)
           k == KeyOf(cmd[p], r)
<1>1. cmd[p] \in Command /\ cmd[p].at = "run" /\ cmd[p].left \subseteq cmd[p].created
  BY CommandShape DEF Invoke, At, Shape
<1>2. PICK c : /\ Turns(p, c) /\ c.at = "complete" /\ c.lin = cmd[p].lin
               /\ c.left = cmd[p].left /\ c.created = cmd[p].created
               /\ c.known = cmd[p].known /\ r \in cmd[p].left
               /\ runs' = [runs EXCEPT ![k] = @ + 1] /\ ops' = ops
  BY InvokeFacts DEF IInv, KeyOf, OpOf
<1>3. \A q : KeyOf(c, q) = KeyOf(cmd[p], q)
  BY <1>2 DEF KeyOf
<1>4. ToRun(cmd[p]) = cmd[p].left /\ ToRun(c) = cmd[p].left \ {r}
  BY <1>1, <1>2 DEF ToRun
<1>5. runs[k] = 0 /\ k \in DOMAIN ops /\ DOMAIN runs = DOMAIN ops
  BY <1>1, <1>2, <1>4 DEF Once, Fresh, Files, Present, IInv, Typed, TypeOK
<1> HIDE DEF r, k
<1>6. \A x : x # k /\ x \in DOMAIN runs => runs'[x] = runs[x]
  BY <1>2
<1>7. \A x \in DOMAIN runs' : runs'[x] <= 1
  BY <1>2, <1>5 DEF Once, RunOnce
<1>8. ASSUME NEW q \in Proc, q # p, NEW o \in ToRun(cmd[q])
      PROVE  runs'[KeyOf(cmd[q], o)] = runs[KeyOf(cmd[q], o)]
  <2>1. o \in cmd[q].created
    BY CommandShape, RunsItsOwn
  <2>2. KeyOf(cmd[q], o) \in DOMAIN runs
    BY <1>5, <2>1 DEF Once, Files, Present
  <2>3. KeyOf(cmd[q], o) # k
    <3>1. SUFFICES ASSUME KeyOf(cmd[q], o) = KeyOf(cmd[p], r) PROVE FALSE
      BY DEF k
    <3>2. o = r
      BY <3>1, SameKey
    <3> QED BY <1>1, <1>2, <1>8, <2>1, <3>1, <3>2 DEF Once, Exclusive
  <2> QED BY <1>6, <2>2, <2>3
<1>9. ASSUME NEW o \in ToRun(c) PROVE runs'[KeyOf(c, o)] = 0
  <2>1. o \in cmd[p].left /\ o # r
    BY <1>4
  <2>2. KeyOf(cmd[p], o) # k
    BY <2>1, SameKey DEF k
  <2>3. KeyOf(cmd[p], o) \in DOMAIN runs /\ runs[KeyOf(cmd[p], o)] = 0
    BY <1>1, <1>4, <1>5, <2>1 DEF Once, Files, Fresh, Present
  <2> QED BY <1>3, <1>6, <2>2, <2>3
<1>10. /\ \A o \in c.created : KeyOf(c, o) \in DOMAIN ops'
       /\ \A o \in c.known : KeyOf(c, o) \in DOMAIN ops' /\ ops'[KeyOf(c, o)] # "pending"
  BY <1>2, <1>3 DEF Once, Files, Present, Completed
<1>11. \A q \in Proc : q # p => \A o \in cmd[q].created : o \in c.created => KeyOf(c, o) # KeyOf(cmd[q], o)
  BY <1>2, <1>3 DEF Once, Exclusive
<1> QED BY <1>0, <1>2, <1>7, <1>8, <1>9, <1>10, <1>11, OnceKept

LEMMA CompleteOnce ==
  ASSUME ConstantsOK, IInv, Once, NEW p \in Proc, Complete(p)
  PROVE  Once'
<1>0. Grows /\ OpsTyped'
  BY FilesGrow DEF IInv, Runner
<1> DEFINE r == First(cmd[p].left)
           k == KeyOf(cmd[p], r)
<1>1. /\ cmd[p] \in Command /\ cmd[p].at = "complete" /\ cmd[p].left # {}
      /\ cmd[p].outcome \in {"passed", "failed"} /\ cmd[p].left \subseteq cmd[p].created
  BY CommandShape DEF Complete, At, Shape, Command
<1>2. PICK c : /\ Turns(p, c) /\ c.at = "run" /\ c.lin = cmd[p].lin /\ r \in cmd[p].left
               /\ c.left = cmd[p].left \ {r} /\ c.created = cmd[p].created
               /\ c.known = cmd[p].known \union {r}
               /\ ops' = IF Completed(k) THEN ops ELSE [ops EXCEPT ![k] = cmd[p].outcome]
               /\ runs' = runs
  BY <1>1, CompleteFacts DEF IInv, KeyOf, OpOf
<1>3. \A q : KeyOf(c, q) = KeyOf(cmd[p], q)
  BY <1>2 DEF KeyOf
<1>4. ToRun(c) = ToRun(cmd[p])
  BY <1>1, <1>2 DEF ToRun
<1>5. k \in DOMAIN ops
  BY <1>1, <1>2 DEF Once, Files, Present
<1> HIDE DEF r, k
<1>6. DOMAIN ops' = DOMAIN ops /\ ops'[k] # "pending"
  BY <1>1, <1>2, <1>5 DEF Completed
<1>7. /\ \A o \in c.created : KeyOf(c, o) \in DOMAIN ops'
      /\ \A o \in ToRun(c) : runs'[KeyOf(c, o)] = 0
  BY <1>2, <1>3, <1>4, <1>6 DEF Once, Files, Fresh, Present
<1>8. \A o \in cmd[p].known : KeyOf(cmd[p], o) \in DOMAIN ops' /\ ops'[KeyOf(cmd[p], o)] # "pending"
  BY <1>0 DEF Once, Files, Present, Completed, Grows
<1>9. \A o \in c.known : KeyOf(c, o) \in DOMAIN ops' /\ ops'[KeyOf(c, o)] # "pending"
  BY <1>2, <1>3, <1>5, <1>6, <1>8 DEF k
<1>10. \A q \in Proc : q # p => \A o \in cmd[q].created : o \in c.created => KeyOf(c, o) # KeyOf(cmd[q], o)
  BY <1>2, <1>3 DEF Once, Exclusive
<1>11. \A x \in DOMAIN runs' : runs'[x] <= 1
  BY <1>2 DEF Once, RunOnce
<1> QED BY <1>0, <1>2, <1>7, <1>9, <1>10, <1>11, OnceKept

LEMMA RunnerOnce ==
  ASSUME ConstantsOK, IInv, Once, NEW p \in Proc, Runner(p) \/ Crash(p)
  PROVE  Once'
<1>0. Grows /\ OpsTyped'
  BY FilesGrow DEF IInv
<1>1. CASE Begin(p)
  <2>1. PICK c : /\ Turns(p, c) /\ NoFile /\ c.at = "persist" /\ c.created = {} /\ c.known = {}
    BY <1>1, BeginFacts DEF IInv
  <2>2. ToRun(c) = {}
    BY <2>1 DEF ToRun
  <2> QED BY <1>0, <2>1, <2>2, QuietOnce
<1>2. CASE Evaluate(p)
  <2>1. PICK c : /\ Turns(p, c) /\ NoFile
                 /\ \/ c = Idle
                    \/ /\ c.at = "install" /\ c.lin = cmd[p].lin
                       /\ c.created = cmd[p].created /\ c.known = cmd[p].known
    BY <1>2, EvaluateFacts DEF IInv
  <2>2. /\ ToRun(c) = {}
        /\ c = Idle => c.created = {} /\ c.known = {}
    BY <2>1 DEF ToRun, Idle
  <2> QED BY <1>0, <2>1, <2>2, QuietOnce
<1>3. CASE InstallState(p) \/ Crash(p)
  <2>1. Turns(p, Idle) /\ NoFile
    BY <1>3, LastFacts DEF IInv
  <2>2. ToRun(Idle) = {} /\ Idle.created = {} /\ Idle.known = {}
    BY DEF ToRun, Idle
  <2> QED BY <1>0, <2>1, <2>2, QuietOnce
<1> QED BY <1>1, <1>2, <1>3, PersistOnce, InvokeOnce, CompleteOnce DEF Runner

LEMMA AgentOnce ==
  ASSUME Once, UNCHANGED <<ops, cmd, runs>> PROVE Once'
BY DEF Once, Files, Fresh, Exclusive, RunOnce, Present, Completed, KeyOf, Op, Journal, ToRun, First

LEMMA InitiallyOnce == ASSUME Init PROVE Once
<1>1. \A p \in Proc : cmd[p] = Idle
  BY DEF Init
<1>2. Idle.created = {} /\ Idle.known = {} /\ ToRun(Idle) = {}
  BY DEF Idle, ToRun
<1>3. RunOnce
  BY DEF Init, RunOnce
<1> QED BY <1>1, <1>2, <1>3 DEF Once, Files, Fresh, Exclusive

LEMMA OnceStays == ASSUME ConstantsOK, IInv, Once, [Next]_vars PROVE Once'
<1>1. CASE UNCHANGED <<ops, cmd, runs>>
  BY <1>1, AgentOnce
<1>2. CASE \E p \in Proc : Runner(p) \/ Crash(p)
  BY <1>2, RunnerOnce
<1>3. UNCHANGED <<ops, cmd, runs>> \/ \E p \in Proc : Runner(p) \/ Crash(p)
  BY DEF Next, vars, runner, StartVerifyLineage, Remediate, RecordRemediationAttempt,
         RecheckRead, RecheckEvaluate, TerminalizeIrrecoverableLineage,
         StartRecoverySuccessor, Preserve, StartReconciliationSuccessor, Edit, Redesign, Prune
<1> QED BY <1>1, <1>2, <1>3

\* The command of an operation runs at most once, however many runners meet in one
\* journal, are killed and are started again.
THEOREM CommandsRunOnce == ASSUME ConstantsOK PROVE Spec => []RunOnce
<1>1. Init => Once
  BY InitiallyOnce
<1>2. IInv /\ Once /\ [Next]_vars => Once'
  BY OnceStays
<1>3. Once => RunOnce
  BY DEF Once
<1> QED BY <1>1, <1>2, <1>3, Inductive, PTL DEF Spec

-----------------------------------------------------------------------------
(* A successor is closed by its runs.                                      *)

Verified(l) ==
  l.status = "closed" /\ l.successor =>
    \A r \in RecipesOf(l) : Op(Journal(l), r) \in DOMAIN ops /\ ops[Op(Journal(l), r)] = "passed"

\* Only a successor has runners, or operations of an older version; the agent rechecks
\* none of them by hand.
Successors ==
  /\ lin.status = "none" => ~lin.successor
  /\ recheck => ~lin.successor /\ lin.status = "recheck-pending"
  /\ \A k \in DOMAIN ops : ~k[1].journalled => lin.successor
  /\ \A p \in Proc : ~At(p, "idle") => lin.successor /\ cmd[p].lin.successor

Judged ==
  /\ Verified(lin)
  /\ \A p \in Proc : At(p, "install") => cmd[p].result.successor /\ Verified(cmd[p].result)

Runs == Successors /\ Judged

\* What is verified stays so.
LEMMA VerifiedGrows ==
  ASSUME Grows, NEW l, Verified(l)
  PROVE  l.status = "closed" /\ l.successor =>
           \A r \in RecipesOf(l) : Op(Journal(l), r) \in DOMAIN ops' /\ ops'[Op(Journal(l), r)] = "passed"
BY DEF Grows, Verified

\* The agent's steps.
LEMMA AgentRuns ==
  ASSUME IInv, Runs, UNCHANGED <<ops, cmd>>,
         lin'.status # "none" \/ lin' = lin, lin.successor => lin'.successor,
         recheck' => ~lin'.successor /\ lin'.status = "recheck-pending",
         lin' = lin \/ lin'.status # "closed" \/ ~lin'.successor
  PROVE  Runs'
<1>1. Verified(lin)'
  BY DEF Runs, Judged, Verified, RecipesOf, Journal, Op
<1>2. Judged'
  BY <1>1 DEF Runs, Judged, At, Verified, RecipesOf, Journal, Op
<1>3. Successors'
  BY DEF Runs, Successors, At
<1> QED BY <1>2, <1>3 DEF Runs

\* What a runner installs was passed by the operations of its journal.
LEMMA EvaluateVerified ==
  ASSUME ConstantsOK, IInv, Once, NEW p \in Proc, Evaluate(p), lin = cmd[p].lin
  PROVE  Verified(EvaluateRecheck(lin, Reduce(lin), {}))
<1> DEFINE e == EvaluateRecheck(lin, Reduce(lin), {})
<1>1. RecipesOf(lin) \subseteq cmd[p].known
  BY CommandShape DEF Shape, Evaluate, At
<1>2. \A r \in RecipesOf(lin) : Op(Journal(lin), r) \in DOMAIN ops
  BY <1>1 DEF Once, Files, Completed, Present, KeyOf
<1>3. lin \in Lineage
  BY DEF IInv, Typed, TypeOK
<1>4. /\ e.gen = lin.gen /\ e.current = lin.current /\ e.contract = lin.contract
      /\ \/ e.status = "superseded"
         \/ /\ e.findings = lin.findings \union {}
            /\ e.unresolved = (lin.findings \ Reduce(lin)) \union {}
            /\ e.status = "closed" => e.unresolved = {}
  <2>1. ASSUME NEW fixed, NEW caused \in SUBSET Finding, fixed = Reduce(lin), caused = {}
        PROVE  LET d == EvaluateRecheck(lin, fixed, caused)
               IN  /\ d.gen = lin.gen /\ d.current = lin.current /\ d.contract = lin.contract
                   /\ \/ d.status = "superseded"
                      \/ /\ d.findings = lin.findings \union caused
                         /\ d.unresolved = (lin.findings \ fixed) \union caused
                         /\ d.status = "closed" => d.unresolved = {}
    BY <1>3, RecheckFields
  <2> QED BY <2>1
<1> HIDE DEF e
<1>5. Journal(e) = Journal(lin)
  BY <1>4 DEF Journal
<1>6. ASSUME e.status = "closed"
      PROVE  /\ RecipesOf(e) = RecipesOf(lin)
             /\ \A r \in RecipesOf(lin) : ops[Op(Journal(lin), r)] = "passed"
  <2>1. lin.findings \subseteq Reduce(lin) /\ e.findings = lin.findings
    BY <1>4, <1>6
  <2> QED BY <2>1 DEF Reduce, RecipesOf
<1>7. Verified(e)
  BY <1>2, <1>5, <1>6 DEF Verified
<1> QED BY <1>7 DEF e

\* What a step of a runner leaves.
LEMMA RunnerTurns ==
  ASSUME ConstantsOK, IInv, Once, Runs, NEW p \in Proc, Runner(p) \/ Crash(p)
  PROVE  \E c : /\ Turns(p, c)
                /\ c.at # "idle" => lin.successor /\ c.lin.successor /\ lin' = lin
                /\ c.at = "install" => c.result.successor /\ Verified(c.result)
                /\ lin' = lin \/ (At(p, "install") /\ lin' = cmd[p].result)
<1>1. At(p, "idle") \/ (lin.successor /\ cmd[p].lin.successor)
  BY DEF Runs, Successors
<1>2. CASE Begin(p)
  <2>1. PICK c : /\ Turns(p, c) /\ c.at = "persist" /\ c.lin = lin /\ lin.successor /\ lin' = lin
    BY <1>2, BeginFacts DEF IInv
  <2> QED BY <2>1
<1>3. CASE PersistOperation(p)
  <2>1. cmd[p].left # {} /\ cmd[p].at = "persist"
    BY <1>3, CommandShape DEF PersistOperation, At, Shape
  <2>2. PICK c \in Command :
          /\ c.at = "persist" /\ c.lin = cmd[p].lin /\ lin' = lin
          /\ cmd' = [cmd EXCEPT ![p] = IF c.left = {} THEN Decide(c) ELSE c]
    BY <1>3, <2>1, PersistFacts DEF IInv
  <2>3. /\ Decide(c) \in Command
        /\ Decide(c) = Idle \/ (Decide(c).at = "run" /\ Decide(c).lin = c.lin)
    BY <2>2, DecideFacts
  <2>4. Idle.at = "idle"
    BY DEF Idle
  <2> QED BY <1>1, <2>1, <2>2, <2>3, <2>4 DEF Turns, At
<1>4. CASE Invoke(p)
  <2>1. PICK c : Turns(p, c) /\ c.at = "complete" /\ c.lin = cmd[p].lin /\ lin' = lin
    BY <1>4, InvokeFacts DEF IInv
  <2> QED BY <1>1, <1>4, <2>1 DEF Invoke, At
<1>5. CASE Complete(p)
  <2>1. cmd[p].left # {}
    BY <1>5, CommandShape DEF Complete, At, Shape
  <2>2. PICK c : Turns(p, c) /\ c.at = "run" /\ c.lin = cmd[p].lin /\ lin' = lin
    BY <1>5, <2>1, CompleteFacts DEF IInv
  <2> QED BY <1>1, <1>5, <2>2 DEF Complete, At
<1>6. CASE Evaluate(p)
  <2>1. PICK c : /\ Turns(p, c) /\ lin' = lin
                 /\ \/ c = Idle
                    \/ /\ c.at = "install" /\ c.lin = lin /\ lin = cmd[p].lin
                       /\ c.result = EvaluateRecheck(lin, Reduce(lin), {})
    BY <1>6, EvaluateFacts DEF IInv
  <2>2. CASE c = Idle
    BY <2>1, <2>2 DEF Idle
  <2>3. CASE /\ c.at = "install" /\ c.lin = lin /\ lin = cmd[p].lin
             /\ c.result = EvaluateRecheck(lin, Reduce(lin), {})
    <3>1. Verified(c.result)
      BY <1>6, <2>3, EvaluateVerified
    <3>2. c.result.successor = lin.successor
      BY <2>3, RecheckFields DEF IInv, Typed, TypeOK
    <3> QED BY <1>1, <1>6, <2>1, <2>3, <3>1, <3>2 DEF Evaluate, At
  <2> QED BY <2>1, <2>2, <2>3
<1>7. CASE InstallState(p) \/ Crash(p)
  <2>1. Idle.at = "idle"
    BY DEF Idle
  <2> QED BY <1>7, <2>1, LastFacts DEF IInv
<1> QED BY <1>2, <1>3, <1>4, <1>5, <1>6, <1>7 DEF Runner

\* A runner adds no operation without a journal.
LEMMA Journalled ==
  ASSUME ConstantsOK, IInv, NEW p \in Proc, Runner(p) \/ Crash(p)
  PROVE  \A k \in DOMAIN ops' : k \in DOMAIN ops \/ k[1].journalled
<1>1. CASE PersistOperation(p)
  <2>1. cmd[p].left # {}
    BY <1>1, CommandShape DEF PersistOperation, At, Shape
  <2>2. PICK r : \/ ops' = ops
                 \/ ops' = With(ops, OpOf(p, r), "pending")
    BY <1>1, <2>1, PersistFacts DEF IInv, NoFile
  <2>3. OpOf(p, r)[1].journalled
    BY DEF OpOf, Op, Journal
  <2> QED BY <2>2, <2>3 DEF With
<1>2. CASE Complete(p)
  <2>1. cmd[p].left # {}
    BY <1>2, CommandShape DEF Complete, At, Shape
  <2>2. PICK k, v : ops' = ops \/ ops' = [ops EXCEPT ![k] = v]
    BY <1>2, <2>1, CompleteFacts DEF IInv
  <2> QED BY <2>2
<1>3. CASE Begin(p) \/ Invoke(p) \/ Evaluate(p) \/ InstallState(p) \/ Crash(p)
  <2>1. ops' = ops
    BY <1>3, BeginFacts, InvokeFacts, EvaluateFacts, LastFacts DEF IInv, NoFile
  <2> QED BY <2>1
<1> QED BY <1>1, <1>2, <1>3 DEF Runner

LEMMA RunnerRuns ==
  ASSUME ConstantsOK, IInv, Once, Runs, NEW p \in Proc, Runner(p) \/ Crash(p)
  PROVE  Runs'
<1>1. PICK c : /\ Turns(p, c)
               /\ c.at # "idle" => lin.successor /\ c.lin.successor /\ lin' = lin
               /\ c.at = "install" => c.result.successor /\ Verified(c.result)
               /\ lin' = lin \/ (At(p, "install") /\ lin' = cmd[p].result)
  BY RunnerTurns
<1>2. \A q \in Proc : cmd'[q] = IF q = p THEN c ELSE cmd[q]
  BY <1>1 DEF Turns, IInv, Typed, TypeOK
<1>3. Grows /\ recheck' = recheck
  <2>1. Grows
    BY FilesGrow DEF IInv
  <2> QED BY <2>1 DEF Runner, Begin, PersistOperation, Invoke, Complete, Evaluate, InstallState, Crash, Quiet
<1>4. CASE At(p, "install") /\ lin' = cmd[p].result
  <2>1. lin.successor /\ lin'.successor /\ lin'.status # "none" /\ Verified(cmd[p].result)
    BY <1>4 DEF Runs, Successors, Judged, At, IInv, Typed, AllGood, Found
  <2>2. Successors'
    BY <1>1, <1>2, <1>3, <2>1 DEF Runs, Successors, At
  <2>3. Verified(lin)'
    BY <1>3, <1>4, <2>1, VerifiedGrows DEF Verified, RecipesOf, Journal, Op
  <2>4. ASSUME NEW q \in Proc, cmd'[q].at = "install"
        PROVE  cmd'[q].result.successor /\ Verified(cmd'[q].result)
    BY <1>1, <1>2, <2>4 DEF Runs, Judged, At
  <2>5. ASSUME NEW q \in Proc, cmd'[q].at = "install" PROVE Verified(cmd[q].result)'
    <3>1. PICK l : l = cmd'[q].result
      OBVIOUS
    <3>2. Verified(l)
      BY <2>4, <2>5, <3>1
    <3> QED BY <1>3, <3>1, <3>2, VerifiedGrows DEF Verified, RecipesOf, Journal, Op
  <2> QED BY <2>2, <2>3, <2>4, <2>5 DEF Runs, Judged, At
<1>5. CASE lin' = lin
  <2>1. Successors'
    BY <1>1, <1>2, <1>3, <1>5, Journalled DEF Runs, Successors, At
  <2>3. Verified(lin)'
    BY <1>3, <1>5, VerifiedGrows DEF Verified, RecipesOf, Journal, Op, Runs, Judged
  <2>4. ASSUME NEW q \in Proc, cmd'[q].at = "install"
        PROVE  cmd'[q].result.successor /\ Verified(cmd'[q].result)
    BY <1>1, <1>2, <2>4 DEF Runs, Judged, At
  <2>5. ASSUME NEW q \in Proc, cmd'[q].at = "install" PROVE Verified(cmd[q].result)'
    <3>1. PICK l : l = cmd'[q].result
      OBVIOUS
    <3>2. Verified(l)
      BY <2>4, <2>5, <3>1
    <3> QED BY <1>3, <3>1, <3>2, VerifiedGrows DEF Verified, RecipesOf, Journal, Op
  <2> QED BY <2>1, <2>3, <2>4, <2>5 DEF Runs, Judged, At
<1> QED BY <1>1, <1>4, <1>5

LEMMA RunsKept ==
  ASSUME ConstantsOK, IInv, Once, Runs, [Next]_vars
  PROVE  Runs'
<1> USE DEF Capture, runner
<1>0. lin \in Lineage /\ preserved \subseteq DOMAIN ops /\ Good(lin)
  BY DEF IInv, Typed, TypeOK, AllGood
<1>1. CASE StartVerifyLineage
  <2>1. lin'.status = "remediation-pending" /\ ~lin.successor /\ ~recheck /\ recheck' = recheck
    BY <1>1 DEF StartVerifyLineage, NoLineage, Runs, Successors
  <2> QED BY <1>1, <2>1, AgentRuns DEF StartVerifyLineage
<1>2. CASE RecordRemediationAttempt
  <2>1. ~recheck' /\ lin'.successor = lin.successor /\ lin'.status \in {"remediation-pending", "exhausted", "recheck-pending"}
    BY <1>0, <1>2 DEF RecordRemediationAttempt, Lineage, Runs, Successors
  <2> QED BY <1>2, <2>1, AgentRuns DEF RecordRemediationAttempt
<1>3. CASE RecheckRead
  <2>1. lin.status = "recheck-pending" /\ ~lin.successor
    BY <1>0, <1>3, Fields DEF RecheckRead, NextActionOf, Statuses
  <2> QED BY <1>3, <2>1, AgentRuns DEF RecheckRead
<1>4. CASE RecheckEvaluate
  <2>1. ~recheck' /\ ~lin.successor
    BY <1>4 DEF RecheckEvaluate, Runs, Successors
  <2>2. lin'.status # "none" /\ lin'.successor = lin.successor
    BY <1>0, <1>4, RecheckFields DEF RecheckEvaluate
  <2> QED BY <1>4, <2>1, <2>2, AgentRuns DEF RecheckEvaluate
<1>5. CASE TerminalizeIrrecoverableLineage
  <2>1. ~recheck' /\ lin'.successor = lin.successor /\ lin'.status = "superseded"
    BY <1>0, <1>5 DEF TerminalizeIrrecoverableLineage, Lineage, Runs, Successors
  <2> QED BY <1>5, <2>1, AgentRuns DEF TerminalizeIrrecoverableLineage
<1>6. CASE StartRecoverySuccessor \/ StartReconciliationSuccessor
  <2>1. lin'.successor /\ lin'.status = "recheck-pending"
    BY <1>0, <1>6 DEF StartRecoverySuccessor, StartReconciliationSuccessor, Successor, Lineage
  <2>2. ~recheck
    <3>1. CASE StartRecoverySuccessor
      BY <3>1 DEF StartRecoverySuccessor, Runs, Successors
    <3>2. CASE StartReconciliationSuccessor
      <4>1. PICK r \in RecipesOf(lin) : Op(Legacy(lin), r) \in preserved
        BY <1>0, <3>2, SomeRecipe DEF StartReconciliationSuccessor, Audited
      <4>2. ~ Op(Legacy(lin), r)[1].journalled
        BY DEF Op, Legacy
      <4> QED BY <1>0, <4>1, <4>2 DEF Runs, Successors
    <3> QED BY <1>6, <3>1, <3>2
  <2> QED BY <1>6, <2>1, <2>2, AgentRuns DEF StartRecoverySuccessor, StartReconciliationSuccessor
<1>7. CASE UNCHANGED <<lin, recheck, ops, cmd>>
  <2>1. recheck' => ~lin'.successor /\ lin'.status = "recheck-pending"
    BY <1>7 DEF Runs, Successors
  <2> QED BY <1>7, <2>1, AgentRuns
<1>8. CASE Remediate \/ Preserve \/ Edit \/ Redesign \/ Prune \/ UNCHANGED vars
  BY <1>7, <1>8 DEF Remediate, Preserve, Edit, Redesign, Prune, vars
<1>9. CASE \E p \in Proc : Runner(p) \/ Crash(p)
  BY <1>9, RunnerRuns
<1> QED BY <1>1, <1>2, <1>3, <1>4, <1>5, <1>6, <1>8, <1>9 DEF Next

\* A successor is closed only when every recipe of every finding has a completion that
\* passed, in the journal of the candidate it verifies.
THEOREM ClosedByRuns == ASSUME ConstantsOK PROVE Spec => []VerifiedByRuns
<1>1. Init => Once /\ Runs
  <2> SUFFICES ASSUME Init PROVE Runs
    BY InitiallyOnce
  <2>1. \A p \in Proc : At(p, "idle")
    BY DEF Init, Idle, At
  <2>2. /\ lin.status \in {"none", "recheck-pending"} /\ (lin.status = "none" => ~lin.successor)
        /\ \A k \in DOMAIN ops : lin.successor
    <3>1. CASE lin = NoLineage /\ ops = << >>
      BY <3>1 DEF NoLineage
    <3>2. CASE \E n : lin = Left(n)
      <4>1. PICK n : lin = Left(n)
        BY <3>2
      <4>2. Left(n).status = "recheck-pending" /\ Left(n).successor
        BY DEF NoLineage, Left
      <4> QED BY <4>1, <4>2
    <3> QED BY <3>1, <3>2 DEF Init
  <2> QED BY <2>1, <2>2 DEF Runs, Successors, Judged, Verified, At, Init
<1>2. IInv /\ Once /\ Runs /\ [Next]_vars => (Once /\ Runs)'
  BY OnceStays, RunsKept
<1>3. Runs => VerifiedByRuns
  BY DEF Runs, Judged, Verified, VerifiedByRuns, Present
<1> QED BY <1>1, <1>2, <1>3, Inductive, PTL DEF Spec

=============================================================================
