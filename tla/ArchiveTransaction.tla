------------------------- MODULE ArchiveTransaction -------------------------
(***************************************************************************)
(* The archive of the SDD route (scripts/lib/archive-transaction.js, run   *)
(* by archive-transaction-run.js): preflight, staging, a first comparison, *)
(* the commit of the archived directory and of the living specs with a     *)
(* .bak of what they replace, a second comparison, and the removal of      *)
(* openspec/changes/<change>.  journal.json holds how far it came; a run   *)
(* that was interrupted is run again, or rolled back.                      *)
(*                                                                         *)
(* A change is run by one process at a time, as the archive skill runs it; *)
(* different changes run together and may write one spec.  Contents are    *)
(* versions: the directory of a change is its edition and its plan, and    *)
(* the spec it prepares is <<change, edition>>.  adr_promotions, a loop    *)
(* like the one of spec_writes kept for old plans, is not modelled.        *)
(***************************************************************************)
EXTENDS Sequences, SequencesExt, Integers

CONSTANTS Change,          \* SDD changes
          Domain,          \* domains, each with its living spec
          Writes,          \* the spec_writes of each change, in order
          Existing,        \* targets that exist before any archive
          Passing,         \* editions whose state.yaml satisfies the gates
          Old,             \* what a target held before any archive
          None,            \* no file, no directory, no plan
          Torn,            \* a journal.json cut off in the middle of its write
          MayEdit,         \* do people edit a change while it is archived?
          MayReuse,        \* is the name of an archived change used again?
          MaxEdition,      \* bound on the editions of a change
          MaxFaults,       \* bound on filesystem errors
          MaxCrashes       \* bound on interruptions

ASSUME ArchiveTransactionAssumption ==
  /\ Writes \in [Change -> Seq(Domain)] /\ \A c \in Change : IsInjective(Writes[c])
  /\ Existing \subseteq Change \union Domain /\ Change \intersect Domain = {}
  /\ Passing \subseteq Nat
  /\ MayEdit \in BOOLEAN /\ MayReuse \in BOOLEAN
  /\ MaxEdition \in Nat \ {0} /\ MaxFaults \in Nat /\ MaxCrashes \in Nat

VARIABLES pc, mem,        \* the running process: its next step, the journal in its memory
          left,           \* the targets whose .bak it has still to remove or restore
          origin,         \* openspec/changes/<change>
          journal,        \* journal.json
          staged,         \* what the staging area holds of the directory and of the specs
          live, bak,      \* each target and its .bak; target c is the archive of change c
          receipt,        \* outcome of the last receipt
          wrote,          \* history: the targets each change put in place
          faults, crashes

files == <<origin, journal, staged, live, bak>>
vars  == <<pc, mem, left, files, receipt, wrote, faults, crashes>>

Targets(c) == <<c>> \o Writes[c]
Specs(c) == Range(Writes[c])

Before(t) == IF t \in Existing THEN Old ELSE None

\* The plan that the archive agent writes from what it sees: the fingerprint of
\* the directory and, of each target, the content it expects.
PlanOf(c, ed) == [ver |-> ed, before |-> [s \in Specs(c) |-> live[s]]]

Live == {"preflighted", "staged", "compared", "committing", "committed", "confirmed"}
State == Live \union {"init", "done", "failed", "rolled-back"}

\* What these hold: a spec, a plan, the directory of a change and a journal.
Edition == 1 .. MaxEdition
SpecContent == {None, Old} \union (Change \X Edition)
Plan(c) == [ver : Edition, before : [Specs(c) -> SpecContent]]
Dir(c) == [ed : Edition, plan : Plan(c) \union {None}]
Journal(c) == [state : State, plan : Plan(c) \union {None}, inv : Dir(c) \union {None},
               created : Seq(Range(Targets(c)))]

ASSUME NoContentAssumption ==
  /\ None \notin Edition \union (Change \X Edition)
  /\ \A c \in Change : None \notin Dir(c) /\ Torn \notin Journal(c)

Fresh == [state |-> "init", plan |-> None, inv |-> None, created |-> <<>>]

Init ==
  /\ pc = [c \in Change |-> "idle"]
  /\ mem = [c \in Change |-> Fresh]
  /\ left = [c \in Change |-> <<>>]
  /\ live = [t \in Change \union Domain |-> Before(t)]
  /\ bak = [t \in Change \union Domain |-> None]
  /\ origin = [c \in Change |-> [ed |-> 1, plan |-> PlanOf(c, 1)]]
  /\ journal = [c \in Change |-> Fresh]
  /\ staged = [c \in Change |-> [dir |-> None, specs |-> None]]
  /\ receipt = [c \in Change |-> "none"]
  /\ wrote = [c \in Change |-> {}]
  /\ faults = 0 /\ crashes = 0

Goto(c, to) == pc' = [pc EXCEPT ![c] = to]

\* writeJournal(journal in `state`): the write is a step of its own.
SaveAs(c, state) ==
  /\ mem' = [mem EXCEPT ![c].state = state]
  /\ Goto(c, "save")

\* The memory of a process goes with it.
Exit(c) ==
  /\ Goto(c, "idle")
  /\ mem' = [mem EXCEPT ![c] = Fresh]
  /\ left' = [left EXCEPT ![c] = <<>>]

End(c, outcome) == Exit(c) /\ receipt' = [receipt EXCEPT ![c] = outcome]

\* Where a run goes on with a journal in `state`.
StepOf(state) ==
  CASE state \in {"init", "preflighted"}    -> "preflight"
    [] state = "staged"                     -> "compareA"
    [] state \in {"compared", "committing"} -> "commit"
    [] state = "committed"                  -> "compareB"
    [] state = "confirmed"                  -> "finish"
    [] state = "done"                       -> "purge"

-----------------------------------------------------------------------------
(* runArchiveTransaction *)

\* readJournal throws on a journal that is no JSON: no receipt at all.
Unreadable(c) ==
  /\ pc[c] = "idle" /\ journal[c] = Torn
  /\ receipt' = [receipt EXCEPT ![c] = "thrown"]
  /\ UNCHANGED <<pc, mem, left, files, wrote, faults, crashes>>

RepeatTerminal(c) ==
  /\ pc[c] = "idle" /\ journal[c] # Torn /\ journal[c].state \in {"failed", "rolled-back"}
  /\ receipt' = [receipt EXCEPT ![c] = journal[c].state]
  /\ UNCHANGED <<pc, mem, left, files, wrote, faults, crashes>>

\* A journal that is done finishes the removal, whatever stands there now.
ResumeDone(c) ==
  /\ pc[c] = "idle" /\ journal[c] # Torn /\ journal[c].state = "done"
  /\ mem' = [mem EXCEPT ![c] = journal[c]]
  /\ Goto(c, "purge")
  /\ UNCHANGED <<left, files, receipt, wrote, faults, crashes>>

\* The plan is read and compared with the one of the journal.
Invoke(c) ==
  /\ pc[c] = "idle" /\ journal[c] # Torn /\ journal[c].state \in Live \union {"init"}
  /\ origin[c] # None /\ origin[c].plan # None
  /\ IF journal[c].state # "init" /\ journal[c].plan # origin[c].plan
       THEN /\ mem' = [mem EXCEPT ![c] = [journal[c] EXCEPT !.state = "failed"]]
            /\ Goto(c, "save")
       ELSE /\ mem' = [mem EXCEPT ![c] = [journal[c] EXCEPT !.plan = origin[c].plan]]
            /\ Goto(c, StepOf(journal[c].state))
  /\ UNCHANGED <<left, files, receipt, wrote, faults, crashes>>

\* The gates of state.yaml, the fingerprint and inventory of the directory and
\* the content of every target (readArchiveGateFacts, validatePlanAgainstSnapshot).
Preflight(c) ==
  LET plan == mem[c].plan IN
  /\ pc[c] = "preflight"
  /\ SaveAs(c, IF /\ origin[c].ed \in Passing
                  /\ plan.ver = origin[c].ed
                  /\ \A s \in Specs(c) : plan.before[s] = live[s]
                 THEN "preflighted" ELSE "failed")
  /\ UNCHANGED <<left, files, receipt, wrote, faults, crashes>>

\* Stage: the staging area is emptied and the inventory of the directory taken...
Inventory(c) ==
  /\ pc[c] = "inventory"
  /\ mem' = [mem EXCEPT ![c].inv = origin[c]]
  /\ staged' = [staged EXCEPT ![c] = [dir |-> None, specs |-> None]]
  /\ Goto(c, "copy")
  /\ UNCHANGED <<left, origin, journal, live, bak, receipt, wrote, faults, crashes>>

\* ... its files copied...
CopyDirectory(c) ==
  /\ pc[c] = "copy"
  /\ staged' = [staged EXCEPT ![c].dir = origin[c]]
  /\ Goto(c, "stage")
  /\ UNCHANGED <<mem, left, origin, journal, live, bak, receipt, wrote, faults, crashes>>

\* ... and the prepared specs.
StageSpecs(c) ==
  /\ pc[c] = "stage"
  /\ staged' = [staged EXCEPT ![c].specs = origin[c].ed]
  /\ SaveAs(c, "staged")
  /\ UNCHANGED <<left, origin, journal, live, bak, receipt, wrote, faults, crashes>>

\* Mutant: the staged copy is not compared.
SkipCompareA(c) ==
  /\ pc[c] = "compareA"
  /\ SaveAs(c, "compared")
  /\ UNCHANGED <<left, files, receipt, wrote, faults, crashes>>

CompareA(c) ==
  /\ pc[c] = "compareA"
  /\ SaveAs(c, IF staged[c].dir = mem[c].inv THEN "compared" ELSE "failed")
  /\ UNCHANGED <<left, files, receipt, wrote, faults, crashes>>

-----------------------------------------------------------------------------
(* The commit *)

\* t is the first target that the journal in memory does not name.
IsNext(c, t) ==
  \E i \in DOMAIN Targets(c) :
    /\ t = Targets(c)[i] /\ t \notin Range(mem[c].created)
    /\ \A k \in 1 .. i - 1 : Targets(c)[k] \in Range(mem[c].created)

Placing(c) == Last(mem[c].created)

\* created.push
Push(c, t, to) ==
  /\ mem' = [mem EXCEPT ![c].created = Append(@, t)]
  /\ Goto(c, to)

\* The next target is not there: nothing to keep.
TakeFree(c) ==
  /\ pc[c] = "commit"
  /\ \E t \in Range(Targets(c)) : IsNext(c, t) /\ live[t] = None /\ Push(c, t, "place")
  /\ UNCHANGED <<left, files, receipt, wrote, faults, crashes>>

\* It is there: an older .bak is removed...
DropBak(c) ==
  /\ pc[c] = "commit"
  /\ \E t \in Range(Targets(c)) :
       IsNext(c, t) /\ live[t] # None /\ bak' = [bak EXCEPT ![t] = None]
  /\ Goto(c, "shift")
  /\ UNCHANGED <<mem, left, origin, journal, staged, live, receipt, wrote, faults, crashes>>

\* ... and it takes its place, unless another run moved it meanwhile.
Shift(c) ==
  /\ pc[c] = "shift"
  /\ \E t \in Range(Targets(c)) :
       /\ IsNext(c, t)
       /\ IF live[t] = None
            THEN SaveAs(c, "failed") /\ UNCHANGED <<live, bak>>
            ELSE /\ bak' = [bak EXCEPT ![t] = live[t]]
                 /\ live' = [live EXCEPT ![t] = None]
                 /\ Push(c, t, "place")
  /\ UNCHANGED <<left, origin, journal, staged, receipt, wrote, faults, crashes>>

\* Mutant: the journal names the target before it is in place.
PlaceAfterSave(c) ==
  /\ pc[c] = "place"
  /\ SaveAs(c, "committing")
  /\ UNCHANGED <<left, files, receipt, wrote, faults, crashes>>

\* The staged directory is moved into place; a spec is copied beside its target
\* and renamed over it.  What is no longer staged fails the commit.
Place(c) ==
  LET t == Placing(c)
      new == IF t = c THEN staged[c].dir
             ELSE IF staged[c].specs = None THEN None ELSE <<c, staged[c].specs>>
  IN
  /\ pc[c] = "place"
  /\ IF new = None
       THEN SaveAs(c, "failed") /\ UNCHANGED <<staged, live, wrote>>
       ELSE /\ live' = [live EXCEPT ![t] = new]
            /\ staged' = IF t = c THEN [staged EXCEPT ![c].dir = None] ELSE staged
            /\ wrote' = [wrote EXCEPT ![c] = @ \union {t}]
            /\ SaveAs(c, "committing")
  /\ UNCHANGED <<left, origin, journal, bak, receipt, faults, crashes>>

\* Every target is in place: the .bak files go, one by one.
AllPlaced(c) ==
  /\ pc[c] = "commit" /\ Range(Targets(c)) \subseteq Range(mem[c].created)
  /\ left' = [left EXCEPT ![c] = mem[c].created]
  /\ Goto(c, "clean")
  /\ UNCHANGED <<mem, files, receipt, wrote, faults, crashes>>

\* An rm that fails is ignored.
CleanFails(c) ==
  /\ pc[c] = "clean" /\ left[c] # <<>> /\ faults < MaxFaults
  /\ faults' = faults + 1
  /\ left' = [left EXCEPT ![c] = Tail(@)]
  /\ UNCHANGED <<pc, mem, files, receipt, wrote, crashes>>

Clean(c) ==
  /\ pc[c] = "clean"
  /\ IF left[c] = <<>>
       THEN SaveAs(c, "committed") /\ UNCHANGED <<left, bak>>
       ELSE /\ bak' = [bak EXCEPT ![Head(left[c])] = None]
            /\ left' = [left EXCEPT ![c] = Tail(@)]
            /\ UNCHANGED <<mem, pc>>
  /\ UNCHANGED <<origin, journal, staged, live, receipt, wrote, faults, crashes>>

\* The destination against the inventory taken while staging.
CompareB(c) ==
  /\ pc[c] = "compareB"
  /\ SaveAs(c, IF live[c] = mem[c].inv THEN "confirmed" ELSE "failed")
  /\ UNCHANGED <<left, files, receipt, wrote, faults, crashes>>

\* Mutant: the directory is removed before the journal says so.
RemoveBeforeDone(c) ==
  /\ pc[c] = "finish"
  /\ origin' = [origin EXCEPT ![c] = None]
  /\ SaveAs(c, "done")
  /\ UNCHANGED <<left, journal, staged, live, bak, receipt, wrote, faults, crashes>>

\* `done` is persisted before the directory is removed, once the inventory of
\* the archive was read: an archive that is gone fails the run.
Finish(c) ==
  /\ pc[c] = "finish"
  /\ SaveAs(c, IF live[c] = None THEN "failed" ELSE "done")
  /\ UNCHANGED <<left, files, receipt, wrote, faults, crashes>>

\* Mutant: the directory is gone and the run still ends as failed.
PurgeThenFail(c) ==
  /\ pc[c] = "purge"
  /\ origin' = [origin EXCEPT ![c] = None]
  /\ \/ End(c, "success") /\ UNCHANGED faults
     \/ faults < MaxFaults /\ faults' = faults + 1 /\ End(c, "failed")
  /\ UNCHANGED <<journal, staged, live, bak, wrote, crashes>>

Purge(c) ==
  /\ pc[c] = "purge"
  /\ origin' = [origin EXCEPT ![c] = None]
  /\ End(c, "success")
  /\ UNCHANGED <<journal, staged, live, bak, wrote, faults, crashes>>

\* rm fails and is ignored: the receipt is the same.
PurgeFails(c) ==
  /\ pc[c] = "purge" /\ faults < MaxFaults
  /\ faults' = faults + 1
  /\ End(c, "success")
  /\ UNCHANGED <<files, wrote, crashes>>

-----------------------------------------------------------------------------
(* writeJournal, and what goes wrong *)

\* Mutant: a failure is reported and not persisted.
SaveForgetsFailure(c) ==
  /\ pc[c] = "save"
  /\ IF mem[c].state \in {"failed", "rolled-back"}
       THEN End(c, mem[c].state) /\ UNCHANGED journal
       ELSE /\ journal' = [journal EXCEPT ![c] = mem[c]]
            /\ Goto(c, IF mem[c].state = "preflighted" THEN "inventory" ELSE StepOf(mem[c].state))
            /\ UNCHANGED <<mem, left, receipt>>
  /\ UNCHANGED <<origin, staged, live, bak, wrote, faults, crashes>>

\* The journal is written whole; a run that failed or was rolled back ends.
Save(c) ==
  /\ pc[c] = "save"
  /\ journal' = [journal EXCEPT ![c] = mem[c]]
  /\ IF mem[c].state \in {"failed", "rolled-back"}
       THEN End(c, mem[c].state)
       ELSE /\ Goto(c, IF mem[c].state = "preflighted" THEN "inventory" ELSE StepOf(mem[c].state))
            /\ UNCHANGED <<mem, left, receipt>>
  /\ UNCHANGED <<origin, staged, live, bak, wrote, faults, crashes>>

\* A filesystem call throws: every stage catches it and persists `failed`.
\* A failed write of the journal itself ends the same way.
Fault(c) ==
  /\ faults < MaxFaults
  /\ \/ pc[c] \in {"preflight", "inventory", "copy", "stage", "compareA", "commit", "shift", "place",
                   "compareB", "finish"}
     \/ pc[c] = "save" /\ mem[c].state \notin {"preflighted", "failed", "rolled-back"}
  /\ faults' = faults + 1
  /\ SaveAs(c, "failed")
  /\ UNCHANGED <<left, files, receipt, wrote, crashes>>

\* The process dies.  writeFile truncates the file it opens, so a journal that
\* is being written may be left torn.
Crash(c) ==
  /\ pc[c] # "idle" /\ crashes < MaxCrashes
  /\ crashes' = crashes + 1
  /\ Exit(c)
  /\ \/ UNCHANGED journal
     \/ pc[c] = "save" /\ journal' = [journal EXCEPT ![c] = Torn]
  /\ UNCHANGED <<origin, staged, live, bak, receipt, wrote, faults>>

-----------------------------------------------------------------------------
(* rollbackTransaction *)

NothingLive(j) ==
  \/ j.state \in {"init", "preflighted", "staged", "rolled-back"}
  \/ j.state = "compared" /\ j.created = <<>>

\* Nothing is live yet: only the staging area goes.
RollbackEarly(c) ==
  /\ pc[c] = "idle" /\ journal[c] # Torn /\ NothingLive(journal[c])
  /\ mem' = [mem EXCEPT ![c] = [journal[c] EXCEPT !.state = "rolled-back"]]
  /\ staged' = IF journal[c].state = "rolled-back" THEN staged
               ELSE [staged EXCEPT ![c] = [dir |-> None, specs |-> None]]
  /\ Goto(c, "save")
  /\ UNCHANGED <<left, origin, journal, live, bak, receipt, wrote, faults, crashes>>

RollbackCommit(c) ==
  /\ pc[c] = "idle" /\ journal[c] # Torn
  /\ journal[c].state # "done" /\ ~NothingLive(journal[c])
  /\ mem' = [mem EXCEPT ![c] = journal[c]]
  /\ left' = [left EXCEPT ![c] = journal[c].created]
  /\ Goto(c, "undo")
  /\ UNCHANGED <<files, receipt, wrote, faults, crashes>>

\* Mutant: what had no .bak is left in place.
UndoKeepsNew(c) ==
  LET t == Head(left[c]) IN
  /\ pc[c] = "undo" /\ left[c] # <<>>
  /\ live' = [live EXCEPT ![t] = IF bak[t] = None THEN @ ELSE bak[t]]
  /\ bak' = [bak EXCEPT ![t] = None]
  /\ left' = [left EXCEPT ![c] = Tail(@)]
  /\ UNCHANGED <<pc, mem, origin, journal, staged, receipt, wrote, faults, crashes>>

\* A target the transaction created is removed and its .bak, if any, takes the
\* name again.
Undo(c) ==
  LET t == Head(left[c]) IN
  /\ pc[c] = "undo" /\ left[c] # <<>>
  /\ live' = [live EXCEPT ![t] = bak[t]]
  /\ bak' = [bak EXCEPT ![t] = None]
  /\ left' = [left EXCEPT ![c] = Tail(@)]
  /\ UNCHANGED <<pc, mem, origin, journal, staged, receipt, wrote, faults, crashes>>

\* A call of the loop fails and is ignored: the .bak stays where it is, or the
\* target that had none.
UndoFails(c) ==
  LET t == Head(left[c]) IN
  /\ pc[c] = "undo" /\ left[c] # <<>> /\ faults < MaxFaults
  /\ faults' = faults + 1
  /\ live' = [live EXCEPT ![t] = IF bak[t] = None THEN @ ELSE None]
  /\ left' = [left EXCEPT ![c] = Tail(@)]
  /\ UNCHANGED <<pc, mem, origin, journal, staged, bak, receipt, wrote, crashes>>

Undone(c) ==
  /\ pc[c] = "undo" /\ left[c] = <<>>
  /\ staged' = [staged EXCEPT ![c] = [dir |-> None, specs |-> None]]
  /\ SaveAs(c, "rolled-back")
  /\ UNCHANGED <<left, origin, journal, live, bak, receipt, wrote, faults, crashes>>

\* A transaction that is done stays.
RollbackDone(c) ==
  /\ pc[c] = "idle" /\ journal[c] # Torn /\ journal[c].state = "done"
  /\ receipt' = [receipt EXCEPT ![c] = "success"]
  /\ UNCHANGED <<pc, mem, left, files, wrote, faults, crashes>>

-----------------------------------------------------------------------------
(* People and agents *)

\* Somebody edits the change, state.yaml included.
Edit(c) ==
  /\ MayEdit /\ origin[c] # None /\ origin[c].ed < MaxEdition
  /\ origin' = [origin EXCEPT ![c].ed = @ + 1]
  /\ UNCHANGED <<pc, mem, left, journal, staged, live, bak, receipt, wrote, faults, crashes>>

\* The archive agent writes the plan again, between two runs or, as any edit,
\* during one.
Replan(c) ==
  /\ MayEdit \/ pc[c] = "idle"
  /\ origin[c] # None /\ origin[c].plan # PlanOf(c, origin[c].ed)
  /\ origin' = [origin EXCEPT ![c].plan = PlanOf(c, origin[c].ed)]
  /\ UNCHANGED <<pc, mem, left, journal, staged, live, bak, receipt, wrote, faults, crashes>>

\* A new change takes the name of an archived one.
Recreate(c) ==
  /\ MayReuse /\ pc[c] = "idle" /\ origin[c] = None
  /\ \E ed \in Edition : origin' = [origin EXCEPT ![c] = [ed |-> ed, plan |-> None]]
  /\ UNCHANGED <<pc, mem, left, journal, staged, live, bak, receipt, wrote, faults, crashes>>

-----------------------------------------------------------------------------

Run(c) ==
  \/ Unreadable(c) \/ RepeatTerminal(c) \/ ResumeDone(c) \/ Invoke(c)

Step(c) ==
  \/ Preflight(c) \/ Inventory(c) \/ CopyDirectory(c) \/ StageSpecs(c) \/ CompareA(c)
  \/ TakeFree(c) \/ DropBak(c) \/ Shift(c) \/ Place(c) \/ AllPlaced(c) \/ Clean(c)
  \/ CompareB(c) \/ Finish(c) \/ Purge(c) \/ Save(c) \/ Undo(c) \/ Undone(c)

Rollback(c) == RollbackEarly(c) \/ RollbackCommit(c) \/ RollbackDone(c)

Turn(c) == Run(c) \/ Step(c) \/ Rollback(c) \/ Crash(c)

Disturb(c) ==
  \/ Edit(c) \/ Replan(c) \/ Recreate(c)
  \/ CleanFails(c) \/ PurgeFails(c) \/ UndoFails(c) \/ Fault(c)

Next == \E c \in Change : Turn(c) \/ Disturb(c)

Spec == Init /\ [][Next]_vars

\* A process that runs goes on, and a run that was interrupted is run again.
Fairness == \A c \in Change : WF_vars(Run(c)) /\ WF_vars(Step(c))

FairSpec == Spec /\ Fairness

-----------------------------------------------------------------------------
(* Properties *)

Pc == {"idle", "preflight", "inventory", "copy", "stage", "compareA", "commit", "shift", "place",
       "clean", "compareB", "finish", "purge", "save", "undo"}

Receipt == {"none", "thrown", "success", "failed", "rolled-back"}

TypeOK ==
  /\ DOMAIN pc = Change /\ DOMAIN mem = Change /\ DOMAIN left = Change
  /\ DOMAIN origin = Change /\ DOMAIN journal = Change /\ DOMAIN staged = Change
  /\ DOMAIN receipt = Change /\ DOMAIN wrote = Change
  /\ DOMAIN live = Change \union Domain /\ DOMAIN bak = Change \union Domain
  /\ \A c \in Change :
       /\ pc[c] \in Pc
       /\ mem[c] \in Journal(c) /\ journal[c] \in Journal(c) \union {Torn}
       /\ left[c] \in Seq(Range(Targets(c))) /\ wrote[c] \subseteq Range(Targets(c))
       /\ origin[c] \in Dir(c) \union {None}
       /\ staged[c] \in [dir : Dir(c) \union {None}, specs : Edition \union {None}]
       /\ live[c] \in Dir(c) \union {None, Old} /\ bak[c] \in Dir(c) \union {None, Old}
       /\ receipt[c] \in Receipt
  /\ \A d \in Domain : live[d] \in SpecContent /\ bak[d] \in SpecContent
  /\ faults \in 0 .. MaxFaults /\ crashes \in 0 .. MaxCrashes

In(c, states) == journal[c] # Torn /\ journal[c].state \in states

\* The directory of a change is gone only when its journal says `done` and the
\* archive stands in its place, equal to the inventory taken while staging:
\* not after a crash at any step, a failed call, a rollback or a torn journal
\* (runArchiveTransaction, the done checkpoint before rm;
\* REQ-archive-transaction-runtime-001).
OriginSafe ==
  \A c \in Change : origin[c] = None => In(c, {"done"}) /\ live[c] = journal[c].inv

\* A journal past the commit has put the archive and every spec of the plan in
\* place, however often the commit was interrupted and resumed: a target that
\* created_by_tx names was really renamed before it was named on disk.
CommittedComplete ==
  \A c \in Change :
    In(c, {"committed", "confirmed", "done"}) => wrote[c] = Range(Targets(c))

\* Nothing live is written before the staged copy was found equal to the
\* inventory, and the directory put in place is the one that was compared,
\* whoever edits the change meanwhile and wherever a run resumes (stage and
\* compare A of runArchiveTransaction).
NothingBeforeMatch ==
  [][\A c \in Change : wrote'[c] # wrote[c] =>
       /\ ~In(c, {"init", "preflighted", "staged"})
       /\ c \in wrote'[c] \ wrote[c] => live'[c] = mem[c].inv]_vars

\* A receipt is the truth about the directory: "success" only of a transaction
\* that is done, and "failed" or "rolled-back" never once the directory is gone
\* ("A successful rm must never leave a terminal failed receipt with
\* origin_deleted:false while origin is already gone").
ReceiptTrue ==
  \A c \in Change : /\ receipt[c] = "success" => In(c, {"done"})
                    /\ receipt[c] \in {"failed", "rolled-back"} => origin[c] # None

\* A commit that a failed call stops before its last target, and that is rolled
\* back, leaves every target as it found it, as long as no other change began;
\* it takes a crash to lose one (RollbackRestores).
RestoresFailedCommit ==
  \A c \in Change :
    /\ crashes = 0 /\ faults <= 1 /\ In(c, {"rolled-back"}) /\ pc[c] = "idle"
    /\ \A d \in Change \ {c} : journal[d] = Fresh /\ pc[d] = "idle"
    /\ Range(journal[c].created) # Range(Targets(c))
    => \A t \in Range(Targets(c)) : live[t] = Before(t)

Ended(c) == journal[c] = Torn \/ journal[c].state \in {"done", "failed", "rolled-back"}

\* Run again after every interruption, a transaction ends for good: done,
\* failed, rolled back, or with a journal that nobody can read.
EndsTerminal == \A c \in Change : <>[]Ended(c)

\* The journal goes through the states of the reducer (nextTransactionAction)
\* and the directory is removed only in `done`.
Promise ==
  INSTANCE ArchiveJournal WITH
    state <- [c \in Change |-> IF journal[c] = Torn THEN "torn" ELSE journal[c].state],
    kept  <- [c \in Change |-> origin[c] # None]

FollowsReducer == Promise!Spec

\* "Rollback restores pre-transaction safety": when a rollback has ended, every
\* living spec holds what it held before the transaction (one change, whose
\* specs nobody else writes).
RollbackRestores ==
  \A c \in Change :
    receipt[c] = "rolled-back" => \A t \in Specs(c) : live[t] = Before(t)

\* "delete the origin change folder only after a full three-way match": what is
\* removed is what the archive holds.
DeletesOnlyArchived ==
  [][\A c \in Change : origin[c] # None /\ origin'[c] = None => live[c] = origin[c]]_vars

=============================================================================
