# Verification of ospec-workflow

TLA+ specifications of what decides, in ospec-workflow, whether a change may
close, and of what happens to it then: the state of a change under `idd/` and
the commands that write it, the file lock and the atomic writes under them, the
trust review and the turn fence, the close of an IDD change; on the SDD side the
archive transaction, the review lineage and the verify lineage. TLC checks the
models on small instances; TLAPS proves the most important properties of
eight of them for every instance.

`PROJECT.json` lists the components, the runs, a mutant per checked property, the
lines each definition translates, the findings, the hazards and the theorems.

1. [Inventory](#1-inventory)
2. [Modules](#2-modules)
3. [Abstractions](#3-abstractions)
4. [What the runs check](#4-what-the-runs-check)
5. [What is proved](#5-what-is-proved)
6. [Statements that do not hold, without a run](#6-statements-that-do-not-hold-without-a-run)
7. [Not modelled](#7-not-modelled)
8. [Plan](#8-plan)
9. [Running](#9-running)

## 1. Inventory

### The system

An agent works on a *change*. There are two routes.

**IDD.** The CLI `ospec` keeps the state of the change in `idd/<id>/state.yaml`;
only the CLI writes it. A change has an *intent* (a kind: docs, refactor, bug or
feature), *signals* derived from the intent, the configuration, declarations and
the diff, one *obligation* per signal (pending, satisfied by evidence, withdrawn),
and *gates* only the user answers. `ospec check` runs the declared checks and
settles obligations; `ospec run` runs one test command for the red and green runs of
a pair or for a migration test; `ospec review` opens, records, corrects and
validates a trust review; `ospec close` closes a change that has nothing pending and
no gate open, writes its changelog entry and moves it to `idd/archive/`.

**SDD.** A change is a directory under `openspec/changes/`. Agents take it through
phases; what they conclude is kept in lineages inside its `state.yaml`: the
*review lineage* (lenses, findings, corrections by slice, validations) and the
*verify lineage* (findings of verification, attempts, rechecks, successors). Its
end is the *archive transaction*, which moves the directory to the archive and its
specs over the living ones.

Every command is a process of its own. Several agents, worktrees and hooks work on
one repository at once, and the user edits the tree meanwhile.

| Part | State | Operations | Interacts through |
| --- | --- | --- | --- |
| State store (`idd-store.js`, `ospec-state.js`, `atomic-write.js`) | `state.yaml`, its `.lock`, temporary files, `change.md` | `mutateChange`, `withFileLock`, `writeFileAtomic` | the file system, the clock |
| Record reducers (`idd-record.js`, `idd-signals.js`, `idd-contract.js`) | the content of the state | `record intent/signal/gate/withdraw/retract/impact`, `signals` | one locked write each |
| Check, run, close (`idd-check.js`, `idd-close.js`, `ospec.js`) | the evidence | `check`, `run`, `close`, `check --close` | reads of tree, configuration and state off the lock, then one locked write |
| Trust review (`idd-review.js`) | `reviews` of the state, the review-limit gate | `review start/record/correct/validate`, the freshness a check settles | as check, run and close |
| Turn fence (`turn-fence.js`, `hooks/stop.js`) | `.ospec/turns` of a workspace and of its main repository, the stamps of gates | `countTurnEnd`, `fenceGates` | unlocked counts, the state write |
| Close and archive (`idd-close.js`, `idd-changelog.js`) | `idd/<id>`, `idd/archive/…`, the changelog | `close` once its change may close | its own lock, file system calls |
| SDD archive transaction (`archive-transaction.js`) | `journal.json`, the staging area, the archive, living specs and their `.bak` | `runArchiveTransaction`, `rollbackTransaction` | the file system; changes share living specs |
| Review lineage (`review-lineage.js`, `review-gate-state.js`) | `review_lineage` | the reducers, `planLineageGate` | one orchestrator; calls whose outcome may be lost |
| Verify lineage (`verify-lineage*.js`) | `verify_lineage`, snapshots in git, operations and completions | discovery, attempts, recheck, successors, dispositions | agents and runners that share the change root |

### What is hard, and the properties that answer it

- **Every file system call is a race.** The lock is a file judged by its age, and
  looking at it and removing it are two calls; owners die, stall and wake up after
  someone took their lock. Correct: `MutualExclusion`, `NoLostWrite`,
  `DocFollowsState`, `CutKeepsOneWrite`, `EveryCommandEnds`.
- **Commands work outside the lock.** A check reads the state, the diff and the
  configuration, runs commands for minutes, and settles what it saw on whatever
  the state has become. Correct: `EvidenceTrue`, `RunsOnlyApproved`, `ClosesJustified`,
  `CheckedCloseReviewed`.
- **A sequence of legal commands** may combine declarations, derivations, retractions,
  answers and settles in orders no test writes down. Correct: `NoSignalGaps`, `DecisionsStand`,
  `ImpactsAnswered`, `SatisfiedByApproval`, `SlicesTellFindings`, `SlicesIndependent`.
- **Interruptions** between any two calls, and the run that resumes. Correct: `OriginSafe`,
  `CommittedComplete`, `NothingBeforeMatch`, `RestoresFailedCommit`, `ReceiptTrue`,
  `NothingLost`, `ArchivedWithEntry`, `RunOnce`, `VerifiedByRuns`.
- **Outcomes and counts that are lost**, and work that is repeated for it. Correct:
  `ReviewedOnce`, `CorrectionBounded`, `ScopeKept`, `FenceSound`.
- **Ways on.** Refusals name the next command; following them must end. Correct:
  `ArchivesEnd`, `ClosesInTheEnd`, `QualityEnds`, `WayOn`, `LineageEnds`.

The full list of hazards, each at its line and with the properties that watch it,
is in `PROJECT.json`.

## 2. Modules

    AtomicStore ◄─refined by─ StateStore ◄── MCStateStore

    IddState ◄── IddChange ◄── MCIddChange

    ArchiveJournal ◄─refined by─ ArchiveTransaction ◄── MCArchiveTransaction ◄─┐
    CloseArchive ◄──────────────────────────────────────────────────────────── MCArchives

    Lineage ◄─┬─ ReviewLineage ◄── MCReviewLineage ◄─┐
              └─ TrustReview ◄───────────────────────┤   (alone in MCTrustReview)
    TurnFence ◄──────────────────────────────────────┤
    VerifyLineage ◄──────────────────────────────── MCReviews   (alone in MCVerifyLineage)

The proofs about `X` are in `X_proofs`, for StateStore, IddChange, ArchiveTransaction,
CloseArchive, ReviewLineage, TrustReview, TurnFence and VerifyLineage.

**AtomicStore** is the promise of `mutateChange`: updates are applied one at a
time, none is dropped, and a command is answered only after its own is in.

**StateStore** is the implementation. Each member of `Proc` is one command in its own
process; `phase[p]` is the next file system call it makes. `Acquire`/`Contend` are the
exclusive create, `StatLock` and `ReclaimLock` the two calls of `reclaimStaleLock`,
`WriteToken`/`TokenFails` the token, `Heartbeat` the timer, `ReadAndReduce` the read and
the reducer (which may change the state, find nothing to change or refuse),
`AssertOwned` the check right before the write, `CleanTemps`, `WriteTemp`, `RenameOver`,
`SyncDirectory` the four parts of `writeFileAtomic`, `RenderDoc` the living document,
`Release`/`Unlock` the `finally`. `Crash`, `PowerCut`, `LockAges` and `TempAges` are the
faults. The content of the state is the set of commands whose update it holds; `disk`
is the set of contents a power cut may leave. A lock may become *stale* when its
owner is dead or, with `CanStall`, when a live owner stalls.

**IddState** holds the state of one change and the reducers, as functions from state to
state: signals and obligations, gates, impacts and their references, evidence, and the
settle functions of check, run and close. A version of the tree is a number, and `Diff[v]`
says what its diff touches; `Passing`, `TestPassing`, `FitPassing` and `Detects` say
what commands answer on it.

**IddChange** runs them: a record command is one step, because `mutateChange` holds the
lock over its read and its write (StateStore is where that is examined); `signals`,
`check`, `run` and `close` take a step for each read (`CheckRead`, `TakeFingerprint`,
`Execute`, `Observe`, `CheckCommit`, …) and `cmd[p]` holds what the command of process
`p` has read. `Edit`, `SetConfig` and `HandEdit` happen at any moment between.

**CloseArchive** is `close` after validation, one file system call per step. A directory
is the set of its entries, so a partial copy, a half-removed origin and a torn
`change.md` are states of the model. `Interrupt` may fall anywhere.

**ArchiveJournal** is what the SDD archive promises of its journal: the states in the
order of `nextTransactionAction`, and the directory of the change removed only while
the journal says `done`. **ArchiveTransaction** implements it (`FollowsReducer`). `pc[c]`
is the next effect of the run of change `c`, `mem[c]` the journal it holds in memory,
`journal[c]` the file: every effect and every save of the journal is a step of its
own, so a crash can fall between a rename and the journal that names it. Contents are
versions; `live` and `bak` hold each target and its `.bak`, target `c` being the
archive of change `c`. Around the run there are edits of the directory, new plans, failed
calls, crashes, torn journals, rollbacks and the reuse of a name.

**Lineage** holds the reducers of a review lineage, each the set of lineages it may
return, empty when it refuses. **ReviewLineage** is the quality review of an SDD
change: one orchestrator follows `planLineageGate`, loses outcomes
(`LoseOutcome`), reconciles them as not started or committed, and may be upgraded
to correct by slice. **TrustReview** is the trust review of an IDD change on the same
reducers: `review start`, `review correct` and a check each read the tree before they
lock the state, so they take a step per read and race each other, `close` and the author.

**TurnFence** is the turn counts, the read-then-write of the Stop hook in several
sessions, the loss of a count, and the gates. `ended[g]` is a history variable:
whether a turn was counted since gate `g` opened.

**VerifyLineage** is the verify lineage. The first half is discovery and the agent that
remediates and rechecks; the second is the runner of `verify-lineage-recheck.js`, a file
or a command per step: `PersistOperation` links the operation of a recipe, `Decide`
refuses those another runner created, `Invoke` runs the command, `Complete` writes the
completion, `Evaluate` compares `state.yaml` and `InstallState` renames the new one over
it. The name of an operation is its lineage, its candidate and its contract, so two
runners of one journal meet in the same files, and the runs after a fix do not. `Edit`,
`Redesign`, `Prune` (no reference holds the objects of a snapshot) and `Crash` are what
happens meanwhile.

**MCArchives** and **MCReviews** explore modules that share no state
side by side: a variable `world`, chosen in the initial state, says which one acts, and
the fairness of each module is stated for its own world. Nothing of one world is
visible in another; it saves starting TLC once for each.

Every definition that models code is mapped to its lines in `PROJECT.json`. The
definitions commented `Mutant:` stand beside the one they break, the way a
plausible bug would; they belong to no specification.

## 3. Abstractions

- StateStore: one state file. Windows retries of `rename` and `rm` and the `.bak`
  of older versions are left out. Commands are interchangeable: an update is the name of
  its command. A file system call is atomic. A token write through a handle reaches the
  process's own file, also when the path names another one by then.
- IddChange: `security-boundary`, its `trust-review` obligation and the `review-limit`
  gate are in TrustReview and not here. One declared check per configuration (several checks
  pass or fail together). Impacts `none` and `supersedes` behave as `conforms` and
  `amends`. The questions of open facts are one bit. Ids, texts, dates and the
  history of runs are reduced to what the settle functions tell apart. The tree never returns to
  an earlier version. The plan of `record intent` is derived in the same write, with
  the configuration of that moment. A close is alone per change under its close lock.
- CloseArchive: nobody but `close` writes the directories of a closed change; the date in
  the destination comes from the saved state. The runs use one change.
- ArchiveTransaction: `adr_promotions` (the loop of `spec_writes` again, for old plans), the
  validation of a plan's shape and the cost aggregation are left out. A copy and a
  removal of a directory are one step; the journal, which is rewritten in place, may be
  torn. One process runs a change at a time, as the archive skill does.
- Lineage: only blocking findings; a candidate is its number of corrections; digests,
  bindings and issuance of schema 3 are left out. An exact retry returns the lineage it is
  given, and so is no step.
- TrustReview: the obligation is there throughout; whether a correction fits one bounded
  correction is a relation on contents (`Fits`) in place of line counts; what a
  reviewer finds is any set of findings in a content that is not `Clean`.
- TurnFence: stamping a gate and writing the state is one step.
- VerifyLineage: a tree tells of each path whether it is right, and a recipe passes
  where the paths it needs are. A commit that moves the base of the candidates blocks a recheck like
  an edit does and is not told apart. One chain of lineages, from a discovery to its
  last successor. Approvals are given. An audit of sources finds the
  tree exactly when git still has it.

## 4. What the runs check

Passing runs:

| Run | Instance | States | What it shows |
| --- | --- | --- | --- |
| `store_serial` | 3 commands, 2 retries, disk errors, no crash or stall | 120,585 | `MutualExclusion`, `NoLostWrite`, `DocFollowsState`, and StateStore implements AtomicStore |
| `store_faults` | 2 commands that may stall, 1 crash, 1 power cut | 66,690 | `CutKeepsOneWrite`: the state is the content of one whole write, the last one unless its directory was not synced; `EveryCommandEnds` |
| `idd_checks` | 2 processes, 4 versions, 2 configurations, 3 kinds; a content hit and a second diff for `--base` in the last version | 3,203,222 | `EvidenceTrue` over checks, pairs, counterproofs and boundary tests, `NoSignalGaps`, `RunsOnlyApproved`, `ClosesJustified`, `DecisionsStand` |
| `idd_record` | 1 process, 2 versions, 2 references, a fitness check, operations, hand edits | 374,380 | `ImpactsAnswered` |
| `archives` | 1 SDD change, 2 specs, 2 editions, 1 failed call, 2 crashes; 2 SDD changes over one spec, 1 crash; 1 IDD close, 3 interruptions | 190,554 | the seven properties of the transaction below, and `NothingLost`, `ArchivedWithEntry`, `ClosesInTheEnd` |
| `reviews` | quality: 2 lenses with a finding each, 2 slices, 2 lost outcomes, an upgrade; trust: 3 contents, 2 reviews, 1 restore; fence: 2 sessions, counts to 3; verify: 1 finding, 2 recipes, 2 runners, 2 troubles | 519,713 | the properties of the four modules |

What they say:

- `OriginSafe`: `openspec/changes/<change>` is gone only when its archive is in place.
  `CommittedComplete`: a journal that says `committed` names every target.
  `NothingBeforeMatch`: no target is written before the staged directory matched its
  inventory. `RestoresFailedCommit`: a commit whose call failed leaves the targets
  as they were. `ReceiptTrue`: what a run answers is what the journal says.
  `FollowsReducer`: ArchiveTransaction implements ArchiveJournal. `ArchivesEnd`:
  run again after every interruption, a transaction ends.
- `ApprovedResolved`, `SlicesTellFindings`, `SlicesIndependent`, `CorrectionBounded`,
  `ReviewedOnce`, `QualityEnds`: an approved review has no unresolved finding, also when a
  regression reopened slices that had passed; the status of a slice and the findings in it
  never disagree; a slice is validated on its own; corrections stay in their allowance
  although some are lost and begun again; a lens that is reconciled keeps what the others
  answered; and a review ends.
- `SatisfiedByApproval`, `CheckedCloseReviewed`, `WayOn`: the obligation is satisfied
  by the last review only; `check --close` closes on code that was reviewed; and once the author
  is done the review settles or the change closes.
- `FenceSound`: an answer is accepted only after a turn ended since the gate opened.
- `RunOnce`: the command of an operation runs at most once, however many runners meet in
  a journal, die and are started again. `VerifiedByRuns`: a successor is closed only when each
  of its recipes has a completion that passed, for its candidate. `ScopeKept`: a
  candidate differs from the first one of its lineage in the paths of its findings only.
  `LineageEnds`: a lineage that nothing disturbs any more ends.

Each module with its own run has a type invariant checked in it; `AllTyped` is those of
the four modules of `reviews` together.

Why these bounds: a lock race needs an owner, a waiter that judges and a third
that comes in between; two retries let a waiter both reclaim and retry. The
commands that work off the lock interact through the state, so two are enough
for one to overtake the other at each of its reads, and the tree needs a version
before, during and after a run. Two crashes reach an interrupted resume and three
interruptions an interrupted resume of an interrupted copy; two specs let a commit
stop between them and two editions tell what was compared from what is there. Two slices with
a finding each are enough for one to reopen the other, and two lost outcomes for one
to be lost again. Two recipes let a runner die between them, two runners create one each,
and two troubles combine a lost snapshot with a crash. `MaxTries`, `MaxCrashes`, `MaxCuts`,
`MaxTree`, `MaxEdition`, `MaxFaults`, `MaxUnknown`, `MaxContent`, `MaxRestores`,
`MaxTurn`, `MaxTroubles` and `MaxGen` are all the bounds there are; `MaxReviews`,
`MaxFailed` and `MAX_REMEDIATION_ATTEMPTS` are the code's own.

`idd_checks` has a state constraint, `Apart`: a bug is explored with the configuration of the
base and without open questions, the other kinds with both and without the last version,
which only the migration test of a bug and its second diff need. What it leaves out is the
product of the two.

Symmetry is used for processes in runs without liveness. Deadlock is checked in
every passing run; where a world may stop, it says so with a stuttering step.

Runs that end in a violation, each a finding in `PROJECT.json`:

- `store_lock_race`: after one process was killed, two waiters find its lock stale. The
  first removes it and takes the lock; the second removes the first one's lock and takes it
  too. Both write, and an update that was answered as written is gone. No process stalls.
- `idd_fitness_skip`: a reference added and declared while a check runs is settled by that
  check, whose fitness plan is older, and the change closes with no run of its fitness check.
- `archive_rollback`: a rollback after the `.bak` files were removed, or after another rollback
  was interrupted, takes a replaced spec for one the transaction created and removes it.
- `archive_reuse`: a new change under an archived name meets a journal that is done; its directory
  is removed and nothing of it was compared or archived.
- `trust_limit`: when the last allowed review waits for a correction that does not fit one, every
  review command refuses and no check opens the review-limit gate.
- `verify_reconcile`: a recheck that died asks for a reconciliation. The audit of one
  wants the operations that older versions persisted, not those of the journal, so no
  disposition of what is pending can start it.

### Fairness

- `store_faults`: a started command goes on (`WF` of each process's steps), as Node
  runs its continuations. Nothing obliges a command to start, a fault to happen or a lock
  to age, so `EveryCommandEnds` holds through the retry budget.
- `archives`: a running transaction or close goes on, and someone runs it again after an
  interruption, which is what each answers to ask for. Interruptions, failed calls and editions
  are bounded; nobody is obliged to replan, edit or roll back.
- `reviews`, quality: the orchestrator takes an answer that is there (`Answered`), because
  `planLineageGate` always names one; it is not obliged to lose outcomes or to terminate.
  Trust: the agent follows `ospec next`, the reviewers and the person answer, and
  the author finishes editing. `Restore` is not fair. Verify: the agent records its attempt, reads and
  evaluates, and a runner that was started goes on. A remediation that fixes anything, a
  recovery and a disposition are not fair, so `LineageEnds` holds for attempts that fix nothing and is
  conditional on `Undisturbed`: the workspace and the snapshot are those of the
  candidate and no operation is inconclusive.

The other runs state safety only and assume no fairness.

## 5. What is proved

Each theorem holds for every value of the constants under the assumptions named, all of
them in the module or at the head of its proofs. The proofs have one shape: an
inductive invariant `IInv`, `Init => IInv`, a lemma per action that it is kept, and the
property from it. Why the strengthening is needed is the interesting part.

**StateStore_proofs.** `TypeCorrect` for any commands and faults. What breaks the exclusion is
reclaiming: the age of one lock is judged and whichever lock is there later is removed. While
live processes keep their locks fresh (`NoStalls`) this goes wrong in one way, that two commands
are between judgement and removal at a time, which the run `store_lock_race` shows. So
`KillsExclude`, `KillsKeepWrites`, `KillsRender` and, while the power holds, `KillsRefine` are about the
behaviours in which that never happens (`[]OneReclaims`), whoever is killed and wherever.
`CommandsExclude`, `WritesAreKept`, `DocIsRendered` and `StoreRefines` say the same of every
behaviour where it cannot happen: nobody is killed and the power holds, for any number of commands
(`Calm`), or two commands, either of which may be killed (`Pair`). `IInv` says that an old lock is that of a dead
command, and who is about to remove a lock removes such a one (`OldLocksAreDead`); that
who is past the create owns the lock on disk (`HolderOwnsLock`); that what the holder is
about to write is the present state and its own update (`ViewIsCurrent`); that an update is in
the state before it is answered (`WriterIsIn`); and that what a cut may bring back has every update answered so far
(`DiskIsPast`). The refinement maps the rename to AtomicStore's update and every other call to a
stutter. `DocFollowsState` needs also that the living document is the one of the state unless
a command that renamed the state has yet to render it, or failed (`DocIsDue`), that who renders
it renders the present state (`RenderedIsCurrent`), and that a failure is final (`FailedIsOver`).
`CutsKeepOneWrite` needs no assumption: it does not rest on the lock but on the order of
writeFileAtomic, a temporary file is synced before it is renamed (`SyncedBeforeRename`), so what a
cut may leave is always a whole content (`CutIsCovered`).

**IddChange_proofs.** `TypeCorrect`, `DecisionsAreKept` (an answer to a gate stands until
something that reopens it) and `ChecksAreApproved` (a command that runs was approved)
without assumptions; both need `Validated`, that only a close is past its
validation, and of a change it saw open. `GapsAreMadeByHand`, without assumptions too: no step
of the program strands a signal that had its obligation, because `obligationOf` is injective,
so a retraction cannot withdraw what another signal rests on. Only an edit of the state by hand
does, and `SignalsKeepObligations` holds as long as there is none. `EvidenceIsTrue`,
`ImpactsAreAnswered` and `ClosesAreAlwaysJustified` need no assumption and share the invariant `Justified`. It says
what is true of a command in flight: a check or a run that is past its commands
ran them on some version between that of its first fingerprint and the present one
(`Witnessed`), which is why evidence with two equal fingerprints is about that very
version; and a close carries a state it validated, against the fingerprint and
the diff it read (`Cleared`). A reducer then either claims nothing new
(`Upholds`, `Keeps`) or satisfies an obligation by evidence that is true, and the change
closes only if the state is still the one validated. That a closed change has every signal
of its diff also needs that a change of a known kind always has the signal `always`.

**ArchiveTransaction_proofs.** `TypeCorrect`, `CommitsAreComplete`, `NothingIsPlacedUnmatched`,
`ReceiptsAreTrue`, `ReducerIsFollowed` and `FailedCommitsAreRestored`, for any number of changes
over shared specs and whatever the archive held before. `OriginsAreKept`: the directory of a change is
gone only under a journal that is done and with an archive in its place, which is the one that was staged
if no other stood there when the change started. `OriginIsSafe` needs that of every change
(`NewArchives`), and is false without it (section 6). The journal on disk, the one in memory and
the directories say three different things between a rename and the save that follows
it; `IInv` is what relates them for one change whatever the others do: where the run
is, given what it holds (`Where`, `InMemory`), what the journal on disk allows
(`OnDisk`), that a staged directory is in no other place (`StagedOnce`), and that the directory of
the change is gone only under a journal that is done (`Kept`). `ReceiptsAreTrue` adds `Honest`,
what an answer says of the journal. `FailedCommitsAreRestored` rests on `Restores`: while one change is at work, no process died
and at most one call failed, either all targets are placed or what was done can be undone
(`Undoable`). A target the journal names is in its .bak as it was before, or was
not there; one it does not name is untouched; and the rollback has put back those
it is past (`Undoing`). A crash or another change may break these.

**CloseArchive_proofs.** `TypeCorrect` and `NothingIsLost` for any number of changes that close
at once. The changelog is read and rewritten without a lock: a second close may drop the
entry of the first, and one that is stopped between its truncation and its write drops all.
`ArchivesKeepEntries` says that these are the only ways an entry is lost, for any number of
changes: while no two rewrite at a time (`OneRewrites`) and no rewrite that read entries is
stopped in the middle (`WritesBack`), an archived change has its entry whenever nobody is writing.
An entry is in the file or in what the one rewriter is about to put back (`Listed`), who
read what the file held (`Current`). `ArchiveHasEntry` is the case of one change, which needs
neither.

**ReviewLineage_proofs.** `TypeCorrect`, `AllowancesHold` and `NothingTakenBack`, for any lenses,
findings, slices and lost outcomes and whenever the orchestrator is upgraded to slices.
`ApprovalIsEarned`, `SlicesAreTrue` and `SlicesStandAlone` for the behaviours in which none is upgraded
between the first correction of a review and its end (`UpgradedUncorrected`): migrated after a
validation, a slice may be marked passed while its finding is unresolved (section 6). An
outcome that was lost puts a kept copy of the lineage back, so `IInv` must hold of the copies
as well as of the lineage (`Held`), and relate what really happened to what the allowances
count (`Counted`). That relation is an inequality, because a slice that a late migration adds
inherits the failed validations of its findings, which were the whole review's. The
second group adds that the findings and the slices of a lineage agree
(`Agreed`), and that one still to be migrated is as good as untouched (`Unspoiled`).

**TrustReview_proofs.** `TypeCorrect`, `ApprovalIsCurrent` and `ClosesWhatWasReviewed`. The
author edits between any two reads of a command; the argument is that versions only
move on while a command runs, so a check that finds the reviewed paths unchanged
at its last read closes the very code its review approved (`Seen`), and that the obligation
carries the number of the review it was satisfied by (`Proven`).

**TurnFence_proofs.** `TypeCorrect`, and `FenceIsSound` in any workspace as long as no loss of a
count changes the number an open gate waits for (`LossesFence`): in a linked worktree, where
two counts are added, a loss can move the sum past the stamp. In a plain one a loss leaves no
number to compare or the same one, so `PlainFenceIsSound` asks only that counts are lost in no
other workspace (`PlainLosses`). While no turn was counted since a gate opened, the
count is the stamp or lost, however the Stop hooks interleave (`StampHolds`), and neither lets
an answer in.

**VerifyLineage_proofs.** `TypeCorrect`, `FixesStayInScope`, `CommandsRunOnce` and
`ClosedByRuns`, for any findings, recipes, runners, crashes and edits. A runner works on the
copy it read, so the invariant behind `FixesStayInScope` is about every lineage there is,
the runners' copies included. `CommandsRunOnce` says who may invoke: a runner runs only operations it
created, which never ran before (`Fresh`), whose file is there (`Files`) and which no other
runner created (`Exclusive`). `ClosedByRuns` needs that only a successor has runners
(`Successors`), and that a result about to be installed is verified by completions like
an installed one (`Judged`).

Only model-checked are the liveness properties: `EveryCommandEnds`, `ArchivesEnd`,
`ClosesInTheEnd`, `QualityEnds`, `WayOn` and `LineageEnds`. Liveness under fairness
and `ENABLED` are out of the prover's reach, and so is induction over data, which
what a recursive function computes would need. Some invariants of the composed runs
`archives` and `reviews` are stated in their MC modules over instances of the
components (`NothingLost` and `ArchivedWithEntry` of CloseArchive, `FenceSound` of TurnFence, `RunOnce`,
`VerifiedByRuns` and `ScopeKept` of VerifyLineage, `SatisfiedByApproval` and
`CheckedCloseReviewed` of TrustReview); the theorems state them of each component by itself.

## 6. Statements that do not hold, without a run

Met while modelling, reproduced with TLC on these models, and not kept as runs of
their own. Paths are under `src/scripts`.

- *A product-free pair is run again with a counterproof once the diff changes product code*
  (comment at `lib/idd-check.js:324-326`): a check compares against the base it is
  given, so one against a base whose diff is product-free keeps the pair, and the change
  closes on a diff that is not.
- *Archiving is safe to run again after an interruption at any point* (`lib/idd-close.js:187-188`):
  interrupted while it removes the origin after a copy, the next run compares what is left
  of the origin with the whole destination and answers `archive-conflict` from then on.
  Nothing is lost (`NothingLost`), and a person must remove the rest.
- *The count of turns only grows, so a turn end moves the sum* (`lib/turn-fence.js:59-61`): a
  count that is lost starts again, and in a linked worktree a stamp may then be
  passed before any turn of the gate ended: `FenceSound` fails.
- *A resumed archive never commits from an empty staging area*, *a lens is called once* and
  *only a call with an unknown outcome is reconciled*: each has a counterexample
  in an interrupted run.
- *A closed change was reviewed on the code that closes.* A review begins; the author
  edits; a check passes on the new tree; the review of the old one is recorded; `close`
  accepts (`ospec.js:1025-1034`, `TREE_BOUND` in `lib/idd-close.js:126-132`).
  `check --close` looks again, which is why `CheckedCloseReviewed` is about it.
- *The directory of a change is removed only when its archive is in place*, when
  an archive of that name exists beforehand: `archive_reuse`, and a longer one
  through a failed staging.
- *A review that is migrated late ends*: migrated while it validates or corrects, it
  has slices nobody can begin; migrated while a correction is required, a slice is marked
  passed though a failed validation named its finding.
- *What a recheck verified is the candidate*: a runner reads the tree before it
  runs its recipes, and an edit in between is not seen.
- *Attempts are never given back*: the recheck's state is written without a lock over what was read
  (`lib/verify-lineage.js:593-606`), and may restore a lineage with fewer attempts.
- *A remediation begins on the tree of its candidate*: preparing one does not compare
  the two.
- *A lineage can always be terminated*: one that waits for a recheck and lost its
  snapshot cannot.

## 7. Not modelled

The map covers a small share of the repository's lines. Most of the code is outside
what a state machine says anything about: an installer and its terminal interface,
renderings and transformations of text for five targets, parsers of configuration, documents and
diffs, diagnostics, validators of the shape of a record, routing tables. Modelling
them would be a transliteration without a state to check.

- *SDD lifecycle kernel*: the reducer that says which phase may follow is pure, and
  applies as one locked write. What makes phases hard is that agents write the same
  fields by hand, as their instructions tell them (`agents/sdd-orchestrator.agent.md:329`,
  `skills/sdd-apply/SKILL.md:63`, `skills/sdd-verify/SKILL.md:95-99`), so no property of
  the reducer is one of the state. Read for this: a replay is recognised by the last payload of the
  phase only, and `blocked` leaves the verdict of an earlier verification.
- *Execution graph, assurance graph, independent verifier, progress snapshots*:
  deterministic functions of recorded data without actors.
- *Session hooks*: policies on one tool call; what they append goes through the lock of
  StateStore. *Native hooks and store*: the Go ports of the same.
- *Installer, federation, routing, skills, targets, doctor*: reads and copies in one sequence.
- *Next-step guidance, configuration and catalogs, knowledge map and decision records*:
  wording and readers; the models take what they yield as inputs.

What is left out of the parts that are modelled is in section 3 and in the notes of
`PROJECT.json`.

## 8. Plan

In this order:

1. CloseArchive with two changes over one changelog, once the changelog is locked.
2. The next discovery of a verify lineage after its last successor, and late
   observations.

## 9. Running

In this directory, with TLC, the community modules and TLAPS at hand:

    tlasany M.tla                                # parse a module
    tlc -workers 2 -config store_serial.cfg MCStateStore.tla
    tlapm StateStore_proofs.tla                  # check its proofs

The run, module and configuration of each check are the rows of `runs` in
`PROJECT.json`. The longest, `reviews`, takes about three minutes.
