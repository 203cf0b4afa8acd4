----------------------------- MODULE StateStore -----------------------------
(***************************************************************************)
(* The store of one change's state: `mutateChange` (lib/idd-store.js) over *)
(* `withFileLock` (lib/ospec-state.js) and `writeFileAtomic`               *)
(* (lib/atomic-write.js).  Each member of Proc is one command, run by its  *)
(* own operating-system process; a command takes the advisory lock file,   *)
(* reads the state, reduces it, checks that the lock is still its own,     *)
(* writes a temporary file, renames it over the state, syncs the directory *)
(* and renders the living document, then releases the lock.                *)
(*                                                                         *)
(* Every filesystem call is a step of its own, so a process may be         *)
(* overtaken, killed or stalled between any two of them.  The state is     *)
(* abstracted to the set of commands whose update it holds.                *)
(***************************************************************************)
EXTENDS Naturals, FiniteSets

CONSTANTS Proc,        \* the commands
          MaxTries,    \* LOCK_RETRY_ATTEMPTS
          MaxCrashes,  \* how many processes may be killed
          MaxCuts,     \* how many power cuts may happen
          CanStall     \* may a live process stop for longer than LOCK_STALE_MS?

ASSUME StoreAssumption ==
  /\ MaxTries \in Nat /\ MaxCrashes \in Nat /\ MaxCuts \in Nat
  /\ CanStall \in BOOLEAN
  /\ "nobody" \notin Proc

VARIABLES
  lock,      \* the lock file: NoLock, or who created it, its token, its age
  phase,     \* phase[p]: the next call p makes
  tries,     \* tries[p]: `attempt` of withFileLock
  view,      \* view[p]: the state p read, and after reducing the one it writes
  state,     \* the state file as every process reads it
  disk,      \* the contents the state file may have after a power cut
  temp,      \* temp[p]: p's temporary file
  oldTemps,  \* whose temporary file is older than STALE_TEMP_MS
  doc,       \* the state the living document was last rendered from
  result,    \* result[p]: what p's caller is told
  crashes, cuts

vars == <<lock, phase, tries, view, state, disk, temp, oldTemps, doc, result,
          crashes, cuts>>
memory == <<tries, view>>
files  == <<state, disk, temp, oldTemps, doc>>
faults == <<crashes, cuts>>

\* `fs.open(lockPath, "wx")` makes an empty file; the token is a second call.
Lock   == [owner : Proc, token : BOOLEAN, stale : BOOLEAN]
NoLock == [owner |-> "nobody", token |-> FALSE, stale |-> FALSE]

Waiting == {"open", "stat", "remove", "wait"}
Holding == {"token", "read", "assert", "clean", "temp", "rename", "sync", "doc",
            "release", "unlock"}
Phase   == {"idle", "ended", "dead"} \union Waiting \union Holding

TypeOK ==
  /\ lock \in Lock \union {NoLock}
  /\ phase \in [Proc -> Phase]
  /\ tries \in [Proc -> 0 .. MaxTries]
  /\ view \in [Proc -> SUBSET Proc]
  /\ state \in [ops : SUBSET Proc, synced : BOOLEAN]
  /\ disk \in SUBSET SUBSET Proc
  /\ temp \in [Proc -> {"none", "unsynced", "synced"}]
  /\ oldTemps \in SUBSET Proc
  /\ doc \in SUBSET Proc
  /\ result \in [Proc -> {"none", "written", "unchanged", "refused", "busy", "failed"}]
  /\ crashes \in 0 .. MaxCrashes
  /\ cuts \in 0 .. MaxCuts

Init ==
  /\ lock = NoLock
  /\ phase = [p \in Proc |-> "idle"]
  /\ tries = [p \in Proc |-> 0]
  /\ view = [p \in Proc |-> {}]
  /\ state = [ops |-> {}, synced |-> TRUE]
  /\ disk = {{}}
  /\ temp = [p \in Proc |-> "none"]
  /\ oldTemps = {}
  /\ doc = {}
  /\ result = [p \in Proc |-> "none"]
  /\ crashes = 0
  /\ cuts = 0

Live(p) == phase[p] \notin {"idle", "ended", "dead"}

Goto(p, to) == phase' = [phase EXCEPT ![p] = to]
Report(p, what) == result' = [result EXCEPT ![p] = what]

\* lockOwnedBy: the file's content is this process's token.
OwnedBy(p) == lock.owner = p /\ lock.token

-----------------------------------------------------------------------------
(* Taking the lock *)

Start(p) ==
  /\ phase[p] = "idle"
  /\ Goto(p, "open")
  /\ UNCHANGED <<lock, memory, files, result, faults>>

\* The exclusive create either makes the file or fails with EEXIST.
Acquire(p) ==
  /\ phase[p] = "open"
  /\ lock = NoLock
  /\ lock' = [owner |-> p, token |-> FALSE, stale |-> FALSE]
  /\ Goto(p, "token")
  /\ UNCHANGED <<memory, files, result, faults>>

Contend(p) ==
  /\ phase[p] = "open"
  /\ lock # NoLock
  /\ Goto(p, "stat")
  /\ UNCHANGED <<lock, memory, files, result, faults>>

\* Mutant: the age of the lock is not compared with staleMs.
StatAnyLock(p) ==
  /\ phase[p] = "stat"
  /\ Goto(p, "remove")
  /\ UNCHANGED <<lock, memory, files, result, faults>>

\* reclaimStaleLock: the age is read here and acted on by the next call.
StatLock(p) ==
  /\ phase[p] = "stat"
  /\ Goto(p, IF lock.stale THEN "remove" ELSE "wait")
  /\ UNCHANGED <<lock, memory, files, result, faults>>

\* `fs.rm(lockPath, {force: true})` removes whatever lock is there by now.
ReclaimLock(p) ==
  /\ phase[p] = "remove"
  /\ lock' = NoLock
  /\ Goto(p, "wait")
  /\ UNCHANGED <<memory, files, result, faults>>

\* Mutant: the retry budget is never checked.
RetryForever(p) ==
  /\ phase[p] = "wait"
  /\ Goto(p, "open")
  /\ UNCHANGED <<lock, memory, files, result, faults>>

\* Mutant: one retry more than the budget.
RetryOnceMore(p) ==
  /\ phase[p] = "wait"
  /\ IF tries[p] > MaxTries
       THEN /\ Report(p, "busy")
            /\ Goto(p, "ended")
            /\ UNCHANGED tries
       ELSE /\ tries' = [tries EXCEPT ![p] = @ + 1]
            /\ Goto(p, "open")
            /\ UNCHANGED result
  /\ UNCHANGED <<lock, view, files, faults>>

Retry(p) ==
  /\ phase[p] = "wait"
  /\ IF tries[p] >= MaxTries
       THEN /\ Report(p, "busy")
            /\ Goto(p, "ended")
            /\ UNCHANGED tries
       ELSE /\ tries' = [tries EXCEPT ![p] = @ + 1]
            /\ Goto(p, "open")
            /\ UNCHANGED result
  /\ UNCHANGED <<lock, view, files, faults>>

\* The token goes through the handle: into p's own file, even when that file
\* is no longer the one the path names.
WriteToken(p) ==
  /\ phase[p] = "token"
  /\ lock' = IF lock.owner = p THEN [lock EXCEPT !.token = TRUE] ELSE lock
  /\ Goto(p, "read")
  /\ UNCHANGED <<memory, files, result, faults>>

\* When the token cannot be written the lock is removed without a check.
TokenFails(p) ==
  /\ phase[p] = "token"
  /\ lock' = NoLock
  /\ Report(p, "failed")
  /\ Goto(p, "ended")
  /\ UNCHANGED <<memory, files, faults>>

\* refreshLock, on a timer while `run` works.
Heartbeat(p) ==
  /\ phase[p] \in Holding
  /\ OwnedBy(p)
  /\ lock' = [lock EXCEPT !.stale = FALSE]
  /\ UNCHANGED <<phase, memory, files, result, faults>>

-----------------------------------------------------------------------------
(* Reading, reducing and writing the state *)

\* readChange, then the reducer: it may change the state, find nothing to
\* change, or refuse (as validateState may refuse its result).
ReadAndReduce(p) ==
  /\ phase[p] = "read"
  /\ \/ /\ view' = [view EXCEPT ![p] = state.ops \union {p}]
        /\ Goto(p, "assert")
        /\ UNCHANGED result
     \/ /\ view' = [view EXCEPT ![p] = state.ops]
        /\ Report(p, "unchanged")
        /\ Goto(p, "doc")
     \/ /\ Report(p, "refused")
        /\ Goto(p, "release")
        /\ UNCHANGED view
  /\ UNCHANGED <<lock, tries, files, faults>>

\* assertOwned: throws lock-lost, and nothing is written.
AssertOwned(p) ==
  /\ phase[p] = "assert"
  /\ IF OwnedBy(p)
       THEN Goto(p, "clean") /\ UNCHANGED result
       ELSE Goto(p, "release") /\ Report(p, "refused")
  /\ UNCHANGED <<lock, memory, files, faults>>

\* removeStaleTemps: the temporary files that look like a dead writer's.
CleanTemps(p) ==
  /\ phase[p] = "clean"
  /\ temp' = [q \in Proc |-> IF q \in oldTemps THEN "none" ELSE temp[q]]
  /\ oldTemps' = {}
  /\ Goto(p, "temp")
  /\ UNCHANGED <<lock, memory, state, disk, doc, result, faults>>

\* writeDurably: create, write, sync.
WriteTemp(p) ==
  /\ phase[p] = "temp"
  /\ temp' = [temp EXCEPT ![p] = "synced"]
  /\ Goto(p, "rename")
  /\ UNCHANGED <<lock, memory, state, disk, oldTemps, doc, result, faults>>

\* renameOver; a temporary file someone cleaned away makes it fail (IOFails).
RenameOver(p) ==
  /\ phase[p] = "rename"
  /\ temp[p] # "none"
  /\ state' = [ops |-> view[p], synced |-> temp[p] = "synced"]
  /\ disk' = disk \union {view[p]}
  /\ temp' = [temp EXCEPT ![p] = "none"]
  /\ oldTemps' = oldTemps \ {p}
  /\ Goto(p, "sync")
  /\ UNCHANGED <<lock, memory, doc, result, faults>>

\* Mutant: the directory entry is left to the page cache.
SyncNothing(p) ==
  /\ phase[p] = "sync"
  /\ Report(p, "written")
  /\ Goto(p, "doc")
  /\ UNCHANGED <<lock, memory, files, faults>>

\* syncDirectory: the name points to its present content for good; writeFile
\* returns to mutateChange.
SyncDirectory(p) ==
  /\ phase[p] = "sync"
  /\ disk' = {state.ops}
  /\ Report(p, "written")
  /\ Goto(p, "doc")
  /\ UNCHANGED <<lock, memory, state, temp, oldTemps, doc, faults>>

\* ensureLivingDoc renders the result it was given; the lock is not checked again.
RenderDoc(p) ==
  /\ phase[p] = "doc"
  /\ doc' = view[p]
  /\ Goto(p, "release")
  /\ UNCHANGED <<lock, memory, state, disk, temp, oldTemps, result, faults>>

\* A filesystem call of `run` throws: the temporary file is unlinked and the
\* command fails.  What was renamed into place stays.
IOFails(p) ==
  /\ phase[p] \in {"read", "temp", "rename", "sync", "doc"}
  /\ Report(p, "failed")
  /\ temp' = [temp EXCEPT ![p] = "none"]
  /\ oldTemps' = oldTemps \ {p}
  /\ Goto(p, "release")
  /\ UNCHANGED <<lock, memory, state, disk, doc, faults>>

-----------------------------------------------------------------------------
(* Releasing the lock: the token is read first, the file removed by the next call *)

Release(p) ==
  /\ phase[p] = "release"
  /\ Goto(p, IF OwnedBy(p) THEN "unlock" ELSE "ended")
  /\ UNCHANGED <<lock, memory, files, result, faults>>

Unlock(p) ==
  /\ phase[p] = "unlock"
  /\ lock' = NoLock
  /\ Goto(p, "ended")
  /\ UNCHANGED <<memory, files, result, faults>>

-----------------------------------------------------------------------------
(* Faults *)

\* The process is killed between two calls.
Crash(p) ==
  /\ Live(p)
  /\ crashes < MaxCrashes
  /\ crashes' = crashes + 1
  /\ Goto(p, "dead")
  /\ UNCHANGED <<lock, memory, files, result, cuts>>

\* Every running process is gone; a name whose directory was not synced may
\* point to an older content again, and content that was not synced may read
\* back as anything.
PowerCut ==
  /\ cuts < MaxCuts
  /\ cuts' = cuts + 1
  /\ phase' = [p \in Proc |-> IF Live(p) THEN "dead" ELSE phase[p]]
  /\ lock' \in {lock, NoLock}
  /\ \E kept \in IF state.synced THEN disk ELSE SUBSET Proc :
       /\ state' = [ops |-> kept, synced |-> TRUE]
       /\ disk' = {kept}
  /\ UNCHANGED <<memory, temp, oldTemps, doc, result, crashes>>

\* Five seconds pass without a heartbeat: the owner is dead, or stalled.
LockAges ==
  /\ lock # NoLock /\ ~lock.stale
  /\ CanStall \/ phase[lock.owner] = "dead"
  /\ lock' = [lock EXCEPT !.stale = TRUE]
  /\ UNCHANGED <<phase, memory, files, result, faults>>

TempAges(p) ==
  /\ temp[p] # "none" /\ p \notin oldTemps
  /\ CanStall \/ phase[p] = "dead"
  /\ oldTemps' = oldTemps \union {p}
  /\ UNCHANGED <<lock, phase, memory, state, disk, temp, doc, result, faults>>

\* Every command has ended and nothing is left to happen.
Finished ==
  /\ \A p \in Proc : phase[p] \in {"ended", "dead"}
  /\ UNCHANGED vars

Step(p) ==
  \/ Acquire(p) \/ Contend(p) \/ StatLock(p) \/ ReclaimLock(p) \/ Retry(p)
  \/ WriteToken(p) \/ TokenFails(p)
  \/ ReadAndReduce(p) \/ AssertOwned(p) \/ CleanTemps(p) \/ WriteTemp(p)
  \/ RenameOver(p) \/ SyncDirectory(p) \/ RenderDoc(p) \/ IOFails(p)
  \/ Release(p) \/ Unlock(p)

Next ==
  \/ \E p \in Proc : Start(p) \/ Step(p) \/ Heartbeat(p) \/ Crash(p) \/ TempAges(p)
  \/ PowerCut \/ LockAges \/ Finished

Spec == Init /\ [][Next]_vars

\* Node runs the continuations of a started command until it ends; nothing
\* obliges a command to start, a fault to happen or a lock to grow old.
Fairness == \A p \in Proc : WF_vars(Step(p))

FairSpec == Spec /\ Fairness

-----------------------------------------------------------------------------
(* Properties *)

\* Two commands are never both between taking the lock and releasing it
\* (REQ-idd-027: a waiter runs only after the owner finishes).
MutualExclusion ==
  \A p, q \in Proc : phase[p] \in Holding /\ phase[q] \in Holding => p = q

\* A command that was told "written" finds its update in the state from then
\* on: no later writer replaces the file by one computed from an older read
\* (REQ-idd-027: two processes lose no write).
NoLostWrite == \A p \in Proc : result[p] = "written" => p \in state.ops

\* Once no command is working, the living document shows the state
\* (mutateChange renders it after each write, under the same lock), unless
\* rendering itself failed.
DocFollowsState ==
  (\A p \in Proc : phase[p] \in {"idle", "ended"} /\ result[p] # "failed")
    => doc = state.ops

\* After a power cut the state is whole: the content of one rename, of the last
\* one or, only while its directory is not synced, of an earlier one
\* (REQ-idd-027: the state survives a power cut).
CutKeepsOneWrite ==
  [][cuts' # cuts =>
       /\ state'.ops \in disk
       /\ (\A p \in Proc : phase[p] # "sync" /\ result[p] # "failed" /\ phase[p] # "dead")
            => state'.ops = state.ops]_vars

\* A command that started ends: with an answer, or because it was killed.
\* The lock of a dead owner does not hold it for ever.
EveryCommandEnds ==
  \A p \in Proc : phase[p] = "open" ~> phase[p] \in {"ended", "dead"}

-----------------------------------------------------------------------------
(* The abstract store this one implements while no process dies or stalls *)

Atomic == INSTANCE AtomicStore
            WITH applied  <- state.ops,
                 answered <- {p \in Proc : phase[p] = "ended" /\ result[p] = "written"}

ImplementsAtomicStore == Atomic!Spec

=============================================================================
