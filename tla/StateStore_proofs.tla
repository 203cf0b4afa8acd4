-------------------------- MODULE StateStore_proofs --------------------------
(***************************************************************************)
(* Proofs about the store, for any commands, retry budget, failing calls,  *)
(* kills and power cuts.                                                   *)
(*                                                                         *)
(* What excludes the commands is the lock file, and what breaks it is      *)
(* reclaiming: reclaimStaleLock judges the age of one lock and removes     *)
(* whichever is there later.  While live processes keep their locks fresh, *)
(* that goes wrong in one way only, that two commands reclaim at a time:   *)
(* the second removes the lock the first has taken since (the run          *)
(* store_lock_race).  So exclusion, the writes, the living document and    *)
(* the refinement of AtomicStore are proved of the behaviours in which no  *)
(* two reclaim at a time, whoever is killed, and of every behaviour where  *)
(* that cannot happen: nobody dies, or there are two commands.             *)
(***************************************************************************)
EXTENDS StateStore, TLAPS

\* Between its judgement of a lock and the removal, a command reclaims alone.
OneReclaims == \A p, q \in Proc : phase[p] = "remove" /\ phase[q] = "remove" => p = q

\* A live process refreshes its lock in time.
NoStalls == CanStall = FALSE

\* Where that never happens.
Calm == NoStalls /\ MaxCrashes = 0 /\ MaxCuts = 0
Pair == NoStalls /\ \E a, b : Proc \subseteq {a, b}

-----------------------------------------------------------------------------
(* The inductive invariant *)

\* Only the lock of a dead command grows old, and who is about to remove a lock
\* removes such a one.
OldLocksAreDead ==
  /\ lock.stale => lock.owner \in Proc /\ phase[lock.owner] = "dead"
  /\ \A p \in Proc : phase[p] = "remove" => lock.stale

\* Whoever is past the exclusive create is the one the lock file names.
HolderOwnsLock ==
  \A p \in Proc : phase[p] \in Holding =>
    lock.owner = p /\ (phase[p] # "token" => lock.token)

\* What a command is about to write is the present state and its own update.
ViewIsCurrent ==
  /\ \A p \in Proc : phase[p] \in {"assert", "clean", "temp", "rename"} =>
       view[p] = state.ops \union {p}
  /\ \A p \in Proc :
       phase[p] \in {"idle", "token", "read", "assert", "clean", "temp", "rename"} \union Waiting =>
       p \notin state.ops

WriterIsIn == \A p \in Proc : phase[p] = "sync" => p \in state.ops

\* Only a temporary file that was synced is renamed into place.
SyncedBeforeRename == state.synced /\ \A p \in Proc : temp[p] # "unsynced"

\* What a power cut may bring back is a past state with every update that was
\* answered as written.
DiskIsPast ==
  \A k \in disk : k \subseteq state.ops /\ \A p \in Proc : result[p] = "written" => p \in k

IInv ==
  /\ TypeOK /\ OldLocksAreDead /\ HolderOwnsLock /\ ViewIsCurrent /\ WriterIsIn
  /\ SyncedBeforeRename /\ DiskIsPast /\ NoLostWrite

\* The initial state satisfies the inductive invariant.
LEMMA InitIInv == Init => IInv
BY StoreAssumption DEF Init, IInv, TypeOK, OldLocksAreDead, HolderOwnsLock, ViewIsCurrent, WriterIsIn,
       SyncedBeforeRename, DiskIsPast, NoLostWrite, NoLock, Lock, Phase, Waiting, Holding

\* Every step preserves the types, faults included.
LEMMA TypePreserved == TypeOK /\ [Next]_vars => TypeOK'
<1> SUFFICES ASSUME TypeOK, [Next]_vars PROVE TypeOK'
  OBVIOUS
<1> USE StoreAssumption DEF TypeOK, Lock, NoLock, Phase, Waiting, Holding, Goto, Report,
        memory, files, faults
<1>1. ASSUME NEW p \in Proc, Start(p) PROVE TypeOK'
  BY <1>1 DEF Start
<1>2. ASSUME NEW p \in Proc, Acquire(p) PROVE TypeOK'
  BY <1>2 DEF Acquire
<1>3. ASSUME NEW p \in Proc, Contend(p) PROVE TypeOK'
  BY <1>3 DEF Contend
<1>4. ASSUME NEW p \in Proc, StatLock(p) PROVE TypeOK'
  BY <1>4 DEF StatLock
<1>5. ASSUME NEW p \in Proc, ReclaimLock(p) PROVE TypeOK'
  BY <1>5 DEF ReclaimLock
<1>6. ASSUME NEW p \in Proc, Retry(p) PROVE TypeOK'
  BY <1>6 DEF Retry
<1>7. ASSUME NEW p \in Proc, WriteToken(p) PROVE TypeOK'
  <2>1. lock.owner = p => lock \in Lock
    OBVIOUS
  <2>2. lock' \in Lock \union {NoLock}
    BY <1>7, <2>1 DEF WriteToken
  <2> QED
    BY <1>7, <2>2 DEF WriteToken
<1>8. ASSUME NEW p \in Proc, TokenFails(p) PROVE TypeOK'
  BY <1>8 DEF TokenFails
<1>9. ASSUME NEW p \in Proc, ReadAndReduce(p) PROVE TypeOK'
  BY <1>9 DEF ReadAndReduce
<1>10. ASSUME NEW p \in Proc, AssertOwned(p) PROVE TypeOK'
  BY <1>10 DEF AssertOwned, OwnedBy
<1>11. ASSUME NEW p \in Proc, CleanTemps(p) PROVE TypeOK'
  BY <1>11 DEF CleanTemps
<1>12. ASSUME NEW p \in Proc, WriteTemp(p) PROVE TypeOK'
  BY <1>12 DEF WriteTemp
<1>13. ASSUME NEW p \in Proc, RenameOver(p) PROVE TypeOK'
  BY <1>13 DEF RenameOver
<1>14. ASSUME NEW p \in Proc, SyncDirectory(p) PROVE TypeOK'
  BY <1>14 DEF SyncDirectory
<1>15. ASSUME NEW p \in Proc, RenderDoc(p) PROVE TypeOK'
  BY <1>15 DEF RenderDoc
<1>16. ASSUME NEW p \in Proc, IOFails(p) PROVE TypeOK'
  BY <1>16 DEF IOFails
<1>17. ASSUME NEW p \in Proc, Release(p) PROVE TypeOK'
  BY <1>17 DEF Release, OwnedBy
<1>18. ASSUME NEW p \in Proc, Unlock(p) PROVE TypeOK'
  BY <1>18 DEF Unlock
<1>19. ASSUME NEW p \in Proc, Heartbeat(p) PROVE TypeOK'
  BY <1>19 DEF Heartbeat, OwnedBy
<1>20. ASSUME NEW p \in Proc, Crash(p) PROVE TypeOK'
  BY <1>20 DEF Crash, Live
<1>21. ASSUME NEW p \in Proc, TempAges(p) PROVE TypeOK'
  BY <1>21 DEF TempAges
<1>22. CASE PowerCut
  BY <1>22 DEF PowerCut, Live
<1>23. CASE LockAges
  BY <1>23 DEF LockAges
<1>24. CASE Finished
  BY <1>24 DEF Finished, vars
<1>25. CASE UNCHANGED vars
  BY <1>25 DEF vars
<1> QED
  BY <1>1, <1>2, <1>3, <1>4, <1>5, <1>6, <1>7, <1>8, <1>9, <1>10, <1>11, <1>12, <1>13, <1>14, <1>15, <1>16, <1>17, <1>18, <1>19, <1>20, <1>21, <1>22, <1>23, <1>24, <1>25 DEF Next, Step

\* A command that failed only releases its lock.
FailedIsOver ==
  \A p \in Proc : result[p] = "failed" => phase[p] \in {"release", "unlock", "ended", "dead"}

\* A step of a command leaves the others where they are, and a failure stands.
LEMMA FailedStays ==
  ASSUME TypeOK, FailedIsOver, [Next]_vars
  PROVE  /\ FailedIsOver'
         /\ \A p \in Proc : result[p] = "failed" => result'[p] = "failed"
<1> USE DEF TypeOK, FailedIsOver, Goto, Report, memory, files, faults
<1>1. ASSUME NEW p \in Proc, Start(p) \/ Acquire(p) \/ Contend(p) \/ StatLock(p) \/ ReclaimLock(p)
      PROVE  FailedIsOver' /\ \A q \in Proc : result[q] = "failed" => result'[q] = "failed"
  BY <1>1 DEF Start, Acquire, Contend, StatLock, ReclaimLock
<1>2. ASSUME NEW p \in Proc, Retry(p)
      PROVE  FailedIsOver' /\ \A q \in Proc : result[q] = "failed" => result'[q] = "failed"
  BY <1>2 DEF Retry
<1>3. ASSUME NEW p \in Proc, WriteToken(p) \/ TokenFails(p) \/ AssertOwned(p) \/ CleanTemps(p)
      PROVE  FailedIsOver' /\ \A q \in Proc : result[q] = "failed" => result'[q] = "failed"
  BY <1>3 DEF WriteToken, TokenFails, AssertOwned, CleanTemps
<1>4. ASSUME NEW p \in Proc, ReadAndReduce(p)
      PROVE  FailedIsOver' /\ \A q \in Proc : result[q] = "failed" => result'[q] = "failed"
  BY <1>4 DEF ReadAndReduce
<1>5. ASSUME NEW p \in Proc, WriteTemp(p) \/ RenameOver(p) \/ SyncDirectory(p) \/ RenderDoc(p) \/ IOFails(p)
      PROVE  FailedIsOver' /\ \A q \in Proc : result[q] = "failed" => result'[q] = "failed"
  BY <1>5 DEF WriteTemp, RenameOver, SyncDirectory, RenderDoc, IOFails
<1>6. ASSUME NEW p \in Proc, Release(p) \/ Unlock(p) \/ Heartbeat(p) \/ Crash(p) \/ TempAges(p)
      PROVE  FailedIsOver' /\ \A q \in Proc : result[q] = "failed" => result'[q] = "failed"
  BY <1>6 DEF Release, Unlock, Heartbeat, Crash, TempAges
<1>7. CASE PowerCut \/ LockAges \/ UNCHANGED vars
  BY <1>7 DEF PowerCut, LockAges, vars
<1> QED
  BY <1>1, <1>2, <1>3, <1>4, <1>5, <1>6, <1>7 DEF Next, Step, Finished

LEMMA SyncedStays ==
  ASSUME TypeOK, SyncedBeforeRename, [Next]_vars
  PROVE  SyncedBeforeRename'
<1> USE DEF TypeOK, SyncedBeforeRename, memory, files, faults
<1>1. ASSUME NEW p \in Proc,
             \/ Start(p) \/ Acquire(p) \/ Contend(p) \/ StatLock(p) \/ ReclaimLock(p) \/ Retry(p)
             \/ WriteToken(p) \/ TokenFails(p) \/ ReadAndReduce(p) \/ AssertOwned(p)
             \/ SyncDirectory(p) \/ RenderDoc(p) \/ Release(p) \/ Unlock(p)
             \/ Heartbeat(p) \/ Crash(p) \/ TempAges(p)
      PROVE  SyncedBeforeRename'
  BY <1>1 DEF Start, Acquire, Contend, StatLock, ReclaimLock, Retry, WriteToken, TokenFails,
              ReadAndReduce, AssertOwned, SyncDirectory, RenderDoc, Release, Unlock,
              Heartbeat, Crash, TempAges
<1>2. ASSUME NEW p \in Proc, CleanTemps(p) \/ WriteTemp(p) \/ IOFails(p)
      PROVE  SyncedBeforeRename'
  BY <1>2 DEF CleanTemps, WriteTemp, IOFails
<1>3. ASSUME NEW p \in Proc, RenameOver(p) PROVE SyncedBeforeRename'
  BY <1>3 DEF RenameOver
<1>4. CASE PowerCut
  BY <1>4 DEF PowerCut
<1>5. CASE LockAges \/ UNCHANGED vars
  BY <1>5 DEF LockAges, vars
<1> QED
  BY <1>1, <1>2, <1>3, <1>4, <1>5 DEF Next, Step, Finished

\* Every step preserves the inductive invariant, whoever is killed, as long as one
\* command reclaims at a time.
LEMMA IInvPreserved ==
  ASSUME NoStalls, OneReclaims, IInv, [Next]_vars
  PROVE  IInv'
<1> USE DEF NoStalls, IInv, OldLocksAreDead, HolderOwnsLock, ViewIsCurrent, WriterIsIn, DiskIsPast,
        NoLostWrite, Waiting, Holding, Goto, Report, memory, files, faults
<1>0. TypeOK' /\ SyncedBeforeRename'
  BY TypePreserved, SyncedStays
<1>a. /\ phase \in [Proc -> Phase] /\ result \in [Proc -> {"none", "written", "unchanged", "refused", "busy", "failed"}]
      /\ view \in [Proc -> SUBSET Proc]
  BY DEF TypeOK
<1>1. ASSUME NEW p \in Proc, Start(p) PROVE IInv'
  BY <1>0, <1>a, <1>1 DEF Start
<1>2. ASSUME NEW p \in Proc, Acquire(p) PROVE IInv'
  BY <1>0, <1>a, <1>2, StoreAssumption DEF Acquire, NoLock
<1>3. ASSUME NEW p \in Proc, Contend(p) PROVE IInv'
  BY <1>0, <1>a, <1>3 DEF Contend
<1>4. ASSUME NEW p \in Proc, StatLock(p) PROVE IInv'
  BY <1>0, <1>a, <1>4 DEF StatLock
<1>5. ASSUME NEW p \in Proc, ReclaimLock(p) PROVE IInv'
  BY <1>0, <1>a, <1>5 DEF ReclaimLock, NoLock, OneReclaims
<1>6. ASSUME NEW p \in Proc, Retry(p) PROVE IInv'
  BY <1>0, <1>a, <1>6 DEF Retry
<1>7. ASSUME NEW p \in Proc, WriteToken(p) PROVE IInv'
  BY <1>0, <1>a, <1>7 DEF WriteToken
<1>8. ASSUME NEW p \in Proc, TokenFails(p) PROVE IInv'
  BY <1>0, <1>a, <1>8 DEF TokenFails, NoLock
<1>9. ASSUME NEW p \in Proc, ReadAndReduce(p) PROVE IInv'
  BY <1>0, <1>a, <1>9 DEF ReadAndReduce
<1>10. ASSUME NEW p \in Proc, AssertOwned(p) PROVE IInv'
  BY <1>0, <1>a, <1>10 DEF AssertOwned, OwnedBy
<1>11. ASSUME NEW p \in Proc, CleanTemps(p) PROVE IInv'
  BY <1>0, <1>a, <1>11 DEF CleanTemps
<1>12. ASSUME NEW p \in Proc, WriteTemp(p) PROVE IInv'
  BY <1>0, <1>a, <1>12 DEF WriteTemp
<1>13. ASSUME NEW p \in Proc, RenameOver(p) PROVE IInv'
  BY <1>0, <1>a, <1>13 DEF RenameOver
<1>14. ASSUME NEW p \in Proc, SyncDirectory(p) PROVE IInv'
  BY <1>0, <1>a, <1>14 DEF SyncDirectory
<1>15. ASSUME NEW p \in Proc, RenderDoc(p) PROVE IInv'
  BY <1>0, <1>a, <1>15 DEF RenderDoc
<1>16. ASSUME NEW p \in Proc, IOFails(p) PROVE IInv'
  BY <1>0, <1>a, <1>16 DEF IOFails
<1>17. ASSUME NEW p \in Proc, Release(p) PROVE IInv'
  BY <1>0, <1>a, <1>17 DEF Release, OwnedBy
<1>18. ASSUME NEW p \in Proc, Unlock(p) PROVE IInv'
  BY <1>0, <1>a, <1>18 DEF Unlock, NoLock
<1>19. ASSUME NEW p \in Proc, Heartbeat(p) PROVE IInv'
  BY <1>0, <1>a, <1>19 DEF Heartbeat, OwnedBy
<1>20. ASSUME NEW p \in Proc, Crash(p) PROVE IInv'
  BY <1>0, <1>a, <1>20 DEF Crash, Live
<1>21. ASSUME NEW p \in Proc, TempAges(p) PROVE IInv'
  BY <1>0, <1>a, <1>21 DEF TempAges
<1>22. CASE PowerCut
  BY <1>0, <1>a, <1>22 DEF PowerCut, Live, NoLock, SyncedBeforeRename, Phase
<1>23. CASE LockAges
  BY <1>0, <1>a, <1>23 DEF LockAges, TypeOK, Lock
<1>24. CASE UNCHANGED vars
  BY <1>0, <1>a, <1>24 DEF vars
<1> QED
  BY <1>1, <1>2, <1>3, <1>4, <1>5, <1>6, <1>7, <1>8, <1>9, <1>10, <1>11, <1>12, <1>13, <1>14, <1>15, <1>16, <1>17, <1>18, <1>19, <1>20, <1>21, <1>22, <1>23, <1>24 DEF Next, Step, Finished

-----------------------------------------------------------------------------
\* TypeOK holds for any number of commands, kills, power cuts and stalls.
THEOREM TypeCorrect == Spec => []TypeOK
<1>1. Init => TypeOK
  BY InitIInv DEF IInv
<1> QED
  BY <1>1, TypePreserved, PTL DEF Spec

\* The inductive invariant holds while commands reclaim one at a time.
LEMMA Invariance == ASSUME NoStalls PROVE Spec /\ []OneReclaims => []IInv
<1>1. IInv /\ OneReclaims /\ [Next]_vars => IInv'
  BY IInvPreserved
<1> QED
  BY <1>1, InitIInv, PTL DEF Spec

\* reclaimStaleLock: two commands reclaim at a time only when a third one died,
\* or when the power came back.
LEMMA ReclaimAlone ==
  ASSUME Calm \/ Pair
  PROVE  Spec => []OneReclaims /\ []IInv
<1> DEFINE NobodyDied == Calm => \A p \in Proc : phase[p] # "dead"
<1>1. NoStalls
  BY DEF Calm, Pair
<1>2. ASSUME IInv, NobodyDied PROVE OneReclaims
  <2> SUFFICES ASSUME NEW p \in Proc, NEW q \in Proc, phase[p] = "remove", phase[q] = "remove", p # q
               PROVE  FALSE
    BY DEF OneReclaims
  <2>1. lock.owner \in Proc /\ phase[lock.owner] = "dead"
    BY <1>2 DEF IInv, OldLocksAreDead
  <2>2. lock.owner # p /\ lock.owner # q
    BY <2>1
  <2> QED
    BY <1>2, <2>1, <2>2 DEF Pair
<1>3. Init => NobodyDied
  BY DEF Init
<1>4. ASSUME IInv, NobodyDied, [Next]_vars PROVE NobodyDied'
  <2> SUFFICES ASSUME Calm PROVE \A p \in Proc : phase'[p] # "dead"
    OBVIOUS
  <2>1. /\ phase \in [Proc -> Phase] /\ crashes \in 0 .. 0 /\ cuts \in 0 .. 0
        /\ \A p \in Proc : phase[p] # "dead"
    BY <1>4 DEF IInv, TypeOK, Calm
  <2>2. ~PowerCut /\ \A p \in Proc : ~Crash(p)
    BY <2>1 DEF PowerCut, Crash, Calm
  <2> QED
    BY <1>4, <2>1, <2>2 DEF Next, Step, Start, Acquire, Contend, StatLock, ReclaimLock, Retry,
         WriteToken, TokenFails, ReadAndReduce, AssertOwned, CleanTemps, WriteTemp, RenameOver,
         SyncDirectory, RenderDoc, IOFails, Release, Unlock, Heartbeat, TempAges, LockAges, Finished,
         vars, Goto
<1>5. IInv /\ NobodyDied /\ [Next]_vars => IInv' /\ NobodyDied'
  BY <1>1, <1>2, <1>4, IInvPreserved
<1> QED
  BY <1>2, <1>3, <1>5, InitIInv, PTL DEF Spec

\* withFileLock: at most one command is between taking the lock and releasing
\* it, whoever is killed and wherever, as long as one reclaims at a time.
THEOREM KillsExclude == ASSUME NoStalls PROVE Spec /\ []OneReclaims => []MutualExclusion
<1>1. IInv => MutualExclusion
  BY DEF IInv, HolderOwnsLock, MutualExclusion
<1> QED
  BY <1>1, Invariance, PTL

\* With nobody killed, or with two commands, they always exclude each other.
THEOREM CommandsExclude == ASSUME Calm \/ Pair PROVE Spec => []MutualExclusion
BY KillsExclude, ReclaimAlone, PTL DEF Calm, Pair

\* mutateChange: a command answered "written" stays in the state, through kills
\* and power cuts (REQ-idd-027).
THEOREM KillsKeepWrites == ASSUME NoStalls PROVE Spec /\ []OneReclaims => []NoLostWrite
<1>1. IInv => NoLostWrite
  BY DEF IInv
<1> QED
  BY <1>1, Invariance, PTL

\* With nobody killed, or with two commands, no write is lost.
THEOREM WritesAreKept == ASSUME Calm \/ Pair PROVE Spec => []NoLostWrite
BY KillsKeepWrites, ReclaimAlone, PTL DEF Calm, Pair

-----------------------------------------------------------------------------
(* Refinement *)

\* The rename is the one step at which an update becomes visible; the release
\* is the one at which its command is answered.
LEMMA StepRefines ==
  ASSUME MaxCuts = 0, IInv, [Next]_vars
  PROVE  [Atomic!Next]_(Atomic!vars)
<1> DEFINE answered == {p \in Proc : phase[p] = "ended" /\ result[p] = "written"}
<1> USE DEF Goto, Report, memory, files, faults
<1>a. phase \in [Proc -> Phase] /\ result \in [Proc -> {"none", "written", "unchanged", "refused", "busy", "failed"}]
  BY DEF IInv, TypeOK
<1>b. SUFFICES \/ \E p \in Proc : \/ /\ p \notin state.ops
                                     /\ state'.ops = state.ops \union {p}
                                     /\ answered' = answered
                                  \/ /\ p \in state.ops
                                     /\ answered' = answered \union {p}
                                     /\ state'.ops = state.ops
               \/ state'.ops = state.ops /\ answered' = answered
  BY DEF Atomic!Next, Atomic!Apply, Atomic!Answer, Atomic!vars
<1>1. ASSUME NEW p \in Proc, RenameOver(p)
      PROVE  /\ p \notin state.ops
             /\ state'.ops = state.ops \union {p}
             /\ answered' = answered
  <2>1. phase[p] = "rename" /\ phase' = [phase EXCEPT ![p] = "sync"] /\ result' = result
    BY <1>1 DEF RenameOver
  <2>2. answered' = answered
    BY <2>1, <1>a
  <2> QED
    BY <2>1, <2>2, <1>1 DEF RenameOver, IInv, ViewIsCurrent
<1>2. ASSUME NEW p \in Proc, Release(p) \/ Unlock(p)
      PROVE  /\ state'.ops = state.ops
             /\ \/ answered' = answered
                \/ p \in state.ops /\ answered' = answered \union {p}
  <2>1. state' = state /\ result' = result /\ phase[p] \in {"release", "unlock"}
    BY <1>2 DEF Release, Unlock
  <2>2. \/ phase' = [phase EXCEPT ![p] = "unlock"]
        \/ phase' = [phase EXCEPT ![p] = "ended"]
    BY <1>2 DEF Release, Unlock
  <2>3. CASE phase' = [phase EXCEPT ![p] = "unlock"]
    <3>1. answered' = answered
      BY <2>1, <2>3, <1>a
    <3> QED
      BY <2>1, <3>1
  <2>4. CASE phase' = [phase EXCEPT ![p] = "ended"] /\ result[p] = "written"
    <3>1. answered' = answered \union {p}
      BY <2>1, <2>4, <1>a
    <3>2. p \in state.ops
      BY <2>4 DEF IInv, NoLostWrite
    <3> QED
      BY <2>1, <3>1, <3>2
  <2>5. CASE phase' = [phase EXCEPT ![p] = "ended"] /\ result[p] # "written"
    <3>1. answered' = answered
      BY <2>1, <2>5, <1>a
    <3> QED
      BY <2>1, <3>1
  <2> QED
    BY <2>2, <2>3, <2>4, <2>5
\* Every other step leaves the state alone and moves a command that has not ended.
<1>3. ASSUME NEW p \in Proc,
             \/ Start(p) \/ Acquire(p) \/ Contend(p) \/ StatLock(p) \/ ReclaimLock(p)
             \/ Retry(p) \/ WriteToken(p) \/ TokenFails(p) \/ ReadAndReduce(p)
             \/ AssertOwned(p) \/ CleanTemps(p) \/ WriteTemp(p) \/ SyncDirectory(p)
             \/ RenderDoc(p) \/ IOFails(p)
      PROVE  state'.ops = state.ops /\ answered' = answered
  <2>1. state' = state /\ phase[p] # "ended"
    BY <1>3 DEF Start, Acquire, Contend, StatLock, ReclaimLock, Retry, WriteToken, TokenFails,
                ReadAndReduce, AssertOwned, CleanTemps, WriteTemp, SyncDirectory, RenderDoc, IOFails
  <2>2. \A q \in Proc : q # p => phase'[q] = phase[q] /\ result'[q] = result[q]
    BY <1>3, <1>a DEF Start, Acquire, Contend, StatLock, ReclaimLock, Retry, WriteToken, TokenFails,
                ReadAndReduce, AssertOwned, CleanTemps, WriteTemp, SyncDirectory, RenderDoc, IOFails
  <2>3. ~(phase'[p] = "ended" /\ result'[p] = "written")
    BY <1>3, <1>a DEF Start, Acquire, Contend, StatLock, ReclaimLock, Retry, WriteToken, TokenFails,
                ReadAndReduce, AssertOwned, CleanTemps, WriteTemp, SyncDirectory, RenderDoc, IOFails
  <2> QED
    BY <2>1, <2>2, <2>3
<1>4. ASSUME NEW p \in Proc, Heartbeat(p) \/ TempAges(p)
      PROVE  state'.ops = state.ops /\ answered' = answered
  BY <1>4 DEF Heartbeat, TempAges
<1>5. ASSUME LockAges \/ UNCHANGED vars
      PROVE  state'.ops = state.ops /\ answered' = answered
  BY <1>5 DEF LockAges, vars
<1>6. ASSUME NEW p \in Proc, Crash(p)
      PROVE  state'.ops = state.ops /\ answered' = answered
  <2>1. state' = state /\ result' = result /\ phase[p] # "ended" /\ phase' = [phase EXCEPT ![p] = "dead"]
    BY <1>6 DEF Crash, Live
  <2>2. \A q \in Proc : phase'[q] = "ended" <=> phase[q] = "ended"
    BY <2>1, <1>a
  <2> QED
    BY <2>1, <2>2
<1>7. ~PowerCut
  BY DEF PowerCut, IInv, TypeOK
<1> QED
  BY <1>1, <1>2, <1>3, <1>4, <1>5, <1>6, <1>7 DEF Next, Step, Finished

\* While the power holds the store is the atomic one it promises to be, whoever
\* is killed: a command that dies was not answered, before its update or after.
THEOREM KillsRefine ==
  ASSUME NoStalls, MaxCuts = 0
  PROVE  Spec /\ []OneReclaims => ImplementsAtomicStore
<1>1. Init => Atomic!Init
  BY DEF Init, Atomic!Init
<1>2. IInv /\ [Next]_vars => [Atomic!Next]_(Atomic!vars)
  BY StepRefines
<1> QED
  BY <1>1, <1>2, Invariance, PTL DEF Spec, ImplementsAtomicStore, Atomic!Spec

\* With nobody killed, or with two commands, it always is.
THEOREM StoreRefines ==
  ASSUME Calm \/ Pair, MaxCuts = 0
  PROVE  Spec => ImplementsAtomicStore
BY KillsRefine, ReclaimAlone, PTL DEF Calm, Pair

-----------------------------------------------------------------------------
(* Power cuts, with any number of kills and stalls *)

\* What a cut may bring back is the state, unless the directory of a rename was
\* not synced, or its command died or failed.
CutIsCovered ==
  \/ disk = {state.ops}
  \/ \E p \in Proc : phase[p] \in {"sync", "dead"} \/ result[p] = "failed"

LEMMA CoveredStays ==
  ASSUME TypeOK, FailedIsOver, CutIsCovered, [Next]_vars
  PROVE  CutIsCovered'
<1> USE DEF CutIsCovered, Goto, Report, memory, files, faults
<1>a. /\ phase \in [Proc -> Phase] /\ result \in [Proc -> {"none", "written", "unchanged", "refused", "busy", "failed"}]
  BY DEF TypeOK
<1>c. \A p \in Proc : result[p] = "failed" => result'[p] = "failed"
  BY FailedStays
<1>1. ASSUME NEW p \in Proc,
             \/ Start(p) \/ Acquire(p) \/ Contend(p) \/ StatLock(p) \/ ReclaimLock(p) \/ Retry(p)
             \/ WriteToken(p) \/ TokenFails(p) \/ ReadAndReduce(p) \/ AssertOwned(p) \/ CleanTemps(p)
             \/ WriteTemp(p) \/ RenderDoc(p) \/ Release(p) \/ Unlock(p) \/ Heartbeat(p)
             \/ TempAges(p) \/ Crash(p)
      PROVE  CutIsCovered'
  <2>1. /\ state' = state /\ disk' = disk
        /\ \A q \in Proc : phase[q] \in {"sync", "dead"} => phase'[q] \in {"sync", "dead"}
    BY <1>1, <1>a DEF Start, Acquire, Contend, StatLock, ReclaimLock, Retry, WriteToken, TokenFails,
                ReadAndReduce, AssertOwned, CleanTemps, WriteTemp, RenderDoc, Release, Unlock,
                Heartbeat, TempAges, Crash
  <2> QED
    BY <1>c, <2>1
<1>2. ASSUME NEW p \in Proc, RenameOver(p) \/ SyncDirectory(p) \/ IOFails(p) PROVE CutIsCovered'
  BY <1>2, <1>a DEF RenameOver, SyncDirectory, IOFails
<1>3. CASE PowerCut
  BY <1>3 DEF PowerCut
<1>4. CASE LockAges \/ UNCHANGED vars
  BY <1>4 DEF LockAges, vars
<1> QED
  BY <1>1, <1>2, <1>3, <1>4 DEF Next, Step, Finished

\* writeFileAtomic: whatever dies or stalls, a power cut leaves the whole content of
\* one rename, and the last one when every rename was synced (REQ-idd-027).
THEOREM CutsKeepOneWrite == Spec => CutKeepsOneWrite
<1> DEFINE CInv == TypeOK /\ FailedIsOver /\ SyncedBeforeRename /\ CutIsCovered
           Kept == cuts' # cuts =>
                     /\ state'.ops \in disk
                     /\ (\A p \in Proc : phase[p] # "sync" /\ result[p] # "failed" /\ phase[p] # "dead")
                          => state'.ops = state.ops
<1>1. Init => CInv
  BY InitIInv DEF IInv, Init, FailedIsOver, SyncedBeforeRename, CutIsCovered
<1>2. CInv /\ [Next]_vars => CInv'
  BY TypePreserved, FailedStays, SyncedStays, CoveredStays
<1>3. CInv /\ [Next]_vars => [Kept]_vars
  <2>1. SUFFICES ASSUME CInv, Next, cuts' # cuts PROVE Kept
    OBVIOUS
  <2>2. PowerCut
    BY <2>1 DEF Next, Step, Start, Acquire, Contend, StatLock, ReclaimLock, Retry, WriteToken,
         TokenFails, ReadAndReduce, AssertOwned, CleanTemps, WriteTemp, RenameOver, SyncDirectory,
         RenderDoc, IOFails, Release, Unlock, Heartbeat, Crash, TempAges, LockAges, Finished,
         vars, memory, files, faults
  <2>3. state'.ops \in disk
    BY <2>1, <2>2 DEF PowerCut, SyncedBeforeRename
  <2> QED
    BY <2>1, <2>3 DEF CutIsCovered
<1> QED
  BY <1>1, <1>2, <1>3, PTL DEF Spec, CutKeepsOneWrite

-----------------------------------------------------------------------------
(* The living document *)

\* Who renders the document renders what is in the state.
RenderedIsCurrent == \A p \in Proc : phase[p] \in {"sync", "doc"} => view[p] = state.ops

\* The document shows the state, is about to, or its command died or failed.
DocIsDue ==
  \/ doc = state.ops
  \/ \E p \in Proc : phase[p] \in {"sync", "doc", "dead"} \/ result[p] = "failed"

\* Whoever works is alone, and a cut takes back what was not synced.
LEMMA DocPreserved ==
  ASSUME IInv, FailedIsOver, RenderedIsCurrent, CutIsCovered, DocIsDue, [Next]_vars
  PROVE  RenderedIsCurrent' /\ DocIsDue'
<1> USE DEF RenderedIsCurrent, DocIsDue, Goto, Report, memory, files, faults
<1>a. /\ phase \in [Proc -> Phase] /\ result \in [Proc -> {"none", "written", "unchanged", "refused", "busy", "failed"}]
      /\ view \in [Proc -> SUBSET Proc]
  BY DEF IInv, TypeOK
<1>b. \A p, q \in Proc : phase[p] \in Holding /\ phase[q] \in Holding => p = q
  BY DEF IInv, HolderOwnsLock
<1>c. \A p \in Proc : result[p] = "failed" => result'[p] = "failed"
  BY FailedStays DEF IInv
<1>1. ASSUME NEW p \in Proc,
             \/ Start(p) \/ Acquire(p) \/ Contend(p) \/ StatLock(p) \/ ReclaimLock(p) \/ Retry(p)
             \/ WriteToken(p) \/ TokenFails(p) \/ AssertOwned(p) \/ CleanTemps(p) \/ WriteTemp(p)
             \/ Release(p) \/ Unlock(p)
      PROVE  RenderedIsCurrent' /\ DocIsDue'
  <2>1. /\ state' = state /\ doc' = doc /\ view' = view
        /\ \A q \in Proc : phase[q] \in {"sync", "doc"} <=> phase'[q] \in {"sync", "doc"}
        /\ \A q \in Proc : phase[q] = "dead" => phase'[q] = "dead"
    BY <1>1, <1>a DEF Start, Acquire, Contend, StatLock, ReclaimLock, Retry, WriteToken, TokenFails,
                AssertOwned, CleanTemps, WriteTemp, Release, Unlock
  <2> QED
    BY <1>c, <2>1
<1>2. ASSUME NEW p \in Proc, ReadAndReduce(p) PROVE RenderedIsCurrent' /\ DocIsDue'
  <2>1. \A q \in Proc : phase[q] \notin {"sync", "doc"}
    BY <1>2, <1>b DEF ReadAndReduce, Holding
  <2>2. /\ state' = state /\ doc' = doc
        /\ \A q \in Proc : phase'[q] \in {"sync", "doc"} => q = p
        /\ \A q \in Proc : phase[q] = "dead" => phase'[q] = "dead"
    BY <1>2, <1>a, <2>1 DEF ReadAndReduce
  <2>3. phase'[p] \in {"sync", "doc"} => view'[p] = state.ops
    BY <1>2, <1>a DEF ReadAndReduce
  <2> QED
    BY <1>c, <2>1, <2>2, <2>3
<1>3. ASSUME NEW p \in Proc, RenameOver(p) PROVE RenderedIsCurrent' /\ DocIsDue'
  <2>1. \A q \in Proc \ {p} : phase'[q] \notin {"sync", "doc"}
    BY <1>3, <1>a, <1>b DEF RenameOver, Holding
  <2>2. phase'[p] = "sync" /\ view'[p] = state'.ops
    BY <1>3, <1>a DEF RenameOver
  <2> QED
    BY <2>1, <2>2
<1>4. ASSUME NEW p \in Proc, SyncDirectory(p) PROVE RenderedIsCurrent' /\ DocIsDue'
  <2>1. /\ state' = state /\ view' = view /\ phase[p] = "sync"
        /\ phase' = [phase EXCEPT ![p] = "doc"]
    BY <1>4 DEF SyncDirectory
  <2> QED
    BY <1>a, <2>1
<1>5. ASSUME NEW p \in Proc, RenderDoc(p) PROVE RenderedIsCurrent' /\ DocIsDue'
  <2>1. state' = state /\ view' = view /\ doc' = state.ops
    BY <1>5 DEF RenderDoc
  <2>2. \A q \in Proc : phase'[q] \in {"sync", "doc"} => phase[q] = phase'[q]
    BY <1>5, <1>a DEF RenderDoc
  <2> QED
    BY <2>1, <2>2
<1>6. ASSUME NEW p \in Proc, IOFails(p) PROVE RenderedIsCurrent' /\ DocIsDue'
  <2>1. state' = state /\ view' = view /\ result'[p] = "failed"
    BY <1>6, <1>a DEF IOFails
  <2>2. \A q \in Proc : phase'[q] \in {"sync", "doc"} => phase[q] = phase'[q]
    BY <1>6, <1>a DEF IOFails
  <2> QED
    BY <2>1, <2>2
<1>7. ASSUME NEW p \in Proc, Heartbeat(p) \/ TempAges(p) PROVE RenderedIsCurrent' /\ DocIsDue'
  BY <1>7, <1>a DEF Heartbeat, TempAges
<1>8. ASSUME NEW p \in Proc, Crash(p) PROVE RenderedIsCurrent' /\ DocIsDue'
  <2>1. /\ state' = state /\ view' = view /\ phase'[p] = "dead"
        /\ \A q \in Proc : phase'[q] \in {"sync", "doc"} => phase[q] = phase'[q]
    BY <1>8, <1>a DEF Crash
  <2> QED
    BY <2>1
<1>9. CASE PowerCut
  <2>1. /\ view' = view /\ doc' = doc /\ result' = result
        /\ \A q \in Proc : phase'[q] \notin {"sync", "doc"}
        /\ \A q \in Proc : phase[q] \in {"sync", "doc", "dead"} => phase'[q] = "dead"
    BY <1>9, <1>a DEF PowerCut, Live
  <2>2. disk = {state.ops} => state'.ops = state.ops
    BY <1>9 DEF PowerCut, IInv, SyncedBeforeRename
  <2> QED
    BY <2>1, <2>2 DEF CutIsCovered
<1>10. CASE LockAges \/ UNCHANGED vars
  BY <1>10, <1>a DEF LockAges, vars
<1> QED
  BY <1>1, <1>2, <1>3, <1>4, <1>5, <1>6, <1>7, <1>8, <1>9, <1>10 DEF Next, Step, Finished

\* mutateChange: once no command works, the living document is the one of the
\* state, unless a command died or rendering it failed.
THEOREM KillsRender == ASSUME NoStalls PROVE Spec /\ []OneReclaims => []DocFollowsState
<1> DEFINE DInv == IInv /\ FailedIsOver /\ RenderedIsCurrent /\ CutIsCovered /\ DocIsDue
<1>1. Init => DInv
  BY InitIInv DEF Init, FailedIsOver, RenderedIsCurrent, CutIsCovered, DocIsDue
<1>2. DInv /\ OneReclaims /\ [Next]_vars => DInv'
  BY IInvPreserved, FailedStays, CoveredStays, DocPreserved DEF IInv
<1>3. DInv => DocFollowsState
  BY DEF DocIsDue, DocFollowsState
<1> QED
  BY <1>1, <1>2, <1>3, PTL DEF Spec

\* With nobody killed, or with two commands, it always is.
THEOREM DocIsRendered == ASSUME Calm \/ Pair PROVE Spec => []DocFollowsState
BY KillsRender, ReclaimAlone, PTL DEF Calm, Pair

=============================================================================
