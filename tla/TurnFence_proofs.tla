-------------------------- MODULE TurnFence_proofs --------------------------
(***************************************************************************)
(* Proofs about TurnFence, for any sessions, gates and counts.  Counts may *)
(* go back (a hook writes what it read before others wrote), so the number *)
(* of a turn says nothing by itself.  What holds is that between the       *)
(* opening of a gate and the first turn counted after it, the number is    *)
(* the one stamped on the gate, or is lost; both fence the answer.  A      *)
(* linked worktree adds two counts: when one of them is lost the number    *)
(* only changes, and no gate may be waiting for its turn then.             *)
(***************************************************************************)
EXTENDS TurnFence, TLAPS

\* Nothing removes the counts of a linked worktree, which reads two of them.
PlainLosses == LosesIn \subseteq {"plain"}

\* A lost count leaves no number, or the number it was, or finds no gate that is still
\* to see a turn end.
LossesFence ==
  \A f \in File : LoseCount(f) =>
    \/ workspaceTurn' \in {NoCount, workspaceTurn}
    \/ \A g \in Gate : gate[g].status = "open" => ended[g]

\* A hook that read a count did so below the bound.
Bounded == \A s \in Session : stop[s].at = "write" => stop[s].turn < MaxTurn

Typed == TypeOK /\ Bounded

\* A gate nobody answered has no source.
Unanswered == \A g \in Gate : gate[g].status # "answered" => gate[g].source = "none"

\* No turn was counted since the gate opened: the turn is its stamp, or lost.
StampHolds ==
  \A g \in Gate :
    gate[g].status = "open" /\ ~ended[g] => workspaceTurn \in {NoCount, gate[g].opened}

IInv == Typed /\ Unanswered /\ StampHolds /\ FenceSound

-----------------------------------------------------------------------------
(* Types *)

\* The turn of the workspace is a turn, whatever files have a count.
LEMMA TurnType ==
  ASSUME ConstantsOK, TypeOK
  PROVE  workspaceTurn \in Turn
BY DEF ConstantsOK, TypeOK, workspaceTurn, MainCount, Turn, File, NoCount

\* Every state of the fence has its types, and no count passes its bound.
LEMMA TypedInit == ConstantsOK /\ Init => Typed
BY DEF ConstantsOK, Init, Typed, Bounded, TypeOK, Quiet, Closed, File, Turn, NoCount

LEMMA TypedNext == ConstantsOK /\ Typed /\ [Next]_vars => Typed'
<1> SUFFICES ASSUME ConstantsOK, Typed, [Next]_vars PROVE Typed'
  OBVIOUS
<1> USE DEF Typed, TypeOK, Bounded
<1>1. ASSUME NEW s \in Session, NEW f \in File, ReadTurn(s, f) PROVE Typed'
  BY <1>1 DEF ConstantsOK, ReadTurn, NoCount, File
<1>2. ASSUME NEW s \in Session, WriteTurn(s) PROVE Typed'
  BY <1>2 DEF ConstantsOK, WriteTurn, Quiet, File
<1>3. ASSUME NEW f \in File, LoseCount(f) PROVE Typed'
  BY <1>3 DEF LoseCount
<1>4. ASSUME NEW g \in Gate, OpenGate(g) PROVE Typed'
  BY <1>4, TurnType DEF OpenGate, Closed, Turn
<1>5. ASSUME NEW g \in Gate, NEW declared \in {"user", "user-unverified"}, Answer(g, declared)
      PROVE Typed'
  <2> DEFINE new == [gate[g] EXCEPT !.status = "answered", !.resolved = workspaceTurn,
                       !.source = IF declared = "user" /\ Fenced(g) THEN "user-unverified"
                                  ELSE declared]
  <2>1. new \in [status : {"none", "open", "answered"}, opened : Turn, resolved : Turn,
                 source : {"none", "user", "user-unverified"}]
    BY TurnType
  <2> QED BY <1>5, <2>1 DEF Answer
<1>6. UNCHANGED vars => Typed'
  BY DEF vars
<1> QED BY <1>1, <1>2, <1>3, <1>4, <1>5, <1>6 DEF Next

\* The fence keeps its types: counts, stamps and hooks stay in their bounds.
THEOREM TypeCorrect == ASSUME ConstantsOK PROVE Spec => []TypeOK
<1>1. Init => Typed
  BY TypedInit
<1>2. Typed /\ [Next]_vars => Typed'
  BY TypedNext
<1>3. Typed => TypeOK
  BY DEF Typed
<1> QED BY <1>1, <1>2, <1>3, PTL DEF Spec

-----------------------------------------------------------------------------
(* The fence *)

\* Losing a count, where only one is read, loses the turn or changes nothing.
LEMMA PlainLossesFence == ASSUME PlainLosses, TypeOK PROVE LossesFence
BY DEF PlainLosses, TypeOK, LossesFence, LoseCount, workspaceTurn, MainCount, File

\* What a gate says is true of the turns that were counted, step by step.
LEMMA FenceNext ==
  ASSUME ConstantsOK, IInv, [Next]_vars, LossesFence
  PROVE  (Unanswered /\ StampHolds /\ FenceSound)'
<1> USE DEF IInv, Typed, TypeOK, Unanswered, StampHolds, FenceSound
<1>1. ASSUME NEW s \in Session, NEW f \in File, ReadTurn(s, f)
      PROVE  (Unanswered /\ StampHolds /\ FenceSound)'
  BY <1>1 DEF ReadTurn, workspaceTurn, MainCount
<1>2. ASSUME NEW s \in Session, WriteTurn(s) PROVE (Unanswered /\ StampHolds /\ FenceSound)'
  BY <1>2 DEF WriteTurn
<1>3. ASSUME NEW f \in File, LoseCount(f) PROVE (Unanswered /\ StampHolds /\ FenceSound)'
  BY <1>3 DEF LossesFence, LoseCount
<1>4. ASSUME NEW g \in Gate, OpenGate(g) PROVE (Unanswered /\ StampHolds /\ FenceSound)'
  <2>1. workspaceTurn' = workspaceTurn
    BY <1>4 DEF OpenGate, workspaceTurn, MainCount
  <2> QED BY <1>4, <2>1 DEF OpenGate, Closed
<1>5. ASSUME NEW g \in Gate, NEW declared \in {"user", "user-unverified"}, Answer(g, declared)
      PROVE  (Unanswered /\ StampHolds /\ FenceSound)'
  <2>1. workspaceTurn' = workspaceTurn
    BY <1>5 DEF Answer, workspaceTurn, MainCount
  <2>2. gate'[g].source = "user" => ended[g]
    BY <1>5 DEF Answer, Fenced
  <2> QED BY <1>5, <2>1, <2>2 DEF Answer
<1>6. UNCHANGED vars => (Unanswered /\ StampHolds /\ FenceSound)'
  BY DEF vars, workspaceTurn, MainCount
<1> QED BY <1>1, <1>2, <1>3, <1>4, <1>5, <1>6 DEF Next

\* An answer recorded as the user's came after a turn that ended since its gate
\* opened, for any number of sessions that overwrite each other's counts and in any
\* workspace, while no lost count of a linked worktree changes the number that an open
\* gate waits for (fenceGates, countTurnEnd).
THEOREM FenceIsSound == ASSUME ConstantsOK PROVE Spec /\ [][LossesFence]_vars => []FenceSound
<1>1. Init => IInv
  <2>1. Init => Unanswered /\ StampHolds /\ FenceSound
    BY DEF Init, Unanswered, StampHolds, FenceSound, Closed
  <2> QED BY <2>1, TypedInit DEF IInv
<1>2. IInv /\ [Next]_vars /\ [LossesFence]_vars => IInv'
  <2>1. SUFFICES ASSUME IInv, [Next]_vars, [LossesFence]_vars PROVE IInv'
    OBVIOUS
  <2>2. CASE LossesFence
    BY <2>1, <2>2, TypedNext, FenceNext DEF IInv
  <2>3. CASE UNCHANGED vars
    BY <2>1, <2>3, TypedNext DEF IInv, vars, Unanswered, StampHolds, FenceSound, workspaceTurn, MainCount
  <2> QED BY <2>1, <2>2, <2>3
<1>3. IInv => FenceSound
  BY DEF IInv
<1> QED BY <1>1, <1>2, <1>3, PTL DEF Spec

\* Where counts are lost only in workspaces that read one, nothing more is needed.
THEOREM PlainFenceIsSound == ASSUME ConstantsOK, PlainLosses PROVE Spec => []FenceSound
<1>1. TypeOK /\ [Next]_vars => [LossesFence]_vars
  BY PlainLossesFence
<1> QED BY <1>1, TypeCorrect, FenceIsSound, PTL DEF Spec

=============================================================================
