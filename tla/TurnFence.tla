----------------------------- MODULE TurnFence -----------------------------
(***************************************************************************)
(* The turn fence of the IDD gates (lib/turn-fence.js): the Stop hook      *)
(* counts the turns that end in the workspace, and an answer declared      *)
(* `user` is recorded user-unverified unless a turn ended since its gate   *)
(* opened.  The hooks of several sessions read and write the counts with   *)
(* no lock; the counts are lost when .ospec/ is removed, as `git clean`    *)
(* may do.                                                                 *)
(*                                                                         *)
(* A linked worktree reads two counts, its own and the one of its main     *)
(* repository, where a session whose cwd stays in the project counts.      *)
(***************************************************************************)
EXTENDS Integers

CONSTANTS Session,   \* each runs its Stop hook, one turn at a time
          Gate,
          Layouts,   \* the workspaces considered
          LosesIn,   \* those in which a count may be lost
          MaxTurn    \* bound on a count

\* What the constants satisfy.
ConstantsOK ==
  /\ Layouts \subseteq {"plain", "linked"} /\ LosesIn \subseteq Layouts
  /\ MaxTurn \in Nat

VARIABLES layout,
          count,   \* .ospec/turns of the workspace and of its main repository
          stop,    \* the hook of each session: what it read, and where
          gate,
          ended    \* history: has a turn been counted since the gate opened?

vars == <<layout, count, stop, gate, ended>>

NoCount == -1
File == {"own", "main"}
Turn == {NoCount} \union 0 .. 2 * MaxTurn

Closed == [status |-> "none", opened |-> NoCount, resolved |-> NoCount, source |-> "none"]
Quiet  == [at |-> "idle", file |-> "own", turn |-> 0]

TypeOK ==
  /\ layout \in Layouts
  /\ count \in [File -> {NoCount} \union 0 .. MaxTurn]
  /\ stop \in [Session -> [at : {"idle", "write"}, file : File, turn : 0 .. MaxTurn]]
  /\ gate \in [Gate -> [status : {"none", "open", "answered"}, opened : Turn, resolved : Turn,
                        source : {"none", "user", "user-unverified"}]]
  /\ ended \in [Gate -> BOOLEAN]

Init ==
  /\ layout \in Layouts
  /\ count = [f \in File |-> NoCount]
  /\ stop = [s \in Session |-> Quiet]
  /\ gate = [g \in Gate |-> Closed]
  /\ ended = [g \in Gate |-> FALSE]

\* mainRepositoryRoot is null outside a linked worktree.
MainCount == IF layout = "linked" THEN count["main"] ELSE NoCount

\* workspaceTurn.
workspaceTurn ==
  IF count["own"] = NoCount THEN MainCount
  ELSE IF MainCount = NoCount THEN count["own"]
  ELSE count["own"] + MainCount

-----------------------------------------------------------------------------
(* The Stop hook: countTurnEnd reads the count, and replaces the file later *)

ReadTurn(s, f) ==
  /\ stop[s].at = "idle"
  /\ f = "main" => layout = "linked"
  /\ LET turn == IF count[f] = NoCount THEN 0 ELSE count[f]
     IN  turn < MaxTurn /\ stop' = [stop EXCEPT ![s] = [at |-> "write", file |-> f, turn |-> turn]]
  /\ UNCHANGED <<layout, count, gate, ended>>

WriteTurn(s) ==
  /\ stop[s].at = "write"
  /\ count' = [count EXCEPT ![stop[s].file] = stop[s].turn + 1]
  /\ stop' = [stop EXCEPT ![s] = Quiet]
  /\ ended' = [g \in Gate |-> ended[g] \/ gate[g].status = "open"]
  /\ UNCHANGED <<layout, gate>>

LoseCount(f) ==
  /\ layout \in LosesIn /\ count[f] # NoCount
  /\ count' = [count EXCEPT ![f] = NoCount]
  /\ UNCHANGED <<layout, stop, gate, ended>>

-----------------------------------------------------------------------------
(* fenceGates, in a write of the state *)

\* A gate the write opens, or changes while it is open, is stamped.
OpenGate(g) ==
  /\ gate[g].status # "answered"
  /\ gate' = [gate EXCEPT ![g] = [Closed EXCEPT !.status = "open", !.opened = workspaceTurn]]
  /\ ended' = [ended EXCEPT ![g] = FALSE]
  /\ UNCHANGED <<layout, count, stop>>

\* Mutant: a lost count is not told from a turn that ended.
FencedByEquality(g) == workspaceTurn = gate[g].opened /\ workspaceTurn # NoCount

Fenced(g) ==
  workspaceTurn = NoCount \/ gate[g].opened = NoCount \/ workspaceTurn = gate[g].opened

\* The agent declares where the answer comes from.
Answer(g, declared) ==
  /\ gate[g].status = "open"
  /\ gate' = [gate EXCEPT ![g] =
                [@ EXCEPT !.status = "answered", !.resolved = workspaceTurn,
                          !.source = IF declared = "user" /\ Fenced(g)
                                       THEN "user-unverified" ELSE declared]]
  /\ UNCHANGED <<layout, count, stop, ended>>

Next ==
  \/ \E s \in Session : WriteTurn(s) \/ \E f \in File : ReadTurn(s, f)
  \/ \E f \in File : LoseCount(f)
  \/ \E g \in Gate : OpenGate(g) \/ \E declared \in {"user", "user-unverified"} : Answer(g, declared)
  \/ (\A g \in Gate : gate[g].status = "answered") /\ UNCHANGED vars

Spec == Init /\ [][Next]_vars

-----------------------------------------------------------------------------
(* Properties *)

\* An answer recorded as the user's came after a turn that ended since its gate
\* opened, whatever the hooks of other sessions overwrite and although counts
\* are lost and start again (fenceGates).
FenceSound ==
  \A g \in Gate : gate[g].source = "user" => ended[g]

=============================================================================
