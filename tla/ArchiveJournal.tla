--------------------------- MODULE ArchiveJournal ---------------------------
(***************************************************************************)
(* What the archive transaction of the SDD route promises of its journal:  *)
(* it goes through its states in the order of nextTransactionAction        *)
(* (scripts/lib/archive-transaction.js), one at a time, may fail or be     *)
(* rolled back instead, and the directory of the change is removed only    *)
(* while the journal says `done`.  ArchiveTransaction implements it.       *)
(***************************************************************************)
CONSTANT Change

VARIABLES state,  \* of the journal of each change; "torn" is not JSON any more
          kept    \* does openspec/changes/<change> exist?

\* The state after the action that nextTransactionAction answers.
After(s) ==
  CASE s = "init"        -> {"preflighted"}
    [] s = "preflighted" -> {"staged"}
    [] s = "staged"      -> {"compared"}
    [] s = "compared"    -> {"committing"}
    [] s = "committing"  -> {"committing", "committed"}
    [] s = "committed"   -> {"confirmed"}
    [] s = "confirmed"   -> {"done"}
    [] OTHER             -> {}

States == {"init", "preflighted", "staged", "compared", "committing", "committed", "confirmed",
           "done", "failed", "rolled-back", "torn"}

Ended == {"done", "torn"}

Init == state = [c \in Change |-> "init"] /\ kept = [c \in Change |-> TRUE]

Advance(c) ==
  /\ \E s \in After(state[c]) : state' = [state EXCEPT ![c] = s]
  /\ UNCHANGED kept

Fail(c) ==
  /\ state[c] \notin Ended \union {"failed", "rolled-back"}
  /\ state' = [state EXCEPT ![c] = "failed"]
  /\ UNCHANGED kept

\* rollbackTransaction also takes a journal that failed.
RollBack(c) ==
  /\ state[c] \notin Ended
  /\ state' = [state EXCEPT ![c] = "rolled-back"]
  /\ UNCHANGED kept

\* The journal is rewritten in place, so a crash may leave half of it.
Tear(c) ==
  /\ state[c] \notin Ended
  /\ state' = [state EXCEPT ![c] = "torn"]
  /\ UNCHANGED kept

Remove(c) ==
  /\ state[c] = "done" /\ kept[c]
  /\ kept' = [kept EXCEPT ![c] = FALSE]
  /\ UNCHANGED state

\* Somebody opens a new change under the same name.
Recreate(c) ==
  /\ ~kept[c]
  /\ kept' = [kept EXCEPT ![c] = TRUE]
  /\ UNCHANGED state

Next == \E c \in Change :
          Advance(c) \/ Fail(c) \/ RollBack(c) \/ Tear(c) \/ Remove(c) \/ Recreate(c)

Spec == Init /\ [][Next]_<<state, kept>>

=============================================================================
