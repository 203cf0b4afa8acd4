---------------------------- MODULE AtomicStore ----------------------------
(***************************************************************************)
(* What `mutateChange` promises its callers, whatever it does inside: the  *)
(* state of a change is one value that commands update one at a time, and  *)
(* a command is answered "written" only after its update is in that value, *)
(* which no later command drops.  StateStore is shown to implement it.     *)
(***************************************************************************)

CONSTANT Proc                 \* one command (one CLI invocation) per member

VARIABLES applied,            \* the commands whose update the state holds
          answered            \* the commands told that their update is written

vars == <<applied, answered>>

Init == applied = {} /\ answered = {}

\* The update of p becomes visible; every earlier update stays.
Apply(p) ==
  /\ p \notin applied
  /\ applied' = applied \union {p}
  /\ UNCHANGED answered

\* p is told so: never before its update is visible.
Answer(p) ==
  /\ p \in applied
  /\ answered' = answered \union {p}
  /\ UNCHANGED applied

Next == \E p \in Proc : Apply(p) \/ Answer(p)

Spec == Init /\ [][Next]_vars

=============================================================================
