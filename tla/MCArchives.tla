----------------------------- MODULE MCArchives -----------------------------
(***************************************************************************)
(* Instances for TLC of the two ways a change is archived: the transaction *)
(* of the SDD route and the close of the IDD route.  They share no state,  *)
(* so a run explores three worlds side by side: one SDD change with two    *)
(* specs, edited, reused, failing and interrupted; two SDD changes that    *)
(* write one spec and may be interrupted; one IDD change that is closed.   *)
(***************************************************************************)
EXTENDS MCArchiveTransaction

VARIABLES world, closing, answer, status, idd, partial, archive, changelog, seen, kills

close == <<closing, answer, status, idd, partial, archive, changelog, seen, kills>>

Close == INSTANCE CloseArchive WITH
  Change <- One, RenameMayFail <- TRUE, MaxCrashes <- 3,
  pc <- closing, origin <- idd, staging <- partial, dest <- archive, crashes <- kills

ASSUME Close!ConstantsOK

WorldInit == Init /\ Close!Init /\ world \in {"alone", "together", "close"}

WorldNext ==
  \/ world = "alone" /\ (Turn(a) \/ Disturb(a)) /\ UNCHANGED <<world, close>>
  \/ /\ world = "together"
     /\ \E c \in Change : Turn(c) \/ (pc[c] = "idle" /\ Replan(c))
     /\ crashes' < MaxCrashes
     /\ UNCHANGED <<world, close>>
  \/ world = "close" /\ Close!Next /\ UNCHANGED <<world, vars>>

Acting == CASE world = "alone" -> One [] world = "together" -> Two [] world = "close" -> {}

\* The fairness of each module, in the worlds where it runs.
WorldSpec ==
  /\ WorldInit /\ [][WorldNext]_<<world, vars, close>>
  /\ \A c \in Change : /\ WF_vars(c \in Acting /\ Run(c))
                       /\ WF_vars(c \in Acting /\ Step(c))
  /\ \A c \in One : /\ WF_close(world = "close" /\ Close!Begin(c))
                    /\ WF_close(world = "close" /\ Close!Step(c))

\* EndsTerminal, for the changes of the world.
ArchivesEnd == \A c \in Change : <>[](c \in Acting => Ended(c))

\* The properties of CloseArchive.
NothingLost == Close!NothingLost
ArchivedWithEntry == Close!ArchivedWithEntry
ClosesInTheEnd == Close!ClosesInTheEnd

=============================================================================
