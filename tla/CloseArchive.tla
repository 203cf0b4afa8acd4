---------------------------- MODULE CloseArchive ----------------------------
(***************************************************************************)
(* What `ospec close` does once its change may close: it saves the closed  *)
(* state, adds the entry of the changelog, renders the evidence into       *)
(* change.md and moves the directory of the change to idd/archive          *)
(* (close in scripts/ospec.js, archiveChange in lib/idd-close.js).  It may *)
(* be interrupted between any two filesystem calls and is then run again.  *)
(*                                                                         *)
(* One close of a change runs at a time (withFileLock on <id>.close, see   *)
(* StateStore), so pc[c] is its program counter.  A directory is the set   *)
(* of what it holds, "." being the directory itself; {} does not exist.    *)
(* The date in the name of the destination is that of closed_at, which is  *)
(* saved with the state, so every run computes the same name.              *)
(***************************************************************************)
EXTENDS Naturals

CONSTANTS Change,         \* changes of one repository, all ready to close
          RenameMayFail,  \* may rename(2) answer EPERM, EXDEV, EBUSY or EACCES?
          MaxCrashes      \* bound on interruptions

ConstantsOK == RenameMayFail \in BOOLEAN /\ MaxCrashes \in Nat

VARIABLES pc, answer,               \* the running close, and what the last one said
          status,                   \* of state.yaml
          origin, staging, dest,    \* idd/<id>, idd/archive/<name>.partial, idd/archive/<name>
          changelog,                \* the entries in the file
          seen,                     \* the entries closeDelivery read
          crashes

trees == <<origin, staging, dest>>
vars  == <<pc, answer, status, trees, changelog, seen, crashes>>

\* change.md as the author left it, cut off in the middle of a write, and with
\* its evidence section.
Doc  == {"doc", "torn", "rendered"}
Item == {".", "state"} \union Doc

TypeOK ==
  /\ pc \in [Change -> {"idle", "save", "delivery", "truncate", "append", "render", "redraw",
                        "archive", "clear", "copy", "remove"}]
  /\ answer \in [Change -> {"none", "unknown", "conflict", "archived", "interrupted"}]
  /\ status \in [Change -> {"open", "closed"}]
  /\ origin \in [Change -> SUBSET Item]
  /\ staging \in [Change -> SUBSET Item]
  /\ dest \in [Change -> SUBSET Item]
  /\ changelog \subseteq Change
  /\ seen \in [Change -> SUBSET Change]
  /\ crashes \in 0 .. MaxCrashes

Init ==
  /\ pc = [c \in Change |-> "idle"]
  /\ answer = [c \in Change |-> "none"]
  /\ status = [c \in Change |-> "open"]
  /\ origin = [c \in Change |-> {".", "state", "doc"}]
  /\ staging = [c \in Change |-> {}]
  /\ dest = [c \in Change |-> {}]
  /\ changelog = {}
  /\ seen = [c \in Change |-> {}]
  /\ crashes = 0

Goto(c, to) == pc' = [pc EXCEPT ![c] = to]
End(c, what) == Goto(c, "idle") /\ answer' = [answer EXCEPT ![c] = what]

-----------------------------------------------------------------------------
(* close *)

\* Mutant: a resumed close does not look at the changelog.
BeginWithoutEntry(c) ==
  /\ pc[c] = "idle"
  /\ answer' = [answer EXCEPT ![c] = "none"]
  /\ Goto(c, IF "state" \in origin[c] /\ status[c] = "open" THEN "save" ELSE "render")
  /\ "state" \in origin[c] \union dest[c]
  /\ UNCHANGED <<status, trees, changelog, seen, crashes>>

\* readChange, or findArchived when the state is gone from idd/<id>.
Begin(c) ==
  /\ pc[c] = "idle"
  /\ answer' = [answer EXCEPT ![c] = "none"]
  /\ Goto(c, IF "state" \in origin[c]
               THEN IF status[c] = "open" THEN "save" ELSE "delivery"
               ELSE "render")
  /\ "state" \in origin[c] \union dest[c]
  /\ UNCHANGED <<status, trees, changelog, seen, crashes>>

\* mutateChange with closeChange, once the change was validated.
SaveClosed(c) ==
  /\ pc[c] = "save"
  /\ status' = [status EXCEPT ![c] = "closed"]
  /\ Goto(c, "delivery")
  /\ UNCHANGED <<answer, trees, changelog, seen, crashes>>

\* closeDelivery: the text is read, and written whole when it lacks the entry.
ReadChangelog(c) ==
  /\ pc[c] = "delivery"
  /\ seen' = [seen EXCEPT ![c] = changelog]
  /\ Goto(c, IF c \in changelog THEN "render" ELSE "truncate")
  /\ UNCHANGED <<answer, status, trees, changelog, crashes>>

\* writeFileSync truncates the file it opens, then writes.
TruncateChangelog(c) ==
  /\ pc[c] = "truncate"
  /\ changelog' = {}
  /\ Goto(c, "append")
  /\ UNCHANGED <<answer, status, trees, seen, crashes>>

AppendEntry(c) ==
  /\ pc[c] = "append"
  /\ changelog' = seen[c] \union {c}
  /\ Goto(c, "render")
  /\ UNCHANGED <<answer, status, trees, seen, crashes>>

\* writeEvidenceSection: a file without the markers, or already rendered, stays.
OpenDoc(c) ==
  /\ pc[c] = "render"
  /\ IF "doc" \in origin[c]
       THEN /\ origin' = [origin EXCEPT ![c] = (@ \ Doc) \union {"torn"}]
            /\ Goto(c, "redraw")
       ELSE Goto(c, "archive") /\ UNCHANGED origin
  /\ UNCHANGED <<answer, status, staging, dest, changelog, seen, crashes>>

RenderDoc(c) ==
  /\ pc[c] = "redraw"
  /\ origin' = [origin EXCEPT ![c] = (@ \ Doc) \union {"rendered"}]
  /\ Goto(c, "archive")
  /\ UNCHANGED <<answer, status, staging, dest, changelog, seen, crashes>>

-----------------------------------------------------------------------------
(* archiveChange *)

Exists(dir) == "." \in dir

\* Mutant: without an origin there is no such change.
RefuseArchived(c) ==
  /\ pc[c] = "archive" /\ ~Exists(origin[c]) /\ Exists(dest[c])
  /\ End(c, "unknown")
  /\ UNCHANGED <<status, trees, changelog, seen, crashes>>

AlreadyComplete(c) ==
  /\ pc[c] = "archive" /\ ~Exists(origin[c]) /\ Exists(dest[c])
  /\ End(c, "archived")
  /\ UNCHANGED <<status, trees, changelog, seen, crashes>>

\* A copy finished before the origin was removed: finish only if identical.
FinishMove(c) ==
  /\ pc[c] = "archive" /\ Exists(origin[c]) /\ Exists(dest[c])
  /\ IF origin[c] = dest[c]
       THEN Goto(c, "remove") /\ UNCHANGED answer
       ELSE End(c, "conflict")
  /\ UNCHANGED <<status, trees, changelog, seen, crashes>>

Rename(c) ==
  /\ pc[c] = "archive" /\ Exists(origin[c]) /\ ~Exists(dest[c])
  /\ dest' = [dest EXCEPT ![c] = origin[c]]
  /\ origin' = [origin EXCEPT ![c] = {}]
  /\ End(c, "archived")
  /\ UNCHANGED <<status, staging, changelog, seen, crashes>>

RenameFails(c) ==
  /\ RenameMayFail
  /\ pc[c] = "archive" /\ Exists(origin[c]) /\ ~Exists(dest[c])
  /\ Goto(c, "clear")
  /\ UNCHANGED <<answer, status, trees, changelog, seen, crashes>>

ClearStaging(c) ==
  /\ pc[c] = "clear"
  /\ staging' = [staging EXCEPT ![c] = {}]
  /\ Goto(c, "copy")
  /\ UNCHANGED <<answer, status, origin, dest, changelog, seen, crashes>>

\* fs.cp, one entry at a time.
CopyEntry(c) ==
  /\ pc[c] = "copy"
  /\ \E x \in origin[c] \ staging[c] :
       /\ x # "." => Exists(staging[c])
       /\ staging' = [staging EXCEPT ![c] = @ \union {x}]
  /\ UNCHANGED <<pc, answer, status, origin, dest, changelog, seen, crashes>>

\* Mutant: the inventory of the copy is not compared with the origin's.
InstallUnverified(c) ==
  /\ pc[c] = "copy" /\ Exists(staging[c])
  /\ dest' = [dest EXCEPT ![c] = staging[c]]
  /\ staging' = [staging EXCEPT ![c] = {}]
  /\ Goto(c, "remove")
  /\ UNCHANGED <<answer, status, origin, changelog, seen, crashes>>

\* The inventories agree: the copy takes the final name.
Install(c) ==
  /\ pc[c] = "copy" /\ staging[c] = origin[c]
  /\ dest' = [dest EXCEPT ![c] = staging[c]]
  /\ staging' = [staging EXCEPT ![c] = {}]
  /\ Goto(c, "remove")
  /\ UNCHANGED <<answer, status, origin, changelog, seen, crashes>>

\* fs.rm of the origin, one entry at a time, the directory last.
RemoveEntry(c) ==
  /\ pc[c] = "remove"
  /\ \E x \in origin[c] :
       /\ x = "." => origin[c] = {"."}
       /\ origin' = [origin EXCEPT ![c] = @ \ {x}]
  /\ UNCHANGED <<pc, answer, status, staging, dest, changelog, seen, crashes>>

Moved(c) ==
  /\ pc[c] = "remove" /\ origin[c] = {}
  /\ End(c, "archived")
  /\ UNCHANGED <<status, trees, changelog, seen, crashes>>

-----------------------------------------------------------------------------

\* The process is killed, or the next filesystem call throws.
Interrupt(c) ==
  /\ pc[c] # "idle" /\ crashes < MaxCrashes
  /\ crashes' = crashes + 1
  /\ End(c, "interrupted")
  /\ UNCHANGED <<status, trees, changelog, seen>>

Step(c) ==
  \/ SaveClosed(c) \/ ReadChangelog(c) \/ TruncateChangelog(c) \/ AppendEntry(c)
  \/ OpenDoc(c) \/ RenderDoc(c)
  \/ AlreadyComplete(c) \/ FinishMove(c) \/ Rename(c) \/ RenameFails(c)
  \/ ClearStaging(c) \/ CopyEntry(c) \/ Install(c) \/ RemoveEntry(c) \/ Moved(c)

Next == \E c \in Change : Begin(c) \/ Step(c) \/ Interrupt(c)

Spec == Init /\ [][Next]_vars

\* A close that started goes on, and whoever wants the change closed runs the
\* command again when it was interrupted.
Fairness == \A c \in Change : WF_vars(Begin(c)) /\ WF_vars(Step(c))

FairSpec == Spec /\ Fairness

-----------------------------------------------------------------------------
(* Properties *)

Whole(dir) == Exists(dir) /\ "state" \in dir /\ dir \intersect Doc # {}

\* At every moment one of the two directories holds every file of the change,
\* and the destination never holds less: a partial copy or a half-removed
\* origin is never all that is left (archiveChange: staging, inventories, and
\* the origin removed last).
NothingLost ==
  \A c \in Change : /\ Whole(origin[c]) \/ Whole(dest[c])
                    /\ Exists(dest[c]) => Whole(dest[c])

\* The entry follows the closed state, so a refused or failed close leaves the
\* changelog as it was; and a close that answers "archived", at whatever point
\* earlier ones were interrupted, has its entry in the file, its origin gone
\* and its archive whole (closeDelivery, REQ-idd-025; one change at a time:
\* nothing locks the changelog between the closes of two changes).
ArchivedWithEntry ==
  /\ \A c \in changelog : status[c] = "closed"
  /\ \A c \in Change :
       answer[c] = "archived" =>
         /\ status[c] = "closed" /\ c \in changelog
         /\ origin[c] = {} /\ Whole(dest[c])

\* A change saved as closed is archived in the end, or close reports that its
\* origin and its destination differ: no interruption leaves a close that
\* neither ends nor tells (archiveChange, requireResumable).
ClosesInTheEnd ==
  \A c \in Change : status[c] = "closed" ~> answer[c] \in {"archived", "conflict"}

=============================================================================
