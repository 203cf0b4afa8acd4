------------------------ MODULE CloseArchive_proofs ------------------------
(***************************************************************************)
(* Proofs about CloseArchive, for any changes and any number of            *)
(* interruptions.  Nothing is lost because the destination only ever gets  *)
(* a whole directory and the origin is taken apart only while the          *)
(* destination exists.  That an archived change has its entry rests on     *)
(* this: the state leaves the origin only after the entry was written, so  *)
(* a close that resumes without reading the changelog needs no entry.  The *)
(* closes of two changes rewrite one file with no lock, so of several      *)
(* changes it holds while those rewrites do not meet.                      *)
(***************************************************************************)
EXTENDS CloseArchive, TLAPS

OneChange == \A c, d \in Change : c = d

\* Where c is, whoever else is closing.
Where(c) ==
  /\ pc[c] \in {"clear", "copy"} => ~Exists(dest[c])
  /\ pc[c] = "remove" => Exists(dest[c])

Lost(c) ==
  /\ Whole(origin[c]) \/ Whole(dest[c])
  /\ Exists(dest[c]) => Whole(dest[c])

Safe(c) == Where(c) /\ Lost(c)

\* The steps of a close that leave c's directories and program counter alone.
Still(c) == pc'[c] = pc[c] /\ origin'[c] = origin[c] /\ dest'[c] = dest[c]

-----------------------------------------------------------------------------
(* Types *)

\* Every state of a close has its types.
LEMMA TypeInit == ConstantsOK /\ Init => TypeOK
BY DEF ConstantsOK, Init, TypeOK, Item, Doc

LEMMA TypeNext == ConstantsOK /\ TypeOK /\ [Next]_vars => TypeOK'
<1> SUFFICES ASSUME ConstantsOK, TypeOK, [Next]_vars PROVE TypeOK'
  OBVIOUS
<1> USE DEF TypeOK, Goto, End, trees
<1>1. ASSUME NEW c \in Change, Begin(c) PROVE TypeOK'
  BY <1>1 DEF Begin
<1>2. ASSUME NEW c \in Change, SaveClosed(c) PROVE TypeOK'
  BY <1>2 DEF SaveClosed
<1>3. ASSUME NEW c \in Change, ReadChangelog(c) PROVE TypeOK'
  BY <1>3 DEF ReadChangelog
<1>4. ASSUME NEW c \in Change, TruncateChangelog(c) PROVE TypeOK'
  BY <1>4 DEF TruncateChangelog
<1>5. ASSUME NEW c \in Change, AppendEntry(c) PROVE TypeOK'
  BY <1>5 DEF AppendEntry
<1>6. ASSUME NEW c \in Change, OpenDoc(c) PROVE TypeOK'
  BY <1>6 DEF OpenDoc, Item, Doc
<1>7. ASSUME NEW c \in Change, RenderDoc(c) PROVE TypeOK'
  BY <1>7 DEF RenderDoc, Item, Doc
<1>8. ASSUME NEW c \in Change, AlreadyComplete(c) PROVE TypeOK'
  BY <1>8 DEF AlreadyComplete
<1>9. ASSUME NEW c \in Change, FinishMove(c) PROVE TypeOK'
  BY <1>9 DEF FinishMove
<1>10. ASSUME NEW c \in Change, Rename(c) PROVE TypeOK'
  BY <1>10 DEF Rename
<1>11. ASSUME NEW c \in Change, RenameFails(c) PROVE TypeOK'
  BY <1>11 DEF RenameFails
<1>12. ASSUME NEW c \in Change, ClearStaging(c) PROVE TypeOK'
  BY <1>12 DEF ClearStaging
<1>13. ASSUME NEW c \in Change, CopyEntry(c) PROVE TypeOK'
  BY <1>13 DEF CopyEntry
<1>14. ASSUME NEW c \in Change, Install(c) PROVE TypeOK'
  BY <1>14 DEF Install
<1>15. ASSUME NEW c \in Change, RemoveEntry(c) PROVE TypeOK'
  BY <1>15 DEF RemoveEntry
<1>16. ASSUME NEW c \in Change, Moved(c) PROVE TypeOK'
  BY <1>16 DEF Moved
<1>17. ASSUME NEW c \in Change, Interrupt(c) PROVE TypeOK'
  BY <1>17 DEF Interrupt, ConstantsOK
<1>18. UNCHANGED vars => TypeOK'
  BY DEF vars
<1> QED
  BY <1>1, <1>2, <1>3, <1>4, <1>5, <1>6, <1>7, <1>8, <1>9, <1>10, <1>11, <1>12, <1>13, <1>14,
     <1>15, <1>16, <1>17, <1>18 DEF Next, Step

\* The close keeps its types across interruptions.
THEOREM TypeCorrect == ASSUME ConstantsOK PROVE Spec => []TypeOK
BY TypeInit, TypeNext, PTL DEF Spec

-----------------------------------------------------------------------------
(* Nothing is lost *)

LEMMA StillSafe == ASSUME NEW c \in Change, Safe(c), Still(c) PROVE Safe(c)'
BY DEF Safe, Where, Lost, Still, Whole, Exists

\* What a close does to its own change.
LEMMA SafeStep ==
  ASSUME TypeOK, NEW c \in Change, Safe(c), Begin(c) \/ Step(c) \/ Interrupt(c)
  PROVE  Safe(c)'
<1> USE DEF TypeOK, Goto, End, trees, Safe, Where, Lost
<1>1. CASE Begin(c)
  BY <1>1 DEF Begin, Whole, Exists
<1>2. CASE SaveClosed(c) \/ ReadChangelog(c) \/ TruncateChangelog(c) \/ AppendEntry(c)
  BY <1>2 DEF SaveClosed, ReadChangelog, TruncateChangelog, AppendEntry
<1>3. CASE OpenDoc(c)
  BY <1>3 DEF OpenDoc, Whole, Exists, Doc
<1>4. CASE RenderDoc(c)
  BY <1>4 DEF RenderDoc, Whole, Exists, Doc
<1>5. CASE AlreadyComplete(c) \/ Moved(c) \/ Interrupt(c)
  BY <1>5 DEF AlreadyComplete, Moved, Interrupt
<1>6. CASE FinishMove(c)
  BY <1>6 DEF FinishMove
<1>7. CASE Rename(c)
  BY <1>7 DEF Rename, Whole
<1>8. CASE RenameFails(c) \/ ClearStaging(c) \/ CopyEntry(c)
  BY <1>8 DEF RenameFails, ClearStaging, CopyEntry
<1>9. CASE Install(c)
  <2>1. Whole(origin[c])
    BY <1>9 DEF Install, Whole
  <2> QED BY <1>9, <2>1 DEF Install, Whole
<1>10. CASE RemoveEntry(c)
  BY <1>10 DEF RemoveEntry
<1> QED
  BY <1>1, <1>2, <1>3, <1>4, <1>5, <1>6, <1>7, <1>8, <1>9, <1>10 DEF Step

\* What it leaves alone of the others.
LEMMA OthersStill ==
  ASSUME TypeOK, NEW c \in Change, NEW d \in Change \ {c}, Begin(c) \/ Step(c) \/ Interrupt(c)
  PROVE  Still(d)
<1> USE DEF TypeOK, Goto, End, trees, Still
<1>1. CASE Begin(c) \/ Interrupt(c)
  BY <1>1 DEF Begin, Interrupt
<1>2. CASE SaveClosed(c) \/ ReadChangelog(c) \/ TruncateChangelog(c) \/ AppendEntry(c)
  BY <1>2 DEF SaveClosed, ReadChangelog, TruncateChangelog, AppendEntry
<1>3. CASE OpenDoc(c) \/ RenderDoc(c)
  BY <1>3 DEF OpenDoc, RenderDoc
<1>4. CASE AlreadyComplete(c) \/ FinishMove(c) \/ Rename(c) \/ RenameFails(c)
  BY <1>4 DEF AlreadyComplete, FinishMove, Rename, RenameFails
<1>5. CASE ClearStaging(c) \/ CopyEntry(c) \/ Install(c) \/ RemoveEntry(c) \/ Moved(c)
  BY <1>5 DEF ClearStaging, CopyEntry, Install, RemoveEntry, Moved
<1> QED BY <1>1, <1>2, <1>3, <1>4, <1>5 DEF Step

\* At every moment one of the two directories of a change holds all its files,
\* and the destination never holds less (archiveChange).
THEOREM NothingIsLost == ASSUME ConstantsOK PROVE Spec => []NothingLost
<1> DEFINE IInv == TypeOK /\ \A c \in Change : Safe(c)
<1>1. Init => IInv
  <2>1. ASSUME Init, NEW c \in Change PROVE Safe(c)
    <3>1. pc[c] = "idle" /\ dest[c] = {} /\ origin[c] = {".", "state", "doc"}
      BY <2>1 DEF Init
    <3>2. "doc" \in origin[c] \intersect Doc
      BY <3>1 DEF Doc
    <3> QED BY <3>1, <3>2 DEF Safe, Where, Lost, Whole, Exists
  <2> QED BY <2>1, TypeInit
<1>2. IInv /\ [Next]_vars => IInv'
  <2> SUFFICES ASSUME IInv, [Next]_vars, NEW d \in Change PROVE Safe(d)'
    BY TypeNext
  <2>1. CASE UNCHANGED vars
    BY <2>1, StillSafe DEF vars, trees, Still
  <2>2. ASSUME NEW c \in Change, Begin(c) \/ Step(c) \/ Interrupt(c) PROVE Safe(d)'
    <3>1. CASE c = d
      BY <2>2, <3>1, SafeStep
    <3>2. CASE c # d
      BY <2>2, <3>2, OthersStill, StillSafe
    <3> QED BY <3>1, <3>2
  <2> QED BY <2>1, <2>2 DEF Next
<1>3. IInv => NothingLost
  BY DEF NothingLost, Safe, Lost
<1> QED BY <1>1, <1>2, <1>3, PTL DEF Spec

-----------------------------------------------------------------------------
(* The entry of the changelog *)

\* No two closes are between the reading of the changelog and its write.
OneRewrites ==
  \A c, d \in Change : pc[c] \in {"truncate", "append"} /\ pc[d] \in {"truncate", "append"} => c = d

\* A rewrite that read entries is not interrupted while the file is empty.
WritesBack == \A c \in Change : pc[c] = "append" /\ seen[c] # {} => pc'[c] # "idle"

\* The entry of c is in the file, or a rewrite is about to put it back.
Listed(c) == c \in changelog \/ \E d \in Change \ {c} : pc[d] = "append" /\ c \in seen[d]

\* What a rewrite read is what the file held, without its own entry.
Current(c) ==
  /\ pc[c] = "truncate" => seen[c] = changelog
  /\ pc[c] = "append" => changelog = {}
  /\ pc[c] \in {"truncate", "append"} => c \notin seen[c]

\* While the state is in the origin a resumed close reads the changelog; once it
\* is not, the entry is there.
Entry(c) ==
  /\ pc[c] \in {"save", "delivery", "truncate", "append"} => "state" \in origin[c]
  /\ pc[c] \notin {"idle", "save"} => status[c] = "closed"
  /\ pc[c] \in {"render", "redraw", "archive", "clear", "copy", "remove"} => Listed(c)
  /\ "state" \notin origin[c] => status[c] = "closed" /\ Listed(c)
  /\ pc[c] = "redraw" => Exists(origin[c])
  /\ ~Exists(origin[c]) => origin[c] = {}
  /\ Listed(c) => status[c] = "closed"

\* What an answer says is true until the next close begins.
Answered(c) ==
  answer[c] = "archived" => pc[c] = "idle" /\ origin[c] = {} /\ Whole(dest[c])

Kept(c) == Safe(c) /\ Current(c) /\ Entry(c) /\ Answered(c)

IInv == TypeOK /\ \A c \in Change : Kept(c)

\* The close of c moves the entries of the others nowhere but through its rewrite.
LEMMA OthersAlone ==
  ASSUME TypeOK, NEW c \in Change, Begin(c) \/ Step(c) \/ Interrupt(c)
  PROVE  /\ \A d \in Change \ {c} : /\ pc'[d] = pc[d] /\ seen'[d] = seen[d]
                                    /\ status'[d] = status[d] /\ answer'[d] = answer[d]
         /\ changelog' = changelog \/ TruncateChangelog(c) \/ AppendEntry(c)
<1> USE DEF TypeOK, Goto, End, trees
<1>1. CASE Begin(c) \/ Interrupt(c)
  BY <1>1 DEF Begin, Interrupt
<1>2. CASE SaveClosed(c) \/ ReadChangelog(c) \/ TruncateChangelog(c) \/ AppendEntry(c)
  BY <1>2 DEF SaveClosed, ReadChangelog, TruncateChangelog, AppendEntry
<1>3. CASE OpenDoc(c) \/ RenderDoc(c)
  BY <1>3 DEF OpenDoc, RenderDoc
<1>4. CASE AlreadyComplete(c) \/ FinishMove(c) \/ Rename(c) \/ RenameFails(c)
  BY <1>4 DEF AlreadyComplete, FinishMove, Rename, RenameFails
<1>5. CASE ClearStaging(c) \/ CopyEntry(c) \/ Install(c) \/ RemoveEntry(c) \/ Moved(c)
  BY <1>5 DEF ClearStaging, CopyEntry, Install, RemoveEntry, Moved
<1> QED BY <1>1, <1>2, <1>3, <1>4, <1>5 DEF Step

\* The steps that read or write no entry leave the rewrite of c where it is.
LEMMA NoRewrite ==
  ASSUME TypeOK, NEW c \in Change, Begin(c) \/ Step(c) \/ Interrupt(c),
         ~ReadChangelog(c), ~TruncateChangelog(c), ~AppendEntry(c)
  PROVE  /\ seen' = seen /\ pc'[c] \notin {"truncate", "append"}
         /\ pc[c] \in {"truncate", "append"} => Interrupt(c)
<1> USE DEF TypeOK, Goto, End, trees
<1>1. CASE Begin(c) \/ Interrupt(c) \/ SaveClosed(c)
  BY <1>1 DEF Begin, Interrupt, SaveClosed
<1>2. CASE OpenDoc(c) \/ RenderDoc(c)
  BY <1>2 DEF OpenDoc, RenderDoc
<1>3. CASE AlreadyComplete(c) \/ FinishMove(c) \/ Rename(c) \/ RenameFails(c)
  BY <1>3 DEF AlreadyComplete, FinishMove, Rename, RenameFails
<1>4. CASE ClearStaging(c) \/ CopyEntry(c) \/ Install(c) \/ RemoveEntry(c) \/ Moved(c)
  BY <1>4 DEF ClearStaging, CopyEntry, Install, RemoveEntry, Moved
<1> QED BY <1>1, <1>2, <1>3, <1>4 DEF Step

LEMMA CurrentStep ==
  ASSUME IInv, OneRewrites, OneRewrites', NEW c \in Change, Begin(c) \/ Step(c) \/ Interrupt(c),
         NEW d \in Change
  PROVE  Current(d)'
<1> USE DEF Current, TypeOK, Goto
<1>a. TypeOK /\ Current(c) /\ Current(d)
  BY DEF IInv, Kept
<1>b. /\ \A e \in Change \ {c} : pc'[e] = pc[e] /\ seen'[e] = seen[e]
      /\ changelog' = changelog \/ TruncateChangelog(c) \/ AppendEntry(c)
  BY <1>a, OthersAlone
<1>1. CASE ReadChangelog(c)
  BY <1>a, <1>b, <1>1 DEF ReadChangelog
<1>2. CASE TruncateChangelog(c)
  BY <1>a, <1>b, <1>2 DEF TruncateChangelog, OneRewrites
<1>3. CASE AppendEntry(c)
  BY <1>a, <1>b, <1>3 DEF AppendEntry, OneRewrites
<1>4. CASE ~ReadChangelog(c) /\ ~TruncateChangelog(c) /\ ~AppendEntry(c)
  BY <1>a, <1>b, <1>4, NoRewrite
<1> QED BY <1>1, <1>2, <1>3, <1>4

\* An entry that is listed stays so, and the only new one is that of the close
\* that writes the file.
LEMMA ListedStep ==
  ASSUME IInv, OneRewrites, OneRewrites', WritesBack,
         NEW c \in Change, Begin(c) \/ Step(c) \/ Interrupt(c), NEW d \in Change
  PROVE  /\ Listed(d) => Listed(d)'
         /\ Listed(d)' => Listed(d) \/ (d = c /\ AppendEntry(c))
         /\ AppendEntry(c) => Listed(c)'
<1> USE DEF Listed, TypeOK, Goto
<1>a. TypeOK /\ Current(c)
  BY DEF IInv, Kept
<1>b. /\ \A e \in Change \ {c} : pc'[e] = pc[e] /\ seen'[e] = seen[e]
      /\ changelog' = changelog \/ TruncateChangelog(c) \/ AppendEntry(c)
  BY <1>a, OthersAlone
<1>1. CASE ReadChangelog(c)
  <2>1. pc[c] # "append" /\ pc'[c] # "append" /\ changelog' = changelog /\ ~AppendEntry(c)
    BY <1>a, <1>1 DEF ReadChangelog, AppendEntry
  <2> QED BY <1>b, <2>1
<1>2. CASE TruncateChangelog(c)
  <2>1. /\ pc[c] = "truncate" /\ pc'[c] = "append" /\ seen' = seen /\ changelog' = {}
        /\ seen[c] = changelog /\ c \notin seen[c] /\ ~AppendEntry(c)
    BY <1>a, <1>2 DEF TruncateChangelog, Current, AppendEntry
  <2>2. \A e \in Change \ {c} : pc[e] # "append" /\ pc'[e] # "append"
    BY <1>b, <2>1 DEF OneRewrites
  <2> QED BY <2>1, <2>2
<1>3. CASE AppendEntry(c)
  <2>1. /\ pc[c] = "append" /\ pc'[c] = "render" /\ changelog = {}
        /\ changelog' = seen[c] \union {c} /\ c \notin seen[c]
    BY <1>a, <1>3 DEF AppendEntry, Current
  <2>2. \A e \in Change : pc[e] = "append" => e = c
    BY <2>1 DEF OneRewrites
  <2>3. \A e \in Change : pc'[e] # "append"
    BY <1>b, <2>1, <2>2
  <2> QED BY <1>3, <2>1, <2>2, <2>3
<1>4. CASE ~ReadChangelog(c) /\ ~TruncateChangelog(c) /\ ~AppendEntry(c)
  <2>1. seen' = seen /\ pc'[c] \notin {"truncate", "append"} /\ changelog' = changelog
    BY <1>a, <1>b, <1>4, NoRewrite
  <2>2. pc[c] = "append" => seen[c] = {}
    <3>1. pc[c] = "append" => pc'[c] = "idle"
      BY <1>a, <1>4, NoRewrite DEF Interrupt, End
    <3> QED BY <3>1 DEF WritesBack
  <2> QED BY <1>4, <1>b, <2>1, <2>2
<1> QED BY <1>1, <1>2, <1>3, <1>4

\* Where the state and the directory of a change go, a step at a time.
LEMMA EntryStep ==
  ASSUME IInv, OneRewrites, OneRewrites', WritesBack,
         NEW c \in Change, Begin(c) \/ Step(c) \/ Interrupt(c)
  PROVE  Entry(c)'
<1> USE DEF TypeOK, Goto, End, trees, Entry
<1>a. TypeOK /\ Entry(c)
  BY DEF IInv, Kept
<1>b. /\ Listed(c) => Listed(c)'
      /\ Listed(c)' => Listed(c) \/ AppendEntry(c)
      /\ AppendEntry(c) => Listed(c)'
  BY ListedStep
<1>1. CASE Begin(c)
  BY <1>a, <1>b, <1>1 DEF Begin, Exists, AppendEntry
<1>2. CASE SaveClosed(c)
  BY <1>a, <1>b, <1>2 DEF SaveClosed, Exists, AppendEntry
<1>3. CASE ReadChangelog(c)
  <2>1. c \in changelog => Listed(c)
    BY DEF Listed
  <2> QED BY <1>a, <1>b, <1>3, <2>1 DEF ReadChangelog, Exists, AppendEntry
<1>4. CASE TruncateChangelog(c)
  BY <1>a, <1>b, <1>4 DEF TruncateChangelog, Exists, AppendEntry
<1>5. CASE AppendEntry(c)
  BY <1>a, <1>b, <1>5 DEF AppendEntry, Exists
<1>6. CASE OpenDoc(c)
  BY <1>a, <1>b, <1>6 DEF OpenDoc, Exists, Doc, AppendEntry
<1>7. CASE RenderDoc(c)
  BY <1>a, <1>b, <1>7 DEF RenderDoc, Exists, Doc, AppendEntry
<1>8. CASE AlreadyComplete(c) \/ Moved(c)
  BY <1>a, <1>b, <1>8 DEF AlreadyComplete, Moved, Exists, AppendEntry
<1>9. CASE Interrupt(c)
  <2>1. status' = status /\ origin' = origin /\ pc'[c] = "idle"
    BY <1>a, <1>9 DEF Interrupt
  <2>2. AppendEntry(c) => FALSE
    BY <1>a, <2>1 DEF AppendEntry
  <2> QED BY <1>a, <1>b, <2>1, <2>2
<1>10. CASE FinishMove(c)
  BY <1>a, <1>b, <1>10 DEF FinishMove, Exists, AppendEntry
<1>11. CASE Rename(c)
  BY <1>a, <1>b, <1>11 DEF Rename, Exists, AppendEntry
<1>12. CASE RenameFails(c) \/ ClearStaging(c) \/ CopyEntry(c) \/ Install(c)
  BY <1>a, <1>b, <1>12 DEF RenameFails, ClearStaging, CopyEntry, Install, Exists, AppendEntry
<1>13. CASE RemoveEntry(c)
  BY <1>a, <1>b, <1>13 DEF RemoveEntry, Exists, AppendEntry
<1> QED
  BY <1>1, <1>2, <1>3, <1>4, <1>5, <1>6, <1>7, <1>8, <1>9, <1>10, <1>11, <1>12, <1>13 DEF Step

\* A close answers "archived" in the three places where the move is complete.
LEMMA AnsweredStep ==
  ASSUME TypeOK, NEW c \in Change, Safe(c), Entry(c), Answered(c),
         Begin(c) \/ Step(c) \/ Interrupt(c)
  PROVE  Answered(c)'
<1> USE DEF TypeOK, Goto, End, trees, Answered
<1>1. CASE Begin(c) \/ Interrupt(c)
  BY <1>1 DEF Begin, Interrupt
<1>2. CASE SaveClosed(c) \/ ReadChangelog(c) \/ TruncateChangelog(c) \/ AppendEntry(c)
  BY <1>2 DEF SaveClosed, ReadChangelog, TruncateChangelog, AppendEntry
<1>3. CASE OpenDoc(c) \/ RenderDoc(c)
  BY <1>3 DEF OpenDoc, RenderDoc
<1>4. CASE AlreadyComplete(c)
  BY <1>4 DEF AlreadyComplete, Entry, Safe, Lost
<1>5. CASE FinishMove(c) \/ RenameFails(c) \/ ClearStaging(c) \/ CopyEntry(c)
  BY <1>5 DEF FinishMove, RenameFails, ClearStaging, CopyEntry
<1>6. CASE Rename(c)
  <2>1. Whole(origin[c])
    BY <1>6 DEF Rename, Safe, Lost, Whole
  <2> QED BY <1>6, <2>1 DEF Rename, Entry, Whole
<1>7. CASE Install(c) \/ RemoveEntry(c)
  BY <1>7 DEF Install, RemoveEntry
<1>8. CASE Moved(c)
  BY <1>8 DEF Moved, Entry, Safe, Where, Lost
<1> QED BY <1>1, <1>2, <1>3, <1>4, <1>5, <1>6, <1>7, <1>8 DEF Step

LEMMA InitKept == ConstantsOK /\ Init => IInv
<1>1. ASSUME Init, NEW c \in Change PROVE Kept(c)
  <2>1. /\ pc[c] = "idle" /\ dest[c] = {} /\ origin[c] = {".", "state", "doc"}
        /\ answer[c] = "none" /\ changelog = {} /\ \A d \in Change : pc[d] = "idle"
    BY <1>1 DEF Init
  <2>2. "doc" \in origin[c] \intersect Doc
    BY <2>1 DEF Doc
  <2> QED
    BY <2>1, <2>2 DEF Kept, Safe, Where, Lost, Whole, Exists, Current, Entry, Listed, Answered
<1> QED BY <1>1, TypeInit DEF IInv

LEMMA NextKept ==
  ASSUME ConstantsOK, IInv, OneRewrites, OneRewrites', WritesBack, [Next]_vars
  PROVE  IInv'
<1> SUFFICES ASSUME NEW d \in Change PROVE Kept(d)'
  BY TypeNext DEF IInv
<1>1. CASE UNCHANGED vars
  BY <1>1 DEF vars, trees, IInv, Kept, Safe, Where, Lost, Whole, Exists, Current, Entry, Listed, Answered
<1>2. ASSUME NEW c \in Change, Begin(c) \/ Step(c) \/ Interrupt(c) PROVE Kept(d)'
  <2>1. TypeOK /\ Kept(c) /\ Kept(d)
    BY DEF IInv
  <2>2. CASE d = c
    BY <1>2, <2>1, <2>2, SafeStep, CurrentStep, EntryStep, AnsweredStep DEF Kept
  <2>3. CASE d # c
    <3>1. Still(d) /\ status'[d] = status[d] /\ answer'[d] = answer[d]
      BY <1>2, <2>1, <2>3, OthersStill, OthersAlone
    <3>2. Listed(d)' <=> Listed(d)
      BY <1>2, <2>3, ListedStep
    <3>3. Entry(d)' /\ Answered(d)'
      BY <2>1, <3>1, <3>2 DEF Kept, Still, Entry, Answered
    <3> QED
      BY <1>2, <2>1, <3>1, <3>3, StillSafe, CurrentStep DEF Kept
  <2> QED BY <2>2, <2>3
<1> QED BY <1>1, <1>2 DEF Next

\* Whatever number of changes are closed, and wherever else their closes are
\* interrupted: an entry follows the closed state, and a close that answers
\* "archived" has its entry, no origin and a whole archive, as long as no two
\* closes rewrite the changelog at once and no rewrite is interrupted after it
\* truncated a file with entries; the file is looked at when no rewrite is in
\* the middle of its write (closeDelivery, archiveChange).
THEOREM ArchivesKeepEntries ==
  ASSUME ConstantsOK
  PROVE  Spec /\ []OneRewrites /\ [][WritesBack]_vars =>
           []((\A c \in Change : pc[c] # "append") => ArchivedWithEntry)
<1>1. Init => IInv
  BY InitKept
<1>2. IInv /\ OneRewrites /\ OneRewrites' /\ [Next]_vars /\ [WritesBack]_vars => IInv'
  <2>1. CASE UNCHANGED vars
    BY <2>1 DEF vars, trees, IInv, TypeOK, Kept, Safe, Where, Lost, Whole, Exists, Current, Entry,
                Listed, Answered
  <2> QED BY <2>1, NextKept
<1>3. IInv => ((\A c \in Change : pc[c] # "append") => ArchivedWithEntry)
  BY DEF IInv, Kept, ArchivedWithEntry, Entry, Listed, Answered, TypeOK
<1> QED BY <1>1, <1>2, <1>3, PTL DEF Spec

\* With one change the file never holds another entry, so it may be interrupted
\* anywhere and looked at at any moment.
THEOREM ArchiveHasEntry ==
  ASSUME ConstantsOK, OneChange
  PROVE  Spec => []ArchivedWithEntry
<1>1. Init => IInv
  BY InitKept
<1>2. IInv /\ [Next]_vars => IInv'
  <2> SUFFICES ASSUME IInv, [Next]_vars PROVE IInv'
    OBVIOUS
  <2>1. OneRewrites /\ OneRewrites'
    BY DEF OneRewrites, OneChange
  <2>2. \A c \in Change : pc[c] = "append" => seen[c] = {}
    BY DEF IInv, Kept, Current, TypeOK, OneChange
  <2>3. WritesBack
    BY <2>2 DEF WritesBack
  <2> QED BY <2>1, <2>3, NextKept
<1>3. IInv => ArchivedWithEntry
  <2> SUFFICES ASSUME IInv PROVE ArchivedWithEntry
    OBVIOUS
  <2>1. \A c \in Change : Listed(c) <=> c \in changelog
    BY DEF Listed, OneChange
  <2> QED BY <2>1 DEF IInv, Kept, ArchivedWithEntry, Entry, Answered, TypeOK
<1> QED BY <1>1, <1>2, <1>3, PTL DEF Spec

=============================================================================
