--------------------- MODULE ArchiveTransaction_proofs ---------------------
(***************************************************************************)
(* Proofs about the archive transaction of the SDD route, for any changes, *)
(* domains, plans, faults and interruptions.                               *)
(***************************************************************************)
EXTENDS ArchiveTransaction, TLAPS

-----------------------------------------------------------------------------
(* Sequences of targets *)

LEMMA SeqFacts ==
  ASSUME NEW S, NEW s \in Seq(S), NEW x \in S
  PROVE  /\ Range(s) \subseteq S
         /\ s # <<>> => Head(s) \in S /\ Tail(s) \in Seq(S)
         /\ Append(s, x) \in Seq(S) /\ Last(Append(s, x)) = x
         /\ Append(s, x) # <<>> /\ Range(Append(s, x)) = Range(s) \union {x}
<1>1. \A i \in DOMAIN s : s[i] \in S
  OBVIOUS
<1>2. /\ Len(Append(s, x)) = Len(s) + 1
      /\ Append(s, x)[Len(s) + 1] = x
      /\ \A i \in 1 .. Len(s) : Append(s, x)[i] = s[i]
      /\ DOMAIN s = 1 .. Len(s) /\ DOMAIN Append(s, x) = 1 .. Len(s) + 1
      /\ Len(s) \in Nat
  OBVIOUS
<1>3. Range(Append(s, x)) = Range(s) \union {x}
  BY <1>2 DEF Range
<1> QED
  BY <1>1, <1>2, <1>3 DEF Range, Last

LEMMA TargetsFacts ==
  ASSUME NEW c \in Change
  PROVE  /\ Targets(c) \in Seq({c} \union Specs(c)) /\ Targets(c)[1] = c
         /\ DOMAIN Targets(c) = 1 .. Len(Writes[c]) + 1 /\ Len(Writes[c]) \in Nat
         /\ Range(Targets(c)) = {c} \union Specs(c)
         /\ Specs(c) \subseteq Domain /\ c \notin Domain
<1>1. Writes[c] \in Seq(Domain)
  BY ArchiveTransactionAssumption
<1>2. /\ DOMAIN Writes[c] = 1 .. Len(Writes[c]) /\ Len(Writes[c]) \in Nat
      /\ \A i \in 1 .. Len(Writes[c]) : Writes[c][i] \in Domain
  BY <1>1
<1>3. Specs(c) \subseteq Domain /\ c \notin Domain
  BY <1>2, ArchiveTransactionAssumption DEF Specs, Range
<1>4. Writes[c] \in Seq(Specs(c))
  BY <1>1, <1>2 DEF Specs, Range
<1>5. /\ Targets(c) \in Seq({c} \union Specs(c))
      /\ Len(Targets(c)) = Len(Writes[c]) + 1 /\ Targets(c)[1] = c
      /\ \A i \in 1 .. Len(Writes[c]) : Targets(c)[i + 1] = Writes[c][i]
  BY <1>1, <1>2, <1>4 DEF Targets
<1>6. DOMAIN Targets(c) = 1 .. Len(Writes[c]) + 1
  BY <1>5
<1>7. Range(Targets(c)) = {c} \union Specs(c)
  <2>1. Range(Targets(c)) \subseteq {c} \union Specs(c)
    BY <1>5, <1>6 DEF Range
  <2>2. c \in Range(Targets(c))
    BY <1>2, <1>5, <1>6 DEF Range
  <2>3. \A i \in 1 .. Len(Writes[c]) : Writes[c][i] \in Range(Targets(c))
    <3> TAKE i \in 1 .. Len(Writes[c])
    <3>1. i + 1 \in DOMAIN Targets(c)
      BY <1>2, <1>6
    <3> QED
      BY <3>1, <1>5 DEF Range
  <2> QED
    BY <2>1, <2>2, <2>3, <1>2 DEF Specs, Range
<1> QED
  BY <1>2, <1>3, <1>5, <1>6, <1>7

\* The archive comes first: a spec is placed only once the directory is.
LEMMA NextFacts ==
  ASSUME NEW c \in Change, NEW t, IsNext(c, t)
  PROVE  /\ t \in Range(Targets(c)) /\ t \notin Range(mem[c].created)
         /\ t = c \/ c \in Range(mem[c].created)
<1>1. PICK i \in DOMAIN Targets(c) :
        /\ t = Targets(c)[i] /\ t \notin Range(mem[c].created)
        /\ \A k \in 1 .. i - 1 : Targets(c)[k] \in Range(mem[c].created)
  BY DEF IsNext
<1>2. t \in Range(Targets(c))
  BY <1>1 DEF Range
<1>3. i = 1 \/ 1 \in 1 .. i - 1
  BY TargetsFacts
<1>4. t = c \/ c \in Range(mem[c].created)
  <2>1. Targets(c)[1] = c
    BY TargetsFacts
  <2> QED
    BY <1>1, <1>3, <2>1
<1> QED
  BY <1>1, <1>2, <1>4

-----------------------------------------------------------------------------
(* Types *)

\* What TypeOK says of one change.
TypeAt(c) ==
  /\ pc[c] \in Pc
  /\ mem[c] \in Journal(c) /\ journal[c] \in Journal(c) \union {Torn}
  /\ left[c] \in Seq(Range(Targets(c))) /\ wrote[c] \subseteq Range(Targets(c))
  /\ origin[c] \in Dir(c) \union {None}
  /\ staged[c] \in [dir : Dir(c) \union {None}, specs : Edition \union {None}]
  /\ live[c] \in Dir(c) \union {None, Old} /\ bak[c] \in Dir(c) \union {None, Old}
  /\ receipt[c] \in Receipt

\* An action of one change leaves the others alone: it reads their specs only.
Others(c) ==
  \A d \in Change \ {c} :
    /\ pc'[d] = pc[d] /\ mem'[d] = mem[d] /\ left'[d] = left[d] /\ origin'[d] = origin[d]
    /\ journal'[d] = journal[d] /\ staged'[d] = staged[d] /\ live'[d] = live[d] /\ bak'[d] = bak[d]
    /\ receipt'[d] = receipt[d] /\ wrote'[d] = wrote[d]

Domains ==
  /\ DOMAIN pc = Change /\ DOMAIN mem = Change /\ DOMAIN left = Change
  /\ DOMAIN origin = Change /\ DOMAIN journal = Change /\ DOMAIN staged = Change
  /\ DOMAIN receipt = Change /\ DOMAIN wrote = Change
  /\ DOMAIN live = Change \union Domain /\ DOMAIN bak = Change \union Domain

SpecsTyped == \A d \in Domain : live[d] \in SpecContent /\ bak[d] \in SpecContent

Bounded == faults \in 0 .. MaxFaults /\ crashes \in 0 .. MaxCrashes

Frame(c) == Domains' /\ Others(c) /\ TypeAt(c)' /\ SpecsTyped' /\ Bounded'

LEMMA TypeParts ==
  TypeOK <=> Domains /\ SpecsTyped /\ Bounded /\ \A c \in Change : TypeAt(c)
BY DEF TypeOK, Domains, SpecsTyped, Bounded, TypeAt

LEMMA FreshTyped == \A c \in Change : Fresh \in Journal(c)
BY DEF Fresh, Journal, State, Live

LEMMA InitTyped == Init => TypeOK
<1> SUFFICES ASSUME Init PROVE TypeOK
  OBVIOUS
<1>1. \A d \in Change \union Domain : live[d] \in {None, Old} /\ bak[d] = None
  BY DEF Init, Before
<1>2. \A c \in Change : Fresh \in Journal(c)
  BY FreshTyped
<1>3. \A c \in Change : origin[c] \in Dir(c)
  <2> TAKE c \in Change
  <2>1. Specs(c) \subseteq Domain
    BY TargetsFacts
  <2>2. PlanOf(c, 1) \in Plan(c)
    BY <1>1, <2>1, ArchiveTransactionAssumption DEF PlanOf, Plan, Edition, SpecContent
  <2> QED
    BY <2>2, ArchiveTransactionAssumption DEF Init, Dir, Edition
<1>4. \A c \in Change : TypeAt(c)
  <2> TAKE c \in Change
  <2>1. <<>> \in Seq(Range(Targets(c)))
    OBVIOUS
  <2> QED
    BY <1>1, <1>2, <1>3, <2>1 DEF Init, TypeAt, Pc, Receipt
<1>5. \A d \in Domain : live[d] \in SpecContent /\ bak[d] \in SpecContent
  BY <1>1 DEF SpecContent
<1>6. /\ DOMAIN pc = Change /\ DOMAIN mem = Change /\ DOMAIN left = Change
      /\ DOMAIN origin = Change /\ DOMAIN journal = Change /\ DOMAIN staged = Change
      /\ DOMAIN receipt = Change /\ DOMAIN wrote = Change
      /\ DOMAIN live = Change \union Domain /\ DOMAIN bak = Change \union Domain
  BY DEF Init
<1>7. faults \in 0 .. MaxFaults /\ crashes \in 0 .. MaxCrashes
  BY ArchiveTransactionAssumption DEF Init
<1> QED
  BY <1>4, <1>5, <1>6, <1>7 DEF TypeOK, TypeAt

LEMMA SaveAsTyped ==
  ASSUME NEW c \in Change, Domains, TypeAt(c), NEW s \in State, SaveAs(c, s)
  PROVE  /\ DOMAIN mem' = Change /\ DOMAIN pc' = Change
         /\ pc'[c] = "save" /\ mem'[c] = [mem[c] EXCEPT !.state = s] /\ mem'[c] \in Journal(c)
         /\ mem'[c].state = s /\ mem'[c].plan = mem[c].plan /\ mem'[c].inv = mem[c].inv
         /\ mem'[c].created = mem[c].created
         /\ \A d \in Change \ {c} : pc'[d] = pc[d] /\ mem'[d] = mem[d]
BY DEF Domains, TypeAt, SaveAs, Goto, Journal

LEMMA PushTyped ==
  ASSUME NEW c \in Change, Domains, TypeAt(c), NEW t \in Range(Targets(c)), NEW to, Push(c, t, to)
  PROVE  /\ DOMAIN mem' = Change /\ DOMAIN pc' = Change
         /\ pc'[c] = to /\ mem'[c] \in Journal(c)
         /\ mem'[c].state = mem[c].state /\ mem'[c].plan = mem[c].plan /\ mem'[c].inv = mem[c].inv
         /\ mem'[c].created = Append(mem[c].created, t)
         /\ \A d \in Change \ {c} : pc'[d] = pc[d] /\ mem'[d] = mem[d]
<1>1. Append(mem[c].created, t) \in Seq(Range(Targets(c)))
  BY SeqFacts DEF TypeAt, Journal
<1> QED
  BY <1>1 DEF Domains, TypeAt, Push, Goto, Journal

LEMMA FrameParts ==
  ASSUME NEW c \in Change, TypeOK, Domains', Others(c), TypeAt(c)', SpecsTyped', Bounded'
  PROVE  TypeOK'
<1>1. \A d \in Change \ {c} : TypeAt(d)'
  BY TypeParts DEF TypeAt, Others
<1> QED
  BY <1>1, TypeParts DEF TypeOK, Domains, SpecsTyped, Bounded, TypeAt

LEMMA StateFacts ==
  /\ State = {"init", "preflighted", "staged", "compared", "committing", "committed", "confirmed",
              "done", "failed", "rolled-back"}
  /\ Live = {"preflighted", "staged", "compared", "committing", "committed", "confirmed"}
  /\ Receipt = {"none", "thrown", "success", "failed", "rolled-back"}
BY DEF State, Live, Receipt

LEMMA JournalParts ==
  ASSUME NEW c \in Change, NEW j \in Journal(c)
  PROVE  /\ j.state \in State /\ j.plan \in Plan(c) \union {None} /\ j.inv \in Dir(c) \union {None}
         /\ j.created \in Seq(Range(Targets(c)))
         /\ \A s \in State : /\ [j EXCEPT !.state = s] \in Journal(c)
                             /\ [j EXCEPT !.state = s].state = s
                             /\ [j EXCEPT !.state = s].inv = j.inv
                             /\ [j EXCEPT !.state = s].created = j.created
         /\ \A p \in Plan(c) \union {None} : /\ [j EXCEPT !.plan = p] \in Journal(c)
                                            /\ [j EXCEPT !.plan = p].state = j.state
                                            /\ [j EXCEPT !.plan = p].inv = j.inv
                                            /\ [j EXCEPT !.plan = p].created = j.created
         /\ \A d \in Dir(c) \union {None} : /\ [j EXCEPT !.inv = d] \in Journal(c)
                                           /\ [j EXCEPT !.inv = d].state = j.state
                                           /\ [j EXCEPT !.inv = d].inv = d
                                           /\ [j EXCEPT !.inv = d].created = j.created
BY DEF Journal

LEMMA DirParts ==
  ASSUME NEW c \in Change, SpecsTyped
  PROVE  /\ None \notin Dir(c)
         /\ \A d \in Dir(c) : d.ed \in Edition /\ d.plan \in Plan(c) \union {None}
         /\ \A e \in Edition : PlanOf(c, e) \in Plan(c)
         /\ \A e \in Edition : [ed |-> e, plan |-> None] \in Dir(c)
         /\ \A d \in Dir(c), e \in Edition : [d EXCEPT !.ed = e] \in Dir(c)
         /\ \A d \in Dir(c), p \in Plan(c) \union {None} : [d EXCEPT !.plan = p] \in Dir(c)
         /\ \A e \in Edition : e < MaxEdition => e + 1 \in Edition
<1>1. \A e \in Edition : PlanOf(c, e) \in Plan(c)
  BY TargetsFacts DEF PlanOf, Plan, SpecsTyped
<1>2. \A e \in Edition : e < MaxEdition => e + 1 \in Edition
  BY ArchiveTransactionAssumption DEF Edition
<1> QED
  BY <1>1, <1>2, NoContentAssumption DEF Dir

LEMMA ExitTyped ==
  ASSUME NEW c \in Change, Domains, TypeAt(c), Exit(c)
  PROVE  /\ DOMAIN mem' = Change /\ DOMAIN pc' = Change /\ DOMAIN left' = Change
         /\ pc'[c] = "idle" /\ mem'[c] = Fresh /\ mem'[c] \in Journal(c)
         /\ left'[c] = <<>> /\ left'[c] \in Seq(Range(Targets(c)))
         /\ \A d \in Change \ {c} : pc'[d] = pc[d] /\ mem'[d] = mem[d] /\ left'[d] = left[d]
<1>1. <<>> \in Seq(Range(Targets(c)))
  OBVIOUS
<1> QED
  BY <1>1, FreshTyped DEF Exit, Goto, Domains

\* A target of a change is its own archive or a spec, never another archive.
LEMMA TargetOwner ==
  ASSUME NEW c \in Change, NEW t \in Range(Targets(c))
  PROVE  /\ t = c \/ t \in Domain
         /\ t \in Change \union Domain
         /\ \A d \in Change \ {c} : d # t
         /\ \A d \in Change : d \notin Domain
<1>1. \A d \in Change : d \notin Domain
  BY ArchiveTransactionAssumption
<1> QED
  BY <1>1, TargetsFacts

LEMMA Counting ==
  ASSUME Bounded
  PROVE  /\ faults < MaxFaults => faults + 1 \in 0 .. MaxFaults
         /\ crashes < MaxCrashes => crashes + 1 \in 0 .. MaxCrashes
BY ArchiveTransactionAssumption DEF Bounded

LEMMA LastIn ==
  ASSUME NEW S, NEW s \in Seq(S), s # <<>>
  PROVE  Last(s) \in S /\ Last(s) \in Range(s)
BY DEF Last, Range

LEMMA StepOfFacts ==
  /\ StepOf("init") = "preflight" /\ StepOf("preflighted") = "preflight"
  /\ StepOf("staged") = "compareA" /\ StepOf("compared") = "commit"
  /\ StepOf("committing") = "commit" /\ StepOf("committed") = "compareB"
  /\ StepOf("confirmed") = "finish" /\ StepOf("done") = "purge"
BY DEF StepOf

LEMMA StepOfTyped ==
  ASSUME NEW s \in State \ {"failed", "rolled-back"}
  PROVE  StepOf(s) \in {"preflight", "compareA", "commit", "compareB", "finish", "purge"}
<1>1. \/ s = "init" \/ s = "preflighted" \/ s = "staged" \/ s = "compared"
      \/ s = "committing" \/ s = "committed" \/ s = "confirmed" \/ s = "done"
  BY DEF State, Live
<1> QED
  BY <1>1, StepOfFacts

LEMMA StepTyped ==
  ASSUME NEW c \in Change, TypeOK, Turn(c) \/ Disturb(c),
         origin[c] = None => pc[c] \in {"idle", "purge"},
         pc[c] = "place" => mem[c].created # <<>>
  PROVE  Frame(c)
<1> USE DEF Frame, Domains, Others, TypeAt, SpecsTyped, Bounded, files, Pc
<1>0. Domains /\ TypeAt(c) /\ SpecsTyped /\ Bounded
  BY TypeParts
<1>1. CASE Unreadable(c)
  BY <1>0, <1>1, StateFacts DEF Unreadable
<1>2. CASE RepeatTerminal(c)
  BY <1>0, <1>2, StateFacts DEF RepeatTerminal
<1>3. CASE RollbackDone(c)
  BY <1>0, <1>3, StateFacts DEF RollbackDone
<1>4. CASE ResumeDone(c)
  BY <1>0, <1>4 DEF ResumeDone, Goto
<1>5. CASE Invoke(c)
  <2>1. origin[c].plan \in Plan(c) \union {None}
    BY <1>0, <1>5, DirParts DEF Invoke
  <2>2. journal[c] \in Journal(c) /\ journal[c].state \in State \ {"failed", "rolled-back"}
    BY <1>0, <1>5, StateFacts DEF Invoke
  <2>3. StepOf(journal[c].state) \in Pc
    BY <2>2, StepOfTyped
  <2>4. mem'[c] \in Journal(c)
    <3>1. /\ [journal[c] EXCEPT !.state = "failed"] \in Journal(c)
          /\ [journal[c] EXCEPT !.plan = origin[c].plan] \in Journal(c)
      BY <2>1, <2>2, StateFacts, JournalParts
    <3> QED
      BY <1>0, <1>5, <3>1 DEF Invoke
  <2> QED
    BY <1>0, <1>5, <2>3, <2>4 DEF Invoke, Goto
<1>6. CASE Preflight(c)
  BY <1>0, <1>6, StateFacts, SaveAsTyped DEF Preflight
<1>7. CASE CompareA(c)
  BY <1>0, <1>7, StateFacts, SaveAsTyped DEF CompareA
<1>8. CASE CompareB(c)
  BY <1>0, <1>8, StateFacts, SaveAsTyped DEF CompareB
<1>9. CASE Finish(c)
  BY <1>0, <1>9, StateFacts, SaveAsTyped DEF Finish
<1>10. CASE Inventory(c)
  BY <1>0, <1>10, JournalParts DEF Inventory, Goto
<1>11. CASE CopyDirectory(c)
  BY <1>0, <1>11 DEF CopyDirectory, Goto
<1>12. CASE StageSpecs(c)
  <2>1. origin[c].ed \in Edition
    BY <1>0, <1>12, DirParts DEF StageSpecs
  <2> QED
    BY <1>0, <1>12, <2>1, StateFacts, SaveAsTyped DEF StageSpecs
<1>13. CASE TakeFree(c)
  BY <1>0, <1>13, PushTyped DEF TakeFree
<1>14. CASE DropBak(c)
  <2>1. PICK t \in Range(Targets(c)) : bak' = [bak EXCEPT ![t] = None]
    BY <1>14 DEF DropBak
  <2>2. bak'[c] \in Dir(c) \union {None, Old} /\ \A d \in Change \ {c} : bak'[d] = bak[d]
    BY <1>0, <2>1, TargetOwner
  <2>3. \A d \in Domain : bak'[d] \in SpecContent
    BY <1>0, <2>1 DEF SpecContent
  <2> QED
    BY <1>0, <1>14, <2>1, <2>2, <2>3 DEF DropBak, Goto
<1>15. CASE Shift(c)
  <2>1. PICK t \in Range(Targets(c)) :
              \/ SaveAs(c, "failed") /\ UNCHANGED <<live, bak>>
              \/ /\ bak' = [bak EXCEPT ![t] = live[t]] /\ live' = [live EXCEPT ![t] = None]
                 /\ Push(c, t, "place")
    BY <1>15 DEF Shift
  <2>2. CASE SaveAs(c, "failed") /\ UNCHANGED <<live, bak>>
    BY <1>0, <1>15, <2>2, StateFacts, SaveAsTyped DEF Shift
  <2>3. CASE /\ bak' = [bak EXCEPT ![t] = live[t]] /\ live' = [live EXCEPT ![t] = None]
             /\ Push(c, t, "place")
    <3>1. /\ live'[c] \in Dir(c) \union {None, Old} /\ bak'[c] \in Dir(c) \union {None, Old}
          /\ \A d \in Change \ {c} : bak'[d] = bak[d] /\ live'[d] = live[d]
      BY <1>0, <2>3, TargetOwner
    <3>2. SpecsTyped'
      BY <1>0, <2>3, TargetOwner DEF SpecContent
    <3> QED
      BY <1>0, <1>15, <2>3, <3>1, <3>2, PushTyped DEF Shift
  <2> QED
    BY <2>1, <2>2, <2>3
<1>16. CASE Place(c)
  <2> DEFINE t == Placing(c)
             new == IF t = c THEN staged[c].dir
                    ELSE IF staged[c].specs = None THEN None ELSE <<c, staged[c].specs>>
  <2>1. t \in Range(Targets(c))
    BY <1>0, <1>16, JournalParts, LastIn DEF Place, Placing
  <2>2. CASE new = None
    BY <1>0, <1>16, <2>2, StateFacts, SaveAsTyped DEF Place
  <2>3. CASE new # None
    <3>1. /\ live' = [live EXCEPT ![t] = new] /\ UNCHANGED bak
          /\ staged' = IF t = c THEN [staged EXCEPT ![c].dir = None] ELSE staged
          /\ wrote' = [wrote EXCEPT ![c] = @ \union {t}]
          /\ SaveAs(c, "committing")
      BY <1>16, <2>3 DEF Place
    <3>2. live'[c] \in Dir(c) \union {None, Old} /\ \A d \in Change \ {c} : live'[d] = live[d]
      BY <1>0, <2>1, <3>1, TargetOwner
    <3>3. SpecsTyped'
      BY <1>0, <2>1, <2>3, <3>1, TargetOwner DEF SpecContent
    <3>4. /\ staged'[c] \in [dir : Dir(c) \union {None}, specs : Edition \union {None}]
          /\ wrote'[c] \subseteq Range(Targets(c))
      BY <1>0, <2>1, <3>1
    <3>5. UNCHANGED <<left, origin, journal, bak, receipt, faults, crashes>>
      BY <1>16 DEF Place
    <3>6. /\ DOMAIN mem' = Change /\ DOMAIN pc' = Change /\ pc'[c] = "save" /\ mem'[c] \in Journal(c)
          /\ \A d \in Change \ {c} : pc'[d] = pc[d] /\ mem'[d] = mem[d]
      BY <1>0, <3>1, StateFacts, SaveAsTyped
    <3>7. Domains'
      BY <1>0, <3>1, <3>5, <3>6
    <3>8. Others(c)
      BY <1>0, <3>1, <3>2, <3>5, <3>6
    <3>9. TypeAt(c)'
      BY <1>0, <3>2, <3>4, <3>5, <3>6
    <3> QED
      BY <1>0, <3>3, <3>5, <3>7, <3>8, <3>9
  <2> QED
    BY <2>2, <2>3
<1>17. CASE AllPlaced(c)
  BY <1>0, <1>17, JournalParts DEF AllPlaced, Goto
<1>18. CASE Clean(c)
  <2>1. CASE left[c] = <<>>
    BY <1>0, <1>18, <2>1, StateFacts, SaveAsTyped DEF Clean
  <2>2. CASE left[c] # <<>>
    <3>1. Head(left[c]) \in Range(Targets(c)) /\ Tail(left[c]) \in Seq(Range(Targets(c)))
      BY <1>0, <2>2
    <3>2. bak'[c] \in Dir(c) \union {None, Old} /\ \A d \in Change \ {c} : bak'[d] = bak[d]
      BY <1>0, <1>18, <2>2, <3>1, TargetOwner DEF Clean
    <3>3. SpecsTyped'
      BY <1>0, <1>18, <2>2 DEF Clean, SpecContent
    <3> QED
      BY <1>0, <1>18, <2>2, <3>1, <3>2, <3>3 DEF Clean
  <2> QED
    BY <2>1, <2>2
<1>19. CASE Purge(c)
  BY <1>0, <1>19, ExitTyped, StateFacts DEF Purge, End
<1>20. CASE Save(c)
  <2>1. CASE mem[c].state \in {"failed", "rolled-back"}
    BY <1>0, <1>20, <2>1, ExitTyped, StateFacts DEF Save, End
  <2>2. CASE mem[c].state \notin {"failed", "rolled-back"}
    <3>1. (IF mem[c].state = "preflighted" THEN "inventory" ELSE StepOf(mem[c].state)) \in Pc
      BY <1>0, <2>2, StepOfTyped, JournalParts
    <3> QED
      BY <1>0, <1>20, <2>2, <3>1 DEF Save, Goto
  <2> QED
    BY <2>1, <2>2
<1>21. CASE Undo(c)
  <2>1. Head(left[c]) \in Range(Targets(c)) /\ Tail(left[c]) \in Seq(Range(Targets(c)))
    BY <1>0, <1>21 DEF Undo
  <2>2. /\ live'[c] \in Dir(c) \union {None, Old} /\ bak'[c] \in Dir(c) \union {None, Old}
        /\ \A d \in Change \ {c} : bak'[d] = bak[d] /\ live'[d] = live[d]
    BY <1>0, <1>21, <2>1, TargetOwner DEF Undo
  <2>3. SpecsTyped'
    BY <1>0, <1>21, <2>1, TargetOwner DEF Undo, SpecContent
  <2> QED
    BY <1>0, <1>21, <2>1, <2>2, <2>3 DEF Undo
<1>22. CASE Undone(c)
  BY <1>0, <1>22, StateFacts, SaveAsTyped DEF Undone
<1>23. CASE RollbackEarly(c)
  BY <1>0, <1>23, JournalParts, StateFacts DEF RollbackEarly, Goto
<1>24. CASE RollbackCommit(c)
  BY <1>0, <1>24, JournalParts DEF RollbackCommit, Goto
<1>25. CASE Crash(c)
  BY <1>0, <1>25, ExitTyped, Counting DEF Crash
<1>26. CASE Edit(c)
  BY <1>0, <1>26, DirParts, Counting DEF Edit
<1>27. CASE Replan(c)
  BY <1>0, <1>27, DirParts DEF Replan
<1>28. CASE Recreate(c)
  BY <1>0, <1>28, DirParts DEF Recreate
<1>29. CASE CleanFails(c)
  BY <1>0, <1>29, SeqFacts, Counting DEF CleanFails
<1>30. CASE PurgeFails(c)
  BY <1>0, <1>30, ExitTyped, StateFacts, Counting DEF PurgeFails, End
<1>31. CASE UndoFails(c)
  <2>1. Head(left[c]) \in Range(Targets(c)) /\ Tail(left[c]) \in Seq(Range(Targets(c)))
    BY <1>0, <1>31 DEF UndoFails
  <2>2. live'[c] \in Dir(c) \union {None, Old} /\ \A d \in Change \ {c} : live'[d] = live[d]
    BY <1>0, <1>31, <2>1, TargetOwner DEF UndoFails
  <2>3. SpecsTyped'
    BY <1>0, <1>31, <2>1, TargetOwner DEF UndoFails, SpecContent
  <2> QED
    BY <1>0, <1>31, <2>1, <2>2, <2>3, Counting DEF UndoFails
<1>32. CASE Fault(c)
  BY <1>0, <1>32, StateFacts, SaveAsTyped, Counting DEF Fault
<1> QED
  BY <1>1, <1>2, <1>3, <1>4, <1>5, <1>6, <1>7, <1>8, <1>9, <1>10, <1>11, <1>12, <1>13, <1>14, <1>15, <1>16, <1>17, <1>18, <1>19, <1>20, <1>21, <1>22, <1>23, <1>24, <1>25, <1>26, <1>27, <1>28, <1>29, <1>30, <1>31, <1>32 DEF Turn, Run, Step, Rollback, Disturb

-----------------------------------------------------------------------------
(* The inductive invariant *)

Early == {"init", "preflighted", "staged"}
Late == {"committing", "committed", "confirmed", "done"}
Placed == {"committed", "confirmed", "done"}

\* Where a process stands and the state of its journal, in memory and on disk.
Where(c) ==
  /\ pc[c] = "idle" => mem[c] = Fresh
  /\ pc[c] \notin {"idle", "save"} => journal[c] # Torn /\ mem[c].state = journal[c].state
  /\ pc[c] = "preflight" => mem[c].state \in {"init", "preflighted"}
  /\ pc[c] \in {"inventory", "copy", "stage"} => mem[c].state = "preflighted"
  /\ pc[c] = "compareA" => mem[c].state = "staged"
  /\ pc[c] \in {"commit", "shift", "place"} => mem[c].state \in {"compared", "committing"}
  /\ pc[c] = "clean" => mem[c].state = "committing"
  /\ pc[c] = "compareB" => mem[c].state = "committed"
  /\ pc[c] = "finish" => mem[c].state = "confirmed"
  /\ pc[c] = "purge" => mem[c].state = "done"
  /\ pc[c] = "undo" => mem[c].state \notin {"init", "done"}
  /\ pc[c] = "save" =>
       /\ journal[c] # Torn /\ journal[c].state # "done"
       /\ \/ mem[c].state \in Promise!After(journal[c].state)
          \/ mem[c].state = "preflighted" /\ journal[c].state = "preflighted"
          \/ mem[c].state = "failed" /\ journal[c].state \notin {"failed", "rolled-back"}
          \/ mem[c].state = "rolled-back"

\* What a journal j, in memory or on disk, says of the files; of the archive itself
\* if none stood under the name of the change before.
Content(c, j) ==
  /\ j.state \in Early => wrote[c] = {} /\ j.created = <<>> /\ (c \notin Existing => live[c] = None /\ bak[c] = None)
  /\ j.state \in Late => c \in Range(j.created) /\ c \in wrote[c] /\ (c \notin Existing => bak[c] = None)
  /\ j.state \in {"staged", "compared"} \union Late => j.inv # None
  /\ j.state = "compared" => staged[c].dir \in {None, j.inv}
  /\ j.state = "confirmed" => (c \notin Existing => live[c] \in {None, j.inv})
  /\ j.state = "done" => live[c] # None /\ (c \notin Existing => live[c] = j.inv)
  /\ j.state \in Placed => wrote[c] = Range(Targets(c))

InMemory(c) ==
  /\ pc[c] # "idle" => Content(c, mem[c])
  /\ mem[c].state = "compared" =>
       mem[c].created = IF pc[c] = "place" THEN <<c>> ELSE <<>>
  /\ pc[c] = "place" => mem[c].created # <<>>
  /\ mem[c].state = "committing" =>
       \A i \in DOMAIN mem[c].created :
         mem[c].created[i] \in wrote[c] \/ (pc[c] = "place" /\ i = Len(mem[c].created))
  /\ pc[c] = "clean" => wrote[c] = Range(Targets(c))
  /\ pc[c] \in {"copy", "stage"} => mem[c].inv # None

OnDisk(c) ==
  journal[c] # Torn =>
    /\ Content(c, journal[c])
    /\ journal[c].state = "compared" => journal[c].created = <<>>
    /\ journal[c].state = "committing" => Range(journal[c].created) \subseteq wrote[c]

\* A staged directory is in one place only.
StagedOnce(c) == c \notin Existing /\ staged[c].dir # None => live[c] = None /\ bak[c] = None

Kept(c) == origin[c] = None => In(c, {"done"})

Local(c) == Where(c) /\ InMemory(c) /\ OnDisk(c) /\ StagedOnce(c) /\ Kept(c)

IInv == TypeOK /\ \A c \in Change : Local(c)

LEMMA AfterFacts ==
  /\ Promise!After("init") = {"preflighted"} /\ Promise!After("preflighted") = {"staged"}
  /\ Promise!After("staged") = {"compared"} /\ Promise!After("compared") = {"committing"}
  /\ Promise!After("committing") = {"committing", "committed"}
  /\ Promise!After("committed") = {"confirmed"} /\ Promise!After("confirmed") = {"done"}
  /\ Promise!After("failed") = {} /\ Promise!After("rolled-back") = {} /\ Promise!After("done") = {}
BY DEF Promise!After

LEMMA LocalFrame ==
  ASSUME NEW c \in Change, NEW d \in Change \ {c}, Others(c), Local(d)
  PROVE  Local(d)'
BY DEF Others, Local, Where, InMemory, OnDisk, StagedOnce, Kept, Content, In

LEMMA SavedWhere ==
  ASSUME NEW c \in Change, Domains, TypeAt(c), NEW s \in State, SaveAs(c, s), journal' = journal,
         journal[c] # Torn, journal[c].state # "done",
         \/ s \in Promise!After(journal[c].state)
         \/ s = "preflighted" /\ journal[c].state = "preflighted"
         \/ s = "failed" /\ journal[c].state \notin {"failed", "rolled-back"}
         \/ s = "rolled-back"
  PROVE  Where(c)'
<1>1. pc'[c] = "save" /\ mem'[c].state = s
  BY SaveAsTyped
<1> QED
  BY <1>1 DEF Where

LEMMA StepWhere ==
  ASSUME NEW c \in Change, TypeOK, Local(c), Turn(c) \/ Disturb(c)
  PROVE  Where(c)'
<1> USE DEF Domains, TypeAt, files, Where
<1>0. Domains /\ TypeAt(c) /\ Where(c)
  BY TypeParts DEF Local
<1>1. CASE Unreadable(c)
  BY <1>0, <1>1 DEF Unreadable
<1>2. CASE RepeatTerminal(c)
  BY <1>0, <1>2 DEF RepeatTerminal
<1>3. CASE ResumeDone(c)
  BY <1>0, <1>3 DEF ResumeDone, Goto
<1>4. CASE Invoke(c)
  <2>1. /\ journal[c] \in Journal(c) /\ journal[c] # Torn /\ journal[c].state \in State
        /\ journal[c].state \notin {"failed", "rolled-back", "done"}
        /\ origin[c].plan \in Plan(c) \union {None}
    BY <1>0, <1>4, StateFacts, TypeParts, DirParts DEF Invoke
  <2>2. CASE mem' = [mem EXCEPT ![c] = [journal[c] EXCEPT !.state = "failed"]] /\ Goto(c, "save")
    BY <1>0, <2>1, <2>2, <1>4, JournalParts, StateFacts DEF Invoke, Goto
  <2>3. CASE /\ mem' = [mem EXCEPT ![c] = [journal[c] EXCEPT !.plan = origin[c].plan]]
             /\ Goto(c, StepOf(journal[c].state))
    <3>1. mem'[c].state = journal[c].state /\ pc'[c] = StepOf(journal[c].state)
      BY <1>0, <2>1, <2>3, JournalParts DEF Goto
    <3>2. journal' = journal
      BY <1>4 DEF Invoke
    <3>3. LET s == journal[c].state
          IN  \/ s \in {"init", "preflighted"} /\ pc'[c] = "preflight"
              \/ s = "staged" /\ pc'[c] = "compareA"
              \/ s \in {"compared", "committing"} /\ pc'[c] = "commit"
              \/ s = "committed" /\ pc'[c] = "compareB"
              \/ s = "confirmed" /\ pc'[c] = "finish"
      BY <2>1, <3>1, StepOfFacts, StateFacts
    <3> QED
      BY <2>1, <3>1, <3>2, <3>3
  <2> QED
    BY <1>4, <2>2, <2>3 DEF Invoke
<1>5. CASE Preflight(c)
  BY <1>0, <1>5, SavedWhere, StateFacts, AfterFacts DEF Preflight
<1>6. CASE Inventory(c)
  BY <1>0, <1>6, JournalParts DEF Inventory, Goto
<1>7. CASE CopyDirectory(c)
  BY <1>0, <1>7 DEF CopyDirectory, Goto
<1>8. CASE StageSpecs(c)
  BY <1>0, <1>8, SavedWhere, StateFacts, AfterFacts DEF StageSpecs
<1>9. CASE CompareA(c)
  BY <1>0, <1>9, SavedWhere, StateFacts, AfterFacts DEF CompareA
<1>10. CASE TakeFree(c)
  BY <1>0, <1>10, PushTyped DEF TakeFree
<1>11. CASE DropBak(c)
  BY <1>0, <1>11 DEF DropBak, Goto
<1>12. CASE Shift(c)
  BY <1>0, <1>12, SavedWhere, StateFacts, AfterFacts, PushTyped DEF Shift
<1>13. CASE Place(c)
  BY <1>0, <1>13, SavedWhere, StateFacts, AfterFacts DEF Place, Placing
<1>14. CASE AllPlaced(c)
  <2>1. Range(mem[c].created) # {}
    BY <1>14, TargetsFacts DEF AllPlaced
  <2>2. Range(<<>>) = {}
    BY DEF Range
  <2>3. mem[c].state = "committing"
    BY <1>0, <1>14, <2>1, <2>2 DEF AllPlaced, Local, InMemory
  <2> QED
    BY <1>0, <1>14, <2>3 DEF AllPlaced, Goto
<1>15. CASE Clean(c)
  BY <1>0, <1>15, SavedWhere, StateFacts, AfterFacts DEF Clean
<1>16. CASE CompareB(c)
  BY <1>0, <1>16, SavedWhere, StateFacts, AfterFacts DEF CompareB
<1>17. CASE Finish(c)
  BY <1>0, <1>17, SavedWhere, StateFacts, AfterFacts DEF Finish
<1>18. CASE Purge(c)
  BY <1>0, <1>18, ExitTyped DEF Purge, End
<1>19. CASE Save(c)
  <2>1. CASE mem[c].state \in {"failed", "rolled-back"}
    BY <1>0, <1>19, <2>1, ExitTyped DEF Save, End
  <2>2. CASE mem[c].state \notin {"failed", "rolled-back"}
    <3>1. /\ pc'[c] = IF mem[c].state = "preflighted" THEN "inventory" ELSE StepOf(mem[c].state)
          /\ journal'[c] = mem[c] /\ mem' = mem
      BY <1>0, <1>19, <2>2 DEF Save, Goto
    <3>2. mem[c] \in Journal(c) /\ mem[c].state \in State
      BY <1>0, JournalParts
    <3>3. mem[c] # Torn
      BY <3>2, NoContentAssumption
    <3>4. journal[c].state \in State
      BY <1>0, <1>19, JournalParts DEF Save
    <3>5. mem[c].state # "init"
      BY <1>0, <1>19, <2>2, <3>4, StateFacts, AfterFacts DEF Save
    <3> QED
      BY <3>1, <3>2, <3>3, <3>5, <2>2, StepOfFacts, StateFacts
  <2> QED
    BY <2>1, <2>2
<1>20. CASE Undo(c)
  BY <1>0, <1>20 DEF Undo
<1>21. CASE Undone(c)
  BY <1>0, <1>21, SavedWhere, StateFacts, AfterFacts DEF Undone
<1>22. CASE RollbackEarly(c)
  BY <1>0, <1>22, JournalParts, StateFacts DEF RollbackEarly, Goto, NothingLive
<1>23. CASE RollbackCommit(c)
  BY <1>0, <1>23 DEF RollbackCommit, Goto, NothingLive
<1>24. CASE RollbackDone(c)
  BY <1>0, <1>24 DEF RollbackDone
<1>25. CASE Crash(c)
  BY <1>0, <1>25, ExitTyped DEF Crash
<1>26. CASE Edit(c)
  BY <1>0, <1>26 DEF Edit
<1>27. CASE Replan(c)
  BY <1>0, <1>27 DEF Replan
<1>28. CASE Recreate(c)
  BY <1>0, <1>28 DEF Recreate
<1>29. CASE CleanFails(c)
  BY <1>0, <1>29 DEF CleanFails
<1>30. CASE PurgeFails(c)
  BY <1>0, <1>30, ExitTyped DEF PurgeFails, End
<1>31. CASE UndoFails(c)
  BY <1>0, <1>31 DEF UndoFails
<1>32. CASE Fault(c)
  BY <1>0, <1>32, SavedWhere, StateFacts, AfterFacts DEF Fault
<1> QED
  BY <1>1, <1>2, <1>3, <1>4, <1>5, <1>6, <1>7, <1>8, <1>9, <1>10, <1>11, <1>12, <1>13, <1>14, <1>15, <1>16, <1>17, <1>18, <1>19, <1>20, <1>21, <1>22, <1>23, <1>24, <1>25, <1>26, <1>27, <1>28, <1>29, <1>30, <1>31, <1>32 DEF Turn, Run, Step, Rollback, Disturb

LEMMA StepStaged ==
  ASSUME NEW c \in Change, TypeOK, Local(c), Turn(c) \/ Disturb(c)
  PROVE  StagedOnce(c)'
<1> USE DEF Domains, TypeAt, Local, StagedOnce, files
<1>0. Domains /\ TypeAt(c) /\ SpecsTyped /\ Local(c)
  BY TypeParts
<1>1. CASE Unreadable(c)
  BY <1>0, <1>1 DEF Unreadable
<1>2. CASE RepeatTerminal(c)
  BY <1>0, <1>2 DEF RepeatTerminal
<1>3. CASE ResumeDone(c)
  BY <1>0, <1>3 DEF ResumeDone
<1>4. CASE Invoke(c)
  BY <1>0, <1>4 DEF Invoke
<1>5. CASE Preflight(c)
  BY <1>0, <1>5 DEF Preflight
<1>6. CASE Inventory(c)
  BY <1>0, <1>6 DEF Inventory
<1>7. CASE CopyDirectory(c)
  BY <1>0, <1>7, StateFacts DEF CopyDirectory, Where, OnDisk, Content, Early
<1>8. CASE StageSpecs(c)
  BY <1>0, <1>8 DEF StageSpecs
<1>9. CASE CompareA(c)
  BY <1>0, <1>9 DEF CompareA
<1>10. CASE TakeFree(c)
  BY <1>0, <1>10 DEF TakeFree
<1>11. CASE DropBak(c)
  BY <1>0, <1>11, TargetOwner DEF DropBak
<1>12. CASE Shift(c)
  BY <1>0, <1>12, TargetOwner DEF Shift
<1>13. CASE Place(c)
  BY <1>0, <1>13, TargetOwner DEF Place
<1>14. CASE AllPlaced(c)
  BY <1>0, <1>14 DEF AllPlaced
<1>15. CASE Clean(c)
  BY <1>0, <1>15, TargetOwner DEF Clean
<1>16. CASE CompareB(c)
  BY <1>0, <1>16 DEF CompareB
<1>17. CASE Finish(c)
  BY <1>0, <1>17 DEF Finish
<1>18. CASE Purge(c)
  BY <1>0, <1>18 DEF Purge
<1>19. CASE Save(c)
  BY <1>0, <1>19 DEF Save
<1>20. CASE Undo(c)
  BY <1>0, <1>20, TargetOwner DEF Undo
<1>21. CASE Undone(c)
  BY <1>0, <1>21 DEF Undone
<1>22. CASE RollbackEarly(c)
  BY <1>0, <1>22 DEF RollbackEarly
<1>23. CASE RollbackCommit(c)
  BY <1>0, <1>23 DEF RollbackCommit
<1>24. CASE RollbackDone(c)
  BY <1>0, <1>24 DEF RollbackDone
<1>25. CASE Crash(c)
  BY <1>0, <1>25 DEF Crash
<1>26. CASE Edit(c)
  BY <1>0, <1>26 DEF Edit
<1>27. CASE Replan(c)
  BY <1>0, <1>27 DEF Replan
<1>28. CASE Recreate(c)
  BY <1>0, <1>28 DEF Recreate
<1>29. CASE CleanFails(c)
  BY <1>0, <1>29 DEF CleanFails
<1>30. CASE PurgeFails(c)
  BY <1>0, <1>30 DEF PurgeFails
<1>31. CASE UndoFails(c)
  BY <1>0, <1>31, TargetOwner DEF UndoFails
<1>32. CASE Fault(c)
  BY <1>0, <1>32 DEF Fault
<1> QED
  BY <1>1, <1>2, <1>3, <1>4, <1>5, <1>6, <1>7, <1>8, <1>9, <1>10, <1>11, <1>12, <1>13, <1>14, <1>15, <1>16, <1>17, <1>18, <1>19, <1>20, <1>21, <1>22, <1>23, <1>24, <1>25, <1>26, <1>27, <1>28, <1>29, <1>30, <1>31, <1>32 DEF Turn, Run, Step, Rollback, Disturb

LEMMA StepKept ==
  ASSUME NEW c \in Change, TypeOK, Local(c), Turn(c) \/ Disturb(c)
  PROVE  Kept(c)'
<1> USE DEF Domains, TypeAt, Local, Kept, In, files
<1>0. Domains /\ TypeAt(c) /\ SpecsTyped /\ Local(c)
  BY TypeParts
<1>1. CASE Unreadable(c)
  BY <1>0, <1>1 DEF Unreadable
<1>2. CASE RepeatTerminal(c)
  BY <1>0, <1>2 DEF RepeatTerminal
<1>3. CASE ResumeDone(c)
  BY <1>0, <1>3 DEF ResumeDone
<1>4. CASE Invoke(c)
  BY <1>0, <1>4 DEF Invoke
<1>5. CASE Preflight(c)
  BY <1>0, <1>5 DEF Preflight
<1>6. CASE Inventory(c)
  BY <1>0, <1>6 DEF Inventory
<1>7. CASE CopyDirectory(c)
  BY <1>0, <1>7 DEF CopyDirectory
<1>8. CASE StageSpecs(c)
  BY <1>0, <1>8 DEF StageSpecs
<1>9. CASE CompareA(c)
  BY <1>0, <1>9 DEF CompareA
<1>10. CASE TakeFree(c)
  BY <1>0, <1>10 DEF TakeFree
<1>11. CASE DropBak(c)
  BY <1>0, <1>11 DEF DropBak
<1>12. CASE Shift(c)
  BY <1>0, <1>12 DEF Shift
<1>13. CASE Place(c)
  BY <1>0, <1>13 DEF Place
<1>14. CASE AllPlaced(c)
  BY <1>0, <1>14 DEF AllPlaced
<1>15. CASE Clean(c)
  BY <1>0, <1>15 DEF Clean
<1>16. CASE CompareB(c)
  BY <1>0, <1>16 DEF CompareB
<1>17. CASE Finish(c)
  BY <1>0, <1>17 DEF Finish
<1>18. CASE Purge(c)
  BY <1>0, <1>18 DEF Purge, Where
<1>19. CASE Save(c)
  BY <1>0, <1>19, NoContentAssumption DEF Save, Where
<1>20. CASE Undo(c)
  BY <1>0, <1>20 DEF Undo
<1>21. CASE Undone(c)
  BY <1>0, <1>21 DEF Undone
<1>22. CASE RollbackEarly(c)
  BY <1>0, <1>22 DEF RollbackEarly
<1>23. CASE RollbackCommit(c)
  BY <1>0, <1>23 DEF RollbackCommit
<1>24. CASE RollbackDone(c)
  BY <1>0, <1>24 DEF RollbackDone
<1>25. CASE Crash(c)
  BY <1>0, <1>25 DEF Crash, Where
<1>26. CASE Edit(c)
  <2>1. origin[c] \in Dir(c) /\ origin[c].ed + 1 \in Edition
    BY <1>0, <1>26, DirParts DEF Edit
  <2>2. origin'[c] = [origin[c] EXCEPT !.ed = origin[c].ed + 1]
    BY <1>0, <1>26 DEF Edit
  <2>3. origin'[c] # None
    BY <1>0, <2>1, <2>2, DirParts
  <2> QED
    BY <2>3
<1>27. CASE Replan(c)
  <2>1. origin[c] \in Dir(c) /\ PlanOf(c, origin[c].ed) \in Plan(c)
    BY <1>0, <1>27, DirParts DEF Replan
  <2>2. origin'[c] = [origin[c] EXCEPT !.plan = PlanOf(c, origin[c].ed)]
    BY <1>0, <1>27 DEF Replan
  <2>3. origin'[c] # None
    BY <1>0, <2>1, <2>2, DirParts
  <2> QED
    BY <2>3
<1>28. CASE Recreate(c)
  BY <1>0, <1>28, DirParts DEF Recreate
<1>29. CASE CleanFails(c)
  BY <1>0, <1>29 DEF CleanFails
<1>30. CASE PurgeFails(c)
  BY <1>0, <1>30 DEF PurgeFails
<1>31. CASE UndoFails(c)
  BY <1>0, <1>31 DEF UndoFails
<1>32. CASE Fault(c)
  BY <1>0, <1>32 DEF Fault
<1> QED
  BY <1>1, <1>2, <1>3, <1>4, <1>5, <1>6, <1>7, <1>8, <1>9, <1>10, <1>11, <1>12, <1>13, <1>14, <1>15, <1>16, <1>17, <1>18, <1>19, <1>20, <1>21, <1>22, <1>23, <1>24, <1>25, <1>26, <1>27, <1>28, <1>29, <1>30, <1>31, <1>32 DEF Turn, Run, Step, Rollback, Disturb

LEMMA StepOnDisk ==
  ASSUME NEW c \in Change, TypeOK, Local(c), Turn(c) \/ Disturb(c)
  PROVE  OnDisk(c)'
<1> USE DEF Domains, TypeAt, Local, OnDisk, Content, Where, files, Early, Late, Placed
<1>0. Domains /\ TypeAt(c) /\ SpecsTyped /\ Local(c)
  BY TypeParts
<1>1. CASE Unreadable(c)
  BY <1>0, <1>1 DEF Unreadable
<1>2. CASE RepeatTerminal(c)
  BY <1>0, <1>2 DEF RepeatTerminal
<1>3. CASE ResumeDone(c)
  BY <1>0, <1>3 DEF ResumeDone
<1>4. CASE Invoke(c)
  BY <1>0, <1>4 DEF Invoke
<1>5. CASE Preflight(c)
  BY <1>0, <1>5 DEF Preflight
<1>6. CASE Inventory(c)
  BY <1>0, <1>6 DEF Inventory
<1>7. CASE CopyDirectory(c)
  BY <1>0, <1>7 DEF CopyDirectory
<1>8. CASE StageSpecs(c)
  BY <1>0, <1>8 DEF StageSpecs
<1>9. CASE CompareA(c)
  BY <1>0, <1>9 DEF CompareA
<1>10. CASE TakeFree(c)
  BY <1>0, <1>10 DEF TakeFree
<1>11. CASE DropBak(c)
  BY <1>0, <1>11, TargetOwner DEF DropBak
<1>12. CASE Shift(c)
  <2>1. PICK t \in Range(Targets(c)) :
              /\ IsNext(c, t)
              /\ \/ UNCHANGED <<live, bak>>
                 \/ /\ live[t] # None /\ bak' = [bak EXCEPT ![t] = live[t]]
                    /\ live' = [live EXCEPT ![t] = None]
    BY <1>12 DEF Shift
  <2>2. CASE t # c
    BY <1>0, <1>12, <2>1, <2>2, TargetOwner DEF Shift
  <2>3. CASE t = c
    <3>1. mem[c].state = "compared" /\ journal[c].state = "compared"
      BY <1>0, <1>12, <2>1, <2>3, NextFacts DEF Shift, InMemory
    <3> QED
      BY <1>0, <1>12, <3>1 DEF Shift
  <2> QED
    BY <2>2, <2>3
<1>13. CASE Place(c)
  BY <1>0, <1>13, TargetOwner DEF Place
<1>14. CASE AllPlaced(c)
  BY <1>0, <1>14 DEF AllPlaced
<1>15. CASE Clean(c)
  BY <1>0, <1>15, TargetOwner DEF Clean
<1>16. CASE CompareB(c)
  BY <1>0, <1>16 DEF CompareB
<1>17. CASE Finish(c)
  BY <1>0, <1>17 DEF Finish
<1>18. CASE Purge(c)
  BY <1>0, <1>18 DEF Purge
<1>19. CASE Save(c)
  <2>1. journal'[c] = mem[c] /\ Content(c, mem[c])
    BY <1>0, <1>19 DEF Save, InMemory
  <2>2. live' = live /\ bak' = bak /\ wrote' = wrote /\ staged' = staged
    BY <1>19 DEF Save
  <2>3. mem[c].state = "compared" => mem[c].created = <<>>
    BY <1>0, <1>19 DEF Save, InMemory
  <2>4. mem[c].state = "committing" => Range(mem[c].created) \subseteq wrote[c]
    BY <1>0, <1>19 DEF Save, InMemory, Range
  <2> QED
    BY <1>0, <1>19, <2>1, <2>2, <2>3, <2>4 DEF Save
<1>20. CASE Undo(c)
  BY <1>0, <1>20, TargetOwner DEF Undo
<1>21. CASE Undone(c)
  BY <1>0, <1>21 DEF Undone
<1>22. CASE RollbackEarly(c)
  BY <1>0, <1>22 DEF RollbackEarly
<1>23. CASE RollbackCommit(c)
  BY <1>0, <1>23 DEF RollbackCommit
<1>24. CASE RollbackDone(c)
  BY <1>0, <1>24 DEF RollbackDone
<1>25. CASE Crash(c)
  BY <1>0, <1>25 DEF Crash
<1>26. CASE Edit(c)
  BY <1>0, <1>26 DEF Edit
<1>27. CASE Replan(c)
  BY <1>0, <1>27 DEF Replan
<1>28. CASE Recreate(c)
  BY <1>0, <1>28 DEF Recreate
<1>29. CASE CleanFails(c)
  BY <1>0, <1>29 DEF CleanFails
<1>30. CASE PurgeFails(c)
  BY <1>0, <1>30 DEF PurgeFails
<1>31. CASE UndoFails(c)
  BY <1>0, <1>31, TargetOwner DEF UndoFails
<1>32. CASE Fault(c)
  BY <1>0, <1>32 DEF Fault
<1> QED
  BY <1>1, <1>2, <1>3, <1>4, <1>5, <1>6, <1>7, <1>8, <1>9, <1>10, <1>11, <1>12, <1>13, <1>14, <1>15, <1>16, <1>17, <1>18, <1>19, <1>20, <1>21, <1>22, <1>23, <1>24, <1>25, <1>26, <1>27, <1>28, <1>29, <1>30, <1>31, <1>32 DEF Turn, Run, Step, Rollback, Disturb

LEMMA PlaceShape ==
  ASSUME NEW c \in Change, Domains, Place(c)
  PROVE  \/ SaveAs(c, "failed")
         \/ /\ SaveAs(c, "committing") /\ bak' = bak
            /\ Placing(c) = c => staged[c].dir # None
            /\ wrote'[c] = wrote[c] \union {Placing(c)}
BY DEF Place, Domains

LEMMA EmptiedMemory ==
  ASSUME NEW c \in Change, pc'[c] = "idle", mem'[c] = Fresh
  PROVE  InMemory(c)'
BY DEF InMemory, Fresh

LEMMA EndingMemory ==
  ASSUME NEW c \in Change, pc'[c] = "save", mem'[c].state \in {"failed", "rolled-back"}
  PROVE  InMemory(c)'
BY DEF InMemory, Content, Early, Late, Placed

LEMMA MemoryFromDisk ==
  ASSUME NEW c \in Change, OnDisk(c), journal[c] # Torn,
         live'[c] = live[c], bak'[c] = bak[c], wrote'[c] = wrote[c], staged'[c] = staged[c],
         mem'[c].state = journal[c].state, mem'[c].inv = journal[c].inv,
         mem'[c].created = journal[c].created,
         pc'[c] \notin {"place", "clean", "copy", "stage"}
  PROVE  InMemory(c)'
<1>1. journal[c].state = "committing" =>
        \A i \in DOMAIN journal[c].created : journal[c].created[i] \in wrote[c]
  BY DEF OnDisk, Range
<1> QED
  BY <1>1 DEF OnDisk, InMemory, Content

LEMMA PushedMemory ==
  ASSUME NEW c \in Change, Domains, TypeAt(c), Where(c), InMemory(c), pc[c] \in {"commit", "shift"},
         NEW t, IsNext(c, t), Push(c, t, "place"),
         wrote'[c] = wrote[c], staged'[c] = staged[c],
         mem[c].state = "committing" => bak'[c] = bak[c]
  PROVE  InMemory(c)'
<1> DEFINE s == mem[c].created
<1>1. /\ t \in Range(Targets(c)) /\ (t = c \/ c \in Range(s))
      /\ s \in Seq(Range(Targets(c))) /\ mem[c].state \in {"compared", "committing"}
  BY NextFacts, JournalParts DEF Where, TypeAt
<1>2. /\ pc'[c] = "place" /\ mem'[c].state = mem[c].state /\ mem'[c].inv = mem[c].inv
      /\ mem'[c].created = Append(s, t)
  BY <1>1, PushTyped
<1>3. CASE mem[c].state = "compared"
  <2>1. s = <<>>
    BY <1>3 DEF InMemory, Where
  <2>2. Range(<<>>) = {}
    BY DEF Range
  <2>3. Append(s, t) = <<c>> /\ <<c>> # <<>>
    BY <1>1, <2>1, <2>2
  <2> QED
    BY <1>2, <1>3, <2>3 DEF InMemory, Content, Where, Early, Late, Placed
<1>4. CASE mem[c].state = "committing"
  <2>1. /\ DOMAIN Append(s, t) = 1 .. Len(s) + 1 /\ Len(Append(s, t)) = Len(s) + 1
        /\ \A i \in 1 .. Len(s) : Append(s, t)[i] = s[i]
        /\ DOMAIN s = 1 .. Len(s) /\ Len(s) \in Nat /\ Append(s, t) # <<>>
    BY <1>1
  <2>2. \A i \in DOMAIN s : s[i] \in wrote[c]
    BY <1>4 DEF InMemory
  <2>3. \A i \in DOMAIN Append(s, t) : Append(s, t)[i] \in wrote[c] \/ i = Len(Append(s, t))
    BY <2>1, <2>2
  <2>4. /\ c \in Range(Append(s, t)) /\ (c \notin Existing => bak'[c] = None)
        /\ mem[c].inv # None /\ c \in wrote[c]
    BY <1>1, <1>4, SeqFacts DEF InMemory, Content, Late
  <2> QED
    BY <1>2, <1>4, <2>1, <2>3, <2>4 DEF InMemory, Content, Early, Late, Placed
<1> QED
  BY <1>1, <1>3, <1>4

LEMMA StepInMemory ==
  ASSUME NEW c \in Change, TypeOK, Local(c), Turn(c) \/ Disturb(c)
  PROVE  InMemory(c)'
<1> USE DEF Domains, TypeAt, Local, InMemory, Content, Where, files, Early, Late, Placed
<1>0. Domains /\ TypeAt(c) /\ SpecsTyped /\ Local(c)
  BY TypeParts
<1>1. CASE Unreadable(c)
  BY <1>0, <1>1 DEF Unreadable
<1>2. CASE RepeatTerminal(c)
  BY <1>0, <1>2 DEF RepeatTerminal
<1>3. CASE ResumeDone(c)
  BY <1>0, <1>3, MemoryFromDisk DEF ResumeDone, Goto
<1>4. CASE Invoke(c)
  <2>1. /\ journal[c] \in Journal(c) /\ journal[c] # Torn
        /\ journal[c].state \in State \ {"failed", "rolled-back"}
        /\ origin[c].plan \in Plan(c) \union {None}
    BY <1>0, <1>4, StateFacts, TypeParts, DirParts DEF Invoke
  <2>2. CASE mem' = [mem EXCEPT ![c] = [journal[c] EXCEPT !.state = "failed"]] /\ Goto(c, "save")
    BY <1>0, <2>1, <2>2, JournalParts, StateFacts, EndingMemory DEF Goto
  <2>3. CASE /\ mem' = [mem EXCEPT ![c] = [journal[c] EXCEPT !.plan = origin[c].plan]]
             /\ Goto(c, StepOf(journal[c].state))
    <3>1. /\ mem'[c].state = journal[c].state /\ mem'[c].inv = journal[c].inv
          /\ mem'[c].created = journal[c].created /\ pc'[c] = StepOf(journal[c].state)
      BY <1>0, <2>1, <2>3, JournalParts DEF Goto
    <3>2. pc'[c] \notin {"place", "clean", "copy", "stage"}
      BY <2>1, <3>1, StepOfTyped
    <3> QED
      BY <1>0, <1>4, <2>1, <3>1, <3>2, MemoryFromDisk DEF Invoke
  <2> QED
    BY <1>4, <2>2, <2>3 DEF Invoke
<1>5. CASE Preflight(c)
  BY <1>0, <1>5, SaveAsTyped, StateFacts DEF Preflight
<1>6. CASE Inventory(c)
  <2>1. origin[c] # None /\ mem[c].state = "preflighted"
    BY <1>0, <1>6 DEF Inventory, Kept, In
  <2>2. /\ mem'[c].state = mem[c].state /\ mem'[c].created = mem[c].created
        /\ mem'[c].inv = origin[c] /\ pc'[c] = "copy"
    BY <1>0, <1>6, JournalParts DEF Inventory, Goto
  <2> QED
    BY <1>0, <1>6, <2>1, <2>2 DEF Inventory
<1>7. CASE CopyDirectory(c)
  BY <1>0, <1>7 DEF CopyDirectory, Goto
<1>8. CASE StageSpecs(c)
  BY <1>0, <1>8, SaveAsTyped, StateFacts DEF StageSpecs
<1>9. CASE CompareA(c)
  BY <1>0, <1>9, SaveAsTyped, StateFacts DEF CompareA
<1>10. CASE TakeFree(c)
  <2>1. PICK t \in Range(Targets(c)) : IsNext(c, t) /\ Push(c, t, "place")
    BY <1>10 DEF TakeFree
  <2> QED
    BY <1>0, <1>10, <2>1, PushedMemory DEF TakeFree
<1>11. CASE DropBak(c)
  BY <1>0, <1>11, TargetOwner DEF DropBak, Goto
<1>12. CASE Shift(c)
  <2>1. PICK t \in Range(Targets(c)) :
              /\ IsNext(c, t)
              /\ \/ SaveAs(c, "failed")
                 \/ bak' = [bak EXCEPT ![t] = live[t]] /\ Push(c, t, "place")
    BY <1>12 DEF Shift
  <2>2. CASE SaveAs(c, "failed")
    BY <1>0, <2>2, SaveAsTyped, StateFacts, EndingMemory
  <2>3. CASE bak' = [bak EXCEPT ![t] = live[t]] /\ Push(c, t, "place")
    <3>1. mem[c].state = "committing" => t # c
      BY <1>0, <1>12, <2>1, NextFacts DEF Shift
    <3>2. mem[c].state = "committing" => bak'[c] = bak[c]
      BY <1>0, <2>3, <3>1
    <3> QED
      BY <1>0, <1>12, <2>1, <2>3, <3>2, PushedMemory DEF Shift
  <2> QED
    BY <2>1, <2>2, <2>3
<1>13. CASE Place(c)
  <2> DEFINE t == Placing(c)
  <2>1. CASE SaveAs(c, "failed")
    BY <1>0, <2>1, StateFacts, SaveAsTyped, EndingMemory
  <2>2. CASE /\ SaveAs(c, "committing") /\ bak' = bak
             /\ t = c => staged[c].dir # None
             /\ wrote'[c] = wrote[c] \union {t}
    <3>1. /\ pc'[c] = "save" /\ mem'[c].state = "committing" /\ mem'[c].inv = mem[c].inv
          /\ mem'[c].created = mem[c].created
      BY <1>0, <2>2, SaveAsTyped, StateFacts
    <3>2. /\ mem[c].created \in Seq(Range(Targets(c))) /\ mem[c].created # <<>>
          /\ mem[c].state \in {"compared", "committing"} /\ mem[c].inv # None
      BY <1>0, <1>13, JournalParts DEF Place
    <3>3. (c \notin Existing => bak[c] = None) /\ c \in Range(mem[c].created) /\ c \in wrote'[c]
      <4>1. CASE mem[c].state = "compared"
        <5>1. mem[c].created = <<c>>
          BY <1>0, <1>13, <4>1 DEF Place
        <5>2. t = c /\ c \in Range(mem[c].created)
          BY <5>1 DEF Placing, Last, Range
        <5> QED
          BY <1>0, <2>2, <5>2 DEF StagedOnce
      <4>2. CASE mem[c].state = "committing"
        BY <1>0, <1>13, <4>2 DEF Place
      <4> QED
        BY <3>2, <4>1, <4>2
    <3>4. \A i \in DOMAIN mem[c].created : mem[c].created[i] \in wrote'[c]
      <4>1. \A i \in DOMAIN mem[c].created : mem[c].created[i] \in wrote[c] \/ i = Len(mem[c].created)
        <5>1. CASE mem[c].state = "compared"
          <6>1. mem[c].created = <<c>>
            BY <1>0, <1>13, <5>1 DEF Place
          <6> QED
            BY <6>1
        <5>2. CASE mem[c].state = "committing"
          BY <1>0, <5>2
        <5> QED
          BY <3>2, <5>1, <5>2
      <4>2. mem[c].created[Len(mem[c].created)] = t
        BY DEF Placing, Last
      <4> QED
        BY <2>2, <4>1, <4>2
    <3> QED
      BY <2>2, <3>1, <3>2, <3>3, <3>4
  <2> QED
    BY <1>0, <1>13, <2>1, <2>2, PlaceShape
<1>14. CASE AllPlaced(c)
  <2>1. Range(mem[c].created) # {}
    BY <1>14, TargetsFacts DEF AllPlaced
  <2>2. Range(<<>>) = {}
    BY DEF Range
  <2>3. mem[c].state = "committing"
    BY <1>0, <1>14, <2>1, <2>2 DEF AllPlaced
  <2>4. Range(mem[c].created) \subseteq wrote[c]
    BY <1>0, <1>14, <2>3 DEF AllPlaced, Range
  <2>5. wrote[c] = Range(Targets(c))
    BY <1>0, <1>14, <2>4 DEF AllPlaced
  <2> QED
    BY <1>0, <1>14, <2>3, <2>5 DEF AllPlaced, Goto
<1>15. CASE Clean(c)
  <2>1. CASE left[c] = <<>>
    BY <1>0, <1>15, <2>1, SaveAsTyped, StateFacts DEF Clean
  <2>2. CASE left[c] # <<>>
    <3>1. /\ bak' = [bak EXCEPT ![Head(left[c])] = None]
          /\ mem' = mem /\ pc' = pc /\ live' = live /\ staged' = staged /\ wrote' = wrote
          /\ journal' = journal
      BY <1>15, <2>2 DEF Clean
    <3>2. bak'[c] = None \/ bak'[c] = bak[c]
      BY <1>0, <3>1
    <3> QED
      BY <1>0, <3>1, <3>2
  <2> QED
    BY <2>1, <2>2
<1>16. CASE CompareB(c)
  BY <1>0, <1>16, SaveAsTyped, StateFacts DEF CompareB
<1>17. CASE Finish(c)
  BY <1>0, <1>17, SaveAsTyped, StateFacts DEF Finish
<1>18. CASE Purge(c)
  BY <1>0, <1>18, ExitTyped, EmptiedMemory DEF Purge, End
<1>19. CASE Save(c)
  <2>1. CASE mem[c].state \in {"failed", "rolled-back"}
    BY <1>0, <1>19, <2>1, ExitTyped, EmptiedMemory DEF Save, End
  <2>2. CASE mem[c].state \notin {"failed", "rolled-back"}
    <3>1. /\ pc'[c] = IF mem[c].state = "preflighted" THEN "inventory" ELSE StepOf(mem[c].state)
          /\ mem' = mem /\ live' = live /\ bak' = bak /\ wrote' = wrote /\ staged' = staged
      BY <1>0, <1>19, <2>2 DEF Save, Goto
    <3>2. pc'[c] \notin {"place", "clean", "copy", "stage"}
      BY <1>0, <2>2, <3>1, StepOfTyped, JournalParts
    <3> QED
      BY <1>0, <1>19, <3>1, <3>2 DEF Save
  <2> QED
    BY <2>1, <2>2
<1>20. CASE Undo(c)
  BY <1>0, <1>20, TargetOwner DEF Undo
<1>21. CASE Undone(c)
  BY <1>0, <1>21, SaveAsTyped, StateFacts DEF Undone
<1>22. CASE RollbackEarly(c)
  BY <1>0, <1>22, JournalParts, StateFacts DEF RollbackEarly, Goto, NothingLive
<1>23. CASE RollbackCommit(c)
  BY <1>0, <1>23, MemoryFromDisk DEF RollbackCommit, Goto, NothingLive
<1>24. CASE RollbackDone(c)
  BY <1>0, <1>24 DEF RollbackDone
<1>25. CASE Crash(c)
  BY <1>0, <1>25, ExitTyped, EmptiedMemory DEF Crash
<1>26. CASE Edit(c)
  BY <1>0, <1>26 DEF Edit
<1>27. CASE Replan(c)
  BY <1>0, <1>27 DEF Replan
<1>28. CASE Recreate(c)
  BY <1>0, <1>28 DEF Recreate
<1>29. CASE CleanFails(c)
  BY <1>0, <1>29 DEF CleanFails
<1>30. CASE PurgeFails(c)
  BY <1>0, <1>30, ExitTyped, EmptiedMemory DEF PurgeFails, End
<1>31. CASE UndoFails(c)
  BY <1>0, <1>31, TargetOwner DEF UndoFails
<1>32. CASE Fault(c)
  BY <1>0, <1>32, SaveAsTyped, StateFacts DEF Fault
<1> QED
  BY <1>1, <1>2, <1>3, <1>4, <1>5, <1>6, <1>7, <1>8, <1>9, <1>10, <1>11, <1>12, <1>13, <1>14, <1>15, <1>16, <1>17, <1>18, <1>19, <1>20, <1>21, <1>22, <1>23, <1>24, <1>25, <1>26, <1>27, <1>28, <1>29, <1>30, <1>31, <1>32 DEF Turn, Run, Step, Rollback, Disturb

-----------------------------------------------------------------------------
(* The theorems *)

LEMMA InitInv ==
  ASSUME Init
  PROVE  IInv
<1>1. TypeOK
  BY InitTyped
<1> SUFFICES ASSUME NEW c \in Change PROVE Local(c)
  BY <1>1 DEF IInv
<1>2. c \notin Existing => live[c] = None /\ bak[c] = None
  BY DEF Init, Before
<1>3. /\ pc[c] = "idle" /\ mem[c] = Fresh /\ journal[c] = Fresh
      /\ staged[c].dir = None /\ wrote[c] = {}
  BY DEF Init
<1>4. origin[c] # None
  <2>1. PlanOf(c, 1) \in Plan(c) /\ 1 \in Edition
    BY <1>1, DirParts, TypeParts, ArchiveTransactionAssumption DEF Edition
  <2>2. origin[c] \in Dir(c)
    BY <2>1 DEF Init, Dir
  <2> QED
    BY <2>2, NoContentAssumption
<1>5. Where(c)
  BY <1>3 DEF Where
<1>6. InMemory(c)
  BY <1>3 DEF InMemory, Fresh
<1>7. OnDisk(c)
  BY <1>2, <1>3 DEF OnDisk, Content, Fresh, Early, Late, Placed
<1> QED
  BY <1>3, <1>4, <1>5, <1>6, <1>7 DEF Local, StagedOnce, Kept

\* What each action may rely on besides the types.
LEMMA LocalGuards ==
  ASSUME NEW c \in Change, TypeOK, Local(c)
  PROVE  /\ origin[c] = None => pc[c] \in {"idle", "purge"}
         /\ pc[c] = "place" => mem[c].created # <<>>
<1>1. ASSUME origin[c] = None PROVE pc[c] \in {"idle", "purge"}
  <2>1. journal[c] # Torn /\ journal[c].state = "done"
    BY <1>1 DEF Local, Kept, In
  <2>2. ASSUME pc[c] \notin {"idle", "purge"} PROVE FALSE
    <3>1. pc[c] # "save" /\ mem[c].state = "done"
      BY <2>1, <2>2 DEF Local, Where
    <3>2. pc[c] \in {"preflight", "inventory", "copy", "stage", "compareA", "commit", "shift",
                     "place", "clean", "compareB", "finish", "undo"} => FALSE
      BY <3>1 DEF Local, Where
    <3>3. pc[c] \in Pc
      BY DEF TypeOK
    <3> QED
      BY <3>1, <3>2, <3>3, <2>2 DEF Pc
  <2> QED
    BY <2>2
<1> QED
  BY <1>1 DEF Local, InMemory

LEMMA ActInv ==
  ASSUME IInv, NEW c \in Change, Turn(c) \/ Disturb(c)
  PROVE  IInv' /\ Others(c)
<1>1. TypeOK /\ Local(c)
  BY DEF IInv
<1>2. Frame(c)
  BY <1>1, LocalGuards, StepTyped
<1>3. TypeOK' /\ Others(c)
  BY <1>1, <1>2, FrameParts DEF Frame
<1>4. Local(c)'
  BY <1>1, StepWhere, StepInMemory, StepOnDisk, StepStaged, StepKept DEF Local
<1>5. \A d \in Change \ {c} : Local(d)'
  BY <1>3, LocalFrame DEF IInv
<1> QED
  BY <1>3, <1>4, <1>5 DEF IInv

LEMMA StepInv ==
  ASSUME IInv, [Next]_vars
  PROVE  IInv'
<1>1. CASE Next
  BY <1>1, ActInv DEF Next
<1>2. CASE UNCHANGED vars
  BY <1>2 DEF vars, files, IInv, TypeOK, Local, Where, InMemory, OnDisk, Content, StagedOnce, Kept, In
<1> QED
  BY <1>1, <1>2

\* Every variable keeps its type, whatever fails, is interrupted or rolled back.
THEOREM TypeCorrect == Spec => []TypeOK
<1>1. Init => IInv
  BY InitInv
<1>2. IInv /\ [Next]_vars => IInv'
  BY StepInv
<1>3. IInv => TypeOK
  BY DEF IInv
<1> QED
  BY <1>1, <1>2, <1>3, PTL DEF Spec

\* The directory of a change is removed only when its journal says `done` and an
\* archive stands; it is equal to what was staged if no archive stood under the
\* name of the change before.  Without that it need not be: the .bak of the older
\* one, when its removal failed, comes back by a rollback, and a run that resumes
\* takes it for the archive of the change (the done checkpoint before rm).
THEOREM OriginsAreKept ==
  Spec => [](\A c \in Change : origin[c] = None =>
               /\ In(c, {"done"}) /\ live[c] # None
               /\ c \notin Existing => live[c] = journal[c].inv)
<1> DEFINE Archived == \A c \in Change : origin[c] = None =>
                         /\ In(c, {"done"}) /\ live[c] # None
                         /\ c \notin Existing => live[c] = journal[c].inv
<1>1. Init => IInv
  BY InitInv
<1>2. IInv /\ [Next]_vars => IInv'
  BY StepInv
<1>3. IInv => Archived
  BY DEF IInv, Local, Kept, OnDisk, Content, In
<1> QED
  BY <1>1, <1>2, <1>3, PTL DEF Spec

\* The directory of an archive carries the date of the day: no change finds one
\* under its name.
NewArchives == Existing \intersect Change = {}

\* Then the directory of a change is gone only when an archive equal to what was
\* staged is in place.
THEOREM OriginIsSafe == ASSUME NewArchives PROVE Spec => []OriginSafe
<1> DEFINE Archived == \A c \in Change : origin[c] = None =>
                         /\ In(c, {"done"}) /\ live[c] # None
                         /\ c \notin Existing => live[c] = journal[c].inv
<1>1. Archived => OriginSafe
  BY DEF OriginSafe, NewArchives
<1> QED
  BY <1>1, OriginsAreKept, PTL

\* A journal past the commit has put every target in place.
THEOREM CommitsAreComplete == Spec => []CommittedComplete
<1>1. Init => IInv
  BY InitInv
<1>2. IInv /\ [Next]_vars => IInv'
  BY StepInv
<1>3. IInv => CommittedComplete
  BY DEF IInv, CommittedComplete, Local, OnDisk, Content, In, Placed
<1> QED
  BY <1>1, <1>2, <1>3, PTL DEF Spec

LEMMA WroteOnlyByPlace ==
  ASSUME NEW c \in Change, Turn(c) \/ Disturb(c), wrote' # wrote
  PROVE  Place(c)
BY DEF Turn, Run, Step, Rollback, Disturb, Unreadable, RepeatTerminal, ResumeDone, Invoke, Preflight,
       Inventory, CopyDirectory, StageSpecs, CompareA, TakeFree, DropBak, Shift, AllPlaced, Clean,
       CompareB, Finish, Purge, Save, Undo, Undone, RollbackEarly, RollbackCommit, RollbackDone,
       Crash, Edit, Replan, Recreate, CleanFails, PurgeFails, UndoFails, Fault

LEMMA PlaceMatched ==
  ASSUME NEW c \in Change, TypeOK, Local(c), Place(c)
  PROVE  /\ ~In(c, {"init", "preflighted", "staged"})
         /\ c \in wrote'[c] \ wrote[c] => live'[c] = mem[c].inv
<1>1. Domains /\ TypeAt(c) /\ pc[c] = "place"
  BY TypeParts DEF Place
<1>2. mem[c].state = journal[c].state /\ mem[c].state \in {"compared", "committing"}
  BY <1>1 DEF Local, Where
<1>3. ASSUME c \in wrote'[c] \ wrote[c] PROVE live'[c] = mem[c].inv
  <2>1. mem[c].state = "compared"
    BY <1>1, <1>2, <1>3 DEF Local, InMemory, Content, Late
  <2>2. Placing(c) = c
    <3>1. mem[c].created = <<c>>
      BY <1>1, <2>1 DEF Local, InMemory
    <3> QED
      BY <3>1 DEF Placing, Last
  <2>3. staged[c].dir \in {None, mem[c].inv}
    BY <1>1, <2>1 DEF Local, InMemory, Content
  <2>4. live'[c] = staged[c].dir /\ staged[c].dir # None
    BY <1>1, <1>3, <2>2 DEF Place, Domains
  <2> QED
    BY <2>3, <2>4
<1> QED
  BY <1>2, <1>3 DEF In

\* Nothing live is written before the staged copy matched, and the directory
\* that is put in place is the one that was compared.
THEOREM NothingIsPlacedUnmatched == Spec => NothingBeforeMatch
<1> DEFINE Matched == \A c \in Change : wrote'[c] # wrote[c] =>
                        /\ ~In(c, {"init", "preflighted", "staged"})
                        /\ c \in wrote'[c] \ wrote[c] => live'[c] = mem[c].inv
<1>1. Init => IInv
  BY InitInv
<1>2. IInv /\ [Next]_vars => IInv'
  BY StepInv
<1>3. IInv /\ [Next]_vars => [Matched]_vars
  <2> SUFFICES ASSUME IInv, Next PROVE Matched
    BY DEF Matched
  <2>1. PICK c \in Change : Turn(c) \/ Disturb(c)
    BY DEF Next
  <2>2. TypeOK /\ Local(c) /\ Others(c)
    BY <2>1, ActInv DEF IInv
  <2>3. CASE wrote' = wrote
    BY <2>3
  <2>4. CASE wrote' # wrote
    <3>1. Place(c)
      BY <2>1, <2>4, WroteOnlyByPlace
    <3> QED
      BY <2>2, <3>1, PlaceMatched DEF Others
  <2> QED
    BY <2>3, <2>4
<1> QED
  BY <1>1, <1>2, <1>3, PTL DEF Spec, NothingBeforeMatch

-----------------------------------------------------------------------------
(* Receipts and the reducer *)

\* What ReceiptTrue says of one change.
Honest(c) ==
  /\ receipt[c] = "success" => In(c, {"done"})
  /\ receipt[c] \in {"failed", "rolled-back"} => origin[c] # None

\* journal[c].state and the directory, as the reducer sees them.
Saved(c) == IF journal[c] = Torn THEN "torn" ELSE journal[c].state

LEMMA EditedOrigin ==
  ASSUME NEW c \in Change, TypeOK, Edit(c) \/ Replan(c) \/ Recreate(c)
  PROVE  origin'[c] # None
<1>0. Domains /\ TypeAt(c) /\ SpecsTyped
  BY TypeParts
<1>1. CASE Edit(c)
  <2>1. origin[c] \in Dir(c) /\ origin[c].ed + 1 \in Edition
    BY <1>0, <1>1, DirParts DEF Edit, TypeAt
  <2>2. origin'[c] = [origin[c] EXCEPT !.ed = origin[c].ed + 1]
    BY <1>0, <1>1 DEF Edit, Domains
  <2> QED
    BY <1>0, <2>1, <2>2, DirParts
<1>2. CASE Replan(c)
  <2>1. origin[c] \in Dir(c) /\ PlanOf(c, origin[c].ed) \in Plan(c)
    BY <1>0, <1>2, DirParts DEF Replan, TypeAt
  <2>2. origin'[c] = [origin[c] EXCEPT !.plan = PlanOf(c, origin[c].ed)]
    BY <1>0, <1>2 DEF Replan, Domains
  <2> QED
    BY <1>0, <2>1, <2>2, DirParts
<1>3. CASE Recreate(c)
  <2>1. PICK e \in Edition : origin'[c] = [ed |-> e, plan |-> None]
    BY <1>0, <1>3 DEF Recreate, Domains
  <2> QED
    BY <1>0, <2>1, DirParts
<1> QED
  BY <1>1, <1>2, <1>3

LEMMA StepHonest ==
  ASSUME NEW c \in Change, TypeOK, Local(c), Honest(c), Turn(c) \/ Disturb(c)
  PROVE  Honest(c)'
<1> USE DEF Domains, TypeAt, Local, Honest, In, files
<1>0. Domains /\ TypeAt(c) /\ SpecsTyped /\ Local(c)
  BY TypeParts
<1>1. CASE Unreadable(c)
  BY <1>0, <1>1 DEF Unreadable
<1>2. CASE RepeatTerminal(c)
  BY <1>0, <1>2 DEF RepeatTerminal, Kept
<1>3. CASE ResumeDone(c)
  BY <1>0, <1>3 DEF ResumeDone
<1>4. CASE Invoke(c)
  BY <1>0, <1>4 DEF Invoke
<1>5. CASE Preflight(c)
  BY <1>0, <1>5 DEF Preflight
<1>6. CASE Inventory(c)
  BY <1>0, <1>6 DEF Inventory
<1>7. CASE CopyDirectory(c)
  BY <1>0, <1>7 DEF CopyDirectory
<1>8. CASE StageSpecs(c)
  BY <1>0, <1>8 DEF StageSpecs
<1>9. CASE CompareA(c)
  BY <1>0, <1>9 DEF CompareA
<1>10. CASE TakeFree(c)
  BY <1>0, <1>10 DEF TakeFree
<1>11. CASE DropBak(c)
  BY <1>0, <1>11 DEF DropBak
<1>12. CASE Shift(c)
  BY <1>0, <1>12 DEF Shift
<1>13. CASE Place(c)
  BY <1>0, <1>13 DEF Place
<1>14. CASE AllPlaced(c)
  BY <1>0, <1>14 DEF AllPlaced
<1>15. CASE Clean(c)
  BY <1>0, <1>15 DEF Clean
<1>16. CASE CompareB(c)
  BY <1>0, <1>16 DEF CompareB
<1>17. CASE Finish(c)
  BY <1>0, <1>17 DEF Finish
<1>18. CASE Purge(c)
  BY <1>0, <1>18, StateFacts DEF Purge, End, Where
<1>19. CASE Save(c)
  BY <1>0, <1>19 DEF Save, End, Where, Kept
<1>20. CASE Undo(c)
  BY <1>0, <1>20 DEF Undo, files
<1>21. CASE Undone(c)
  BY <1>0, <1>21 DEF Undone
<1>22. CASE RollbackEarly(c)
  BY <1>0, <1>22 DEF RollbackEarly
<1>23. CASE RollbackCommit(c)
  BY <1>0, <1>23 DEF RollbackCommit
<1>24. CASE RollbackDone(c)
  BY <1>0, <1>24 DEF RollbackDone, Kept
<1>25. CASE Crash(c)
  BY <1>0, <1>25 DEF Crash, Where
<1>26. CASE Edit(c)
  BY <1>0, <1>26, EditedOrigin DEF Edit
<1>27. CASE Replan(c)
  BY <1>0, <1>27, EditedOrigin DEF Replan
<1>28. CASE Recreate(c)
  BY <1>0, <1>28, EditedOrigin DEF Recreate
<1>29. CASE CleanFails(c)
  BY <1>0, <1>29 DEF CleanFails
<1>30. CASE PurgeFails(c)
  BY <1>0, <1>30 DEF PurgeFails, End, Where
<1>31. CASE UndoFails(c)
  BY <1>0, <1>31 DEF UndoFails
<1>32. CASE Fault(c)
  BY <1>0, <1>32 DEF Fault
<1> QED
  BY <1>1, <1>2, <1>3, <1>4, <1>5, <1>6, <1>7, <1>8, <1>9, <1>10, <1>11, <1>12, <1>13, <1>14, <1>15, <1>16, <1>17, <1>18, <1>19, <1>20, <1>21, <1>22, <1>23, <1>24, <1>25, <1>26, <1>27, <1>28, <1>29, <1>30, <1>31, <1>32 DEF Turn, Run, Step, Rollback, Disturb

LEMMA StepReducer ==
  ASSUME NEW c \in Change, TypeOK, Local(c), Turn(c) \/ Disturb(c)
  PROVE  \/ Saved(c)' = Saved(c) /\ (origin'[c] = None <=> origin[c] = None)
         \/ /\ origin' = origin
            /\ \/ Saved(c)' \in Promise!After(Saved(c))
               \/ Saved(c) \notin {"done", "torn", "failed", "rolled-back"} /\ Saved(c)' = "failed"
               \/ Saved(c) \notin {"done", "torn"} /\ Saved(c)' \in {"rolled-back", "torn"}
         \/ /\ Saved(c)' = Saved(c)
            /\ Saved(c) = "done" /\ origin[c] # None /\ origin'[c] = None
         \/ Saved(c)' = Saved(c) /\ origin[c] = None /\ origin'[c] # None
<1> USE DEF Domains, TypeAt, Local, Saved, files
<1>0. Domains /\ TypeAt(c) /\ SpecsTyped /\ Local(c)
  BY TypeParts
<1>1. CASE Unreadable(c)
  BY <1>0, <1>1 DEF Unreadable
<1>2. CASE RepeatTerminal(c)
  BY <1>0, <1>2 DEF RepeatTerminal
<1>3. CASE ResumeDone(c)
  BY <1>0, <1>3 DEF ResumeDone
<1>4. CASE Invoke(c)
  BY <1>0, <1>4 DEF Invoke
<1>5. CASE Preflight(c)
  BY <1>0, <1>5 DEF Preflight
<1>6. CASE Inventory(c)
  BY <1>0, <1>6 DEF Inventory
<1>7. CASE CopyDirectory(c)
  BY <1>0, <1>7 DEF CopyDirectory
<1>8. CASE StageSpecs(c)
  BY <1>0, <1>8 DEF StageSpecs
<1>9. CASE CompareA(c)
  BY <1>0, <1>9 DEF CompareA
<1>10. CASE TakeFree(c)
  BY <1>0, <1>10 DEF TakeFree
<1>11. CASE DropBak(c)
  BY <1>0, <1>11 DEF DropBak
<1>12. CASE Shift(c)
  BY <1>0, <1>12 DEF Shift
<1>13. CASE Place(c)
  BY <1>0, <1>13 DEF Place
<1>14. CASE AllPlaced(c)
  BY <1>0, <1>14 DEF AllPlaced
<1>15. CASE Clean(c)
  BY <1>0, <1>15 DEF Clean
<1>16. CASE CompareB(c)
  BY <1>0, <1>16 DEF CompareB
<1>17. CASE Finish(c)
  BY <1>0, <1>17 DEF Finish
<1>18. CASE Purge(c)
  BY <1>0, <1>18 DEF Purge, Where
<1>19. CASE Save(c)
  <2>1. mem[c] \in Journal(c) /\ mem[c] # Torn /\ journal[c] \in Journal(c) \union {Torn}
    BY <1>0, NoContentAssumption
  <2>2. /\ journal[c] # Torn /\ journal[c].state \in State \ {"done"}
        /\ \/ mem[c].state \in Promise!After(journal[c].state)
           \/ mem[c].state = "preflighted" /\ journal[c].state = "preflighted"
           \/ mem[c].state = "failed" /\ journal[c].state \notin {"failed", "rolled-back"}
           \/ mem[c].state = "rolled-back"
    BY <1>0, <1>19, <2>1, JournalParts DEF Save, Where
  <2>3. origin' = origin /\ journal'[c] = mem[c]
    BY <1>0, <1>19 DEF Save
  <2>4. Saved(c)' = mem[c].state /\ Saved(c) = journal[c].state /\ Saved(c) \notin {"done", "torn"}
    BY <2>1, <2>2, <2>3, StateFacts
  <2> QED
    BY <2>2, <2>3, <2>4
<1>20. CASE Undo(c)
  BY <1>0, <1>20 DEF Undo
<1>21. CASE Undone(c)
  BY <1>0, <1>21 DEF Undone
<1>22. CASE RollbackEarly(c)
  BY <1>0, <1>22 DEF RollbackEarly
<1>23. CASE RollbackCommit(c)
  BY <1>0, <1>23 DEF RollbackCommit
<1>24. CASE RollbackDone(c)
  BY <1>0, <1>24 DEF RollbackDone
<1>25. CASE Crash(c)
  BY <1>0, <1>25 DEF Crash, Where, Kept, In
<1>26. CASE Edit(c)
  BY <1>0, <1>26, EditedOrigin DEF Edit
<1>27. CASE Replan(c)
  BY <1>0, <1>27, EditedOrigin DEF Replan
<1>28. CASE Recreate(c)
  BY <1>0, <1>28, EditedOrigin DEF Recreate
<1>29. CASE CleanFails(c)
  BY <1>0, <1>29 DEF CleanFails
<1>30. CASE PurgeFails(c)
  BY <1>0, <1>30 DEF PurgeFails
<1>31. CASE UndoFails(c)
  BY <1>0, <1>31 DEF UndoFails
<1>32. CASE Fault(c)
  BY <1>0, <1>32 DEF Fault
<1> QED
  BY <1>1, <1>2, <1>3, <1>4, <1>5, <1>6, <1>7, <1>8, <1>9, <1>10, <1>11, <1>12, <1>13, <1>14, <1>15, <1>16, <1>17, <1>18, <1>19, <1>20, <1>21, <1>22, <1>23, <1>24, <1>25, <1>26, <1>27, <1>28, <1>29, <1>30, <1>31, <1>32 DEF Turn, Run, Step, Rollback, Disturb

\* A receipt tells the truth about the directory of the change.
THEOREM ReceiptsAreTrue == Spec => []ReceiptTrue
<1> DEFINE RInv == IInv /\ \A c \in Change : Honest(c)
<1>1. Init => RInv
  BY InitInv DEF Init, Honest
<1>2. RInv /\ [Next]_vars => RInv'
  <2> SUFFICES ASSUME RInv, [Next]_vars PROVE RInv'
    OBVIOUS
  <2>1. CASE Next
    <3>1. PICK c \in Change : Turn(c) \/ Disturb(c)
      BY <2>1 DEF Next
    <3>2. IInv' /\ Others(c)
      BY <3>1, ActInv
    <3>3. Honest(c)'
      BY <3>1, StepHonest DEF IInv
    <3>4. \A d \in Change \ {c} : Honest(d)'
      BY <3>2 DEF Others, Honest, In
    <3> QED
      BY <3>2, <3>3, <3>4
  <2>2. CASE UNCHANGED vars
    BY <2>2, StepInv DEF vars, files, Honest, In
  <2> QED
    BY <2>1, <2>2
<1>3. RInv => ReceiptTrue
  BY DEF ReceiptTrue, Honest
<1> QED
  BY <1>1, <1>2, <1>3, PTL DEF Spec

LEMMA ReducerStep ==
  ASSUME IInv, Next
  PROVE  Promise!Next \/ UNCHANGED <<[c \in Change |-> Saved(c)], [c \in Change |-> origin[c] # None]>>
<1> DEFINE st == [c \in Change |-> Saved(c)]
           kp == [c \in Change |-> origin[c] # None]
<1>1. PICK c \in Change : Turn(c) \/ Disturb(c)
  BY DEF Next
<1>2. TypeOK /\ Local(c) /\ Others(c)
  BY <1>1, ActInv DEF IInv
<1>3. \A d \in Change \ {c} : Saved(d)' = Saved(d) /\ (origin'[d] # None) = (origin[d] # None)
  BY <1>2 DEF Others, Saved
<1>4. st' = [st EXCEPT ![c] = Saved(c)']
  BY <1>3
<1>5. kp' = [kp EXCEPT ![c] = (origin'[c] # None)]
  BY <1>3
<1>6. CASE Saved(c)' = Saved(c) /\ (origin'[c] = None <=> origin[c] = None)
  <2>1. st' = st
    BY <1>4, <1>6
  <2>2. kp' = kp
    BY <1>5, <1>6
  <2> QED
    BY <2>1, <2>2
<1>7. CASE /\ origin' = origin
           /\ \/ Saved(c)' \in Promise!After(Saved(c))
              \/ Saved(c) \notin {"done", "torn", "failed", "rolled-back"} /\ Saved(c)' = "failed"
              \/ Saved(c) \notin {"done", "torn"} /\ Saved(c)' \in {"rolled-back", "torn"}
  <2>1. kp' = kp
    BY <1>7
  <2>2. CASE Saved(c)' \in Promise!After(Saved(c))
    <3>1. Promise!Advance(c)
      BY <1>4, <2>1, <2>2 DEF Promise!Advance, Saved
    <3> QED
      BY <3>1 DEF Promise!Next
  <2>3. CASE Saved(c) \notin {"done", "torn", "failed", "rolled-back"} /\ Saved(c)' = "failed"
    <3>1. Promise!Fail(c)
      BY <1>4, <2>1, <2>3 DEF Promise!Fail, Promise!Ended, Saved
    <3> QED
      BY <3>1 DEF Promise!Next
  <2>4. CASE Saved(c) \notin {"done", "torn"} /\ Saved(c)' = "rolled-back"
    <3>1. Promise!RollBack(c)
      BY <1>4, <2>1, <2>4 DEF Promise!RollBack, Promise!Ended, Saved
    <3> QED
      BY <3>1 DEF Promise!Next
  <2>5. CASE Saved(c) \notin {"done", "torn"} /\ Saved(c)' = "torn"
    <3>1. Promise!Tear(c)
      BY <1>4, <2>1, <2>5 DEF Promise!Tear, Promise!Ended, Saved
    <3> QED
      BY <3>1 DEF Promise!Next
  <2> QED
    BY <1>7, <2>2, <2>3, <2>4, <2>5
<1>8. CASE /\ Saved(c)' = Saved(c)
           /\ Saved(c) = "done" /\ origin[c] # None /\ origin'[c] = None
  <2>1. st' = st
    BY <1>4, <1>8
  <2>2. Promise!Remove(c)
    BY <1>5, <1>8, <2>1 DEF Promise!Remove, Saved
  <2> QED
    BY <2>2 DEF Promise!Next
<1>9. CASE Saved(c)' = Saved(c) /\ origin[c] = None /\ origin'[c] # None
  <2>1. st' = st
    BY <1>4, <1>9
  <2>2. Promise!Recreate(c)
    BY <1>5, <1>9, <2>1 DEF Promise!Recreate, Saved
  <2> QED
    BY <2>2 DEF Promise!Next
<1> QED
  BY <1>1, <1>2, <1>6, <1>7, <1>8, <1>9, StepReducer

\* The transaction implements ArchiveJournal: whatever happens, the journal goes
\* through the states of nextTransactionAction in their order and the directory
\* of the change is removed only in `done`.
THEOREM ReducerIsFollowed == Spec => FollowsReducer
<1>1. Init => IInv
  BY InitInv
<1>2. IInv /\ [Next]_vars => IInv'
  BY StepInv
<1>3. Init => Promise!Init
  <2> SUFFICES ASSUME Init PROVE Promise!Init
    OBVIOUS
  <2>1. \A c \in Change : journal[c] = Fresh /\ Fresh # Torn /\ origin[c] # None
    <3> TAKE c \in Change
    <3>1. Kept(c)
      BY InitInv DEF IInv, Local
    <3>2. journal[c] = Fresh /\ Fresh # Torn
      BY FreshTyped, NoContentAssumption DEF Init
    <3> QED
      BY <3>1, <3>2 DEF Kept, In, Fresh
  <2>2. Fresh.state = "init"
    BY DEF Fresh
  <2>3. \A c \in Change :
          /\ (IF journal[c] = Torn THEN "torn" ELSE journal[c].state) = "init"
          /\ (origin[c] # None) = TRUE
    BY <2>1, <2>2
  <2> QED
    BY <2>3 DEF Promise!Init
<1>4. IInv /\ [Next]_vars =>
        [Promise!Next]_<<[c \in Change |-> IF journal[c] = Torn THEN "torn" ELSE journal[c].state],
                         [c \in Change |-> origin[c] # None]>>
  BY ReducerStep DEF Saved, vars, files
<1> QED
  BY <1>1, <1>2, <1>3, <1>4, PTL DEF Spec, FollowsReducer, Promise!Spec

-----------------------------------------------------------------------------
(* What a rollback restores *)

\* No process died, at most one call failed, and no other change began.
Solo(c) == crashes = 0 /\ faults <= 1 /\ \A d \in Change \ {c} : journal[d] = Fresh

\* The journal of change c that counts, and the targets it names.
Current(c) == IF pc[c] = "idle" THEN journal[c] ELSE mem[c]
Made(c) == Range(Current(c).created)
Whole(c) == Range(Targets(c)) \subseteq Made(c)

\* The staging is over and a target may still have to be put in place...
Committing(c) ==
  \/ pc[c] \in {"compareA", "commit", "shift", "place"}
  \/ pc[c] = "save" /\ mem[c].state \in {"staged", "compared", "committing"}

\* ... so what it is put in place from is there.
Supplied(c) ==
  /\ Committing(c) => staged[c].specs # None
  /\ Committing(c) \/ pc[c] = "stage" =>
       \/ staged[c].dir # None
       \/ c \in Range(mem[c].created) /\ ~(pc[c] = "place" /\ Placing(c) = c)

\* How far an undo has come.
Undoing(c) ==
  /\ Current(c).state = "failed" /\ IsInjective(left[c]) /\ Range(left[c]) \subseteq Made(c)
  /\ \A t \in Range(left[c]) : bak[t] = Before(t)
  /\ \A t \in Range(Targets(c)) \ Range(left[c]) : live[t] = Before(t)

\* What an incomplete commit has named can be restored from its .bak, and what
\* it has not named is untouched; only a failed call leaves a commit incomplete.
Restorable(c) ==
  /\ IsInjective(Current(c).created) /\ Supplied(c)
  /\ pc[c] = "shift" => \A t \in Range(Targets(c)) : IsNext(c, t) => live[t] # None
  /\ Current(c).state = "failed" /\ Current(c).created # <<>> => faults = 1
  /\ \A t \in Range(Targets(c)) \ Made(c) : live[t] = Before(t) /\ bak[t] = None
  /\ pc[c] # "undo" /\ Current(c).state # "rolled-back" => \A t \in Made(c) : bak[t] = Before(t)
  /\ pc[c] # "undo" /\ Current(c).state = "rolled-back" =>
       \A t \in Range(Targets(c)) : live[t] = Before(t)
  /\ pc[c] = "undo" => Undoing(c)

Undoable(c) ==
  /\ pc[c] = "idle" =>
       journal[c] # Torn /\ journal[c].state \in {"init", "done", "failed", "rolled-back"}
  /\ pc[c] = "clean" \/ (pc[c] \notin {"idle", "purge"} /\ mem[c].state \in Placed) => Whole(c)
  /\ Whole(c) \/ Current(c).state = "done" \/ Restorable(c)

LEMMA InjectiveAppend ==
  ASSUME NEW S, NEW s \in Seq(S), NEW x \in S, IsInjective(s), x \notin Range(s)
  PROVE  IsInjective(Append(s, x))
<1>1. /\ DOMAIN Append(s, x) = 1 .. Len(s) + 1 /\ DOMAIN s = 1 .. Len(s) /\ Len(s) \in Nat
      /\ \A i \in 1 .. Len(s) : Append(s, x)[i] = s[i]
      /\ Append(s, x)[Len(s) + 1] = x
  OBVIOUS
<1>2. \A i \in 1 .. Len(s) : s[i] # x
  BY <1>1 DEF Range
<1>3. ASSUME NEW i \in DOMAIN Append(s, x), NEW j \in DOMAIN Append(s, x),
             Append(s, x)[i] = Append(s, x)[j]
      PROVE  i = j
  <2>1. (i \in 1 .. Len(s) \/ i = Len(s) + 1) /\ (j \in 1 .. Len(s) \/ j = Len(s) + 1)
    BY <1>1
  <2> QED
    BY <1>1, <1>2, <1>3, <2>1 DEF IsInjective
<1> QED
  BY <1>3 DEF IsInjective

LEMMA TailFacts ==
  ASSUME NEW S, NEW s \in Seq(S), s # <<>>, IsInjective(s)
  PROVE  /\ IsInjective(Tail(s)) /\ Head(s) \in Range(s)
         /\ Range(Tail(s)) = Range(s) \ {Head(s)}
<1>1. /\ DOMAIN Tail(s) = 1 .. Len(s) - 1 /\ DOMAIN s = 1 .. Len(s) /\ Len(s) \in Nat \ {0}
      /\ \A i \in 1 .. Len(s) - 1 : Tail(s)[i] = s[i + 1]
      /\ Head(s) = s[1]
  OBVIOUS
<1>2. \A i, j \in 1 .. Len(s) : s[i] = s[j] => i = j
  BY <1>1 DEF IsInjective
<1>3. IsInjective(Tail(s))
  <2> SUFFICES ASSUME NEW i \in 1 .. Len(s) - 1, NEW j \in 1 .. Len(s) - 1, Tail(s)[i] = Tail(s)[j]
               PROVE  i = j
    BY <1>1 DEF IsInjective
  <2>1. i + 1 \in 1 .. Len(s) /\ j + 1 \in 1 .. Len(s) /\ s[i + 1] = s[j + 1]
    BY <1>1
  <2>2. i + 1 = j + 1
    BY <1>2, <2>1
  <2> QED
    BY <2>2
<1>4. Head(s) \in Range(s)
  BY <1>1 DEF Range
<1>5. ASSUME NEW y \in Range(Tail(s))
      PROVE  y \in Range(s) \ {Head(s)}
  <2>1. PICK i \in 1 .. Len(s) - 1 : y = s[i + 1]
    BY <1>1, <1>5 DEF Range
  <2>2. i + 1 \in 1 .. Len(s) /\ 1 \in 1 .. Len(s) /\ i + 1 # 1
    BY <1>1
  <2> QED
    BY <1>1, <1>2, <2>1, <2>2 DEF Range
<1>6. ASSUME NEW y \in Range(s) \ {Head(s)}
      PROVE  y \in Range(Tail(s))
  <2>1. PICK i \in 1 .. Len(s) : y = s[i] /\ i # 1
    BY <1>1, <1>6 DEF Range
  <2>2. i - 1 \in 1 .. Len(s) - 1 /\ (i - 1) + 1 = i
    BY <1>1, <2>1
  <2>3. Tail(s)[i - 1] = y
    BY <1>1, <2>1, <2>2
  <2> QED
    BY <1>1, <2>2, <2>3 DEF Range
<1> QED
  BY <1>3, <1>4, <1>5, <1>6

\* The next target of the commit is one.
LEMMA NextUnique ==
  ASSUME NEW c \in Change, NEW t, NEW u, IsNext(c, t), IsNext(c, u)
  PROVE  t = u
<1>1. PICK i \in DOMAIN Targets(c) :
        /\ t = Targets(c)[i] /\ t \notin Range(mem[c].created)
        /\ \A k \in 1 .. i - 1 : Targets(c)[k] \in Range(mem[c].created)
  BY DEF IsNext
<1>2. PICK j \in DOMAIN Targets(c) :
        /\ u = Targets(c)[j] /\ u \notin Range(mem[c].created)
        /\ \A k \in 1 .. j - 1 : Targets(c)[k] \in Range(mem[c].created)
  BY DEF IsNext
<1>3. i \in Nat /\ j \in Nat /\ i >= 1 /\ j >= 1
  BY TargetsFacts
<1>4. i = j \/ i \in 1 .. j - 1 \/ j \in 1 .. i - 1
  BY <1>3
<1> QED
  BY <1>1, <1>2, <1>4

\* What other changes, and people, do without touching a target.
LEMMA UndoableFrame ==
  ASSUME NEW c \in Change, Undoable(c), faults \in Nat, faults' \in Nat, faults <= faults', faults' <= 1,
         pc'[c] = pc[c], mem'[c] = mem[c], left'[c] = left[c], staged'[c] = staged[c],
         journal'[c] = journal[c], live' = live, bak' = bak
  PROVE  Undoable(c)'
<1>1. Current(c)' = Current(c) /\ (Whole(c)' <=> Whole(c)) /\ Made(c)' = Made(c)
  BY DEF Current, Made, Whole
<1>2. Restorable(c) => Restorable(c)'
  <2> SUFFICES ASSUME Restorable(c)
               PROVE  Restorable(c)'
    OBVIOUS
  <2>1. Supplied(c)'
    BY DEF Restorable, Supplied, Committing, Placing
  <2>2. faults = 1 => faults' = 1
    OBVIOUS
  <2>3. pc'[c] = "shift" => \A t \in Range(Targets(c)) : IsNext(c, t)' => live'[t] # None
    BY DEF Restorable, IsNext
  <2>4. pc'[c] = "undo" => Undoing(c)'
    BY <1>1 DEF Restorable, Undoing
  <2> QED
    BY <1>1, <2>1, <2>2, <2>3, <2>4 DEF Restorable
<1> QED
  BY <1>1, <1>2 DEF Undoable

\* What a step has to show that neither undoes nor restores anything.
LEMMA KeepsRestorable ==
  ASSUME NEW c \in Change, Restorable(c), Made(c)' = Made(c), Made(c) \subseteq Range(Targets(c)),
         Current(c)'.created = Current(c).created,
         \A t \in Range(Targets(c)) \ Made(c) : live'[t] = live[t],
         \A t \in Range(Targets(c)) : bak'[t] = bak[t],
         pc[c] # "undo", pc'[c] \notin {"undo", "shift"},
         Current(c).state # "rolled-back", Current(c)'.state # "rolled-back",
         Supplied(c)',
         Current(c)'.state = "failed" /\ Current(c).created # <<>> => faults' = 1
  PROVE  Restorable(c)'
<1>1. \A t \in Range(Targets(c)) \ Made(c) : live'[t] = Before(t) /\ bak'[t] = None
  BY DEF Restorable
<1>2. \A t \in Made(c) : bak'[t] = Before(t)
  BY DEF Restorable
<1> QED
  BY <1>1, <1>2 DEF Restorable

LEMMA MadeType ==
  ASSUME NEW c \in Change, TypeAt(c), pc[c] = "idle" => journal[c] # Torn
  PROVE  Current(c) \in Journal(c) /\ Current(c).created \in Seq(Range(Targets(c)))
         /\ Made(c) \subseteq Range(Targets(c))
<1>1. Current(c) \in Journal(c)
  BY DEF Current, TypeAt
<1>2. Current(c).created \in Seq(Range(Targets(c)))
  BY <1>1, JournalParts
<1> QED
  BY <1>1, <1>2, SeqFacts DEF Made, Range

\* A step of a run that goes on to save its journal in state s.
LEMMA SavedUndoable ==
  ASSUME NEW c \in Change, Domains, TypeAt(c), Undoable(c), NEW s \in State \ {"rolled-back"},
         SaveAs(c, s), pc[c] \notin {"idle", "undo", "purge"},
         Whole(c) \/ mem[c].state \notin {"rolled-back", "done"},
         \A t \in Range(Targets(c)) \ Made(c) : live'[t] = live[t],
         bak' = bak,
         s \in Placed => Whole(c),
         s = "failed" => Whole(c) \/ mem[c].created = <<>> \/ faults' = 1,
         s \in {"staged", "compared", "committing"} =>
           \/ Whole(c)
           \/ /\ staged'[c].specs # None
              /\ staged'[c].dir # None \/ c \in Range(mem[c].created)
  PROVE  Undoable(c)'
<1>1. /\ pc'[c] = "save" /\ mem'[c].state = s /\ mem'[c].created = mem[c].created
  BY SaveAsTyped
<1>2. /\ Current(c)'.state = s /\ Current(c)'.created = Current(c).created
      /\ Current(c) = mem[c] /\ Made(c)' = Made(c) /\ (Whole(c)' <=> Whole(c))
  BY <1>1 DEF Current, Made, Whole
<1>3. CASE Whole(c)
  BY <1>1, <1>2, <1>3 DEF Undoable
<1>4. CASE ~Whole(c)
  <2>1. Restorable(c) /\ mem[c].state \notin {"rolled-back", "done"}
    BY <1>2, <1>4 DEF Undoable
  <2>2. Supplied(c)'
    BY <1>1, <1>4 DEF Supplied, Committing
  <2>3. Restorable(c)'
    BY <1>1, <1>2, <1>4, <2>1, <2>2, MadeType, KeepsRestorable
  <2> QED
    BY <1>1, <1>2, <1>4, <2>3 DEF Undoable
<1> QED
  BY <1>3, <1>4

\* A target is named in memory, once its .bak holds what it was.
LEMMA PushedUndoable ==
  ASSUME NEW c \in Change, Domains, TypeAt(c), Where(c), Undoable(c), pc[c] \in {"commit", "shift"},
         NEW t, IsNext(c, t), Push(c, t, "place"), staged' = staged, faults' = faults,
         \A u \in Range(Targets(c)) \ {t} : live'[u] = live[u] /\ bak'[u] = bak[u],
         Restorable(c) => bak'[t] = live[t]
  PROVE  Undoable(c)'
<1>1. /\ t \in Range(Targets(c)) /\ t \notin Range(mem[c].created) /\ Current(c) = mem[c]
      /\ (t = c \/ c \in Range(mem[c].created)) /\ mem[c].state \in {"compared", "committing"}
  BY NextFacts DEF Where, Current
<1>a. mem[c].created \in Seq(Range(Targets(c)))
  BY JournalParts DEF TypeAt
<1>2. /\ pc'[c] = "place" /\ mem'[c].state = mem[c].state
      /\ mem'[c].created = Append(mem[c].created, t)
  BY <1>1, PushTyped
<1>3. /\ Range(mem'[c].created) = Range(mem[c].created) \union {t}
      /\ Last(mem'[c].created) = t /\ mem'[c].created # <<>>
  BY <1>1, <1>a, <1>2, SeqFacts
<1>4. Current(c)' = mem'[c] /\ Made(c)' = Made(c) \union {t} /\ Made(c) = Range(mem[c].created)
  BY <1>1, <1>2, <1>3 DEF Current, Made
<1>5. ~Whole(c)
  BY <1>1, <1>4 DEF Whole
<1>6. Restorable(c) /\ mem[c].state # "rolled-back"
  BY <1>1, <1>5 DEF Undoable
<1>7. IsInjective(mem'[c].created)
  BY <1>1, <1>a, <1>2, <1>6, InjectiveAppend DEF Restorable
<1>8. bak'[t] = Before(t)
  BY <1>1, <1>4, <1>6 DEF Restorable
<1>9. Supplied(c)'
  <2>1. staged[c].specs # None /\ (staged[c].dir # None \/ c \in Range(mem[c].created))
    BY <1>6 DEF Restorable, Supplied, Committing
  <2>2. Placing(c)' = t
    BY <1>3 DEF Placing
  <2> QED
    BY <1>1, <1>2, <1>3, <2>1, <2>2 DEF Supplied, Committing
<1>10. \A u \in Range(Targets(c)) \ Made(c)' : live'[u] = Before(u) /\ bak'[u] = None
  BY <1>4, <1>6 DEF Restorable
<1>11. \A u \in Made(c)' : bak'[u] = Before(u)
  <2>1. Made(c) \subseteq Range(Targets(c))
    BY MadeType
  <2> QED
    BY <1>1, <1>4, <1>6, <1>8, <2>1 DEF Restorable
<1>12. Restorable(c)'
  BY <1>1, <1>2, <1>4, <1>7, <1>9, <1>10, <1>11 DEF Restorable
<1> QED
  BY <1>1, <1>2, <1>4, <1>12 DEF Undoable, Placed

\* A step that keeps a transaction undoable, given what holds in the others.
LEMMA StepUndoable ==
  ASSUME NEW c \in Change, TypeOK, Local(c), Solo(c), Solo(c)', Undoable(c), Turn(c) \/ Disturb(c)
  PROVE  Undoable(c)'
<1>0. Domains /\ TypeAt(c) /\ SpecsTyped /\ Bounded /\ Where(c) /\ InMemory(c) /\ OnDisk(c)
  BY TypeParts DEF Local
<1>a. faults \in Nat /\ faults <= 1 /\ faults' <= 1 /\ crashes = 0 /\ crashes' = 0
  BY <1>0, ArchiveTransactionAssumption DEF Bounded, Solo
<1>b. pc[c] # "idle" => Current(c) = mem[c] /\ Made(c) = Range(mem[c].created)
  BY DEF Current, Made
<1>c. pc[c] = "idle" => Current(c) = journal[c]
  BY DEF Current
<1>d. mem[c].state \in Early /\ pc[c] # "idle" => mem[c].created = <<>>
  BY <1>0 DEF InMemory, Content
<1>1. CASE Unreadable(c) \/ RepeatTerminal(c) \/ RollbackDone(c) \/ Edit(c) \/ Replan(c) \/ Recreate(c)
  BY <1>1, <1>a, UndoableFrame
     DEF Unreadable, RepeatTerminal, RollbackDone, Edit, Replan, Recreate, files
<1>2. CASE ResumeDone(c)
  <2>1. pc'[c] = "purge" /\ mem'[c].state = "done"
    BY <1>0, <1>2 DEF ResumeDone, Goto, Domains
  <2> QED
    BY <2>1 DEF Undoable, Current
<1>3. CASE Invoke(c)
  <2>1. journal[c] \in Journal(c) /\ journal[c].state = "init" /\ journal[c] # Torn /\ pc[c] = "idle"
    BY <1>0, <1>3, StateFacts DEF Invoke, Undoable, TypeAt
  <2>2. origin[c].plan \in Plan(c) \union {None}
    BY <1>0, <1>3, DirParts DEF Invoke, TypeAt
  <2>3. /\ mem' = [mem EXCEPT ![c] = [journal[c] EXCEPT !.plan = origin[c].plan]]
        /\ Goto(c, "preflight")
        /\ live' = live /\ bak' = bak
    BY <1>3, <2>1, StepOfFacts DEF Invoke, files
  <2>4. /\ pc'[c] = "preflight" /\ mem'[c].state = "init" /\ mem'[c].created = journal[c].created
    BY <1>0, <2>1, <2>2, <2>3, JournalParts DEF Goto, Domains
  <2>5. /\ Current(c)'.state = "init" /\ Current(c)'.created = Current(c).created
        /\ Made(c)' = Made(c) /\ (Whole(c)' <=> Whole(c)) /\ Current(c).state = "init"
    BY <2>1, <2>4 DEF Current, Made, Whole
  <2>6. Supplied(c)'
    BY <2>4 DEF Supplied, Committing
  <2>7. Restorable(c) => Restorable(c)'
    BY <1>0, <2>1, <2>3, <2>4, <2>5, <2>6, MadeType, KeepsRestorable
  <2> QED
    BY <2>4, <2>5, <2>7 DEF Undoable, Placed
<1>4. CASE Preflight(c)
  <2>1. mem[c].state \in {"init", "preflighted"} /\ pc[c] = "preflight"
    BY <1>0, <1>4 DEF Preflight, Where
  <2>2. PICK s \in {"preflighted", "failed"} : SaveAs(c, s) /\ live' = live /\ bak' = bak
    BY <1>4 DEF Preflight, files
  <2> QED
    BY <1>0, <1>d, <2>1, <2>2, SavedUndoable, StateFacts DEF Early, Placed
<1>5. CASE Inventory(c)
  <2>1. mem[c].state = "preflighted" /\ pc[c] = "inventory"
    BY <1>0, <1>5 DEF Inventory, Where
  <2>2. /\ pc'[c] = "copy" /\ mem'[c].state = mem[c].state /\ mem'[c].created = mem[c].created
        /\ live' = live /\ bak' = bak
    BY <1>0, <1>5, LocalGuards, JournalParts DEF Inventory, Goto, Domains, TypeAt
  <2>3. /\ Current(c)'.state = "preflighted" /\ Current(c)'.created = Current(c).created
        /\ Made(c)' = Made(c) /\ (Whole(c)' <=> Whole(c)) /\ Current(c).state = "preflighted"
    BY <2>1, <2>2 DEF Current, Made, Whole
  <2>4. Supplied(c)'
    BY <2>2 DEF Supplied, Committing
  <2>5. Restorable(c) => Restorable(c)'
    BY <1>0, <2>1, <2>2, <2>3, <2>4, MadeType, KeepsRestorable
  <2> QED
    BY <2>1, <2>2, <2>3, <2>5 DEF Undoable, Placed
<1>6. CASE CopyDirectory(c)
  <2>1. mem[c].state = "preflighted" /\ pc[c] = "copy" /\ origin[c] # None
    BY <1>0, <1>6, LocalGuards DEF CopyDirectory, Where
  <2>2. /\ pc'[c] = "stage" /\ mem' = mem /\ staged'[c].dir # None /\ live' = live /\ bak' = bak
    BY <1>0, <1>6, <2>1 DEF CopyDirectory, Goto, Domains, TypeAt
  <2>3. /\ Current(c)' = Current(c) /\ Made(c)' = Made(c) /\ (Whole(c)' <=> Whole(c))
        /\ Current(c).state = "preflighted"
    BY <2>1, <2>2 DEF Current, Made, Whole
  <2>4. Supplied(c)'
    BY <2>2 DEF Supplied, Committing
  <2>5. Restorable(c) => Restorable(c)'
    BY <1>0, <2>1, <2>2, <2>3, <2>4, MadeType, KeepsRestorable
  <2> QED
    BY <2>1, <2>2, <2>3, <2>5 DEF Undoable, Placed
<1>7. CASE StageSpecs(c)
  <2>1. mem[c].state = "preflighted" /\ pc[c] = "stage" /\ origin[c] # None
    BY <1>0, <1>7, LocalGuards DEF StageSpecs, Where
  <2>2. origin[c].ed # None
    BY <1>0, <2>1, DirParts, NoContentAssumption DEF TypeAt
  <2>3. /\ SaveAs(c, "staged") /\ live' = live /\ bak' = bak
        /\ staged'[c].specs # None /\ staged'[c].dir = staged[c].dir
    BY <1>0, <1>7, <2>2 DEF StageSpecs, Domains, TypeAt
  <2>4. Whole(c) \/ staged[c].dir # None \/ c \in Range(mem[c].created)
    BY <1>b, <2>1 DEF Undoable, Restorable, Supplied
  <2> QED
    BY <1>0, <2>1, <2>3, <2>4, SavedUndoable, StateFacts DEF Placed
<1>8. CASE CompareA(c)
  <2>1. mem[c].state = "staged" /\ pc[c] = "compareA"
    BY <1>0, <1>8 DEF CompareA, Where
  <2>2. PICK s \in {"compared", "failed"} : SaveAs(c, s) /\ live' = live /\ bak' = bak /\ staged' = staged
    BY <1>8 DEF CompareA, files
  <2>3. \/ Whole(c)
        \/ staged[c].specs # None /\ (staged[c].dir # None \/ c \in Range(mem[c].created))
    BY <1>b, <2>1 DEF Undoable, Restorable, Supplied, Committing
  <2> QED
    BY <1>0, <1>d, <2>1, <2>2, <2>3, SavedUndoable, StateFacts DEF Early, Placed
<1>9. CASE TakeFree(c)
  <2>1. PICK t \in Range(Targets(c)) : IsNext(c, t) /\ live[t] = None /\ Push(c, t, "place")
    BY <1>9 DEF TakeFree
  <2>2. live' = live /\ bak' = bak /\ staged' = staged /\ faults' = faults /\ pc[c] = "commit"
    BY <1>9 DEF TakeFree, files
  <2>3. Restorable(c) => bak'[t] = live[t]
    BY <1>b, <2>1, <2>2, NextFacts DEF Restorable
  <2> QED
    BY <1>0, <2>1, <2>2, <2>3, PushedUndoable
<1>10. CASE DropBak(c)
  <2>1. PICK t \in Range(Targets(c)) : IsNext(c, t) /\ live[t] # None /\ bak' = [bak EXCEPT ![t] = None]
    BY <1>10 DEF DropBak
  <2>2. /\ pc'[c] = "shift" /\ pc[c] = "commit" /\ mem' = mem /\ live' = live /\ staged' = staged
        /\ faults' = faults
    BY <1>0, <1>10 DEF DropBak, Goto, Domains
  <2>3. t \notin Made(c) /\ mem[c].state \in {"compared", "committing"}
    BY <1>0, <1>b, <2>1, <2>2, NextFacts DEF Where
  <2>4. /\ Current(c)' = Current(c) /\ Made(c)' = Made(c) /\ (Whole(c)' <=> Whole(c))
        /\ Current(c) = mem[c]
    BY <2>2 DEF Current, Made, Whole
  <2>5. ~Whole(c)
    BY <2>1, <2>3 DEF Whole
  <2>6. Restorable(c)
    BY <2>3, <2>4, <2>5 DEF Undoable
  <2>7. Supplied(c)'
    BY <2>2, <2>6 DEF Restorable, Supplied, Committing
  <2>8. \A u \in Range(Targets(c)) : IsNext(c, u)' => live'[u] # None
    <3>1. ASSUME NEW u, IsNext(c, u)' PROVE u = t
      <4>1. IsNext(c, u)
        BY <2>2, <3>1 DEF IsNext
      <4> QED
        BY <2>1, <4>1, NextUnique
    <3> QED
      BY <2>1, <2>2, <3>1
  <2>9. \A u \in Range(Targets(c)) \ Made(c) : live'[u] = Before(u) /\ bak'[u] = None
    BY <1>0, <2>1, <2>2, <2>6, TargetOwner DEF Restorable, Domains
  <2>10. \A u \in Made(c) : bak'[u] = Before(u)
    BY <2>1, <2>2, <2>3, <2>4, <2>6 DEF Restorable
  <2>11. Restorable(c)'
    BY <2>2, <2>3, <2>4, <2>6, <2>7, <2>8, <2>9, <2>10 DEF Restorable
  <2> QED
    BY <2>2, <2>3, <2>11 DEF Undoable, Placed
<1>11. CASE Shift(c)
  <2>1. PICK t \in Range(Targets(c)) :
          /\ IsNext(c, t)
          /\ live[t] # None => /\ bak' = [bak EXCEPT ![t] = live[t]]
                               /\ live' = [live EXCEPT ![t] = None]
                               /\ Push(c, t, "place")
    BY <1>11 DEF Shift
  <2>2. staged' = staged /\ faults' = faults /\ pc[c] = "shift"
    BY <1>11 DEF Shift
  <2>3. t \notin Made(c) /\ mem[c].state \in {"compared", "committing"}
    BY <1>0, <1>b, <2>1, <2>2, NextFacts DEF Where
  <2>4. Restorable(c)
    BY <1>b, <2>1, <2>2, <2>3 DEF Undoable, Whole
  <2>5. live[t] # None
    BY <2>1, <2>2, <2>4 DEF Restorable
  <2>6. Range(Targets(c)) \subseteq DOMAIN bak /\ Range(Targets(c)) \subseteq DOMAIN live
    BY <1>0, TargetOwner DEF Domains
  <2>7. /\ bak'[t] = live[t]
        /\ \A u \in Range(Targets(c)) \ {t} : live'[u] = live[u] /\ bak'[u] = bak[u]
    BY <2>1, <2>5, <2>6
  <2> QED
    BY <1>0, <2>1, <2>2, <2>5, <2>7, PushedUndoable
<1>12. CASE Place(c)
  <2> DEFINE t == Placing(c)
             new == IF t = c THEN staged[c].dir
                    ELSE IF staged[c].specs = None THEN None ELSE <<c, staged[c].specs>>
  <2>1. /\ pc[c] = "place" /\ mem[c].state \in {"compared", "committing"} /\ bak' = bak
        /\ faults' = faults
    BY <1>0, <1>12 DEF Place, Where
  <2>2. t \in Range(mem[c].created)
    <3>1. mem[c].created # <<>> /\ mem[c].created \in Seq(Range(Targets(c)))
      BY <1>0, <2>1, JournalParts DEF InMemory, TypeAt
    <3> QED
      BY <3>1, LastIn DEF Placing
  <2>3. IF new = None
          THEN SaveAs(c, "failed") /\ live' = live /\ staged' = staged
          ELSE /\ live' = [live EXCEPT ![t] = new] /\ SaveAs(c, "committing")
               /\ staged' = IF t = c THEN [staged EXCEPT ![c].dir = None] ELSE staged
    BY <1>12 DEF Place
  <2>4. ASSUME ~Whole(c)
        PROVE  new # None /\ staged[c].specs # None /\ (staged[c].dir # None \/ c \in Range(mem[c].created))
    <3>1. Supplied(c) /\ Committing(c)
      BY <1>b, <2>1, <2>4 DEF Undoable, Restorable, Committing
    <3>2. staged[c].specs # None /\ (staged[c].dir # None \/ (c \in Range(mem[c].created) /\ t # c))
      BY <2>1, <3>1 DEF Supplied
    <3>3. staged[c].specs \in Edition
      BY <1>0, <3>2 DEF TypeAt
    <3>4. <<c, staged[c].specs>> # None
      BY <3>3, NoContentAssumption
    <3> QED
      BY <3>2, <3>4
  <2> HIDE DEF new
  <2>5. \A u \in Range(Targets(c)) \ Made(c) : live'[u] = live[u]
    <3>1. t \in Made(c)
      BY <1>b, <2>1, <2>2
    <3>2. Range(Targets(c)) \subseteq DOMAIN live
      BY <1>0, TargetOwner DEF Domains
    <3> HIDE DEF t
    <3>3. live' = live \/ live' = [live EXCEPT ![t] = new]
      BY <2>3
    <3> QED
      BY <3>1, <3>2, <3>3
  <2>6. staged'[c].specs = staged[c].specs /\ (staged'[c].dir = staged[c].dir \/ c \in Range(mem[c].created))
    BY <1>0, <2>2, <2>3 DEF Domains, TypeAt
  <2>7. CASE Whole(c)
    BY <1>0, <2>1, <2>3, <2>5, <2>7, SavedUndoable, StateFacts DEF Placed
  <2>8. CASE ~Whole(c)
    <3>1. SaveAs(c, "committing")
      BY <2>3, <2>4, <2>8
    <3> QED
      BY <1>0, <2>1, <2>4, <2>5, <2>6, <2>8, <3>1, SavedUndoable, StateFacts DEF Placed
  <2> QED
    BY <2>7, <2>8
<1>13. CASE AllPlaced(c) \/ Clean(c) \/ CleanFails(c)
  <2>1. Whole(c) /\ pc[c] \in {"commit", "clean"}
    <3>1. CASE AllPlaced(c)
      BY <1>b, <3>1 DEF AllPlaced, Whole
    <3>2. CASE Clean(c) \/ CleanFails(c)
      BY <3>2 DEF Clean, CleanFails, Undoable
    <3> QED
      BY <1>13, <3>1, <3>2
  <2>2. CASE mem' = mem /\ pc'[c] = "clean"
    <3>1. Current(c)' = Current(c)
      BY <2>1, <2>2 DEF Current
    <3> QED
      BY <2>1, <2>2, <3>1 DEF Undoable, Whole, Made
  <2>3. CASE SaveAs(c, "committed")
    <3>1. pc'[c] = "save" /\ mem'[c].created = mem[c].created
      BY <1>0, <2>3, SaveAsTyped, StateFacts
    <3>2. Whole(c)'
      BY <2>1, <3>1 DEF Whole, Made, Current
    <3> QED
      BY <3>1, <3>2 DEF Undoable
  <2>4. \/ mem' = mem /\ pc'[c] = "clean"
        \/ SaveAs(c, "committed")
    BY <1>0, <1>13 DEF AllPlaced, Clean, CleanFails, Goto, Domains
  <2> QED
    BY <2>2, <2>3, <2>4
<1>14. CASE CompareB(c) \/ Finish(c)
  <2>1. Whole(c) /\ pc[c] \in {"compareB", "finish"}
    BY <1>0, <1>14 DEF CompareB, Finish, Where, Undoable, Placed
  <2>2. PICK s \in {"confirmed", "done", "failed"} : SaveAs(c, s) /\ live' = live /\ bak' = bak
    BY <1>14 DEF CompareB, Finish, files
  <2> QED
    BY <1>0, <2>1, <2>2, SavedUndoable, StateFacts DEF Placed
<1>15. CASE Purge(c) \/ PurgeFails(c)
  <2>1. pc[c] = "purge" /\ Exit(c) /\ journal' = journal
    BY <1>15 DEF Purge, PurgeFails, End, files
  <2>2. journal[c] # Torn /\ journal[c].state = "done"
    BY <1>0, <2>1 DEF Where
  <2>3. pc'[c] = "idle"
    BY <1>0, <2>1, ExitTyped
  <2> QED
    BY <2>1, <2>2, <2>3 DEF Undoable, Current
<1>16. CASE Save(c)
  <2>1. /\ pc[c] = "save" /\ live' = live /\ bak' = bak /\ staged' = staged /\ faults' = faults
        /\ journal' = [journal EXCEPT ![c] = mem[c]]
    BY <1>16 DEF Save
  <2>2. /\ mem[c] \in Journal(c) /\ mem[c] # Torn /\ mem[c].state \in State
        /\ journal'[c] = mem[c] /\ Current(c) = mem[c]
    BY <1>0, <1>b, <2>1, JournalParts, NoContentAssumption DEF TypeAt, Domains
  <2>3. CASE mem[c].state \in {"failed", "rolled-back"}
    <3>1. pc'[c] = "idle"
      BY <1>0, <1>16, <2>3, ExitTyped DEF Save, End
    <3>2. Current(c)' = Current(c) /\ Made(c)' = Made(c) /\ (Whole(c)' <=> Whole(c))
      BY <2>2, <3>1 DEF Current, Made, Whole
    <3>3. Supplied(c)'
      BY <3>1 DEF Supplied, Committing
    <3>4. Restorable(c) => Restorable(c)'
      BY <2>1, <3>1, <3>2, <3>3 DEF Restorable
    <3> QED
      BY <2>1, <2>2, <2>3, <3>1, <3>2, <3>4 DEF Undoable
  <2>4. CASE mem[c].state \notin {"failed", "rolled-back"}
    <3>1. /\ pc'[c] = IF mem[c].state = "preflighted" THEN "inventory" ELSE StepOf(mem[c].state)
          /\ mem' = mem
      BY <1>0, <1>16, <2>4 DEF Save, Goto, Domains
    <3>2. LET s == mem[c].state IN
            \/ s = "init" /\ pc'[c] = "preflight"
            \/ s = "preflighted" /\ pc'[c] = "inventory"
            \/ s = "staged" /\ pc'[c] = "compareA"
            \/ s \in {"compared", "committing"} /\ pc'[c] = "commit"
            \/ s = "committed" /\ pc'[c] = "compareB"
            \/ s = "confirmed" /\ pc'[c] = "finish"
            \/ s = "done" /\ pc'[c] = "purge"
      BY <2>2, <2>4, <3>1, StepOfFacts, StateFacts
    <3>3. Current(c)' = Current(c) /\ Made(c)' = Made(c) /\ (Whole(c)' <=> Whole(c))
      BY <2>1, <2>2, <3>1, <3>2 DEF Current, Made, Whole
    <3>4. Supplied(c) => Supplied(c)'
      BY <2>1, <3>1, <3>2 DEF Supplied, Committing
    <3>5. Restorable(c) => Restorable(c)'
      BY <2>1, <2>2, <2>4, <3>2, <3>3, <3>4 DEF Restorable
    <3> QED
      BY <2>1, <2>2, <3>1, <3>2, <3>3, <3>5 DEF Undoable
  <2> QED
    BY <2>3, <2>4
<1>17. CASE RollbackEarly(c)
  <2>1. /\ pc[c] = "idle" /\ journal[c] # Torn /\ journal[c].state \in {"init", "rolled-back"}
        /\ journal[c] \in Journal(c) /\ Current(c) = journal[c]
    BY <1>0, <1>c, <1>17 DEF RollbackEarly, NothingLive, Undoable, TypeAt
  <2>2. /\ mem' = [mem EXCEPT ![c] = [journal[c] EXCEPT !.state = "rolled-back"]]
        /\ Goto(c, "save") /\ live' = live /\ bak' = bak
    BY <1>17 DEF RollbackEarly
  <2>3. pc'[c] = "save" /\ mem'[c].state = "rolled-back" /\ mem'[c].created = journal[c].created
    BY <1>0, <2>1, <2>2, JournalParts, StateFacts DEF Goto, Domains
  <2>4. /\ Current(c)'.state = "rolled-back" /\ Current(c)'.created = Current(c).created
        /\ Made(c)' = Made(c) /\ (Whole(c)' <=> Whole(c))
    BY <2>1, <2>3 DEF Current, Made, Whole
  <2>5. Supplied(c)'
    BY <2>3 DEF Supplied, Committing
  <2>6. ASSUME Restorable(c)
        PROVE  \A t \in Range(Targets(c)) : live[t] = Before(t)
    <3>1. CASE journal[c].state = "init"
      <4>1. Made(c) = {}
        BY <1>0, <2>1, <3>1 DEF Made, OnDisk, Content, Early, Range
      <4> QED
        BY <2>6, <4>1 DEF Restorable
    <3>2. CASE journal[c].state = "rolled-back"
      BY <2>1, <2>6, <3>2 DEF Restorable
    <3> QED
      BY <2>1, <3>1, <3>2
  <2>7. Restorable(c) => Restorable(c)'
    BY <2>2, <2>3, <2>4, <2>5, <2>6 DEF Restorable
  <2> QED
    BY <2>1, <2>3, <2>4, <2>7 DEF Undoable, Placed
<1>18. CASE RollbackCommit(c)
  <2>1. /\ pc[c] = "idle" /\ journal[c].state = "failed" /\ Current(c) = journal[c]
    BY <1>c, <1>18 DEF RollbackCommit, NothingLive, Undoable
  <2>2. /\ pc'[c] = "undo" /\ mem'[c] = journal[c] /\ left'[c] = journal[c].created
        /\ live' = live /\ bak' = bak /\ faults' = faults
    BY <1>0, <1>18 DEF RollbackCommit, Goto, Domains, files
  <2>3. Current(c)' = Current(c) /\ Made(c)' = Made(c) /\ (Whole(c)' <=> Whole(c))
    BY <2>1, <2>2 DEF Current, Made, Whole
  <2>4. Supplied(c)'
    BY <2>2 DEF Supplied, Committing
  <2>5. ASSUME Restorable(c)
        PROVE  Undoing(c)'
    <3>1. Range(left'[c]) = Made(c)
      BY <2>1, <2>2 DEF Made
    <3> QED
      BY <2>1, <2>2, <2>3, <2>5, <3>1 DEF Restorable, Undoing
  <2>6. Restorable(c) => Restorable(c)'
    BY <2>1, <2>2, <2>3, <2>4, <2>5 DEF Restorable
  <2> QED
    BY <2>1, <2>2, <2>3, <2>6 DEF Undoable, Placed
<1>19. CASE Undo(c) \/ UndoFails(c)
  <2> DEFINE t == Head(left[c])
  <2>1. /\ pc[c] = "undo" /\ left[c] # <<>> /\ left[c] \in Seq(Range(Targets(c)))
        /\ pc' = pc /\ mem' = mem /\ left'[c] = Tail(left[c])
    BY <1>0, <1>19 DEF Undo, UndoFails, Domains, TypeAt
  <2>2. /\ Current(c)' = Current(c) /\ Made(c)' = Made(c) /\ (Whole(c)' <=> Whole(c))
        /\ Current(c) = mem[c] /\ mem[c].state # "done"
    BY <1>0, <2>1 DEF Current, Made, Whole, Where
  <2>3. CASE Whole(c)
    BY <2>1, <2>2, <2>3 DEF Undoable
  <2>4. CASE ~Whole(c)
    <3>1. Restorable(c) /\ Undoing(c)
      BY <2>1, <2>2, <2>4 DEF Undoable, Restorable
    <3>2. /\ IsInjective(Tail(left[c])) /\ t \in Range(left[c])
          /\ Range(Tail(left[c])) = Range(left[c]) \ {t}
      BY <2>1, <3>1, TailFacts DEF Undoing
    <3>3. t \in Made(c) /\ t \in Range(Targets(c)) /\ t \in DOMAIN live /\ t \in DOMAIN bak
      <4>1. Made(c) \subseteq Range(Targets(c))
        BY <1>0, <2>1, MadeType
      <4> QED
        BY <1>0, <3>1, <3>2, <4>1, TargetOwner DEF Undoing, Domains
    <3>4. faults = 1
      <4>1. Current(c).created # <<>>
        BY <3>3 DEF Made, Range
      <4> QED
        BY <3>1, <4>1 DEF Restorable, Undoing
    <3>5. Undo(c)
      BY <1>19, <1>a, <3>4 DEF UndoFails
    <3>6. live' = [live EXCEPT ![t] = bak[t]] /\ bak' = [bak EXCEPT ![t] = None] /\ faults' = faults
      BY <3>5 DEF Undo
    <3> HIDE DEF t
    <3>7. \A u \in Range(left'[c]) : bak'[u] = Before(u)
      BY <2>1, <3>1, <3>2, <3>6 DEF Undoing
    <3>8. \A u \in Range(Targets(c)) \ Range(left'[c]) : live'[u] = Before(u)
      BY <2>1, <3>1, <3>2, <3>3, <3>6 DEF Undoing
    <3>9. \A u \in Range(Targets(c)) \ Made(c) : live'[u] = Before(u) /\ bak'[u] = None
      BY <3>1, <3>3, <3>6 DEF Restorable
    <3>10. Undoing(c)'
      BY <2>1, <2>2, <3>1, <3>2, <3>7, <3>8 DEF Undoing
    <3>11. Supplied(c)'
      BY <2>1 DEF Supplied, Committing
    <3>12. Restorable(c)'
      BY <2>1, <2>2, <3>1, <3>6, <3>9, <3>10, <3>11 DEF Restorable
    <3> QED
      BY <2>1, <2>2, <3>1, <3>12 DEF Undoable, Undoing, Placed
  <2> QED
    BY <2>3, <2>4
<1>20. CASE Undone(c)
  <2>1. pc[c] = "undo" /\ left[c] = <<>> /\ SaveAs(c, "rolled-back") /\ live' = live /\ bak' = bak
    BY <1>20 DEF Undone
  <2>2. pc'[c] = "save" /\ mem'[c].state = "rolled-back" /\ mem'[c].created = mem[c].created
    BY <1>0, <2>1, SaveAsTyped, StateFacts
  <2>3. /\ Current(c)'.state = "rolled-back" /\ Current(c)'.created = Current(c).created
        /\ Made(c)' = Made(c) /\ (Whole(c)' <=> Whole(c)) /\ Current(c).state # "done"
    BY <1>0, <2>1, <2>2 DEF Current, Made, Whole, Where
  <2>4. Supplied(c)'
    BY <2>2 DEF Supplied, Committing
  <2>5. ASSUME Restorable(c)
        PROVE  \A t \in Range(Targets(c)) : live[t] = Before(t)
    BY <2>1, <2>5 DEF Restorable, Undoing, Range
  <2>6. Restorable(c) => Restorable(c)'
    BY <2>1, <2>2, <2>3, <2>4, <2>5 DEF Restorable
  <2> QED
    BY <2>2, <2>3, <2>6 DEF Undoable, Placed
<1>21. CASE Crash(c)
  BY <1>21, <1>a DEF Crash
<1>22. CASE Fault(c)
  <2>1. SaveAs(c, "failed") /\ live' = live /\ bak' = bak /\ faults' = faults + 1
    BY <1>22 DEF Fault, files
  <2>2. faults' = 1
    BY <1>a, <2>1
  <2>3. /\ pc[c] \notin {"idle", "undo", "purge"}
        /\ mem[c].state # "rolled-back"
        /\ mem[c].state = "done" => pc[c] = "save"
    BY <1>0, <1>22 DEF Fault, Where
  <2>4. Whole(c) \/ mem[c].state \notin {"rolled-back", "done"}
    BY <2>3 DEF Undoable, Placed
  <2> QED
    BY <1>0, <2>1, <2>2, <2>3, <2>4, SavedUndoable, StateFacts DEF Placed
<1> QED
  BY <1>1, <1>2, <1>3, <1>4, <1>5, <1>6, <1>7, <1>8, <1>9, <1>10, <1>11, <1>12, <1>13, <1>14,
     <1>15, <1>16, <1>17, <1>18, <1>19, <1>20, <1>21, <1>22 DEF Turn, Run, Step, Rollback, Disturb

\* Another change whose journal is untouched has touched no target.
LEMMA BystanderWaits ==
  ASSUME NEW d \in Change, TypeOK, Local(d), Turn(d) \/ Disturb(d), journal'[d] = Fresh
  PROVE  journal[d] = Fresh /\ live' = live /\ bak' = bak
<1>0. Domains /\ TypeAt(d) /\ Where(d) /\ Fresh # Torn /\ Fresh.state = "init"
  BY TypeParts, FreshTyped, NoContentAssumption DEF Local, Fresh
<1>1. journal[d] = Fresh
  <2>1. CASE journal' = journal
    BY <2>1
  <2>2. CASE Save(d)
    <3>1. mem[d].state = "init"
      BY <1>0, <2>2 DEF Save, Domains
    <3>2. journal[d] # Torn /\ journal[d].state \in State
      BY <1>0, <2>2, JournalParts DEF Where, Save, TypeAt
    <3> QED
      BY <1>0, <2>2, <3>1, <3>2, AfterFacts, StateFacts DEF Where, Save
  <2>3. CASE Crash(d)
    BY <1>0, <2>3 DEF Crash, Domains
  <2> QED
    BY <2>1, <2>2, <2>3
       DEF Turn, Run, Step, Rollback, Disturb, Unreadable, RepeatTerminal, ResumeDone, Invoke, Preflight,
           Inventory, CopyDirectory, StageSpecs, CompareA, TakeFree, DropBak, Shift, Place, AllPlaced,
           Clean, CompareB, Finish, Purge, Undo, Undone, RollbackEarly, RollbackCommit, RollbackDone,
           Edit, Replan, Recreate, CleanFails, PurgeFails, UndoFails, Fault, files
<1>2. pc[d] \notin {"commit", "shift", "place", "clean", "undo"}
  BY <1>0, <1>1 DEF Where
<1>3. live' = live /\ bak' = bak
  BY <1>2
     DEF Turn, Run, Step, Rollback, Disturb, Unreadable, RepeatTerminal, ResumeDone, Invoke, Preflight,
         Inventory, CopyDirectory, StageSpecs, CompareA, TakeFree, DropBak, Shift, Place, AllPlaced,
         Clean, CompareB, Finish, Purge, Save, Undo, Undone, RollbackEarly, RollbackCommit, RollbackDone,
         Crash, Edit, Replan, Recreate, CleanFails, PurgeFails, UndoFails, Fault, files
<1> QED
  BY <1>1, <1>3

\* Errors and interruptions are counted and never forgotten.
LEMMA Counted ==
  ASSUME NEW d \in Change, TypeOK, Turn(d) \/ Disturb(d)
  PROVE  /\ faults \in Nat /\ faults' \in Nat /\ faults <= faults'
         /\ crashes' = 0 => crashes = 0
<1>1. faults \in Nat /\ crashes \in Nat
  BY ArchiveTransactionAssumption DEF TypeOK
<1>2. (faults' = faults \/ faults' = faults + 1) /\ (crashes' = crashes \/ crashes' = crashes + 1)
  BY DEF Turn, Run, Step, Rollback, Disturb, Unreadable, RepeatTerminal, ResumeDone, Invoke, Preflight,
         Inventory, CopyDirectory, StageSpecs, CompareA, TakeFree, DropBak, Shift, Place, AllPlaced,
         Clean, CompareB, Finish, Purge, Save, Undo, Undone, RollbackEarly, RollbackCommit, RollbackDone,
         Crash, Edit, Replan, Recreate, CleanFails, PurgeFails, UndoFails, Fault
<1> QED
  BY <1>1, <1>2

Restores == \A c \in Change : Solo(c) => Undoable(c)

LEMMA NextRestores ==
  ASSUME IInv, Restores, [Next]_vars
  PROVE  Restores'
<1>1. ASSUME NEW d \in Change, Turn(d) \/ Disturb(d), NEW c \in Change, Solo(c)'
      PROVE  Undoable(c)'
  <2>1. TypeOK /\ Local(d) /\ Local(c) /\ Others(d)
    BY <1>1, ActInv DEF IInv
  <2>2. /\ faults \in Nat /\ faults' \in Nat /\ faults <= faults' /\ faults' <= 1 /\ faults <= 1
        /\ crashes = 0
    BY <1>1, <2>1, Counted DEF Solo
  <2>3. \A e \in Change \ {c} : journal'[e] = Fresh
    BY <1>1 DEF Solo
  <2>4. CASE d = c
    <3>1. Solo(c)
      BY <2>1, <2>2, <2>3, <2>4 DEF Solo, Others
    <3>2. Undoable(c)
      BY <3>1 DEF Restores
    <3> QED
      BY <1>1, <2>1, <2>4, <3>1, <3>2, StepUndoable
  <2>5. CASE d # c
    <3>1. journal[d] = Fresh /\ live' = live /\ bak' = bak
      BY <1>1, <2>1, <2>3, <2>5, BystanderWaits
    <3>2. Solo(c)
      BY <2>1, <2>2, <2>3, <3>1 DEF Solo, Others
    <3>3. Undoable(c)
      BY <3>2 DEF Restores
    <3>4. /\ pc'[c] = pc[c] /\ mem'[c] = mem[c] /\ left'[c] = left[c] /\ staged'[c] = staged[c]
          /\ journal'[c] = journal[c]
      BY <2>1, <2>5 DEF Others
    <3> QED
      BY <2>2, <3>1, <3>3, <3>4, UndoableFrame
  <2> QED
    BY <2>4, <2>5
<1>2. CASE UNCHANGED vars
  <2>1. ASSUME NEW c \in Change, Solo(c)'
        PROVE  Undoable(c)'
    <3>1. Solo(c)
      BY <1>2, <2>1 DEF Solo, vars, files
    <3>2. Undoable(c) /\ faults \in Nat /\ faults <= 1
      BY <3>1, ArchiveTransactionAssumption DEF Restores, Solo, IInv, TypeOK
    <3> QED
      BY <1>2, <3>2, UndoableFrame DEF vars, files
  <2> QED
    BY <2>1 DEF Restores
<1> QED
  BY <1>1, <1>2 DEF Next, Restores

LEMMA InitRestores ==
  ASSUME Init
  PROVE  Restores
<1> SUFFICES ASSUME NEW c \in Change
             PROVE  Undoable(c)
  BY DEF Restores
<1>1. pc[c] = "idle" /\ journal[c] = Fresh /\ Current(c) = Fresh
  BY DEF Init, Current
<1>2. Fresh # Torn /\ Fresh.state = "init" /\ Fresh.created = <<>>
  BY FreshTyped, NoContentAssumption DEF Fresh
<1>3. Made(c) = {} /\ IsInjective(<<>>)
  BY <1>1, <1>2 DEF Made, Range, IsInjective
<1>4. \A t \in Range(Targets(c)) : live[t] = Before(t) /\ bak[t] = None
  BY TargetOwner DEF Init
<1>5. Supplied(c)
  BY <1>1 DEF Supplied, Committing
<1>6. Restorable(c)
  BY <1>1, <1>2, <1>3, <1>4, <1>5 DEF Restorable
<1> QED
  BY <1>1, <1>2, <1>6 DEF Undoable

\* A commit that a failed call stops before its last target, and that is rolled
\* back, leaves every target as it found it, as long as no process died and no
\* other change began: each target is in its .bak before the journal names it
\* (commit and rollbackTransaction).
THEOREM FailedCommitsAreRestored == Spec => []RestoresFailedCommit
<1>1. Init => IInv /\ Restores
  BY InitInv, InitRestores
<1>2. IInv /\ Restores /\ [Next]_vars => IInv' /\ Restores'
  BY StepInv, NextRestores
<1>3. IInv /\ Restores => RestoresFailedCommit
  <2> SUFFICES ASSUME IInv, Restores, NEW c \in Change,
                      crashes = 0, faults <= 1, In(c, {"rolled-back"}), pc[c] = "idle",
                      \A d \in Change \ {c} : journal[d] = Fresh,
                      Range(journal[c].created) # Range(Targets(c)), NEW t \in Range(Targets(c))
               PROVE  live[t] = Before(t)
    BY DEF RestoresFailedCommit
  <2>1. Undoable(c)
    BY DEF Restores, Solo
  <2>2. Current(c) = journal[c] /\ journal[c] # Torn /\ journal[c].state = "rolled-back"
    BY DEF Current, In
  <2>3. Made(c) \subseteq Range(Targets(c)) /\ Made(c) # Range(Targets(c))
    <3>1. TypeAt(c)
      BY TypeParts DEF IInv
    <3> QED
      BY <2>2, <3>1, MadeType DEF Made
  <2>4. Restorable(c)
    BY <2>1, <2>2, <2>3 DEF Undoable, Whole
  <2> QED
    BY <2>2, <2>4 DEF Restorable
<1> QED
  BY <1>1, <1>2, <1>3, PTL DEF Spec

=============================================================================
