------------------------- MODULE PlanJournalProofs -------------------------
(***************************************************************************)
(* Plan files leave reference folders alone, although they are applied     *)
(* without being told of them, and lose no content; plan undo writes over  *)
(* nothing, and one that gets to its end has brought back what finished    *)
(* groups have moved: for every tree, every plan, any number of commands,  *)
(* crashes and torn writes, whatever other programs do.                    *)
(***************************************************************************)
EXTENDS PlanJournal, SequenceTheorems, TLAPS

Open == Path \ Protected

\* No path under a reference folder is listed as a target by a plan, is being
\* acted on, is in the journal, or is about to be moved back.
Guarded ==
    /\ \A g \in plan \cup stamped : Stamped(g) \ {g.kept} \subseteq Open
    /\ todo \subseteq Open
    /\ succeeded \in Seq(Open)
    /\ journal \in Seq(Open \cup {Torn})
    /\ undo \in Seq(Open)

IInv == TypeOK /\ Guarded
-----------------------------------------------------------------------------
USE PathAssumption, NoFileAssumption, KindAssumption, ContentAssumption,
    BoundAssumption

\* What is first in a plan belongs to the plan.
LEMMA FirstInSet == \A S : First(S) \subseteq S
  BY DEF First

\* Behind a line without its newline, the first of the new lines is lost and the
\* old one is spoilt; nothing else gets into the journal.
LEMMA WrittenLines ==
    ASSUME NEW S, Torn \in S, journal \in Seq(S), NEW lines \in Seq(S)
    PROVE  Written(lines) \in Seq(S)
<1>1. CASE ended \/ lines = << >>
  BY <1>1, ConcatProperties DEF Written
<1>2. CASE ~ended /\ lines # << >>
  <2>1. [journal EXCEPT ![Len(journal)] = Torn] \in Seq(S)
    <3>1. journal \in [1..Len(journal) -> S] /\ Len(journal) \in Nat
      BY LenProperties
    <3>2. [journal EXCEPT ![Len(journal)] = Torn] \in [1..Len(journal) -> S]
      BY <3>1
    <3> QED BY <3>1, <3>2
  <2>2. Tail(lines) \in Seq(S)
    BY <1>2, HeadTailProperties
  <2> QED BY <1>2, <2>1, <2>2, ConcatProperties DEF Written
<1> QED BY <1>1, <1>2

\* A sequence without its last entry.
LEMMA FrontInSeq ==
    ASSUME NEW S, NEW s \in Seq(S), NEW n \in Nat, n <= Len(s)
    PROVE  SubSeq(s, 1, n) \in Seq(S)
<1>1. \A i \in 1..n : s[i] \in S
  BY ElementOfSeq
<1> QED BY <1>1, SubSeqProperties

\* A journal that can be read lists nothing but paths.
LEMMA ReadableLines ==
    ASSUME NEW S, journal \in Seq(S \cup {Torn}), Readable
    PROVE  journal \in Seq(S)
<1>1. journal \in [1..Len(journal) -> S]
  BY DEF Readable
<1>2. Len(journal) \in Nat
  OBVIOUS
<1> QED BY <1>1, <1>2

\* A write that has stopped has added some lines of the same kind, and at least
\* one if the last of them has no newline.
LEMMA StoppedWrites ==
    ASSUME NEW S, Torn \in S, succeeded \in Seq(S),
           NEW n \in 0..Len(succeeded), AppendStops(n)
    PROVE  \E lines \in Seq(S) :
              /\ journal' = Written(lines)
              /\ ~ended' => ~ended \/ lines # << >>
<1> PICK rest : /\ rest \in {<< >>} \cup (IF n = Len(succeeded) THEN {}
                             ELSE {<<Torn>>, <<succeeded[n + 1]>>})
                /\ journal' = Written(SubSeq(succeeded, 1, n) \o rest)
                /\ ended' = (rest = << >> /\ (ended \/ n > 0))
  BY DEF AppendStops
<1>1. n \in Nat /\ n <= Len(succeeded)
  BY LenProperties
<1>2. SubSeq(succeeded, 1, n) \in Seq(S)
  BY <1>1, FrontInSeq
<1>3. rest \in Seq(S)
  <2>1. CASE rest = << >>
    BY <2>1, EmptySeq
  <2>2. CASE rest = <<Torn>>
    BY <2>2
  <2>3. CASE n # Len(succeeded) /\ rest = <<succeeded[n + 1]>>
    <3>1. succeeded[n + 1] \in S
      BY <1>1, <2>3, ElementOfSeq, LenProperties
    <3> QED BY <2>3, <3>1
  <2> QED BY <2>1, <2>2, <2>3
<1>4. SubSeq(succeeded, 1, n) \o rest \in Seq(S)
  BY <1>2, <1>3, ConcatProperties
<1>5. rest # << >> => SubSeq(succeeded, 1, n) \o rest # << >>
  BY <1>2, <1>3, ConcatEqualIffEmpty
<1>6. ~ended' => ~ended \/ rest # << >>
  OBVIOUS
<1> QED BY <1>4, <1>5, <1>6

\* So a journal stays a sequence of paths and torn lines.
LEMMA StoppedLines ==
    ASSUME NEW S, Torn \in S, journal \in Seq(S), succeeded \in Seq(S),
           NEW n \in 0..Len(succeeded), AppendStops(n)
    PROVE  journal' \in Seq(S)
  BY StoppedWrites, WrittenLines

\* The entry that an undo takes next, and what is left then.
LEMMA NewestDropped ==
    ASSUME NEW S, undo \in Seq(S), DropNewest, undo # << >>
    PROVE  undo' \in Seq(S) /\ Newest \in S
<1>1. Len(undo) \in Nat \ {0}
  BY EmptySeq
<1> QED BY <1>1, FrontInSeq, ElementOfSeq DEF DropNewest, Newest
-----------------------------------------------------------------------------
\* The types, in parts: files and their contents; plans; sequences; the rest.
FilesOK ==
    /\ fs \in [Path -> Inode \cup {NoFile}]
    /\ archive \in [Path -> Inode \cup {NoFile}]
    /\ data \in [Inode -> Content \cup {NoFile}] /\ mtime \in [Inode -> Nat]
    /\ \A i \in Inode \ Fresh : data[i] # NoFile

PlansOK ==
    /\ left \subseteq plan
    /\ \A g \in plan \cup stamped :
          /\ g.kept \in Stamped(g) /\ Stamped(g) \subseteq Path
          /\ \A p \in Stamped(g) : g.stamps[p] \in Nat
    /\ whole \in BOOLEAN /\ (~whole => plan = {})

LinesOK ==
    /\ succeeded \in Seq(Path) /\ undo \in Seq(Path)
    /\ journal \in Seq(Path \cup {Torn})

CommandOK ==
    /\ pc \in {"idle", "stamp", "apply", "act", "append", "undo", "restore"}
    /\ kind \in Kinds
    /\ scanned \subseteq SUBSET Path
    /\ kept \in Path \cup {NoFile} /\ todo \subseteq Path
    /\ ended \in BOOLEAN
    /\ moved \in [Path -> Inode \cup {NoFile}]
    /\ {steady, asScanned, refused} \subseteq BOOLEAN
    /\ runs \in 0..MaxRuns[kind] /\ env \in 0..EnvSteps
    /\ kept # NoFile <=> pc \in {"act", "append"}
    /\ pc # "act" => todo = {}
    /\ pc # "stamp" => scanned = {} /\ stamped = {}
    /\ pc \notin {"apply", "act", "append"} => left = {}
    /\ pc \notin {"undo", "restore"} => undo = << >>
    /\ pc = "restore" => undo # << >>

\* Every variable keeps its type, and every file there is has a content.
LEMMA TypeStep == TypeOK /\ [Next]_vars => TypeOK'
<1> SUFFICES ASSUME FilesOK, PlansOK, LinesOK, CommandOK, [Next]_vars
             PROVE  FilesOK' /\ PlansOK' /\ LinesOK' /\ CommandOK'
  BY DEF TypeOK, FilesOK, PlansOK, LinesOK, CommandOK
<1> USE DEF vars, disk, planning, group, file, history
<1>1. CASE Scan
  <2>1. Duplicates \subseteq SUBSET Path
    BY DEF Duplicates
  <2>2. FilesOK' /\ PlansOK' /\ LinesOK'
    BY <1>1, <2>1 DEF Scan, FilesOK, Fresh, PlansOK, Stamped, LinesOK
  <2>3. CommandOK'
    BY <1>1, <2>1 DEF Scan, CommandOK
  <2> QED BY <2>2, <2>3
<1>2. ASSUME NEW g \in scanned, NEW p \in Path, NEW k \in Path, StampGroup(g, p, k)
      PROVE  FilesOK' /\ PlansOK' /\ LinesOK' /\ CommandOK'
  <2> DEFINE paths == PlanPaths(g, k)
             new == [kept |-> k, stamps |-> [q \in paths |-> mtime[fs[q]]]]
  <2>1. paths \subseteq Path /\ k \in paths
    BY <1>2 DEF PlanPaths, Planned, CommandOK
  <2>2. \/ stamped' = stamped
        \/ stamped' = stamped \cup {new} /\ \A q \in paths : fs[q] # NoFile
    BY <1>2 DEF StampGroup
  <2>3. (\A q \in paths : fs[q] # NoFile) =>
           /\ new.kept \in Stamped(new) /\ Stamped(new) \subseteq Path
           /\ \A q \in Stamped(new) : new.stamps[q] \in Nat
    BY <2>1 DEF Stamped, FilesOK
  <2> HIDE DEF new
  <2>4. PlansOK'
    BY <1>2, <2>2, <2>3 DEF StampGroup, PlansOK, Stamped
  <2> QED BY <1>2, <2>4 DEF StampGroup, FilesOK, Fresh, LinesOK, CommandOK
<1>3. CASE WritePlan
  BY <1>3 DEF WritePlan, FilesOK, Fresh, PlansOK, Stamped, LinesOK, CommandOK
<1>4. CASE StartApply
  BY <1>4 DEF StartApply, FilesOK, Fresh, PlansOK, Stamped, LinesOK, CommandOK
<1>5. ASSUME NEW g \in left, SkipStale(g) \/ StartGroup(g)
      PROVE  FilesOK' /\ PlansOK' /\ LinesOK' /\ CommandOK'
  <2>1. CASE SkipStale(g)
    BY <2>1 DEF SkipStale, FilesOK, Fresh, PlansOK, Stamped, LinesOK, CommandOK
  <2>2. CASE StartGroup(g)
    <3>1. g.kept \in Path /\ Stamped(g) \subseteq Path
      BY DEF PlansOK
    <3>2. FilesOK' /\ PlansOK' /\ LinesOK'
      BY <2>2, EmptySeq DEF StartGroup, FilesOK, Fresh, PlansOK, Stamped, LinesOK
    <3>3. CommandOK'
      BY <2>2, <3>1 DEF StartGroup, CommandOK
    <3> QED BY <3>2, <3>3
  <2> QED BY <1>5, <2>1, <2>2
<1>6. ASSUME NEW p \in Path, Act(p)
      PROVE  FilesOK' /\ PlansOK' /\ LinesOK' /\ CommandOK'
  <2> USE FirstInSet DEF At, Done, Act, ActionFails, Delete, Hardlink, Move, Copy
  <2>1. FilesOK'
    <3>1. CASE ActionFails(p)
      BY <3>1 DEF FilesOK, Fresh
    <3>2. CASE Delete(p)
      BY <3>2 DEF FilesOK, Fresh
    <3>3. CASE Hardlink(p)
      <4>1. kept \in Path
        BY <3>3 DEF CommandOK
      <4> QED BY <3>3, <4>1 DEF FilesOK, Fresh
    <3>4. CASE Move(p)
      BY <3>4 DEF FilesOK, Fresh
    <3>5. CASE Copy(p)
      BY <3>5 DEF FilesOK, Fresh
    <3> QED BY <1>6, <3>1, <3>2, <3>3, <3>4, <3>5
  <2>2. PlansOK'
    BY <1>6 DEF PlansOK, Stamped
  <2>3. LinesOK'
    <3>1. Append(succeeded, p) \in Seq(Path)
      BY DEF LinesOK
    <3> QED BY <1>6, <3>1 DEF LinesOK
  <2>4. CommandOK'
    BY <1>6 DEF CommandOK
  <2> QED BY <2>1, <2>2, <2>3, <2>4
<1>7. CASE EndGroup \/ FinishApply \/ FinishUndo
  <2>1. FilesOK' /\ PlansOK' /\ LinesOK'
    BY <1>7 DEF EndGroup, FinishApply, FinishUndo, FilesOK, Fresh, PlansOK, Stamped, LinesOK
  <2>2. CASE EndGroup
    BY <2>1, <2>2 DEF EndGroup, CommandOK
  <2>3. CASE FinishApply
    BY <2>1, <2>3 DEF FinishApply, CommandOK
  <2>4. CASE FinishUndo
    BY <2>1, <2>4 DEF FinishUndo, CommandOK
  <2> QED BY <1>7, <2>2, <2>3, <2>4
<1>8. CASE AppendEntries
  <2>1. LinesOK'
    <3>1. succeeded \in Seq(Path \cup {Torn})
      BY DEF LinesOK
    <3>2. Written(succeeded) \in Seq(Path \cup {Torn})
      BY <3>1, WrittenLines DEF LinesOK
    <3> QED BY <1>8, <3>2, EmptySeq DEF AppendEntries, LinesOK
  <2>2. CommandOK'
    <3>1. moved' \in [Path -> Inode \cup {NoFile}]
      BY <1>8 DEF AppendEntries, CommandOK, FilesOK
    <3>2. ended' \in BOOLEAN
      BY <1>8 DEF AppendEntries, CommandOK
    <3> QED BY <1>8, <3>1, <3>2 DEF AppendEntries, CommandOK
  <2> QED BY <1>8, <2>1, <2>2 DEF AppendEntries, FilesOK, Fresh, PlansOK, Stamped
<1>9. ASSUME NEW n \in 0..Len(succeeded), AppendStops(n)
      PROVE  FilesOK' /\ PlansOK' /\ LinesOK' /\ CommandOK'
  <2>1. succeeded \in Seq(Path \cup {Torn})
    BY DEF LinesOK
  <2>2. journal' \in Seq(Path \cup {Torn})
    BY <1>9, <2>1, StoppedLines DEF LinesOK
  <2>3. LinesOK'
    BY <1>9, <2>2, EmptySeq DEF AppendStops, LinesOK
  <2>4. ended' \in BOOLEAN
    BY <1>9 DEF AppendStops
  <2>5. CommandOK'
    BY <1>9, <2>4 DEF AppendStops, CommandOK
  <2> QED BY <1>9, <2>3, <2>5 DEF AppendStops, FilesOK, Fresh, PlansOK, Stamped
<1>10. CASE StartUndo
  <2>1. LinesOK'
    BY <1>10, ReadableLines DEF StartUndo, LinesOK
  <2>2. CommandOK'
    <3>1. runs' \in 0..MaxRuns[kind]
      BY <1>10 DEF StartUndo, CommandOK
    <3> QED BY <1>10, <3>1 DEF StartUndo, CommandOK
  <2> QED BY <1>10, <2>1, <2>2 DEF StartUndo, FilesOK, Fresh, PlansOK, Stamped
<1>11. CASE SkipEntry
  <2>1. LinesOK'
    BY <1>11, NewestDropped DEF SkipEntry, LinesOK
  <2>2. refused' \in BOOLEAN
    BY <1>11 DEF SkipEntry, CommandOK
  <2> QED
    BY <1>11, <2>1, <2>2 DEF SkipEntry, FilesOK, Fresh, PlansOK, Stamped, CommandOK
<1>12. CASE CheckOrigin
  BY <1>12 DEF CheckOrigin, FilesOK, Fresh, PlansOK, Stamped, LinesOK, CommandOK
<1>13. CASE Restore
  <2>1. Newest \in Path /\ LinesOK'
    BY <1>13, NewestDropped DEF Restore, LinesOK, CommandOK
  <2>2. FilesOK'
    BY <1>13, <2>1 DEF Restore, FilesOK, Fresh
  <2> QED BY <1>13, <2>1, <2>2 DEF Restore, PlansOK, Stamped, CommandOK
<1>14. CASE Crash
  BY <1>14, EmptySeq DEF Crash, FilesOK, Fresh, PlansOK, Stamped, LinesOK, CommandOK
<1>15. CASE Environment
  <2> PICK p \in Path : Removed(p) \/ Rewritten(p)
    BY <1>15 DEF Environment
  <2>1. ASSUME Removed(p) PROVE FilesOK'
    <3>1. Fresh \subseteq Fresh'
      BY <2>1 DEF Removed, FilesOK, Fresh
    <3> QED BY <2>1, <3>1 DEF Removed, FilesOK
  <2>2. ASSUME Rewritten(p) PROVE FilesOK'
    <3>1. EnvSteps - env + 1 \in Nat
      BY DEF CommandOK
    <3> PICK i \in Inode, c \in Content :
             /\ fs' = [fs EXCEPT ![p] = i] /\ archive' = archive
             /\ data' = [data EXCEPT ![i] = c]
             /\ mtime' = [mtime EXCEPT ![i] = EnvSteps - env + 1]
      BY <2>2 DEF Rewritten, FilesOK, Fresh
    <3>2. Fresh \subseteq Fresh' \cup {i}
      BY DEF FilesOK, Fresh
    <3>3. \A j \in Inode \ Fresh' : data'[j] # NoFile
      BY <3>2 DEF FilesOK
    <3> QED BY <3>1, <3>3 DEF FilesOK
  <2>3. PlansOK' /\ LinesOK'
    BY <1>15 DEF Environment, PlansOK, Stamped, LinesOK
  <2>4. CommandOK'
    <3>1. env' \in 0..EnvSteps
      BY <1>15 DEF Environment, CommandOK
    <3> QED BY <1>15, <3>1 DEF Environment, CommandOK
  <2> QED BY <2>1, <2>2, <2>3, <2>4
<1>16. CASE UNCHANGED vars
  BY <1>16 DEF FilesOK, Fresh, PlansOK, Stamped, LinesOK, CommandOK
<1> QED
  BY <1>1, <1>2, <1>3, <1>4, <1>5, <1>6, <1>7, <1>8, <1>9, <1>10, <1>11, <1>12,
     <1>13, <1>14, <1>15, <1>16 DEF Next, PlanOut, ApplyPlan, Undo

\* The state of plan files, journal and tree is always well formed.
THEOREM TypeCorrect == Spec => []TypeOK
<1>1. Init => TypeOK
  <2> SUFFICES ASSUME Init PROVE FilesOK /\ PlansOK /\ LinesOK /\ CommandOK
    BY DEF TypeOK, FilesOK, PlansOK, LinesOK, CommandOK
  <2>1. FilesOK
    <3> PICK contents \in [Inode -> Content] :
              data = [i \in Inode |-> IF i \in Fresh THEN NoFile ELSE contents[i]]
      BY DEF Init
    <3>1. /\ data \in [Inode -> Content \cup {NoFile}]
          /\ \A i \in Inode \ Fresh : data[i] # NoFile
      OBVIOUS
    <3> QED BY <3>1 DEF Init, FilesOK
  <2>2. PlansOK /\ LinesOK
    BY EmptySeq DEF Init, PlansOK, LinesOK
  <2>3. CommandOK
    <3>1. MaxRuns[kind] \in Nat
      BY DEF Init
    <3>2. runs \in 0..MaxRuns[kind] /\ env \in 0..EnvSteps
      BY <3>1 DEF Init
    <3>3. moved \in [Path -> Inode \cup {NoFile}]
      BY DEF Init
    <3> QED BY <3>2, <3>3 DEF Init, CommandOK
  <2> QED BY <2>1, <2>2, <2>3
<1> QED BY <1>1, TypeStep, PTL DEF Spec
-----------------------------------------------------------------------------
\* What may be acted on comes from plan_with_keep, which leaves reference folders
\* out, and is handed on from the stamped groups to the plan file, to the group
\* being applied, to the journal and to undo, across any number of commands.
LEMMA GuardedStep == TypeOK /\ Guarded /\ [Next]_vars => Guarded'
<1> SUFFICES ASSUME TypeOK, Guarded, [Next]_vars PROVE Guarded'
  OBVIOUS
<1> USE DEF vars, disk, planning, group, file, history
<1>1. CASE Scan \/ StartApply \/ EndGroup \/ FinishApply \/ CheckOrigin \/ FinishUndo
           \/ Environment \/ UNCHANGED vars
  BY <1>1 DEF Scan, StartApply, EndGroup, FinishApply, CheckOrigin, FinishUndo, Environment,
     Guarded, Stamped
<1>2. ASSUME NEW g \in scanned, NEW p \in Path, NEW k \in Path, StampGroup(g, p, k)
      PROVE  Guarded'
  <2> DEFINE new == [kept |-> k, stamps |-> [q \in PlanPaths(g, k) |-> mtime[fs[q]]]]
  <2>1. stamped' \subseteq stamped \cup {new}
    BY <1>2 DEF StampGroup
  <2>2. Stamped(new) \ {new.kept} \subseteq Open
    BY <1>2 DEF Stamped, PlanPaths, Planned, Open, TypeOK
  <2> HIDE DEF new
  <2> QED BY <1>2, <2>1, <2>2 DEF StampGroup, Guarded, Stamped
<1>3. CASE WritePlan
  BY <1>3 DEF WritePlan, Guarded, Stamped
<1>4. ASSUME NEW g \in left, SkipStale(g) \/ StartGroup(g) PROVE Guarded'
  <2>1. g \in plan
    BY DEF TypeOK
  <2> QED BY <1>4, <2>1, EmptySeq DEF SkipStale, StartGroup, Guarded, Stamped
<1>5. ASSUME NEW p \in Path, Act(p) PROVE Guarded'
  <2>1. p \in Open
    BY <1>5, FirstInSet DEF Act, ActionFails, Delete, Hardlink, Move, Copy, At, Guarded
  <2>2. Append(succeeded, p) \in Seq(Open)
    BY <2>1 DEF Guarded
  <2> QED
    BY <1>5, <2>2 DEF Act, ActionFails, Delete, Hardlink, Move, Copy, Done, Guarded, Stamped
<1>6. CASE AppendEntries
  <2>1. succeeded \in Seq(Open \cup {Torn})
    BY DEF Guarded
  <2>2. Written(succeeded) \in Seq(Open \cup {Torn})
    BY <2>1, WrittenLines DEF Guarded
  <2> QED BY <1>6, <2>2, EmptySeq DEF AppendEntries, Guarded, Stamped
<1>7. ASSUME NEW n \in 0..Len(succeeded), AppendStops(n) PROVE Guarded'
  <2>1. succeeded \in Seq(Open \cup {Torn})
    BY DEF Guarded
  <2>2. journal' \in Seq(Open \cup {Torn})
    BY <1>7, <2>1, StoppedLines DEF Guarded
  <2> QED BY <1>7, <2>2, EmptySeq DEF AppendStops, Guarded, Stamped
<1>8. CASE StartUndo
  BY <1>8, ReadableLines DEF StartUndo, Guarded, Stamped
<1>9. CASE SkipEntry \/ Restore
  <2>1. undo # << >> /\ DropNewest
    BY <1>9 DEF SkipEntry, Restore, TypeOK
  <2> QED BY <1>9, <2>1, NewestDropped DEF SkipEntry, Restore, Guarded, Stamped
<1>10. CASE Crash
  BY <1>10, EmptySeq DEF Crash, Guarded, Stamped
<1> QED
  BY <1>1, <1>2, <1>3, <1>4, <1>5, <1>6, <1>7, <1>8, <1>9, <1>10
     DEF Next, PlanOut, ApplyPlan, Undo

\* No command ever names a protected path as something to act on.
THEOREM Invariant == Spec => []IInv
<1>1. Init => Guarded
  BY EmptySeq DEF Init, Guarded
<1>2. TypeOK /\ Guarded /\ [Next]_vars => Guarded'
  BY GuardedStep
<1> QED BY <1>1, <1>2, TypeCorrect, PTL DEF Spec, IInv
-----------------------------------------------------------------------------
\* Only delete, hardlink and move change a name, only a copy writes a file, and
\* that one is new; undo only names what the journal lists.
THEOREM ReferenceSafe == Spec => ReferenceUntouched
<1> DEFINE Step == env' = env =>
                     \A p \in Protected :
                        /\ fs'[p] = fs[p]
                        /\ fs[p] # NoFile => data'[fs[p]] = data[fs[p]]
<1>1. IInv /\ [Next]_vars => [Step]_vars
  <2> SUFFICES ASSUME IInv, [Next]_vars, env' = env, NEW q \in Protected
               PROVE  fs'[q] = fs[q] /\ (fs[q] # NoFile => data'[fs[q]] = data[fs[q]])
    OBVIOUS
  <2> USE DEF IInv, vars, disk
  <2>1. CASE UNCHANGED <<fs, data>>
    BY <2>1
  <2>2. ASSUME NEW p \in Path, Act(p), ~UNCHANGED <<fs, data>>
        PROVE  fs'[q] = fs[q] /\ (fs[q] # NoFile => data'[fs[q]] = data[fs[q]])
    <3>1. p # q /\ q \in Path
      BY <2>2, FirstInSet
         DEF Act, ActionFails, Delete, Hardlink, Move, Copy, At, Guarded, Open
    <3>2. CASE Delete(p) \/ Hardlink(p) \/ Move(p)
      BY <3>1, <3>2 DEF Delete, Hardlink, Move, TypeOK
    <3>3. CASE Copy(p)
      BY <3>1, <3>3 DEF Copy, Fresh, TypeOK
    <3> QED BY <2>2, <3>2, <3>3 DEF Act, ActionFails
  <2>3. CASE Restore
    <3>1. Newest \in Open
      BY <2>3, NewestDropped DEF Restore, TypeOK, Guarded
    <3>2. Newest # q
      BY <3>1 DEF Open
    <3> QED BY <2>3, <3>2 DEF Restore, TypeOK
  <2>4. ~Environment
    BY DEF Environment, TypeOK
  <2>5. UNCHANGED <<fs, data>> \/ (\E p \in Path : Act(p)) \/ Restore
    BY <2>4 DEF Next, PlanOut, ApplyPlan, Undo, Scan, WritePlan, StampGroup, StartApply,
       EndGroup, AppendEntries, FinishApply, SkipStale, StartGroup, AppendStops, StartUndo,
       SkipEntry, CheckOrigin, FinishUndo, Crash
  <2> QED BY <2>1, <2>2, <2>3, <2>5
<1> QED BY <1>1, Invariant, PTL DEF Spec, ReferenceUntouched
-----------------------------------------------------------------------------
(* What undo does.                                                          *)

\* The sequence s has the entry p.
Lists(s, p) == \E n \in DOMAIN s : s[n] = p

\* Once an undo has found the original path free, it stays free until somebody
\* else changes the tree.
OriginFree == pc = "restore" /\ steady => fs[Newest] = NoFile

LEMMA OriginStep == OriginFree /\ [Next]_vars => OriginFree'
<1> SUFFICES ASSUME OriginFree, [Next]_vars, pc' = "restore", steady'
             PROVE  fs'[Newest'] = NoFile
  BY DEF OriginFree
<1> USE DEF vars, disk, planning, group, file, history
<1>1. CASE CheckOrigin
  BY <1>1 DEF CheckOrigin, Newest
<1>2. CASE UNCHANGED vars
  BY <1>2 DEF OriginFree, Newest
<1>3. ~Environment
  BY DEF Environment
<1>4. ASSUME NEW p \in Path PROVE ~Act(p)
  BY DEF Act, ActionFails, Delete, Hardlink, Move, Copy, Done, At
<1> QED BY <1>1, <1>2, <1>3, <1>4 DEF Next, PlanOut, ApplyPlan, Undo, Scan, WritePlan,
     StampGroup, StartApply, EndGroup, AppendEntries, FinishApply, SkipStale, StartGroup,
     AppendStops, StartUndo, SkipEntry, Restore, FinishUndo, Crash

\* plan undo puts nothing over a file that is back at its original path, as long
\* as nobody puts one there between its check and its rename.
THEOREM UndoSafe == Spec => UndoNeverOverwrites
<1>1. Init => OriginFree
  BY DEF Init, OriginFree
<1>2. OriginFree /\ [Next]_vars => OriginFree'
  BY OriginStep
<1>3. TypeOK /\ OriginFree /\ [Next]_vars =>
        [env' = env /\ steady /\ pc \in {"undo", "restore"} =>
           \A p \in Path : fs[p] # NoFile => fs'[p] = fs[p]]_vars
  <2> SUFFICES ASSUME TypeOK, OriginFree, [Next]_vars, env' = env, steady,
                      pc \in {"undo", "restore"}, NEW p \in Path, fs[p] # NoFile
               PROVE  fs'[p] = fs[p]
    OBVIOUS
  <2> USE DEF vars, disk
  <2>1. CASE Restore
    <3>1. Newest \in Path /\ Newest # p
      BY <2>1, NewestDropped DEF Restore, TypeOK, OriginFree
    <3> QED BY <2>1, <3>1 DEF Restore, TypeOK
  <2>2. ~Environment
    BY DEF Environment, TypeOK
  <2>3. ASSUME NEW q \in Path PROVE ~Act(q)
    BY DEF Act, ActionFails, Delete, Hardlink, Move, Copy, At
  <2> QED BY <2>1, <2>2, <2>3 DEF Next, PlanOut, ApplyPlan, Undo, Scan, WritePlan,
       StampGroup, StartApply, EndGroup, AppendEntries, FinishApply, SkipStale, StartGroup,
       AppendStops, StartUndo, SkipEntry, CheckOrigin, FinishUndo, Crash
<1> QED BY <1>1, <1>2, <1>3, TypeCorrect, PTL DEF Spec, UndoNeverOverwrites

\* A journal that ends without a newline has a last line.
JournalOK == ~ended => journal # << >>

\* What has been moved by a group that was finished is in exactly one of its two
\* places, and a readable journal lists it.
MovedOK ==
    /\ kind # "move" => \A p \in Path : moved[p] = NoFile
    /\ \A p \in Path : moved[p] # NoFile =>
          /\ \/ fs[p] = moved[p] /\ archive[p] = NoFile
             \/ archive[p] = moved[p] /\ fs[p] = NoFile
          /\ Readable => Lists(journal, p)

\* What has been moved by the group in flight is in the archive.
DoneOK ==
    /\ pc \notin {"act", "append"} => succeeded = << >>
    /\ kind = "move" => \A p \in Path : Lists(succeeded, p) =>
          fs[p] = NoFile /\ archive[p] # NoFile

\* What an undo has passed is back, unless a rename of its own has failed.
UndoingOK ==
    pc \in {"undo", "restore"} =>
      \A p \in Path : moved[p] # NoFile =>
         fs[p] = moved[p] \/ refused \/ Lists(undo, p)

Recoverable ==
    /\ JournalOK
    /\ env = EnvSteps => steady /\ MovedOK /\ DoneOK /\ UndoingOK

\* Whatever a write adds to the journal, a journal that can be read afterwards
\* could be read before, and has all that it had and all that was added.
LEMMA WrittenKeeps ==
    ASSUME NEW S, journal \in Seq(S), NEW lines \in Seq(S), JournalOK,
           NEW after, after = Written(lines),
           \A n \in DOMAIN after : after[n] # Torn
    PROVE  /\ Readable
           /\ \A p : Lists(journal, p) \/ Lists(lines, p) => Lists(after, p)
<1>1. /\ Len(journal) \in Nat /\ DOMAIN journal = 1..Len(journal)
      /\ Len(lines) \in Nat /\ DOMAIN lines = 1..Len(lines)
  BY LenProperties
<1>2. CASE ended \/ lines = << >>
  <2>1. after = journal \o lines
    BY <1>2 DEF Written
  <2>2. /\ after \in Seq(S) /\ Len(after) = Len(journal) + Len(lines)
        /\ \A i \in 1..(Len(journal) + Len(lines)) :
              after[i] = IF i <= Len(journal) THEN journal[i] ELSE lines[i - Len(journal)]
    BY <2>1, ConcatProperties
  <2>3. DOMAIN after = 1..(Len(journal) + Len(lines))
    BY <2>2, LenProperties
  <2>4. \A i \in 1..Len(journal) : i \in DOMAIN after /\ after[i] = journal[i]
    BY <1>1, <2>2, <2>3
  <2>5. \A i \in 1..Len(lines) :
           Len(journal) + i \in DOMAIN after /\ after[Len(journal) + i] = lines[i]
    BY <1>1, <2>2, <2>3
  <2> QED BY <1>1, <2>4, <2>5 DEF Readable, Lists
<1>3. CASE ~ended /\ lines # << >>
  <2> DEFINE spoilt == [journal EXCEPT ![Len(journal)] = Torn]
  <2>1. Len(journal) \in 1..Len(journal)
    BY <1>1, <1>3, EmptySeq DEF JournalOK
  <2>2. spoilt \in Seq(S \cup {Torn}) /\ Len(spoilt) = Len(journal)
        /\ spoilt[Len(journal)] = Torn
    <3>1. journal \in Seq(S \cup {Torn})
      BY SeqMonotonic
    <3> QED BY <2>1, <3>1, ExceptSeq
  <2>3. Tail(lines) \in Seq(S \cup {Torn}) /\ Len(Tail(lines)) \in Nat
    <3>1. Tail(lines) \in Seq(S)
      BY <1>3, HeadTailProperties
    <3> QED BY <3>1, SeqMonotonic, LenProperties
  <2> HIDE DEF spoilt
  <2>4. after = spoilt \o Tail(lines)
    BY <1>3 DEF Written, spoilt
  <2>5. Len(journal) \in DOMAIN after /\ after[Len(journal)] = Torn
    BY <1>1, <2>1, <2>2, <2>3, <2>4, ConcatProperties, LenProperties
  <2> QED BY <2>5
<1> QED BY <1>2, <1>3

\* What an undo has not taken yet stays on its list.
LEMMA OthersStay ==
    ASSUME NEW S, undo \in Seq(S), undo # << >>, DropNewest,
           NEW p, Lists(undo, p), p # Newest
    PROVE  Lists(undo', p)
<1>1. Len(undo) \in Nat \ {0} /\ DOMAIN undo = 1..Len(undo)
  BY EmptySeq, LenProperties
<1>2. PICK n \in 1..Len(undo) : undo[n] = p
  BY <1>1 DEF Lists
<1>3. n # Len(undo)
  BY <1>2 DEF Newest
<1>4. n \in 1..(Len(undo) - 1)
  <2>1. \A l \in Nat : \A m \in 1..l : m # l => m \in 1..(l - 1)
    OBVIOUS
  <2> QED BY <1>1, <1>3, <2>1
<1>5. Len(undo') = Len(undo) - 1 /\ undo'[n] = undo[n] /\ undo' \in Seq(S)
  <2>1. undo' = SubSeq(undo, 1, Len(undo) - 1) /\ Len(undo) - 1 \in Nat
    BY <1>1 DEF DropNewest
  <2>2. \A i \in 1..(Len(undo) - 1) : undo[i] \in S
    BY <1>1, ElementOfSeq
  <2>3. /\ undo' \in Seq(S) /\ Len(undo') = Len(undo) - 1
        /\ \A i \in 1..(Len(undo) - 1) : undo'[i] = undo[i]
    BY <1>1, <2>1, <2>2, SubSeqProperties
  <2> QED BY <1>4, <2>3
<1>6. n \in DOMAIN undo'
  BY <1>4, <1>5, LenProperties
<1> QED BY <1>2, <1>5, <1>6 DEF Lists

\* Writing lines never empties the journal.
LEMMA WrittenSome ==
    ASSUME NEW S, Torn \in S, journal \in Seq(S), NEW lines \in Seq(S), JournalOK,
           journal # << >> \/ lines # << >>
    PROVE  Written(lines) # << >>
<1>1. CASE ended \/ lines = << >>
  BY <1>1, ConcatEqualIffEmpty DEF Written
<1>2. CASE ~ended /\ lines # << >>
  <2> DEFINE spoilt == [journal EXCEPT ![Len(journal)] = Torn]
  <2>1. Len(journal) \in 1..Len(journal)
    BY <1>2, EmptySeq, LenProperties DEF JournalOK
  <2>2. spoilt \in Seq(S) /\ Len(spoilt) = Len(journal)
    BY <2>1, ExceptSeq
  <2>3. Tail(lines) \in Seq(S)
    BY <1>2, HeadTailProperties
  <2> HIDE DEF spoilt
  <2>4. Written(lines) = spoilt \o Tail(lines)
    BY <1>2 DEF Written, spoilt
  <2>5. spoilt # << >>
    BY <2>1, <2>2
  <2> QED BY <2>2, <2>3, <2>4, <2>5, ConcatEqualIffEmpty
<1> QED BY <1>1, <1>2

\* The journal is only ever added to.
LEMMA JournalStep == TypeOK /\ JournalOK /\ [Next]_vars => JournalOK'
<1> SUFFICES ASSUME TypeOK, JournalOK, [Next]_vars, ~ended' PROVE journal' # << >>
  BY DEF JournalOK
<1> USE DEF vars, disk, planning, group, file, history
<1>0. journal \in Seq(Path \cup {Torn}) /\ succeeded \in Seq(Path \cup {Torn})
  BY SeqMonotonic DEF TypeOK
<1>1. CASE UNCHANGED <<journal, ended>>
  BY <1>1 DEF JournalOK
<1>2. CASE AppendEntries
  <2>1. ~ended /\ succeeded = << >> /\ journal' = Written(succeeded)
    BY <1>2 DEF AppendEntries
  <2> QED BY <1>0, <2>1, WrittenSome DEF JournalOK
<1>3. ASSUME NEW n \in 0..Len(succeeded), AppendStops(n) PROVE journal' # << >>
  <2>1. PICK lines \in Seq(Path \cup {Torn}) :
           /\ journal' = Written(lines)
           /\ ~ended' => ~ended \/ lines # << >>
    BY <1>0, <1>3, StoppedWrites
  <2>2. journal # << >> \/ lines # << >>
    BY <2>1 DEF JournalOK
  <2>3. Written(lines) # << >>
    BY <1>0, <2>2, WrittenSome
  <2> QED BY <2>1, <2>3
<1> QED BY <1>1, <1>2, <1>3 DEF Next, PlanOut, ApplyPlan, Undo, Scan, WritePlan,
       StampGroup, StartApply, EndGroup, FinishApply, SkipStale, StartGroup,
       StartUndo, SkipEntry, CheckOrigin, Restore, FinishUndo, Crash, Environment,
       Act, ActionFails, Delete, Hardlink, Move, Copy, Done

\* The same holds of a write that has stopped, except for what it was to add.
LEMMA StoppedKeeps ==
    ASSUME TypeOK, JournalOK, NEW n \in 0..Len(succeeded), AppendStops(n), Readable'
    PROVE  Readable /\ \A p : Lists(journal, p) => Lists(journal', p)
<1> DEFINE S == Path \cup {Torn}
<1>1. journal \in Seq(S) /\ succeeded \in Seq(S)
  BY SeqMonotonic DEF TypeOK
<1>2. PICK lines \in Seq(S) : journal' = Written(lines)
  BY <1>1, StoppedWrites
<1>3. \A m \in DOMAIN journal' : journal'[m] # Torn
  BY DEF Readable
<1> HIDE DEF S
<1> QED BY <1>1, <1>2, <1>3, WrittenKeeps

\* As long as nobody else changes the tree, what has been moved can be brought
\* back, and an undo does so.
LEMMA RecoverStep ==
  ASSUME TypeOK, Recoverable, OriginFree, [Next]_vars, env' = EnvSteps
  PROVE  steady' /\ MovedOK' /\ DoneOK' /\ UndoingOK'
<1> USE DEF vars, disk, planning, group, file, history
<1>0. ~Environment /\ env' = env
  <2>1. ~Environment
    BY DEF Environment, TypeOK
  <2> QED BY <2>1 DEF Next, PlanOut, ApplyPlan, Undo, Scan, WritePlan,
       StampGroup, StartApply, EndGroup, AppendEntries, FinishApply, SkipStale, StartGroup,
       AppendStops, StartUndo, SkipEntry, CheckOrigin, Restore, FinishUndo, Crash,
       Act, ActionFails, Delete, Hardlink, Move, Copy, Done
<1>1. JournalOK /\ steady /\ MovedOK /\ DoneOK /\ UndoingOK
  BY <1>0 DEF Recoverable
<1> USE <1>1
<1>2. CASE UNCHANGED <<fs, archive, kind, journal, succeeded, moved, undo, refused>>
           /\ steady' /\ \/ pc' = pc
                         \/ {pc, pc'} \subseteq {"idle", "stamp", "apply"}
                         \/ {pc, pc'} \subseteq {"undo", "restore"}
                         \/ {pc, pc'} \subseteq {"act", "append"}
  <2>1. MovedOK' /\ DoneOK'
    BY <1>2 DEF MovedOK, DoneOK, Readable, Lists
  <2>2. UndoingOK'
    BY <1>2 DEF UndoingOK, Lists
  <2> QED BY <1>2, <2>1, <2>2
<1>3. ASSUME NEW g \in left, StartGroup(g)
      PROVE  steady' /\ MovedOK' /\ DoneOK' /\ UndoingOK'
  BY <1>3 DEF StartGroup, MovedOK, DoneOK, UndoingOK, Readable, Lists
<1>4. ASSUME NEW p \in Path, Act(p)
      PROVE  steady' /\ MovedOK' /\ DoneOK' /\ UndoingOK'
  <2>1. steady' /\ pc = "act" /\ pc' = pc /\ UNCHANGED <<kind, journal, moved>>
    BY <1>4 DEF Act, ActionFails, Delete, Hardlink, Move, Copy, Done, At
  <2>2. UndoingOK'
    BY <2>1 DEF UndoingOK
  <2>3. MovedOK'
    <3>1. CASE kind # "move"
      BY <2>1, <3>1 DEF MovedOK
    <3>2. CASE kind = "move"
      <4>1. ActionFails(p) \/ Move(p)
        BY <1>4, <3>2 DEF Act, Delete, Hardlink, Copy
      <4>2. CASE ActionFails(p)
        BY <2>1, <4>2 DEF ActionFails, MovedOK, Readable, Lists
      <4>3. CASE Move(p)
        <5>1. /\ fs[p] # NoFile /\ archive[p] = NoFile
              /\ fs'[p] = NoFile /\ archive'[p] = fs[p]
          BY <4>3 DEF Move, TypeOK
        <5>2. \A q \in Path : q # p => fs'[q] = fs[q] /\ archive'[q] = archive[q]
          BY <4>3 DEF Move, TypeOK
        <5> QED BY <2>1, <3>2, <5>1, <5>2 DEF MovedOK, Readable, Lists
      <4> QED BY <4>1, <4>2, <4>3
    <3> QED BY <3>1, <3>2
  <2>4. DoneOK'
    <3>1. CASE kind # "move"
      BY <2>1, <3>1 DEF DoneOK
    <3>2. CASE ActionFails(p)
      BY <2>1, <3>2 DEF ActionFails, DoneOK, Lists
    <3>3. CASE Move(p)
      <4>1. succeeded' = Append(succeeded, p) /\ succeeded \in Seq(Path)
        BY <3>3 DEF Move, Done, TypeOK
      <4>2. \A q : Lists(succeeded', q) => q = p \/ Lists(succeeded, q)
        BY <4>1, AppendProperties, LenProperties DEF Lists
      <4>3. fs'[p] = NoFile /\ archive'[p] # NoFile
        BY <3>3 DEF Move, TypeOK
      <4>4. \A q \in Path : q # p => fs'[q] = fs[q] /\ archive'[q] = archive[q]
        BY <3>3 DEF Move, TypeOK
      <4> QED BY <2>1, <4>2, <4>3, <4>4 DEF DoneOK
    <3> QED BY <1>4, <3>1, <3>2, <3>3 DEF Act, Delete, Hardlink, Copy
  <2> QED BY <2>1, <2>2, <2>3, <2>4
<1>5. CASE AppendEntries
  <2>1. /\ steady' /\ pc' = "apply" /\ UNCHANGED <<kind, fs, archive>> /\ succeeded' = << >>
        /\ journal' = Written(succeeded)
        /\ moved' = [p \in Path |-> IF p \in SucceededMoves THEN archive[p] ELSE moved[p]]
    BY <1>5 DEF AppendEntries
  <2>2. DoneOK' /\ UndoingOK'
    BY <2>1 DEF DoneOK, UndoingOK, Lists
  <2>3. Readable' => /\ Readable
                     /\ \A p : Lists(journal, p) \/ Lists(succeeded, p) => Lists(journal', p)
    <3>1. journal \in Seq(Path \cup {Torn}) /\ succeeded \in Seq(Path \cup {Torn})
      BY SeqMonotonic DEF TypeOK
    <3> QED BY <2>1, <3>1, WrittenKeeps DEF Readable
  <2>4. \A p \in Path : IF kind = "move" /\ Lists(succeeded, p)
                        THEN moved'[p] = archive[p] ELSE moved'[p] = moved[p]
    BY <2>1 DEF SucceededMoves, Lists
  <2>5. MovedOK'
    BY <2>1, <2>3, <2>4 DEF MovedOK, DoneOK
  <2> QED BY <2>1, <2>2, <2>5
<1>6. ASSUME NEW n \in 0..Len(succeeded), AppendStops(n)
      PROVE  steady' /\ MovedOK' /\ DoneOK' /\ UndoingOK'
  <2>1. /\ steady' /\ pc' = "idle" /\ UNCHANGED <<kind, fs, archive, moved>>
        /\ succeeded' = << >>
    BY <1>6 DEF AppendStops
  <2>2. DoneOK' /\ UndoingOK'
    BY <2>1 DEF DoneOK, UndoingOK, Lists
  <2>3. Readable' => Readable /\ \A p : Lists(journal, p) => Lists(journal', p)
    BY <1>6, StoppedKeeps
  <2>4. MovedOK'
    BY <2>1, <2>3 DEF MovedOK
  <2> QED BY <2>1, <2>2, <2>4
<1>7. CASE StartUndo
  <2>1. MovedOK' /\ DoneOK'
    BY <1>7 DEF StartUndo, MovedOK, DoneOK, Readable, Lists
  <2>2. UndoingOK'
    BY <1>7 DEF StartUndo, MovedOK, UndoingOK, Lists
  <2> QED BY <1>7, <2>1, <2>2 DEF StartUndo
<1>8. CASE SkipEntry
  <2>1. MovedOK' /\ DoneOK'
    BY <1>8 DEF SkipEntry, MovedOK, DoneOK, Readable, Lists
  <2>2. ASSUME NEW p \in Path, moved[p] # NoFile, fs[p] # moved[p], ~refused'
        PROVE  Lists(undo', p)
    <3>1. kind = "move" /\ fs[p] = NoFile
      BY <2>2 DEF MovedOK
    <3>2. p # Newest
      BY <1>8, <2>2, <3>1 DEF SkipEntry
    <3>3. Lists(undo, p)
      BY <1>8, <2>2 DEF SkipEntry, UndoingOK
    <3> QED BY <1>8, <3>2, <3>3, OthersStay DEF SkipEntry, TypeOK
  <2> QED BY <1>8, <2>1, <2>2 DEF SkipEntry, UndoingOK
<1>9. CASE Restore
  <2>1. /\ steady' /\ pc' = "undo" /\ UNCHANGED <<kind, journal, moved, succeeded, refused>>
        /\ DropNewest /\ undo # << >> /\ Newest \in Path /\ fs[Newest] = NoFile
        /\ succeeded = << >>
    BY <1>9, NewestDropped DEF Restore, TypeOK, OriginFree, DoneOK
  <2>2. \A q \in Path : q # Newest => fs'[q] = fs[q] /\ archive'[q] = archive[q]
    BY <1>9, <2>1 DEF Restore, TypeOK
  <2>3. archive[Newest] = NoFile => fs'[Newest] = NoFile /\ archive'[Newest] = NoFile
    BY <1>9, <2>1 DEF Restore
  <2>4. archive[Newest] # NoFile =>
           fs'[Newest] = archive[Newest] /\ archive'[Newest] = NoFile
    BY <1>9, <2>1 DEF Restore, TypeOK
  <2>5. MovedOK'
    BY <2>1, <2>2, <2>3, <2>4 DEF MovedOK, Readable, Lists
  <2>6. DoneOK'
    BY <2>1 DEF DoneOK, Lists
  <2>7. ASSUME NEW p \in Path, moved[p] # NoFile, fs'[p] # moved[p], ~refused
        PROVE  Lists(undo', p)
    <3>1. p # Newest
      BY <2>1, <2>4, <2>7 DEF MovedOK
    <3>2. Lists(undo, p)
      BY <1>9, <2>2, <2>7, <3>1 DEF Restore, UndoingOK
    <3> QED BY <2>1, <3>1, <3>2, OthersStay DEF TypeOK
  <2> QED BY <2>1, <2>5, <2>6, <2>7 DEF UndoingOK
<1>10. CASE Crash \/ FinishUndo
  <2>1. /\ steady' /\ pc' = "idle" /\ succeeded' = << >>
        /\ UNCHANGED <<kind, fs, archive, moved, journal>>
    BY <1>10 DEF Crash, FinishUndo, DoneOK
  <2> QED BY <2>1 DEF MovedOK, DoneOK, UndoingOK, Readable, Lists
<1> QED BY <1>0, <1>2, <1>3, <1>4, <1>5, <1>6, <1>7, <1>8, <1>9, <1>10
     DEF Next, PlanOut, ApplyPlan, Undo, Scan, WritePlan, StampGroup, StartApply, EndGroup,
       FinishApply, SkipStale, CheckOrigin

\* An undo that gets to its end has brought back every file a finished group has
\* moved, whatever was applied, undone, crashed or lost before, when no rename of
\* its own has failed and nobody else changed the tree.
THEOREM MovesUndone == Spec => []UndoRestores
<1>1. Init => OriginFree /\ Recoverable
  BY DEF Init, OriginFree, Recoverable, JournalOK, MovedOK, DoneOK, UndoingOK, Lists
<1>2. TypeOK /\ OriginFree /\ Recoverable /\ [Next]_vars => (OriginFree /\ Recoverable)'
  BY JournalStep, RecoverStep, OriginStep DEF Recoverable
<1>3. Recoverable => UndoRestores
  <2> SUFFICES ASSUME Recoverable, pc = "undo", undo = << >>, ~refused, env = EnvSteps,
                      NEW p \in Path, moved[p] # NoFile
               PROVE  fs[p] = moved[p]
    BY DEF UndoRestores
  <2>1. ~Lists(undo, p)
    BY DEF Lists
  <2> QED BY <2>1 DEF Recoverable, UndoingOK
<1> QED BY <1>1, <1>2, <1>3, TypeCorrect, PTL DEF Spec
-----------------------------------------------------------------------------
(* Why no content is lost: mtimes tell whether a group still is what the scan *)
(* of its plan has found.  A move or a copy loses nothing anyway.             *)

Replacing == kind \in {"delete", "hardlink"}

\* The last time at which somebody has written a file.
Now == EnvSteps - env

\* Existing files of one content.
Copies(S) == \A p, q \in S : fs[p] # NoFile /\ ContentAt(p) = ContentAt(q)

\* No file has an mtime of the future, no plan a stamp of it.
ClockOK ==
    /\ \A i \in Inode : mtime[i] <= Now
    /\ \A g \in plan \cup stamped : \A p \in Stamped(g) : g.stamps[p] <= Now

\* The groups of a scan, stamped or not, and those of a plan are disjoint.
DisjointOK ==
    /\ \A g, h \in plan : \A p \in Stamped(g) : p \in Stamped(h) => g = h
    /\ \A g, h \in stamped : \A p \in Stamped(g) : p \in Stamped(h) => g = h
    /\ \A g, h \in scanned : \A p \in g : p \in h => g = h
    /\ \A g \in scanned : \A h \in stamped : g \cap Stamped(h) = {}

\* Until something changes, the groups of a scan are groups of copies.
StampsOK ==
    pc = "stamp" /\ steady =>
       /\ \A g \in scanned : Copies(g)
       /\ \A g \in stamped : Copies(Stamped(g))

\* A file of a planned group that has one of the group's mtimes has its content.
ContentsOK ==
    asScanned =>
       \A g \in plan : \E c \in Content : \A p, q \in Stamped(g) :
          fs[q] # NoFile /\ mtime[fs[q]] = g.stamps[p] => data[fs[q]] = c

\* A group that nobody has changed since its check is one of copies.
ActOK ==
    pc = "act" =>
       /\ \E g \in plan : kept \in Stamped(g) /\ todo \subseteq Stamped(g) \ {kept}
       /\ steady /\ asScanned => Copies(todo \cup {kept})

Traced ==
    Replacing => /\ \A p \in Path : archive[p] = NoFile
                 /\ ClockOK /\ DisjointOK /\ StampsOK /\ ContentsOK /\ ActOK

\* What a step of the program can do to the disk when it replaces or removes.
LEMMA DiskSteps ==
  ASSUME TypeOK, Traced, Replacing, [Next]_vars, ~Environment
  PROVE  /\ UNCHANGED <<archive, data, mtime, env>>
         /\ \/ fs' = fs
            \/ \E p \in Path :
                  /\ pc = "act" /\ p \in todo /\ todo' = todo \ {p}
                  /\ UNCHANGED <<pc, plan, kept, steady, asScanned>>
                  /\ \/ fs' = [fs EXCEPT ![p] = NoFile]
                     \/ fs[kept] # NoFile /\ fs' = [fs EXCEPT ![p] = fs[kept]]
<1> USE DEF vars, disk, planning, group, file, history
<1>1. ASSUME NEW p \in Path, Act(p)
      PROVE  /\ UNCHANGED <<archive, data, mtime, env>>
             /\ \/ fs' = fs
                \/ /\ pc = "act" /\ p \in todo /\ todo' = todo \ {p}
                   /\ UNCHANGED <<pc, plan, kept, steady, asScanned>>
                   /\ \/ fs' = [fs EXCEPT ![p] = NoFile]
                      \/ fs[kept] # NoFile /\ fs' = [fs EXCEPT ![p] = fs[kept]]
  <2>1. CASE ActionFails(p)
    BY <2>1 DEF ActionFails
  <2>2. CASE Delete(p)
    BY <2>2, FirstInSet DEF Delete, Done, At
  <2>3. CASE Hardlink(p)
    BY <2>3, FirstInSet DEF Hardlink, Done, At
  <2> QED BY <1>1, <2>1, <2>2, <2>3 DEF Act, Move, Copy, Replacing
<1>2. CASE Restore
  <2>1. Newest \in Path
    BY <1>2, NewestDropped DEF Restore, TypeOK
  <2> QED BY <1>2, <2>1 DEF Restore, Traced
<1>3. \/ UNCHANGED <<fs, archive, data, mtime, env>>
      \/ Restore
      \/ \E p \in Path : Act(p)
  BY DEF Next, PlanOut, ApplyPlan, Undo, Scan, WritePlan, StampGroup, StartApply,
     EndGroup, AppendEntries, FinishApply, SkipStale, StartGroup, AppendStops, StartUndo,
     SkipEntry, CheckOrigin, FinishUndo, Crash
<1> QED BY <1>1, <1>2, <1>3

\* What another program can do to it.
LEMMA DiskChange ==
  ASSUME TypeOK, ClockOK, Environment
  PROVE  /\ archive' = archive /\ Now' = Now + 1 /\ ~steady'
         /\ UNCHANGED <<pc, kind, plan, scanned, stamped, kept, todo, asScanned>>
         /\ \A i \in Inode : mtime'[i] \in {mtime[i], Now'}
         /\ \A q \in Path : \/ fs'[q] = NoFile
                            \/ fs'[q] = fs[q] /\ mtime'[fs[q]] = mtime[fs[q]]
                                             /\ data'[fs[q]] = data[fs[q]]
                            \/ mtime'[fs'[q]] = Now'
<1> USE DEF TypeOK, disk, planning, group, file, history
<1> PICK p \in Path : Removed(p) \/ Rewritten(p)
  BY DEF Environment
<1>1. UNCHANGED <<pc, kind, plan, scanned, stamped, kept, todo, asScanned>> /\ ~steady'
      /\ env \in Nat /\ env' = env - 1
  BY DEF Environment
<1>0. EnvSteps \in Nat /\ env \in 0..EnvSteps
  BY ONLY TypeOK, BoundAssumption DEF TypeOK
<1>2. EnvSteps - env + 1 \in Nat /\ Now' = EnvSteps - env + 1 /\ Now' = Now + 1
  BY ONLY <1>0, <1>1 DEF Now
<1>3. CASE Removed(p)
  BY <1>1, <1>2, <1>3 DEF Removed
<1>4. CASE Rewritten(p)
  <2>1. PICK i \in Inode, c \in Content :
             /\ fs' = [fs EXCEPT ![p] = i] /\ archive' = archive
             /\ data' = [data EXCEPT ![i] = c]
             /\ mtime' = [mtime EXCEPT ![i] = Now']
    BY <1>2, <1>4 DEF Rewritten, Fresh
  <2>2. mtime'[i] = Now' /\ fs'[p] = i
    BY <2>1
  <2>3. \A j \in Inode : j # i => mtime'[j] = mtime[j] /\ data'[j] = data[j]
    BY <2>1
  <2>4. \A q \in Path : q # p => fs'[q] = fs[q]
    BY <2>1
  <2> QED BY <1>1, <1>2, <2>1, <2>2, <2>3, <2>4
<1> QED BY <1>3, <1>4

\* Stamping a group takes it from those that are left and adds one record with a
\* part of its paths.
LEMMA StampFrame ==
  ASSUME TypeOK, NEW g \in scanned, NEW p \in Path, NEW k \in Path, StampGroup(g, p, k)
  PROVE  /\ pc = "stamp" /\ scanned' = scanned \ {g}
         /\ UNCHANGED <<disk, pc, plan, kept, todo, steady, asScanned, env>>
         /\ \/ stamped' = stamped
            \/ \E new : /\ stamped' = stamped \cup {new} /\ Stamped(new) \subseteq g
                       /\ \A q \in Stamped(new) : \E i \in Inode : new.stamps[q] = mtime[i]
<1> DEFINE paths == PlanPaths(g, k)
           new == [kept |-> k, stamps |-> [q \in paths |-> mtime[fs[q]]]]
<1>1. k \in g
  <2>1. ByModified(g, fs, mtime, TRUE) \subseteq g /\ ByModified(g, fs, mtime, FALSE) \subseteq g
    BY FirstInSet DEF ByModified
  <2>2. ByDepth(g, TRUE) \subseteq g /\ ByDepth(g, FALSE) \subseteq g
    BY FirstInSet DEF ByDepth
  <2>3. First(g) \subseteq g /\ ProtectedMember(g) \subseteq g
    BY FirstInSet DEF ProtectedMember
  <2>4. p \in g
    BY <2>1, <2>2, <2>3 DEF StampGroup, ChooseKeep
  <2> QED BY <2>3, <2>4 DEF StampGroup, EffectiveKeep
<1>2. paths \subseteq g /\ g \subseteq Path
  BY <1>1 DEF PlanPaths, Planned, TypeOK
<1>3. \/ stamped' = stamped
      \/ stamped' = stamped \cup {new} /\ \A q \in paths : fs[q] # NoFile
  BY DEF StampGroup
<1>4. Stamped(new) = paths /\ \A q \in paths : new.stamps[q] = mtime[fs[q]]
  BY DEF Stamped
<1> HIDE DEF new, paths
<1>5. /\ pc = "stamp" /\ scanned' = scanned \ {g}
      /\ UNCHANGED <<disk, pc, plan, kept, todo, steady, asScanned, env>>
  BY DEF StampGroup, disk, file, group, history
<1>6. CASE stamped' = stamped
  BY <1>5, <1>6
<1>7. CASE stamped' = stamped \cup {new} /\ \A q \in paths : fs[q] # NoFile
  <2>1. Stamped(new) \subseteq g
    BY <1>2, <1>4
  <2>2. \A q \in Stamped(new) : fs[q] \in Inode /\ new.stamps[q] = mtime[fs[q]]
    <3>1. fs \in [Path -> Inode \cup {NoFile}]
      BY DEF TypeOK
    <3> QED BY ONLY <1>2, <1>4, <1>7, <3>1
  <2>3. \A q \in Stamped(new) : \E i \in Inode : new.stamps[q] = mtime[i]
    BY ONLY <2>2
  <2> QED BY ONLY <1>5, <1>7, <2>1, <2>3
<1> QED BY <1>3, <1>6, <1>7

\* The groups of a scan are disjoint groups of copies.
LEMMA DuplicatesOK ==
  /\ \A g \in Duplicates : Copies(g)
  /\ \A g, h \in Duplicates : \A p \in g : p \in h => g = h
<1>1. \A g \in Duplicates : \E c \in Content : g = {p \in Path : ContentAt(p) = c}
  BY DEF Duplicates
<1>2. ASSUME NEW g \in Duplicates PROVE Copies(g)
  BY <1>1 DEF Copies, ContentAt
<1>3. ASSUME NEW g \in Duplicates, NEW h \in Duplicates, NEW p \in g, p \in h
      PROVE  g = h
  <2>1. PICK c \in Content : g = {q \in Path : ContentAt(q) = c}
    BY <1>1, Zenon
  <2>2. PICK d \in Content : h = {q \in Path : ContentAt(q) = d}
    BY <1>1, Zenon
  <2>3. c = d
    BY <1>3, <2>1, <2>2
  <2> QED BY <2>1, <2>2, <2>3
<1> QED BY <1>2, <1>3

\* No file or stamp is ever ahead of the clock.
LEMMA ClockStep ==
  ASSUME TypeOK, Traced, Replacing, [Next]_vars PROVE ClockOK'
<1> USE DEF vars, disk, planning, group, file, history
<1>0. ClockOK /\ Now \in Nat /\ \A i \in Inode : mtime[i] \in Nat
  BY DEF Traced, TypeOK, Now
<1>1. CASE Environment
  <2>1. /\ Now' = Now + 1 /\ plan' = plan /\ stamped' = stamped
        /\ \A i \in Inode : mtime'[i] \in {mtime[i], Now'}
    BY <1>0, <1>1, DiskChange
  <2>2. \A g \in plan \cup stamped : \A p \in Stamped(g) : g.stamps[p] \in Nat
    BY DEF TypeOK
  <2>3. \A i \in Inode : mtime'[i] <= Now'
    BY <1>0, <2>1 DEF ClockOK
  <2>4. \A g \in plan \cup stamped : \A p \in Stamped(g) : g.stamps[p] <= Now + 1
    BY <1>0, <2>2 DEF ClockOK
  <2> QED BY <2>1, <2>3, <2>4 DEF ClockOK, Stamped
<1>2. CASE ~Environment
  <2>1. Now' = Now /\ mtime' = mtime
    BY <1>2, DiskSteps DEF Now
  <2>2. CASE plan' \cup stamped' \subseteq plan \cup stamped
    BY <1>0, <2>1, <2>2 DEF ClockOK, Stamped
  <2>3. ASSUME NEW g \in scanned, NEW p \in Path, NEW k \in Path, StampGroup(g, p, k)
        PROVE  ClockOK'
    <3>1. plan' = plan
      BY <2>3, StampFrame
    <3>2. CASE stamped' = stamped
      BY <2>2, <3>1, <3>2
    <3>3. ASSUME NEW new, stamped' = stamped \cup {new},
                 \A q \in Stamped(new) : \E i \in Inode : new.stamps[q] = mtime[i]
          PROVE  ClockOK'
      BY <1>0, <2>1, <3>1, <3>3 DEF ClockOK, Stamped
    <3> QED BY <2>3, <3>2, <3>3, StampFrame
  <2>4. (\E g \in scanned, p, k \in Path : StampGroup(g, p, k))
        \/ plan' \cup stamped' \subseteq plan \cup stamped
    BY <1>2 DEF Next, PlanOut, ApplyPlan, Undo, Scan, WritePlan, StartApply,
     EndGroup, AppendEntries, FinishApply, SkipStale, StartGroup, AppendStops, StartUndo,
     SkipEntry, CheckOrigin, Restore, FinishUndo, Crash, Act, ActionFails, Delete,
     Hardlink, Move, Copy, Done
  <2> QED BY <2>2, <2>3, <2>4
<1> QED BY <1>1, <1>2

\* Groups stay disjoint from the scan to the plan file.
LEMMA DisjointStep ==
  ASSUME TypeOK, Traced, Replacing, [Next]_vars PROVE DisjointOK'
<1> USE DEF vars, disk, planning, group, file, history
<1>0. DisjointOK
  BY DEF Traced
<1>1. CASE Scan
  <2>1. scanned' = Duplicates /\ stamped' = {} /\ plan' = plan
    BY <1>1 DEF Scan, TypeOK
  <2> QED BY <1>0, <2>1, DuplicatesOK DEF DisjointOK, Stamped
<1>2. ASSUME NEW g \in scanned, NEW p \in Path, NEW k \in Path, StampGroup(g, p, k)
      PROVE  DisjointOK'
  <2>1. plan' = plan /\ scanned' = scanned \ {g}
    BY <1>2, StampFrame
  <2>2. CASE stamped' = stamped
    BY <1>0, <2>1, <2>2 DEF DisjointOK, Stamped
  <2>3. ASSUME NEW new, stamped' = stamped \cup {new}, Stamped(new) \subseteq g
        PROVE  DisjointOK'
    <3>1. \A h \in stamped : Stamped(new) \cap Stamped(h) = {}
      BY <1>0, <2>3 DEF DisjointOK
    <3>2. \A h \in scanned' : h \cap g = {}
      BY <1>0, <2>1 DEF DisjointOK
    <3>3. \A h, m \in stamped' : \A q \in Stamped(h) : q \in Stamped(m) => h = m
      BY <1>0, <2>3, <3>1 DEF DisjointOK
    <3>4. \A h \in scanned' : \A m \in stamped' : h \cap Stamped(m) = {}
      BY <1>0, <2>1, <2>3, <3>2 DEF DisjointOK
    <3> QED BY <1>0, <2>1, <3>3, <3>4 DEF DisjointOK, Stamped
  <2> QED BY <1>2, <2>2, <2>3, StampFrame
<1>3. CASE WritePlan
  <2>1. scanned' = {} /\ stamped' = {} /\ plan' \subseteq stamped
    BY <1>3 DEF WritePlan
  <2> QED BY <1>0, <2>1 DEF DisjointOK, Stamped
<1>4. CASE UNCHANGED <<plan, scanned, stamped>>
  BY <1>0, <1>4 DEF DisjointOK, Stamped
<1>5. CASE Crash
  <2>1. scanned' = {} /\ stamped' = {} /\ plan' = plan
    BY <1>5 DEF Crash
  <2> QED BY <1>0, <2>1 DEF DisjointOK, Stamped
<1> QED BY <1>1, <1>2, <1>3, <1>4, <1>5 DEF Next, PlanOut, ApplyPlan, Undo, StartApply,
     EndGroup, AppendEntries, FinishApply, SkipStale, StartGroup, AppendStops, StartUndo,
     SkipEntry, CheckOrigin, Restore, FinishUndo, Act, ActionFails, Delete,
     Hardlink, Move, Copy, Done, Environment

\* A scan that nobody disturbs stamps what it has found.
LEMMA StampsStep ==
  ASSUME TypeOK, Traced, Replacing, [Next]_vars PROVE StampsOK'
<1> USE DEF vars, disk, planning, group, file, history
<1>0. StampsOK
  BY DEF Traced
<1>1. CASE Scan
  <2>1. scanned' = Duplicates /\ stamped' = {} /\ fs' = fs /\ data' = data
    BY <1>1 DEF Scan, TypeOK
  <2>2. \A S : Copies(S) => Copies(S)'
    BY <2>1 DEF Copies, ContentAt
  <2> QED BY <2>1, <2>2, DuplicatesOK DEF StampsOK
<1>2. ASSUME NEW g \in scanned, NEW p \in Path, NEW k \in Path, StampGroup(g, p, k)
      PROVE  StampsOK'
  <2>1. UNCHANGED <<fs, data, pc, steady>> /\ scanned' = scanned \ {g}
    BY <1>2, StampFrame
  <2>2. \A S, T : Copies(S) /\ T \subseteq S => Copies(T)'
    BY <2>1 DEF Copies, ContentAt
  <2>3. CASE stamped' = stamped
    BY <1>0, <2>1, <2>2, <2>3 DEF StampsOK, Stamped
  <2>4. ASSUME NEW new, stamped' = stamped \cup {new}, Stamped(new) \subseteq g
        PROVE  StampsOK'
    BY <1>0, <2>1, <2>2, <2>4 DEF StampsOK, Stamped
  <2> QED BY <1>2, <2>3, <2>4, StampFrame
<1>3. CASE UNCHANGED vars
  BY <1>0, <1>3 DEF StampsOK, Copies, ContentAt, Stamped
<1>4. CASE Environment
  BY <1>4 DEF Environment, StampsOK
<1>5. CASE pc' # "stamp"
  BY <1>5 DEF StampsOK
<1>6. \/ Scan \/ Environment \/ UNCHANGED vars \/ pc' # "stamp"
      \/ \E g \in scanned, p, k \in Path : StampGroup(g, p, k)
  <2>1. ASSUME NEW p \in Path, Act(p) PROVE pc' # "stamp"
    BY <2>1 DEF Act, ActionFails, Delete, Hardlink, Move, Copy, Done, At
  <2> QED BY <2>1 DEF Next, PlanOut, ApplyPlan, Undo, WritePlan, StartApply,
     EndGroup, AppendEntries, FinishApply, SkipStale, StartGroup, AppendStops, StartUndo,
     SkipEntry, CheckOrigin, Restore, FinishUndo, Crash
<1> QED BY <1>1, <1>2, <1>3, <1>4, <1>5, <1>6

\* Whoever writes a file of a planned group gives it an mtime the plan has not
\* recorded, and a link made by the plan leads to the group's own kept file.
LEMMA ContentsStep ==
  ASSUME TypeOK, Traced, Replacing, [Next]_vars PROVE ContentsOK'
<1> USE DEF vars, disk, planning, group, file, history
<1>0. ClockOK /\ DisjointOK /\ StampsOK /\ ContentsOK /\ ActOK
  BY DEF Traced
<1>1. CASE WritePlan
  <2>1. /\ pc = "stamp" /\ plan' \subseteq stamped /\ asScanned' = steady
        /\ UNCHANGED <<fs, data, mtime>>
    BY <1>1 DEF WritePlan
  <2>2. ASSUME steady, NEW g \in stamped
        PROVE  \E c \in Content : \A q \in Stamped(g) : data[fs[q]] = c
    <3>1. Copies(Stamped(g)) /\ g.kept \in Stamped(g) /\ Stamped(g) \subseteq Path
      BY <1>0, <2>1, <2>2 DEF StampsOK, TypeOK
    <3>2. \A q \in Stamped(g) : data[fs[q]] = data[fs[g.kept]]
      BY <3>1 DEF Copies, ContentAt
    <3>3. fs[g.kept] \in Inode \ Fresh
      BY <3>1 DEF Copies, TypeOK, Fresh
    <3>4. data[fs[g.kept]] \in Content
      BY <3>3 DEF TypeOK
    <3> QED BY ONLY <3>2, <3>4
  <2>3. ASSUME asScanned', NEW g \in plan'
        PROVE  \E c \in Content : \A p, q \in Stamped(g)' :
                  (fs[q] # NoFile /\ mtime[fs[q]] = g.stamps[p] => data[fs[q]] = c)'
    <3>1. g \in stamped /\ steady /\ Stamped(g)' = Stamped(g)
      BY ONLY <2>1, <2>3 DEF Stamped
    <3> QED BY ONLY <2>1, <2>2, <3>1
  <2> QED BY ONLY <2>3 DEF ContentsOK
<1>2. CASE Environment
  <2>0. Now' = Now + 1 /\ Now \in Nat
    BY <1>0, <1>2, DiskChange DEF Now, TypeOK
  <2>1. plan' = plan /\ asScanned' = asScanned
        /\ \A q \in Path : \/ fs'[q] = NoFile
                           \/ fs'[q] = fs[q] /\ mtime'[fs[q]] = mtime[fs[q]]
                                            /\ data'[fs[q]] = data[fs[q]]
                           \/ mtime'[fs'[q]] = Now'
    BY <1>0, <1>2, DiskChange
  <2>2. \A g \in plan : Stamped(g) \subseteq Path
          /\ \A p \in Stamped(g) : g.stamps[p] \in Nat /\ g.stamps[p] <= Now
    BY <1>0 DEF ClockOK, TypeOK
  <2>3. \A g \in plan : \A p \in Stamped(g) : g.stamps[p] # Now'
    BY <2>0, <2>2
  <2>4. ASSUME NEW g \in plan, asScanned
        PROVE  \E c \in Content : \A p, q \in Stamped(g) :
                  fs'[q] # NoFile /\ mtime'[fs'[q]] = g.stamps[p] => data'[fs'[q]] = c
    <3>1. PICK c \in Content : \A p, q \in Stamped(g) :
             fs[q] # NoFile /\ mtime[fs[q]] = g.stamps[p] => data[fs[q]] = c
      BY <1>0, <2>4 DEF ContentsOK
    <3>2. ASSUME NEW p \in Stamped(g), NEW q \in Stamped(g),
                 fs'[q] # NoFile, mtime'[fs'[q]] = g.stamps[p]
          PROVE  data'[fs'[q]] = c
      <4>1. p \in Path /\ q \in Path /\ g.stamps[p] # Now'
        BY ONLY <2>2, <2>3, <3>2, <2>4
      <4>2. fs'[q] = fs[q] /\ mtime'[fs[q]] = mtime[fs[q]] /\ data'[fs[q]] = data[fs[q]]
        BY ONLY <2>1, <3>2, <4>1
      <4> QED BY ONLY <3>1, <3>2, <4>2
    <3> QED BY ONLY <3>2
  <2> QED BY <2>1, <2>4 DEF ContentsOK, Stamped
<1>3. CASE ~Environment /\ plan' = plan /\ asScanned' = asScanned
  <2>1. data' = data /\ mtime' = mtime
    BY <1>3, DiskSteps
  <2>2. CASE fs' = fs
    BY <1>0, <1>3, <2>1, <2>2 DEF ContentsOK, Stamped
  <2>3. ASSUME NEW p \in Path, pc = "act", p \in todo,
               \/ fs' = [fs EXCEPT ![p] = NoFile]
               \/ fs[kept] # NoFile /\ fs' = [fs EXCEPT ![p] = fs[kept]],
               NEW g \in plan, asScanned
        PROVE  \E c \in Content : \A q, r \in Stamped(g) :
                  fs'[r] # NoFile /\ mtime[fs'[r]] = g.stamps[q] => data[fs'[r]] = c
    <3>1. PICK c \in Content : \A q, r \in Stamped(g) :
             fs[r] # NoFile /\ mtime[fs[r]] = g.stamps[q] => data[fs[r]] = c
      BY <1>0, <2>3 DEF ContentsOK
    <3>2. p \in Stamped(g) => kept \in Stamped(g)
      <4>1. PICK h \in plan : kept \in Stamped(h) /\ todo \subseteq Stamped(h) \ {kept}
        BY <1>0, <2>3 DEF ActOK
      <4> QED BY <1>0, <2>3, <4>1 DEF DisjointOK
    <3>3. /\ Stamped(g) \subseteq Path
          /\ \A r \in Path : r # p => fs'[r] = fs[r]
          /\ fs'[p] = NoFile \/ fs'[p] = fs[kept]
      <4>1. Stamped(g) \subseteq Path /\ fs \in [Path -> Inode \cup {NoFile}]
        BY DEF TypeOK
      <4>2. CASE fs' = [fs EXCEPT ![p] = NoFile]
        BY <2>3, <4>1, <4>2
      <4>3. CASE fs' = [fs EXCEPT ![p] = fs[kept]]
        BY <2>3, <4>1, <4>3
      <4> QED BY <2>3, <4>1, <4>2, <4>3
    <3>4. \A r \in Stamped(g) : fs'[r] # NoFile =>
             \E s \in Stamped(g) : fs'[r] = fs[s]
      BY <3>2, <3>3
    <3>5. \A q, r \in Stamped(g) :
             fs'[r] # NoFile /\ mtime[fs'[r]] = g.stamps[q] => data[fs'[r]] = c
      BY <3>1, <3>4
    <3> QED BY <3>5
  <2>4. CASE \E p \in Path : pc = "act" /\ p \in todo
               /\ \/ fs' = [fs EXCEPT ![p] = NoFile]
                  \/ fs[kept] # NoFile /\ fs' = [fs EXCEPT ![p] = fs[kept]]
    BY <1>3, <2>1, <2>3, <2>4 DEF ContentsOK, Stamped
  <2>5. \/ fs' = fs
        \/ \E p \in Path :
              /\ pc = "act" /\ p \in todo
              /\ \/ fs' = [fs EXCEPT ![p] = NoFile]
                 \/ fs[kept] # NoFile /\ fs' = [fs EXCEPT ![p] = fs[kept]]
    <3>1. ~Environment
      BY <1>3
    <3> QED BY <3>1, DiskSteps
  <2> QED BY <2>2, <2>4, <2>5
<1>4. \/ WritePlan
      \/ Environment
      \/ plan' = plan /\ asScanned' = asScanned
  BY DEF Next, PlanOut, ApplyPlan, Undo, Scan, StampGroup, StartApply,
     EndGroup, AppendEntries, FinishApply, SkipStale, StartGroup, AppendStops, StartUndo,
     SkipEntry, CheckOrigin, Restore, FinishUndo, Crash, Act, ActionFails, Delete,
     Hardlink, Move, Copy, Done
<1> QED BY <1>1, <1>2, <1>3, <1>4

\* A group is found fresh as a whole, and what replaces or removes one of its
\* targets leaves the others and the kept file as they are.
LEMMA ActStep ==
  ASSUME TypeOK, Traced, Replacing, [Next]_vars PROVE ActOK'
<1> USE DEF vars, disk, planning, group, file, history
<1>0. ContentsOK /\ ActOK
  BY DEF Traced
<1>1. ASSUME NEW g \in left, StartGroup(g) PROVE ActOK'
  <2>1. /\ g \in plan /\ kept' = g.kept /\ g.kept \in Stamped(g)
        /\ todo' \subseteq Stamped(g) \ {g.kept}
        /\ UNCHANGED <<fs, data, plan, asScanned>>
        /\ \A p \in Stamped(g) : fs[p] # NoFile /\ mtime[fs[p]] = g.stamps[p]
    BY <1>1 DEF StartGroup, FreshGroup, TypeOK
  <2>2. ASSUME asScanned PROVE Copies(todo \cup {kept})'
    <3>1. PICK c \in Content : \A p, q \in Stamped(g) :
             fs[q] # NoFile /\ mtime[fs[q]] = g.stamps[p] => data[fs[q]] = c
      BY <1>0, <2>1, <2>2 DEF ContentsOK
    <3>2. \A p \in Stamped(g) : fs'[p] # NoFile /\ data'[fs'[p]] = c
      BY <2>1, <3>1
    <3>3. todo' \cup {kept'} \subseteq Stamped(g)
      BY <2>1
    <3>4. \A p \in todo' \cup {kept'} : fs'[p] # NoFile /\ data'[fs'[p]] = c
      BY <3>2, <3>3
    <3> QED BY <3>4 DEF Copies, ContentAt
  <2>3. \E h \in plan' : kept' \in Stamped(h) /\ todo' \subseteq Stamped(h) \ {kept'}
    BY <2>1
  <2> QED BY <2>1, <2>2, <2>3 DEF ActOK, Copies, ContentAt, Stamped
<1>2. CASE Environment
  BY <1>0, <1>2 DEF Environment, ActOK, Stamped
<1>3. ASSUME NEW p \in Path, Act(p) PROVE ActOK'
  <2>1. /\ pc = "act" /\ p \in todo /\ todo' = todo \ {p}
        /\ UNCHANGED <<plan, kept, steady, asScanned>>
    BY <1>3, FirstInSet DEF Act, ActionFails, Delete, Hardlink, Move, Copy, Done, At, TypeOK
  <2>2. /\ p # kept /\ kept \notin todo
        /\ \E g \in plan : kept \in Stamped(g) /\ todo \subseteq Stamped(g) \ {kept}
    BY <1>0, <2>1 DEF ActOK
  <2>3. kept \in Path /\ todo \subseteq Path
    BY <2>1 DEF TypeOK
  <2>4. data' = data /\ \A q \in Path : q # p => fs'[q] = fs[q]
    <3>1. CASE ActionFails(p)
      BY <3>1 DEF ActionFails
    <3>2. CASE Delete(p)
      BY <3>2 DEF Delete, TypeOK
    <3>3. CASE Hardlink(p)
      BY <3>3 DEF Hardlink, TypeOK
    <3> QED BY <1>3, <3>1, <3>2, <3>3 DEF Act, Move, Copy, Replacing
  <2>5. \A q \in todo' \cup {kept'} : q \in todo \cup {kept} /\ fs'[q] = fs[q]
    BY <2>1, <2>2, <2>3, <2>4
  <2>6. Copies(todo \cup {kept}) => Copies(todo \cup {kept})'
    BY <2>4, <2>5 DEF Copies, ContentAt
  <2>7. \E g \in plan' : kept' \in Stamped(g) /\ todo' \subseteq Stamped(g) \ {kept'}
    BY <2>1, <2>2
  <2> QED BY <1>0, <2>1, <2>6, <2>7 DEF ActOK, Copies, ContentAt, Stamped
<1>4. CASE UNCHANGED vars
  BY <1>0, <1>4 DEF ActOK, Copies, ContentAt, Stamped
<1>5. CASE pc' # "act"
  BY <1>5 DEF ActOK
<1> QED BY <1>1, <1>2, <1>3, <1>4, <1>5 DEF Next, PlanOut, ApplyPlan, Undo, Scan, WritePlan,
     StampGroup, StartApply, EndGroup, AppendEntries, FinishApply, SkipStale, AppendStops,
     StartUndo, SkipEntry, CheckOrigin, Restore, FinishUndo, Crash

\* The inodes that a step which replaces or removes takes from the disk hold
\* nothing that the kept file does not hold.
LEMMA ReplaceKeeps ==
  ASSUME TypeOK, Traced, Replacing, [Next]_vars, ~Environment, steady, asScanned
  PROVE  Contents \subseteq Contents'
<1> SUFFICES ASSUME NEW i \in Inode \ Fresh PROVE data[i] \in Contents'
  BY DEF Contents
<1>1. UNCHANGED <<archive, data>> /\ \A p \in Path : archive[p] = NoFile
  BY DiskSteps DEF Traced
<1>2. PICK q \in Path : fs[q] = i
  <2>1. i # NoFile
    BY NoFileAssumption
  <2> QED BY <1>1, <2>1 DEF Fresh
<1>3. \A r \in Path : fs'[r] = i => data[i] \in Contents'
  BY <1>1 DEF Contents, Fresh
<1>4. CASE fs'[q] = i
  BY <1>3, <1>4
<1>5. ASSUME NEW p \in Path, pc = "act", p \in todo,
             \/ fs' = [fs EXCEPT ![p] = NoFile]
             \/ fs[kept] # NoFile /\ fs' = [fs EXCEPT ![p] = fs[kept]],
             fs'[q] # i
      PROVE  data[i] \in Contents'
  <2>1. p = q
    BY <1>2, <1>5 DEF TypeOK
  <2>2. ActOK
    BY DEF Traced
  <2>3. Copies(todo \cup {kept}) /\ kept # p /\ kept \in Path
    BY <1>5, <2>2 DEF ActOK, TypeOK
  <2>4. fs[kept] # NoFile /\ data[fs[kept]] = data[i]
    BY <1>2, <1>5, <2>1, <2>3, NoFileAssumption DEF Copies, ContentAt
  <2>5. fs'[kept] = fs[kept] /\ fs[kept] \in Inode
    BY <1>5, <2>3, <2>4 DEF TypeOK
  <2> QED BY <1>1, <2>3, <2>4, <2>5 DEF Contents, Fresh
<1>6. \/ fs' = fs
      \/ \E p \in Path : /\ pc = "act" /\ p \in todo
                         /\ \/ fs' = [fs EXCEPT ![p] = NoFile]
                            \/ fs[kept] # NoFile /\ fs' = [fs EXCEPT ![p] = fs[kept]]
  BY DiskSteps
<1> QED BY <1>2, <1>4, <1>5, <1>6

\* What a move, a copy or a restore takes from one name it gives another, and it
\* writes over nothing.
LEMMA MoveKeeps ==
  ASSUME TypeOK, OriginFree, ~Replacing, [Next]_vars, ~Environment, steady
  PROVE  Contents \subseteq Contents'
<1> USE DEF vars, disk, planning, group, file, history
<1> SUFFICES ASSUME NEW i \in Inode \ Fresh PROVE data[i] \in Contents'
  BY DEF Contents
<1>0. /\ i # NoFile
      /\ \E q \in Path : fs[q] = i \/ archive[q] = i
  BY NoFileAssumption DEF Fresh
<1>1. ASSUME data'[i] = data[i], NEW q \in Path, fs'[q] = i \/ archive'[q] = i
      PROVE  data[i] \in Contents'
  BY <1>1 DEF Contents, Fresh
<1>2. ASSUME NEW p \in Path, Move(p) PROVE data[i] \in Contents'
  <2>1. PICK q \in Path : fs[q] = i \/ archive[q] = i
    BY <1>0
  <2>2. /\ data' = data /\ archive'[p] = fs[p]
        /\ archive[p] = NoFile
        /\ \A r \in Path : r # p => fs'[r] = fs[r] /\ archive'[r] = archive[r]
    BY <1>2 DEF Move, TypeOK
  <2>3. CASE q = p
    BY <1>0, <1>1, <2>1, <2>2, <2>3
  <2>4. CASE q # p
    BY <1>1, <2>1, <2>2, <2>4
  <2> QED BY <2>3, <2>4
<1>3. ASSUME NEW p \in Path, Copy(p) PROVE data[i] \in Contents'
  <2>1. PICK q \in Path : fs[q] = i \/ archive[q] = i
    BY <1>0
  <2>2. PICK j \in Fresh : /\ archive' = [archive EXCEPT ![p] = j]
                           /\ data' = [data EXCEPT ![j] = data[fs[p]]]
    BY <1>3 DEF Copy
  <2>3. data'[i] = data[i]
    BY <2>2 DEF TypeOK
  <2>4. /\ fs' = fs /\ archive[p] = NoFile
        /\ \A r \in Path : r # p => archive'[r] = archive[r]
    BY <1>3, <2>2 DEF Copy, TypeOK
  <2> QED BY <1>0, <1>1, <2>1, <2>3, <2>4
<1>4. CASE Restore
  <2>1. PICK q \in Path : fs[q] = i \/ archive[q] = i
    BY <1>0
  <2>2. Newest \in Path /\ fs[Newest] = NoFile /\ data' = data
    BY <1>4, NewestDropped DEF Restore, OriginFree, TypeOK
  <2>3. CASE archive[Newest] = NoFile
    BY <1>1, <1>4, <2>1, <2>2, <2>3 DEF Restore
  <2>4. CASE archive[Newest] # NoFile
    <3>1. /\ fs'[Newest] = archive[Newest]
          /\ \A r \in Path : r # Newest => fs'[r] = fs[r] /\ archive'[r] = archive[r]
      BY <1>4, <2>2, <2>4 DEF Restore, TypeOK
    <3>2. CASE q = Newest
      BY <1>0, <1>1, <2>1, <2>2, <3>1, <3>2
    <3>3. CASE q # Newest
      BY <1>1, <2>1, <2>2, <3>1, <3>3
    <3> QED BY <3>2, <3>3
  <2> QED BY <2>3, <2>4
<1>5. CASE UNCHANGED disk
  <2>1. UNCHANGED <<fs, archive, data>>
    BY <1>5
  <2> QED BY <1>0, <1>1, <2>1
<1>6. \/ UNCHANGED disk
      \/ Restore
      \/ \E p \in Path : Move(p) \/ Copy(p)
  <2>1. ASSUME NEW p \in Path, Act(p) PROVE UNCHANGED disk \/ Move(p) \/ Copy(p)
    BY <2>1 DEF Act, ActionFails, Delete, Hardlink, Replacing
  <2> QED BY <2>1 DEF Next, PlanOut, ApplyPlan, Undo, Scan, WritePlan, StampGroup, StartApply,
     EndGroup, AppendEntries, FinishApply, SkipStale, StartGroup, AppendStops, StartUndo,
     SkipEntry, CheckOrigin, FinishUndo, Crash
<1> QED BY <1>2, <1>3, <1>4, <1>5, <1>6

LEMMA TracedStep == TypeOK /\ Traced /\ [Next]_vars => Traced'
<1> SUFFICES ASSUME TypeOK, Traced, [Next]_vars, Replacing' PROVE Traced'
  BY DEF Traced
<1>1. Replacing
  BY DEF Next, PlanOut, ApplyPlan, Undo, Scan, WritePlan, StampGroup, StartApply,
     EndGroup, AppendEntries, FinishApply, SkipStale, StartGroup, AppendStops, StartUndo,
     SkipEntry, CheckOrigin, Restore, FinishUndo, Crash, Act, ActionFails, Delete,
     Hardlink, Move, Copy, Done, Environment, Replacing, vars
<1>2. \A p \in Path : archive'[p] = NoFile
  <2>1. ClockOK /\ \A p \in Path : archive[p] = NoFile
    BY <1>1 DEF Traced
  <2>2. CASE Environment
    BY <2>1, <2>2, DiskChange
  <2>3. CASE ~Environment
    BY <1>1, <2>1, <2>3, DiskSteps
  <2> QED BY <2>2, <2>3
<1> QED BY <1>1, <1>2, ClockStep, DisjointStep, StampsStep, ContentsStep, ActStep DEF Traced

\* No step of plan apply or plan undo loses a content, whatever has changed since
\* the plan was written, and however often it is applied and undone: it takes a
\* plan stamped as it was scanned, and nobody changing a group between its check
\* and its actions.
THEOREM ContentsKept == Spec => NothingLost
<1>1. Init => Traced /\ OriginFree
  <2> SUFFICES ASSUME Init PROVE Traced /\ OriginFree
    OBVIOUS
  <2>1. ClockOK
    BY DEF Init, ClockOK, Now
  <2> QED BY <2>1 DEF Init, Traced, OriginFree, DisjointOK, StampsOK, ContentsOK, ActOK
<1>2. TypeOK /\ Traced /\ OriginFree /\ [Next]_vars => (Traced /\ OriginFree)'
  BY TracedStep, OriginStep
<1>3. TypeOK /\ Traced /\ OriginFree /\ [Next]_vars
        => [env' = env /\ steady /\ asScanned => Contents \subseteq Contents']_vars
  <2> SUFFICES ASSUME TypeOK, Traced, OriginFree, [Next]_vars, env' = env, steady, asScanned
               PROVE  Contents \subseteq Contents'
    OBVIOUS
  <2>1. ~Environment
    <3>1. env \in 0..EnvSteps
      BY DEF TypeOK
    <3>2. env # env - 1
      BY <3>1
    <3> QED BY <3>2 DEF Environment
  <2> QED BY <2>1, ReplaceKeeps, MoveKeeps
<1> QED BY <1>1, <1>2, <1>3, TypeCorrect, PTL DEF Spec, NothingLost
=============================================================================
