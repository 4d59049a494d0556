------------------------- MODULE ActionLayerProofs -------------------------
(***************************************************************************)
(* The action layer keeps its contract, its reference folders and the file *)
(* it was told to keep, leaves no path empty and no litter, and reports the*)
(* truth, for every tree, every set of keep rules and any number of runs   *)
(* and crashes.                                                            *)
(***************************************************************************)
EXTENDS ActionLayer, TLAPS

Acting == pc \notin {"idle", "scanned"}

\* No path that is still to be acted on lies under a reference folder.
Guarded == todo \cap Protected = {}

\* A file that is being written has no name in the tree but the temporary one.
Private ==
    /\ pc = "cloning" =>
         \A q \in Path : q # tmp /\ fs[q] # NoFile => fs[q] # fs[tmp]
    /\ pc \in {"copying", "filling"} =>
         \A p \in First(todo) : archive[p] # NoFile =>
            \A q \in Path : fs[q] # archive[p]

\* The groups that wait are disjoint sets of existing files of one content.
GroupsOK ==
    /\ \A g \in groups : \A p, q \in g :
          fs[p] # NoFile /\ ContentAt(p) = ContentAt(q)
    /\ \A g, h \in groups : \A p \in g : p \in h => g = h
    /\ \A g \in groups : \A p \in g : p \notin todo /\ p # kept /\ p # tmp

\* The kept file exists, what is left of the plan are copies of it, and the
\* temporary sibling is a stub or another copy.
PlanOK ==
    /\ Acting =>
         /\ kept \in Path /\ fs[kept] # NoFile
         /\ \A p \in todo : fs[p] # NoFile /\ ContentAt(p) = ContentAt(kept)
    /\ tmp # NoFile => fs[tmp] # NoFile /\ tmp \notin todo \cup {kept}
    /\ pc = "cloning" => ContentAt(tmp) = Stub
    /\ pc = "rename" => ContentAt(tmp) = ContentAt(kept)

Safe == TypeOK /\ Guarded /\ Private
IInv == Safe /\ (Undisturbed => GroupsOK /\ PlanOK)
-----------------------------------------------------------------------------
USE PathAssumption, NoFileAssumption, TmpAssumption, ContentAssumption,
    KindAssumption, BoundAssumption

\* What is first in a plan belongs to the plan.
LEMMA FirstInSet == \A S : First(S) \subseteq S
  BY DEF First

\* Every variable keeps its type and the plan never lists the kept file.
LEMMA TypeStep == TypeOK /\ [Next]_vars => TypeOK'
<1> SUFFICES ASSUME TypeOK, [Next]_vars PROVE TypeOK'
  OBVIOUS
<1> USE DEF TypeOK, vars, disk, planning, report
<1>1. CASE Scan
  <2>1. Duplicates \subseteq SUBSET Path
    BY DEF Duplicates
  <2> QED BY <1>1, <2>1 DEF Scan
<1>2. CASE PlanGroup
  <2>1. PICK g \in groups : kept' \in Path /\ todo' = Planned(fs, g, kept')
                            /\ groups' = groups \ {g}
    BY <1>2 DEF PlanGroup
  <2>2. todo' \subseteq Path /\ kept' \notin todo'
    BY <2>1 DEF Planned
  <2> QED BY <1>2, <2>1, <2>2 DEF PlanGroup, Linked
<1>3. CASE FinishGroup
  BY <1>3 DEF FinishGroup
<1>8. CASE FinishRun
  BY <1>8 DEF FinishRun
<1>4. ASSUME NEW p \in Path, Apply(p) PROVE TypeOK'
  <2> USE FirstInSet DEF At
  <2>1. CASE ActionFails(p)
    BY <2>1 DEF ActionFails, Fail
  <2>2. CASE RenameFails(p)
    BY <2>2 DEF RenameFails, Fail
  <2>3. CASE ArchiveFails(p)
    BY <2>3 DEF ArchiveFails, Fail
  <2>4. CASE CloneFails(p)
    <3>1. fs' \in [Path -> Inode \cup {NoFile}]
      BY <2>4 DEF CloneFails
    <3> QED
      BY <2>4, <3>1 DEF CloneFails, Fail
  <2>5. CASE Delete(p)
    BY <2>5 DEF Delete, Succeed
  <2>6. CASE Trash(p)
    BY <2>6 DEF Trash, Succeed
  <2>7. CASE RenameTmp(p)
    BY <2>7 DEF RenameTmp, Succeed, Renamed
  <2>8. CASE MoveToArchive(p)
    BY <2>8 DEF MoveToArchive, Succeed
  <2>9. CASE FillCopy(p)
    <3>1. fs[p] \in Inode
      BY <2>9 DEF FillCopy
    <3>2. data' \in [Inode -> Content \cup {Stub}]
      BY <2>9, <3>1 DEF FillCopy
    <3> QED BY <2>9, <3>2 DEF FillCopy, Succeed
  <2>10. CASE LinkTmp(p)
    BY <2>10 DEF LinkTmp, Continue
  <2>11. CASE CloneTmp(p)
    BY <2>11 DEF CloneTmp, Continue, Fresh
  <2>12. CASE FillClone(p)
    <3>1. fs[tmp] \in Inode /\ fs[kept] \in Inode
      <4>1. tmp \in Path /\ kept \in Path /\ fs[tmp] # NoFile /\ fs[kept] # NoFile
        BY <2>12 DEF FillClone, At
      <4> QED BY <4>1
    <3>2. data' \in [Inode -> Content \cup {Stub}]
      BY <2>12, <3>1 DEF FillClone
    <3> QED BY <2>12, <3>2 DEF FillClone, Continue
  <2>13. CASE FreshDestination(p)
    BY <2>13 DEF FreshDestination, Continue
  <2>14. CASE CreateCopy(p)
    BY <2>14 DEF CreateCopy, Continue, Fresh
  <2> QED
    BY <1>4, <2>1, <2>2, <2>3, <2>4, <2>5, <2>6, <2>7, <2>8, <2>9, <2>10, <2>11, <2>12, <2>13, <2>14 DEF Apply
<1>5. CASE Crash
  BY <1>5 DEF Crash
<1>6. CASE Environment
  BY <1>6 DEF Environment, Outside, Removed, Rewritten, Archived, Fresh
<1>7. CASE UNCHANGED vars
  BY <1>7
<1> QED BY <1>1, <1>2, <1>3, <1>8, <1>4, <1>5, <1>6, <1>7 DEF Next, Program

\* The state of the action layer is always well formed.
THEOREM TypeCorrect == Spec => []TypeOK
<1>1. Init => TypeOK
  BY DEF Init, TypeOK
<1> QED BY <1>1, TypeStep, PTL DEF Spec
-----------------------------------------------------------------------------
\* A plan never lists a path under a reference folder.
LEMMA GuardedStep == TypeOK /\ Guarded /\ [Next]_vars => Guarded'
<1> SUFFICES ASSUME TypeOK, Guarded, [Next]_vars PROVE Guarded'
  OBVIOUS
<1> USE DEF Guarded, vars, disk, planning, report
<1>1. CASE Scan \/ FinishGroup \/ FinishRun \/ Crash \/ UNCHANGED vars
  BY <1>1 DEF Scan, FinishGroup, FinishRun, Crash
<1>2. CASE PlanGroup
  BY <1>2 DEF PlanGroup, Planned
<1>3. ASSUME NEW p \in Path, Apply(p) PROVE Guarded'
  <2>1. Succeed(p) \/ Fail(p) \/ \E next : Continue(next)
    BY <1>3 DEF Apply, ActionFails, RenameFails, ArchiveFails, CloneFails,
       Delete, Trash, RenameTmp, MoveToArchive, FillCopy, LinkTmp, CloneTmp,
       FillClone, FreshDestination, CreateCopy
  <2> QED BY <2>1 DEF Succeed, Fail, Continue
<1>4. CASE Environment
  BY <1>4 DEF Environment, Outside
<1> QED BY <1>1, <1>2, <1>3, <1>4 DEF Next, Program

\* While a file is being written, no other name of the tree leads to it.
LEMMA PrivateStep == TypeOK /\ Private /\ [Next]_vars => Private'
<1> SUFFICES ASSUME TypeOK, Private, [Next]_vars PROVE Private'
  OBVIOUS
<1> USE DEF TypeOK, Private, vars, disk, planning, report
<1>1. CASE Scan \/ FinishGroup \/ FinishRun \/ Crash \/ PlanGroup
  BY <1>1 DEF Scan, FinishGroup, FinishRun, Crash, PlanGroup
<1>2. CASE UNCHANGED vars
  BY <1>2
<1>3. ASSUME NEW p \in Path, Apply(p) PROVE Private'
  <2>1. CASE Succeed(p) \/ Fail(p)
    BY <2>1 DEF Succeed, Fail
  <2>2. CASE LinkTmp(p)
    BY <2>2 DEF LinkTmp, Continue
  <2>3. CASE CloneTmp(p)
    BY <2>3 DEF CloneTmp, Continue, Fresh
  <2>4. CASE FillClone(p)
    BY <2>4 DEF FillClone, Continue
  <2>5. CASE FreshDestination(p)
    BY <2>5 DEF FreshDestination, Continue, At, First
  <2>6. CASE CreateCopy(p)
    BY <2>6 DEF CreateCopy, Continue, Fresh, At, First
  <2> QED
    BY <1>3, <2>1, <2>2, <2>3, <2>4, <2>5, <2>6 DEF Apply, ActionFails,
       RenameFails, ArchiveFails, CloneFails, Delete, Trash, RenameTmp,
       MoveToArchive, FillCopy
<1>4. CASE Environment
  <2> PICK p \in Path \ TmpName : Removed(p) \/ Rewritten(p) \/ Archived(p)
    BY <1>4 DEF Environment
  <2>1. CASE Removed(p)
    BY <1>4, <2>1 DEF Environment, Outside, Removed
  <2>2. CASE Rewritten(p)
    BY <1>4, <2>2 DEF Environment, Outside, Rewritten
  <2>3. CASE Archived(p)
    BY <1>4, <2>3 DEF Environment, Outside, Archived, Fresh
  <2> QED BY <2>1, <2>2, <2>3
<1> QED BY <1>1, <1>2, <1>3, <1>4 DEF Next, Program
-----------------------------------------------------------------------------
\* The kept path is a member of the group, whatever rule or user chose it.
LEMMA KeptInGroup ==
  ASSUME NEW g, NEW r, NEW proposed \in ChooseKeep(r, g, fs, mtime),
         NEW k \in EffectiveKeep(g, proposed)
  PROVE  k \in g
<1>1. ByModified(g, fs, mtime, TRUE) \subseteq g
  BY FirstInSet DEF ByModified
<1>2. ByModified(g, fs, mtime, FALSE) \subseteq g
  BY FirstInSet DEF ByModified
<1>3. ByDepth(g, TRUE) \subseteq g /\ ByDepth(g, FALSE) \subseteq g
  BY FirstInSet DEF ByDepth
<1>4. First(g) \subseteq g /\ ProtectedMember(g) \subseteq g
  BY FirstInSet DEF ProtectedMember
<1>5. ChooseKeep(r, g, fs, mtime) \subseteq g
  BY <1>1, <1>2, <1>3, <1>4 DEF ChooseKeep
<1> QED BY <1>4, <1>5 DEF EffectiveKeep

\* The waiting groups stay groups of existing copies.
LEMMA GroupsStep ==
  TypeOK /\ Private /\ GroupsOK /\ PlanOK /\ Next /\ env' = env => GroupsOK'
<1> SUFFICES ASSUME TypeOK, Private, GroupsOK, PlanOK, Next, env' = env
             PROVE GroupsOK'
  OBVIOUS
<1> USE DEF TypeOK, GroupsOK, vars, disk, planning, report
<1>1. CASE Scan
  <2>1. \A g \in Duplicates : \E c \in Content \cup {Stub} :
           g = {p \in Path : ContentAt(p) = c}
    BY DEF Duplicates
  <2>2. ASSUME NEW g \in Duplicates, NEW p \in g, NEW q \in g
        PROVE  fs[p] # NoFile /\ ContentAt(p) = ContentAt(q) /\ p \in Path
    BY <2>1 DEF ContentAt
  <2>3. ASSUME NEW g \in Duplicates, NEW h \in Duplicates, NEW p \in g, p \in h
        PROVE  g = h
    <3>1. PICK c \in Content \cup {Stub} : g = {q \in Path : ContentAt(q) = c}
      BY <2>1, Zenon
    <3>2. PICK d \in Content \cup {Stub} : h = {q \in Path : ContentAt(q) = d}
      BY <2>1, Zenon
    <3>3. c = d
      BY <2>3, <3>1, <3>2
    <3> QED BY <3>1, <3>2, <3>3
  <2>4. todo' = {} /\ kept' = NoFile /\ tmp' = NoFile
    BY <1>1 DEF Scan
  <2>5. groups' = Duplicates /\ UNCHANGED <<fs, data>>
    BY <1>1 DEF Scan
  <2>6. \A p : ContentAt(p)' = ContentAt(p)
    BY <2>5 DEF ContentAt
  <2> QED BY <2>2, <2>3, <2>4, <2>5, <2>6
<1>2. CASE PlanGroup
  <2> PICK g \in groups, proposed \in Path, k \in Path :
         /\ proposed \in ChooseKeep(rule, g, fs, mtime)
         /\ k \in EffectiveKeep(g, proposed)
         /\ kept' = k
         /\ todo' = Planned(fs, g, k)
         /\ groups' = groups \ {g}
    BY <1>2 DEF PlanGroup
  <2>1. k \in g /\ todo' \subseteq g
    BY KeptInGroup DEF Planned
  <2>2. tmp' = tmp /\ UNCHANGED disk
    BY <1>2 DEF PlanGroup
  <2>3. \A p : ContentAt(p)' = ContentAt(p)
    BY <2>2 DEF ContentAt
  <2>4. \A h \in groups' : h \in groups /\ \A p \in h : p \notin g
    OBVIOUS
  <2> QED BY <2>1, <2>2, <2>3, <2>4
<1>3. CASE FinishGroup
  BY <1>3 DEF FinishGroup, ContentAt
<1>4. CASE FinishRun \/ Crash
  BY <1>4 DEF FinishRun, Crash
<1>5. ASSUME NEW p \in Path, Apply(p) PROVE GroupsOK'
  <2>0. groups' = groups /\ kept' = kept /\ todo' \subseteq todo
    BY <1>5 DEF Apply, ActionFails, RenameFails, ArchiveFails, CloneFails,
       Delete, Trash, RenameTmp, MoveToArchive, FillCopy, LinkTmp, CloneTmp,
       FillClone, FreshDestination, CreateCopy, Succeed, Fail, Continue
  <2>1. p \in todo
    BY <1>5, FirstInSet DEF Apply, ActionFails, RenameFails, ArchiveFails,
       CloneFails, Delete, Trash, RenameTmp, MoveToArchive, FillCopy, LinkTmp,
       CloneTmp, FillClone, FreshDestination, CreateCopy, At
  <2>2. \A g \in groups : \A q \in g :
           q \in Path /\ q # p /\ q # tmp /\ fs[q] \in Inode
    <3> SUFFICES ASSUME NEW g \in groups, NEW q \in g
                 PROVE  q \in Path /\ q # p /\ q # tmp /\ fs[q] \in Inode
      OBVIOUS
    <3>1. q \in Path /\ q \notin todo /\ q # tmp
      OBVIOUS
    <3>2. fs[q] # NoFile
      OBVIOUS
    <3>3. fs[q] \in Inode \cup {NoFile}
      BY <3>1
    <3>4. q # p
      BY <2>1, <3>1
    <3> QED BY <3>1, <3>2, <3>3, <3>4
  <2>3. ASSUME NEW g \in groups, NEW q \in g
        PROVE  fs'[q] = fs[q] /\ data'[fs[q]] = data[fs[q]] /\ q # tmp'
    <3>0. q \in Path /\ q # p /\ q # tmp /\ fs[q] \in Inode
      BY <2>2
    <3> USE <3>0
    <3>1. CASE ActionFails(p) \/ RenameFails(p) \/ ArchiveFails(p)
      BY <3>1 DEF ActionFails, RenameFails, ArchiveFails, Fail
    <3>2. CASE CloneFails(p)
      BY <3>2 DEF CloneFails, Fail
    <3>3. CASE Delete(p) \/ Trash(p) \/ MoveToArchive(p)
      BY <3>3 DEF Delete, Trash, MoveToArchive, Succeed
    <3>4. CASE RenameTmp(p)
      BY <3>4 DEF RenameTmp, Renamed, Succeed
    <3>5. CASE FillCopy(p)
      BY <3>5 DEF FillCopy, Succeed, Private, At
    <3>6. CASE LinkTmp(p)
      BY <3>6 DEF LinkTmp
    <3>7. CASE CloneTmp(p)
      BY <3>7 DEF CloneTmp, Fresh
    <3>8. CASE FillClone(p)
      BY <3>8 DEF FillClone, Private, At
    <3>9. CASE FreshDestination(p)
      BY <3>9 DEF FreshDestination
    <3>10. CASE CreateCopy(p)
      BY <3>10 DEF CreateCopy, Fresh, Private, At
    <3> QED
      BY <1>5, <3>1, <3>2, <3>3, <3>4, <3>5, <3>6, <3>7, <3>8, <3>9, <3>10
         DEF Apply
  <2>4. \A g \in groups : \A q \in g :
           fs'[q] # NoFile /\ ContentAt(q)' = ContentAt(q)
    BY <2>2, <2>3 DEF ContentAt
  <2>5. \A g \in groups : \A q \in g : q \notin todo' /\ q # kept' /\ q # tmp'
    BY <2>0, <2>3
  <2> QED BY <2>0, <2>4, <2>5
<1>6. CASE Environment
  BY <1>6 DEF Environment, Outside
<1> QED BY <1>1, <1>2, <1>3, <1>4, <1>5, <1>6 DEF Next, Program

\* The plan stays a plan over existing copies of the kept file.
LEMMA PlanStep ==
  TypeOK /\ Private /\ GroupsOK /\ PlanOK /\ Next /\ env' = env => PlanOK'
<1> SUFFICES ASSUME TypeOK, Private, GroupsOK, PlanOK, Next, env' = env
             PROVE PlanOK'
  OBVIOUS
<1> USE DEF TypeOK, PlanOK, Acting, vars, disk, planning, report
<1>1. CASE Scan \/ FinishGroup \/ FinishRun \/ Crash
  BY <1>1 DEF Scan, FinishGroup, FinishRun, Crash
<1>2. CASE PlanGroup
  <2> PICK g \in groups, proposed \in Path, k \in Path :
         /\ proposed \in ChooseKeep(rule, g, fs, mtime)
         /\ k \in EffectiveKeep(g, proposed)
         /\ kept' = k
         /\ todo' = Planned(fs, g, k)
         /\ groups' = groups \ {g}
    BY <1>2 DEF PlanGroup
  <2>1. k \in g /\ todo' \subseteq g
    BY KeptInGroup DEF Planned
  <2>2. pc' = "apply" /\ tmp' = NoFile /\ UNCHANGED disk
    BY <1>2 DEF PlanGroup
  <2>3. \A p : ContentAt(p)' = ContentAt(p)
    BY <2>2 DEF ContentAt
  <2>4. \A p \in g : fs[p] # NoFile /\ ContentAt(p) = ContentAt(k)
    BY <2>1 DEF GroupsOK
  <2> QED BY <2>1, <2>2, <2>3, <2>4
<1>3. ASSUME NEW p \in Path, Apply(p) PROVE PlanOK'
  <2>0. kept' = kept /\ todo' \subseteq todo /\ Acting /\ p \in todo
    BY <1>3, FirstInSet DEF Apply, ActionFails, RenameFails, ArchiveFails,
       CloneFails, Delete, Trash, RenameTmp, MoveToArchive, FillCopy, LinkTmp,
       CloneTmp, FillClone, FreshDestination, CreateCopy, Succeed, Fail,
       Continue, At
  <2>1. \A q \in todo \cup {kept} :
           /\ q \in Path /\ q # tmp /\ fs[q] \in Inode
           /\ ContentAt(q) = ContentAt(kept) /\ data[fs[q]] = data[fs[kept]]
    BY <2>0 DEF ContentAt
  <2>2. kept # p
    BY <2>0
  \* Everything the plan still needs is as it was.
  <2> DEFINE Same(q) == fs'[q] = fs[q] /\ data'[fs[q]] = data[fs[q]]
  <2>3. CASE Succeed(p) \/ Fail(p)
    <3>1. todo' = todo \ {p} /\ tmp' = NoFile /\ pc' = "apply"
      BY <2>3 DEF Succeed, Fail
    <3>2. ASSUME NEW q \in (todo \ {p}) \cup {kept} PROVE Same(q)
      <4>0. q # p /\ q \in Path /\ q # tmp /\ fs[q] \in Inode
        BY <2>1, <2>2
      <4> USE <4>0
      <4>1. CASE ActionFails(p) \/ RenameFails(p) \/ ArchiveFails(p)
        BY <4>1 DEF ActionFails, RenameFails, ArchiveFails
      <4>2. CASE CloneFails(p)
        <5>1. fs' \in {fs, [fs EXCEPT ![tmp] = NoFile]} /\ data' = data
          BY <4>2 DEF CloneFails
        <5>2. q # tmp
          BY <2>1
        <5> QED
          BY <2>1, <5>1, <5>2
      <4>3. CASE Delete(p) \/ Trash(p) \/ MoveToArchive(p)
        BY <4>3 DEF Delete, Trash, MoveToArchive
      <4>4. CASE RenameTmp(p)
        BY <4>4 DEF RenameTmp, Renamed
      <4>5. CASE FillCopy(p)
        BY <4>5 DEF FillCopy, Private, At
      <4>6. ~(\E next : Continue(next))
        BY <2>0, <3>1 DEF Continue
      <4> QED
        BY <1>3, <4>1, <4>2, <4>3, <4>4, <4>5, <4>6 DEF Apply, LinkTmp,
           CloneTmp, FillClone, FreshDestination, CreateCopy
    <3>3. ASSUME NEW q \in todo' \cup {kept}
          PROVE  fs'[q] # NoFile /\ ContentAt(q)' = ContentAt(kept)'
      <4>1. fs'[q] = fs[q] /\ data'[fs[q]] = data[fs[q]]
        BY <3>1, <3>2
      <4>2. fs'[kept] = fs[kept] /\ data'[fs[kept]] = data[fs[kept]]
        BY <3>2
      <4>3. fs[q] \in Inode /\ fs[kept] \in Inode /\ data[fs[q]] = data[fs[kept]]
        BY <2>1, <3>1
      <4> QED BY <2>0, <4>1, <4>2, <4>3 DEF ContentAt
    <3> QED BY <2>0, <3>1, <3>3
  <2>4. CASE LinkTmp(p)
    <3>1. PICK t \in TmpName : /\ fs[t] = NoFile /\ tmp' = t
                               /\ fs' = [fs EXCEPT ![t] = fs[kept]]
      BY <2>4 DEF LinkTmp
    <3>2. pc' = "rename" /\ todo' = todo /\ data' = data
      BY <2>4 DEF LinkTmp, Continue
    <3>3. t \in Path /\ t \notin todo \cup {kept} /\ fs'[t] = fs[kept]
      BY <2>1, <3>1
    <3>4. \A q \in todo \cup {kept} : fs'[q] = fs[q]
      BY <2>1, <3>1, <3>3
    <3> QED BY <2>0, <2>1, <3>1, <3>2, <3>3, <3>4 DEF ContentAt
  <2>5. CASE CloneTmp(p)
    <3>1. PICK t \in TmpName, i \in Fresh :
             /\ fs[t] = NoFile /\ tmp' = t
             /\ fs' = [fs EXCEPT ![t] = i]
             /\ data' = [data EXCEPT ![i] = Stub]
      BY <2>5 DEF CloneTmp
    <3>2. pc' = "cloning" /\ todo' = todo
      BY <2>5 DEF CloneTmp, Continue
    <3>3. t \in Path /\ t \notin todo \cup {kept} /\ i \in Inode
          /\ fs'[t] = i /\ data'[i] = Stub
      BY <2>1, <3>1 DEF Fresh
    <3>4. \A q \in todo \cup {kept} : Same(q)
      BY <2>1, <3>1, <3>3 DEF Fresh
    <3> QED BY <2>0, <2>1, <3>1, <3>2, <3>3, <3>4 DEF ContentAt
  <2>6. CASE FillClone(p)
    <3>1. pc = "cloning" /\ pc' = "rename" /\ todo' = todo /\ tmp' = tmp
          /\ fs' = fs /\ fs[tmp] # NoFile
          /\ data' = [data EXCEPT ![fs[tmp]] = data[fs[kept]]]
      BY <2>6 DEF FillClone, Continue, At
    <3>2. tmp \in Path /\ fs[tmp] \in Inode
      BY <3>1
    <3>3. \A q \in todo \cup {kept} : Same(q)
      BY <2>1, <3>1, <3>2 DEF Private
    <3>4. data'[fs[tmp]] = data[fs[kept]]
      BY <3>1, <3>2
    <3> QED BY <2>0, <2>1, <3>1, <3>2, <3>3, <3>4 DEF ContentAt
  <2>7. CASE FreshDestination(p)
    BY <2>7, <2>0 DEF FreshDestination, Continue, ContentAt, At
  <2>8. CASE CreateCopy(p)
    <3>1. pc = "copying" /\ pc' = "filling" /\ todo' = todo /\ tmp' = tmp
          /\ fs' = fs /\ p \in First(todo)
      BY <2>8 DEF CreateCopy, Continue, At
    <3>2. PICK i \in IF archive[p] = NoFile THEN Fresh ELSE {archive[p]} :
             data' = [data EXCEPT ![i] = Stub]
      BY <2>8 DEF CreateCopy
    <3>3. \A q \in todo \cup {kept} : Same(q)
      BY <2>1, <3>1, <3>2 DEF Private, Fresh
    <3> QED BY <2>0, <2>1, <3>1, <3>3 DEF ContentAt
  <2> QED
    BY <1>3, <2>3, <2>4, <2>5, <2>6, <2>7, <2>8 DEF Apply, ActionFails,
       RenameFails, ArchiveFails, CloneFails, Delete, Trash, RenameTmp,
       MoveToArchive, FillCopy
<1>4. CASE Environment
  BY <1>4 DEF Environment, Outside
<1> QED BY <1>1, <1>2, <1>3, <1>4 DEF Next, Program

\* The inductive invariant: whatever other programs do, Safe holds; as long as
\* they do nothing, groups and plan are what the last scan made them.
LEMMA InvStep == IInv /\ [Next]_vars => IInv'
<1> SUFFICES ASSUME IInv, [Next]_vars PROVE IInv'
  OBVIOUS
<1>1. Safe'
  BY TypeStep, GuardedStep, PrivateStep DEF IInv, Safe
<1>2. ASSUME Undisturbed' PROVE (GroupsOK /\ PlanOK)'
  <2>1. env \in 0..EnvSteps
    BY DEF IInv, Safe, TypeOK
  <2>2. env' = env
    <3>1. ~Environment
      BY <1>2, <2>1 DEF Environment, Outside, Undisturbed
    <3>2. ASSUME NEW p \in Path, Apply(p) PROVE env' = env
      BY <3>2 DEF Apply, ActionFails, RenameFails, ArchiveFails, CloneFails,
         Delete, Trash, RenameTmp, MoveToArchive, FillCopy, LinkTmp, CloneTmp,
         FillClone, FreshDestination, CreateCopy, Succeed, Fail, Continue
    <3> QED BY <3>1, <3>2 DEF Next, Program, Scan, PlanGroup, FinishGroup,
               FinishRun, Crash, vars
  <2>3. GroupsOK /\ PlanOK
    BY <1>2, <2>2 DEF IInv, Undisturbed
  <2>4. CASE Next
    BY <2>2, <2>3, <2>4, GroupsStep, PlanStep DEF IInv, Safe
  <2>5. CASE UNCHANGED vars
    BY <2>3, <2>5 DEF GroupsOK, PlanOK, Acting, ContentAt, vars, disk,
       planning, report
  <2> QED BY <2>4, <2>5
<1> QED BY <1>1, <1>2 DEF IInv

THEOREM Invariant == Spec => []IInv
<1>1. Init => IInv
  <2> SUFFICES ASSUME Init PROVE IInv
    OBVIOUS
  <2>1. TypeOK
    BY DEF Init, TypeOK
  <2>2. Guarded /\ Private /\ GroupsOK /\ PlanOK
    BY DEF Init, Guarded, Private, GroupsOK, PlanOK, Acting
  <2> QED BY <2>1, <2>2 DEF IInv, Safe
<1> QED BY <1>1, InvStep, PTL DEF Spec
-----------------------------------------------------------------------------
\* Whatever other programs do between any two steps, the program itself never
\* removes, replaces or rewrites a file under a reference folder.
THEOREM ReferenceSafe == Spec => ReferenceUntouched
<1>1. Safe /\ [Next]_vars => [ReferenceStep]_vars
  <2> SUFFICES ASSUME Safe, [Next]_vars, env' = env
               PROVE  \A q \in Protected :
                         /\ fs'[q] = fs[q]
                         /\ fs[q] # NoFile => data'[fs[q]] = data[fs[q]]
    BY DEF ReferenceStep
  <2> USE DEF Safe, vars, disk, TypeOK
  <2>1. CASE Scan \/ PlanGroup \/ FinishGroup \/ FinishRun \/ Crash \/ UNCHANGED vars
    BY <2>1 DEF Scan, PlanGroup, FinishGroup, FinishRun, Crash
  <2>2. ASSUME NEW p \in Path, Apply(p), NEW q \in Protected
        PROVE  fs'[q] = fs[q] /\ (fs[q] # NoFile => data'[fs[q]] = data[fs[q]])
    <3>1. q \in Path /\ q # tmp /\ q \notin TmpName
      OBVIOUS
    <3>2. p # q
      BY <2>2, FirstInSet DEF Guarded, Apply, ActionFails, RenameFails,
         ArchiveFails, CloneFails, Delete, Trash, RenameTmp, MoveToArchive,
         FillCopy, LinkTmp, CloneTmp, FillClone, FreshDestination, CreateCopy, At
    <3> USE <3>1, <3>2
    <3>3. CASE ActionFails(p) \/ RenameFails(p) \/ ArchiveFails(p)
      BY <3>3 DEF ActionFails, RenameFails, ArchiveFails
    <3>4. CASE CloneFails(p)
      BY <3>4 DEF CloneFails
    <3>5. CASE Delete(p) \/ Trash(p) \/ MoveToArchive(p)
      BY <3>5 DEF Delete, Trash, MoveToArchive
    <3>6. CASE RenameTmp(p)
      BY <3>6 DEF RenameTmp, Renamed
    <3>7. CASE FillCopy(p)
      BY <3>7 DEF FillCopy, Private, At
    <3>8. CASE LinkTmp(p)
      BY <3>8 DEF LinkTmp
    <3>9. CASE CloneTmp(p)
      BY <3>9 DEF CloneTmp, Fresh
    <3>10. CASE FillClone(p)
      BY <3>10 DEF FillClone, Private, At
    <3>11. CASE FreshDestination(p)
      BY <3>11 DEF FreshDestination
    <3>12. CASE CreateCopy(p)
      BY <3>12 DEF CreateCopy, Fresh, Private, At
    <3> QED
      BY <2>2, <3>3, <3>4, <3>5, <3>6, <3>7, <3>8, <3>9, <3>10, <3>11, <3>12
         DEF Apply
  <2>3. CASE Environment
    BY <2>3 DEF Environment, Outside
  <2> QED BY <2>1, <2>2, <2>3 DEF Next, Program
<1>2. IInv => Safe
  BY DEF IInv
<1> QED BY <1>1, <1>2, Invariant, PTL DEF Spec, ReferenceUntouched
-----------------------------------------------------------------------------
\* When no other program touches the tree, every run, every sequence of runs
\* and every crash keep the contract: a copy goes away only while another path
\* holds its content.
THEOREM ContractKept == ASSUME EnvSteps = 0 PROVE Spec => KeepsContract
<1> USE DEF Contract!Spec
<1> DEFINE Tree == [p \in Path |-> ContentAt(p)]
<1>1. Init => Contract!Init
  <2> SUFFICES ASSUME Init PROVE Contract!Init
    OBVIOUS
  <2>1. fs \in [Path -> Inode \cup {NoFile}] /\ data \in [Inode -> Content \cup {Stub}]
    BY DEF Init
  <2>2. \A p \in Path : ContentAt(p) \in Content \cup {Stub, NoFile}
    BY <2>1 DEF ContentAt
  <2>3. \A t \in TmpName : t \in Path /\ ContentAt(t) = NoFile
    BY DEF Init, ContentAt
  <2> QED BY <2>2, <2>3 DEF Contract!Init, Contract!Valid
<1>2. IInv /\ [Next]_vars => [Contract!Next]_Tree
  <2> SUFFICES ASSUME IInv, [Next]_vars, Tree' # Tree PROVE Contract!Next
    OBVIOUS
  <2>1. TypeOK /\ Guarded /\ Private /\ GroupsOK /\ PlanOK
    BY DEF IInv, Safe, TypeOK, Undisturbed
  <2> USE <2>1 DEF TypeOK, vars, disk, planning, report
  <2>2. ASSUME UNCHANGED <<fs, data>> PROVE FALSE
    BY <2>2 DEF ContentAt
  <2>3. PICK p \in Path : Apply(p)
    <3>1. env = 0 /\ ~Environment
      BY DEF Environment, Outside
    <3> QED BY <2>2, <3>1 DEF Next, Program, Scan, PlanGroup, FinishGroup,
               FinishRun, Crash
  <2>4. /\ p \in todo /\ kept \in Path /\ kept # p /\ p \notin Protected
        /\ fs[p] \in Inode /\ fs[kept] \in Inode
        /\ Tree[p] = Tree[kept] /\ Tree[p] # NoFile
    <3>1. p \in todo /\ Acting
      BY <2>3, FirstInSet DEF Acting, Apply, ActionFails, RenameFails,
         ArchiveFails, CloneFails, Delete, Trash, RenameTmp, MoveToArchive,
         FillCopy, LinkTmp, CloneTmp, FillClone, FreshDestination, CreateCopy, At
    <3> QED BY <3>1 DEF PlanOK, Guarded, ContentAt
  <2>5. CASE Delete(p) \/ Trash(p) \/ MoveToArchive(p)
    <3>1. fs' = [fs EXCEPT ![p] = NoFile] /\ data' = data
      BY <2>5 DEF Delete, Trash, MoveToArchive
    <3>2. Tree' = [Tree EXCEPT ![p] = NoFile]
      BY <3>1 DEF ContentAt
    <3>3. Contract!Drop(p)
      BY <2>4, <3>2 DEF Contract!Drop
    <3> QED BY <3>3 DEF Contract!Next
  <2>6. CASE RenameTmp(p)
    <3>1. /\ tmp \in TmpName /\ tmp \in Path /\ tmp # p /\ tmp # kept
          /\ fs[tmp] \in Inode /\ data[fs[tmp]] = data[fs[p]]
      BY <2>4, <2>6 DEF RenameTmp, At, PlanOK, ContentAt
    <3>2. data' = data /\ fs' = Renamed(tmp, p)
      BY <2>6 DEF RenameTmp
    <3>3. fs' = [fs EXCEPT ![p] = fs[tmp], ![tmp] = NoFile]
      BY <2>2, <3>2 DEF Renamed
    <3>4. fs'[p] = fs[tmp] /\ fs'[tmp] = NoFile
          /\ \A q \in Path : q # p /\ q # tmp => fs'[q] = fs[q]
      BY <2>4, <3>1, <3>3
    <3>5. Tree' = [Tree EXCEPT ![tmp] = NoFile]
      <4>1. \A q \in Path : q = tmp => ContentAt(q)' = NoFile
        BY <3>4 DEF ContentAt
      <4>2. ContentAt(p)' = ContentAt(p)
        BY <2>4, <3>1, <3>2, <3>4 DEF ContentAt
      <4>3. \A q \in Path : q # p /\ q # tmp => ContentAt(q)' = ContentAt(q)
        BY <3>2, <3>4 DEF ContentAt
      <4> QED BY <4>1, <4>2, <4>3
    <3>6. Tree[tmp] = Tree[p]
      BY <2>4, <3>1 DEF ContentAt
    <3>7. Contract!Drop(tmp)
      BY <2>4, <3>1, <3>5, <3>6 DEF Contract!Drop
    <3> QED BY <3>1, <3>7 DEF Contract!Next
  <2>7. CASE LinkTmp(p)
    <3>1. PICK t \in TmpName : /\ fs[t] = NoFile
                               /\ fs' = [fs EXCEPT ![t] = fs[kept]]
      BY <2>7 DEF LinkTmp
    <3>2. data' = data
      BY <2>7 DEF LinkTmp
    <3>3. Tree' = [Tree EXCEPT ![t] = Tree[kept]] /\ Tree[t] = NoFile
      <4>1. t \in Path /\ kept \in Path /\ fs' \in [Path -> Inode \cup {NoFile}]
        BY <2>4, <3>1
      <4>2. ContentAt(t)' = ContentAt(kept) /\ ContentAt(t) = NoFile
        BY <3>1, <3>2, <4>1 DEF ContentAt
      <4>3. \A q \in Path \ {t} : ContentAt(q)' = ContentAt(q)
        BY <3>1, <3>2, <4>1 DEF ContentAt
      <4> QED BY ONLY <4>1, <4>2, <4>3
    <3>4. Tree[kept] \in {Tree[q] : q \in Path} /\ Tree[kept] # NoFile
      BY <2>4
    <3>5. Contract!Stage(t)
      BY <3>3, <3>4 DEF Contract!Stage
    <3> QED BY <3>5 DEF Contract!Next
  <2>8. CASE CloneTmp(p)
    <3>1. PICK t \in TmpName, i \in Fresh :
             /\ fs[t] = NoFile
             /\ fs' = [fs EXCEPT ![t] = i]
             /\ data' = [data EXCEPT ![i] = Stub]
      BY <2>8 DEF CloneTmp
    <3>2. i \in Inode /\ t \in Path /\ \A q \in Path : fs[q] # i
      BY <3>1 DEF Fresh
    <3>3. \A q \in Path : fs[q] # NoFile /\ q # t =>
             fs'[q] = fs[q] /\ data'[fs[q]] = data[fs[q]]
      BY <3>1, <3>2
    <3>4. fs'[t] = i /\ data'[i] = Stub /\ i # NoFile
      BY <3>1, <3>2
    <3>5. \A q \in Path : q # t => ContentAt(q)' = ContentAt(q)
      BY <3>1, <3>2, <3>3 DEF ContentAt
    <3>6. ContentAt(t)' = Stub /\ Tree[t] = NoFile
      BY <3>1, <3>2, <3>4 DEF ContentAt
    <3>7. Tree' = [Tree EXCEPT ![t] = Stub]
      BY <3>5, <3>6
    <3>8. Contract!Stage(t)
      BY <3>6, <3>7 DEF Contract!Stage
    <3> QED BY <3>8 DEF Contract!Next
  <2>9. CASE FillClone(p)
    <3>1. /\ tmp \in TmpName /\ tmp \in Path /\ fs[tmp] \in Inode
          /\ \A q \in Path : q # tmp => fs[q] # fs[tmp]
      BY <2>9 DEF FillClone, At, Private
    <3>2. fs' = fs /\ data' = [data EXCEPT ![fs[tmp]] = data[fs[kept]]]
      BY <2>9 DEF FillClone
    <3>3. Tree' = [Tree EXCEPT ![tmp] = Tree[kept]]
      <4>1. kept \in Path /\ fs[kept] \in Inode /\ fs \in [Path -> Inode \cup {NoFile}]
        BY <2>4, <2>9 DEF FillClone
      <4>2. data \in [Inode -> Content \cup {Stub}]
        BY ONLY <2>1 DEF TypeOK
      <4>3. data'[fs[tmp]] = data[fs[kept]] /\ \A i \in Inode \ {fs[tmp]} : data'[i] = data[i]
        BY ONLY <3>1, <3>2, <4>2
      <4>4. fs[tmp] # NoFile /\ fs[kept] # NoFile
        BY ONLY <3>1, <4>1, NoFileAssumption
      <4>5. ASSUME NEW q \in Path, q = tmp PROVE ContentAt(q)' = ContentAt(kept)
        BY ONLY <3>2, <4>3, <4>4, <4>5 DEF ContentAt
      <4>6. \A q \in Path \ {tmp} : ContentAt(q)' = ContentAt(q)
        <5> SUFFICES ASSUME NEW q \in Path \ {tmp} PROVE ContentAt(q)' = ContentAt(q)
          OBVIOUS
        <5>1. fs'[q] = fs[q] /\ fs[q] # fs[tmp] /\ fs[q] \in Inode \cup {NoFile}
          BY ONLY <3>1, <3>2, <4>1
        <5> QED BY ONLY <4>3, <5>1 DEF ContentAt
      <4> QED BY ONLY <3>1, <4>1, <4>5, <4>6
    <3>4. Tree[tmp] = Stub
      BY <2>9, <3>1 DEF FillClone, At, PlanOK
    <3>5. Tree[kept] \in {Tree[q] : q \in Path}
      BY <2>4
    <3>6. Contract!Settle(tmp)
      BY <3>3, <3>4, <3>5 DEF Contract!Settle
    <3> QED BY <3>1, <3>6 DEF Contract!Next
  <2>10. CASE CloneFails(p)
    <3>1. tmp \in TmpName /\ tmp \in Path
      BY <2>10 DEF CloneFails, At
    <3>2. Tree' = [Tree EXCEPT ![tmp] = NoFile]
      BY <2>10, <3>1 DEF CloneFails, ContentAt
    <3>3. Tree[tmp] = Stub
      BY <2>10, <3>1 DEF CloneFails, At, PlanOK
    <3>4. Contract!Settle(tmp)
      BY <3>2, <3>3 DEF Contract!Settle
    <3> QED BY <3>1, <3>4 DEF Contract!Next
  <2>11. CASE CreateCopy(p)
    <3>1. PICK i \in Inode : /\ \A q \in Path : fs[q] # i
                             /\ data' = [data EXCEPT ![i] = Stub]
      BY <2>4, <2>11 DEF CreateCopy, Fresh, Private, At
    <3>2. Tree' = Tree
      BY <2>11, <3>1 DEF CreateCopy, ContentAt
    <3> QED BY <3>2
  <2>12. CASE FillCopy(p)
    <3>1. archive[p] = NoFile \/ \A q \in Path : fs[q] # archive[p]
      BY <2>4, <2>12 DEF FillCopy, Private, At
    <3>2. fs' = fs /\ data' = [data EXCEPT ![archive[p]] = data[fs[p]]]
      BY <2>12 DEF FillCopy
    <3>3. ASSUME NEW q \in Path, fs[q] # NoFile PROVE data'[fs[q]] = data[fs[q]]
      BY <3>1, <3>2, <3>3
    <3>4. Tree' = Tree
      BY <3>2, <3>3 DEF ContentAt
    <3> QED BY <3>4
  <2>13. CASE \/ ActionFails(p) \/ RenameFails(p) \/ ArchiveFails(p)
              \/ FreshDestination(p)
    BY <2>2, <2>13 DEF ActionFails, RenameFails, ArchiveFails, FreshDestination
  <2> QED
    BY <2>3, <2>5, <2>6, <2>7, <2>8, <2>9, <2>10, <2>11, <2>12, <2>13 DEF Apply
<1> QED BY <1>1, <1>2, Invariant, PTL DEF Spec, KeepsContract
-----------------------------------------------------------------------------
(* What holds under interference as well: the invariants behind the kept    *)
(* file, the paths that are never missing and the absence of litter.        *)

\* The kept path, the paths to act on, the temporary sibling and the waiting
\* groups have nothing in common, and those of them that are temporary names,
\* which other programs leave alone, have a file.
Apart ==
    /\ tmp # NoFile => tmp \notin todo \cup {kept}
    /\ \A g \in groups : \A p \in g : p \notin todo /\ p # kept /\ p # tmp
    /\ \A g, h \in groups : \A p \in g : p \in h => g = h
    /\ \A t \in TmpName :
          t \in todo \cup {kept, tmp} \cup UNION groups => fs[t] # NoFile

\* No path to act on leads to the file it will be replaced by.
Distinct ==
    /\ Acting /\ fs[kept] # NoFile => \A q \in todo : fs[q] # fs[kept]
    /\ pc = "rename" => \A q \in todo : fs[q] # fs[tmp]

\* As long as nothing has failed, the temporary sibling in use is the only one.
Tidy == clean => \A t \in TmpName \ {tmp} : fs[t] = NoFile

\* Half-written files have temporary names only, and no file without one is
\* replaced by a half-written file.
Whole ==
    /\ \A p \in Path \ TmpName : ContentAt(p) # Stub
    /\ \A g \in groups : g \subseteq TmpName \/ \A p \in g : ContentAt(p) # Stub
    /\ Acting => todo \subseteq TmpName \/ ContentAt(kept) # Stub
    /\ pc = "rename" => todo \subseteq TmpName \/ ContentAt(tmp) # Stub

\* The action in progress is one of the kind the user asked for.
KindOK ==
    /\ pc # "idle" => kind \in Kinds
    /\ pc = "cloning" => kind = "reflink"
    /\ pc = "rename" => kind \in {"hardlink", "reflink"}
    /\ pc = "moving" => kind = "move"
    /\ pc \in {"copying", "filling"} => kind = "copy"

Robust == Safe /\ Apart /\ Distinct /\ Tidy /\ Whole /\ KindOK

\* Every action of a plan acts on its first path and leaves the rest of the plan,
\* the groups and the bounds alone.
LEMMA ApplyFrame ==
  ASSUME TypeOK, NEW p \in Path, Apply(p)
  PROVE  /\ p \in todo /\ p \in First(todo) /\ Acting /\ kept \in Path /\ p # kept
         /\ UNCHANGED <<kind, rule, groups, kept, runs, env>>
         /\ todo' \in {todo, todo \ {p}}
<1> USE DEF Apply, ActionFails, RenameFails, ArchiveFails, CloneFails, Delete,
    Trash, RenameTmp, MoveToArchive, FillCopy, LinkTmp, CloneTmp, FillClone,
    FreshDestination, CreateCopy, Succeed, Fail, Continue, At
<1>1. p \in First(todo) /\ pc \notin {"idle", "scanned"}
  OBVIOUS
<1>2. p \in todo /\ kept \in Path /\ p # kept
  BY <1>1, FirstInSet DEF TypeOK
<1>3. UNCHANGED <<kind, rule, groups, kept, runs, env>> /\ todo' \in {todo, todo \ {p}}
  BY DEF planning, report
<1> QED BY <1>1, <1>2, <1>3 DEF Acting

\* A temporary sibling is chosen among the names that are free.
LEMMA TmpFrame ==
  ASSUME TypeOK, NEW p \in Path, Apply(p)
  PROVE  \/ tmp' = NoFile
         \/ tmp' = tmp /\ fs'[tmp] = fs[tmp]
         \/ tmp = NoFile /\ tmp' \in TmpName /\ fs[tmp'] = NoFile /\ fs'[tmp'] # NoFile
<1> USE DEF TypeOK, disk, planning, report, At
<1>1. CASE Succeed(p) \/ Fail(p)
  BY <1>1 DEF Succeed, Fail
<1>2. CASE LinkTmp(p)
  <2>1. tmp = NoFile /\ fs[kept] # NoFile
    BY <1>2 DEF LinkTmp
  <2> QED BY <1>2, <2>1 DEF LinkTmp
<1>3. CASE CloneTmp(p)
  <2>1. tmp = NoFile
    BY <1>3 DEF CloneTmp
  <2> QED BY <1>3, <2>1 DEF CloneTmp, Fresh
<1>4. CASE FillClone(p) \/ FreshDestination(p) \/ CreateCopy(p)
  BY <1>4 DEF FillClone, FreshDestination, CreateCopy
<1> QED
  BY <1>1, <1>2, <1>3, <1>4 DEF Apply, ActionFails, RenameFails, ArchiveFails,
     CloneFails, Delete, Trash, RenameTmp, MoveToArchive, FillCopy

\* Every action of a plan writes its own path and temporary siblings, and no
\* other name of the tree, nor the files they lead to.
LEMMA ApplyWrites ==
  ASSUME TypeOK, Private, NEW p \in Path, Apply(p),
         NEW q \in Path, q # p \/ p \in todo', q # tmp, q # tmp'
  PROVE  /\ fs'[q] = fs[q] /\ (fs[q] # NoFile => data'[fs[q]] = data[fs[q]])
         /\ ContentAt(q)' = ContentAt(q)
<1> SUFFICES fs'[q] = fs[q] /\ (fs[q] # NoFile => data'[fs[q]] = data[fs[q]])
  BY DEF ContentAt
<1> USE DEF TypeOK, disk
<1>1. CASE ActionFails(p) \/ RenameFails(p) \/ ArchiveFails(p)
  BY <1>1 DEF ActionFails, RenameFails, ArchiveFails
<1>2. CASE CloneFails(p)
  BY <1>2 DEF CloneFails
<1>3. CASE Delete(p) \/ Trash(p) \/ MoveToArchive(p)
  BY <1>3 DEF Delete, Trash, MoveToArchive, Succeed
<1>4. CASE RenameTmp(p)
  BY <1>4 DEF RenameTmp, Renamed, Succeed
<1>5. CASE FillCopy(p)
  BY <1>5 DEF FillCopy, Private, At
<1>6. CASE LinkTmp(p)
  BY <1>6 DEF LinkTmp
<1>7. CASE CloneTmp(p)
  BY <1>7 DEF CloneTmp, Fresh
<1>8. CASE FillClone(p)
  BY <1>8 DEF FillClone, Private, At
<1>9. CASE FreshDestination(p)
  BY <1>9 DEF FreshDestination
<1>10. CASE CreateCopy(p)
  BY <1>10 DEF CreateCopy, Fresh, Private, At
<1> QED
  BY <1>1, <1>2, <1>3, <1>4, <1>5, <1>6, <1>7, <1>8, <1>9, <1>10 DEF Apply

\* What other programs do to a name of the tree: they remove its file, unless the
\* name is a temporary one, or write a whole content.
LEMMA EnvWrites ==
  ASSUME TypeOK, Environment, NEW q \in Path
  PROVE  /\ fs'[q] = fs[q] \/ (fs'[q] = NoFile /\ q \notin TmpName)
         /\ ContentAt(q)' \in {ContentAt(q), NoFile} \cup Content
<1> PICK p \in Path \ TmpName : Removed(p) \/ Rewritten(p) \/ Archived(p)
  BY DEF Environment
<1> USE DEF TypeOK, ContentAt
<1>1. CASE Removed(p)
  BY <1>1 DEF Removed
<1>2. CASE Rewritten(p)
  BY <1>2 DEF Rewritten
<1>3. CASE Archived(p)
  BY <1>3 DEF Archived, Fresh
<1> QED BY <1>1, <1>2, <1>3

\* The groups of a scan are disjoint sets of existing files of one content.
LEMMA DuplicatesOK ==
  /\ \A g \in Duplicates : \A p, q \in g :
        p \in Path /\ fs[p] # NoFile /\ ContentAt(p) = ContentAt(q)
  /\ \A g, h \in Duplicates : \A p \in g : p \in h => g = h
<1>1. \A g \in Duplicates : \E c \in Content \cup {Stub} :
         g = {p \in Path : ContentAt(p) = c}
  BY DEF Duplicates
<1>2. ASSUME NEW g \in Duplicates, NEW p \in g, NEW q \in g
      PROVE  p \in Path /\ fs[p] # NoFile /\ ContentAt(p) = ContentAt(q)
  BY <1>1 DEF ContentAt
<1>3. ASSUME NEW g \in Duplicates, NEW h \in Duplicates, NEW p \in g, p \in h
      PROVE  g = h
  <2>1. PICK c \in Content \cup {Stub} : g = {q \in Path : ContentAt(q) = c}
    BY <1>1, Zenon
  <2>2. PICK d \in Content \cup {Stub} : h = {q \in Path : ContentAt(q) = d}
    BY <1>1, Zenon
  <2>3. c = d
    BY <1>3, <2>1, <2>2
  <2> QED BY <2>1, <2>2, <2>3
<1> QED BY <1>2, <1>3

\* A plan is made of one waiting group.
LEMMA PlanFrame ==
  ASSUME TypeOK, PlanGroup
  PROVE  /\ UNCHANGED disk /\ tmp = NoFile /\ tmp' = NoFile /\ clean' = clean
         /\ kept' \in Path /\ pc' = "apply"
         /\ \E g \in groups : /\ kept' \in g /\ todo' = Planned(fs, g, kept')
                              /\ groups' = groups \ {g}
<1>1. PICK g \in groups, proposed \in Path, k \in Path :
         /\ proposed \in ChooseKeep(rule, g, fs, mtime)
         /\ k \in EffectiveKeep(g, proposed)
         /\ kept' = k
         /\ todo' = Planned(fs, g, k)
         /\ groups' = groups \ {g}
  BY DEF PlanGroup
<1>2. k \in g
  BY <1>1, KeptInGroup
<1>3. UNCHANGED disk /\ tmp = NoFile /\ tmp' = NoFile /\ clean' = clean /\ pc' = "apply"
  BY DEF PlanGroup, TypeOK
<1> QED BY <1>1, <1>2, <1>3

\* No action of a plan writes a waiting group, the kept path or what is left of
\* the plan.
LEMMA RestOfPlan ==
  ASSUME TypeOK, Private, Apart, NEW p \in Path, Apply(p),
         NEW q \in todo' \cup {kept} \cup UNION groups
  PROVE  /\ q \in Path /\ q # tmp /\ q # tmp'
         /\ fs'[q] = fs[q] /\ (fs[q] # NoFile => data'[fs[q]] = data[fs[q]])
         /\ ContentAt(q)' = ContentAt(q)
<1>1. q \in Path /\ (q # p \/ p \in todo') /\ q \in todo \cup {kept} \cup UNION groups
  <2>1. kept \in Path /\ p # kept /\ p \in todo /\ todo' \subseteq todo
    BY ApplyFrame
  <2>2. ASSUME NEW g \in groups, q \in g PROVE q \in Path /\ q # p
    BY <2>1, <2>2 DEF Apart, TypeOK
  <2> QED BY <2>1, <2>2 DEF TypeOK
<1>2. q # tmp
  BY <1>1 DEF Apart, TypeOK
<1>3. q # tmp'
  <2>1. q \in TmpName => fs[q] # NoFile
    BY <1>1 DEF Apart
  <2>2. q # NoFile
    BY <1>1
  <2>3. \/ tmp' \in {NoFile, tmp}
        \/ tmp' \in TmpName /\ fs[tmp'] = NoFile
    BY TmpFrame
  <2> QED BY <1>2, <2>1, <2>2, <2>3
<1> QED BY <1>1, <1>2, <1>3, ApplyWrites

\* Groups, plan and temporary sibling stay apart.
LEMMA ApartStep == TypeOK /\ Private /\ Apart /\ [Next]_vars => Apart'
<1> SUFFICES ASSUME TypeOK, Private, Apart, [Next]_vars PROVE Apart'
  OBVIOUS
<1> USE DEF vars, disk, planning, report
<1>1. CASE Scan
  <2>1. groups' = Duplicates /\ fs' = fs /\ todo' = {} /\ tmp' = NoFile /\ kept' = NoFile
    BY <1>1 DEF Scan, TypeOK
  <2>2. \A t \in TmpName \cap UNION Duplicates : fs[t] # NoFile
    BY DuplicatesOK
  <2>3. \A g \in Duplicates : \A p \in g : p # NoFile
    BY DuplicatesOK
  <2>4. NoFile \notin TmpName
    OBVIOUS
  <2> QED BY ONLY <2>1, <2>2, <2>3, <2>4, DuplicatesOK DEF Apart
<1>2. CASE PlanGroup
  <2>1. PICK g \in groups : /\ kept' \in g /\ todo' = Planned(fs, g, kept')
                            /\ groups' = groups \ {g}
    BY <1>2, PlanFrame
  <2>2. todo' \subseteq g /\ kept' \notin todo' /\ tmp' = NoFile /\ fs' = fs
    BY <1>2, <2>1, PlanFrame DEF Planned
  <2>3. \A h \in groups' : h \in groups /\ h \cap g = {}
    BY <2>1 DEF Apart
  <2>4. ASSUME NEW t \in TmpName, t \in todo' \cup {kept', tmp'} \cup UNION groups'
        PROVE  fs'[t] # NoFile
    <3>1. PICK h \in groups : t \in h
      <4>1. t \in g \/ t \in UNION groups' \/ t = NoFile
        BY <2>1, <2>2, <2>4
      <4>2. t # NoFile
        OBVIOUS
      <4> QED BY <2>1, <4>1, <4>2
    <3>2. t \in UNION groups
      BY <3>1
    <3> QED BY <2>2, <3>2 DEF Apart
  <2>5. \A h \in groups' : \A p \in h : p \notin todo' /\ p # kept' /\ p # tmp'
    BY <2>1, <2>2, <2>3 DEF TypeOK
  <2>6. \A h, k \in groups' : \A p \in h : p \in k => h = k
    BY <2>1 DEF Apart
  <2> QED BY <2>2, <2>4, <2>5, <2>6 DEF Apart
<1>3. CASE FinishGroup
  BY <1>3 DEF FinishGroup, Apart
<1>4. CASE FinishRun \/ Crash
  <2>1. groups' = {} /\ todo' = {} /\ tmp' = NoFile /\ kept' = NoFile
    BY <1>4 DEF FinishRun, Crash, TypeOK
  <2>2. todo' \cup {kept', tmp'} \cup UNION groups' = {NoFile}
    BY <2>1
  <2>3. NoFile \notin TmpName
    OBVIOUS
  <2> QED BY <2>1, <2>2, <2>3 DEF Apart
<1>5. ASSUME NEW p \in Path, Apply(p) PROVE Apart'
  <2>1. groups' = groups /\ kept' = kept /\ kept \in Path /\ todo' \subseteq todo
    BY <1>5, ApplyFrame
  <2>2. ASSUME NEW q \in todo' \cup {kept} \cup UNION groups
        PROVE  q # tmp' /\ fs'[q] = fs[q]
    BY <1>5, RestOfPlan
  <2>3. tmp' \in TmpName => fs'[tmp'] # NoFile
    <3>1. tmp \in TmpName => fs[tmp] # NoFile
      BY DEF Apart
    <3>2. \/ tmp' = NoFile
          \/ tmp' = tmp /\ fs'[tmp] = fs[tmp]
          \/ tmp' \in TmpName /\ fs'[tmp'] # NoFile
      BY <1>5, TmpFrame
    <3> QED BY <3>1, <3>2
  <2> QED BY <2>1, <2>2, <2>3 DEF Apart
<1>6. CASE Environment
  <2>1. UNCHANGED <<groups, kept, todo, tmp>>
    BY <1>6 DEF Environment, Outside
  <2>2. \A t \in TmpName : t \in Path /\ (fs[t] # NoFile => fs'[t] # NoFile)
    BY <1>6, EnvWrites
  <2> QED BY <2>1, <2>2 DEF Apart
<1>7. CASE UNCHANGED vars
  BY <1>7 DEF Apart
<1> QED BY <1>1, <1>2, <1>3, <1>4, <1>5, <1>6, <1>7 DEF Next, Program

\* No path to act on becomes a link to the file that will replace it.
LEMMA DistinctStep ==
  TypeOK /\ Private /\ Apart /\ Distinct /\ [Next]_vars => Distinct'
<1> SUFFICES ASSUME TypeOK, Private, Apart, Distinct, [Next]_vars PROVE Distinct'
  OBVIOUS
<1> USE DEF vars, disk, planning, report
<1>1. CASE Scan \/ FinishGroup \/ FinishRun \/ Crash
  BY <1>1 DEF Scan, FinishGroup, FinishRun, Crash, Distinct, Acting, TypeOK
<1>2. CASE PlanGroup
  <2>1. PICK g \in groups : todo' = Planned(fs, g, kept')
    BY <1>2, PlanFrame
  <2>2. pc' = "apply" /\ fs' = fs
    BY <1>2, PlanFrame DEF disk
  <2>3. \A q \in todo' : fs[q] # NoFile /\ fs[kept'] # NoFile => fs[q] # fs[kept']
    BY <2>1 DEF Planned, SameFile
  <2> QED BY ONLY <2>2, <2>3 DEF Distinct
<1>3. ASSUME NEW p \in Path, Apply(p) PROVE Distinct'
  <2>1. /\ kept' = kept /\ kept \in Path /\ todo' \subseteq todo /\ Acting
        /\ p \in todo /\ todo \subseteq Path
    BY ONLY <1>3, TypeOK, ApplyFrame DEF TypeOK
  <2>2. ASSUME NEW q \in todo' \cup {kept} PROVE q \in Path /\ fs'[q] = fs[q]
    BY <1>3, RestOfPlan
  <2>3. fs'[kept] # NoFile => \A q \in todo' : fs'[q] # fs'[kept]
    BY <2>1, <2>2 DEF Distinct
  <2>4. pc' = "rename" => \A q \in todo' : fs'[q] # fs'[tmp']
    <3>1. CASE LinkTmp(p)
      <4>1. PICK t \in TmpName : fs' = [fs EXCEPT ![t] = fs[kept]] /\ tmp' = t
        BY <3>1 DEF LinkTmp
      <4>2. fs[kept] # NoFile /\ fs'[tmp'] = fs[kept]
        BY <3>1, <4>1 DEF LinkTmp, TypeOK
      <4> QED BY <2>1, <2>2, <4>2 DEF Distinct
    <3>2. CASE FillClone(p)
      <4>1. pc = "cloning" /\ tmp' = tmp /\ fs' = fs /\ fs[tmp] # NoFile
        BY <3>2 DEF FillClone, At
      <4>2. \A q \in todo : q # tmp
        BY <4>1 DEF Apart, TypeOK
      <4> QED BY <2>1, <4>1, <4>2 DEF Private
    <3> QED BY <1>3, <3>1, <3>2 DEF Apply, ActionFails, CloneFails, RenameFails,
         ArchiveFails, Delete, Trash, RenameTmp, MoveToArchive, FillCopy,
         CloneTmp, FreshDestination, CreateCopy, Succeed, Fail, Continue
  <2> QED BY <2>1, <2>3, <2>4 DEF Distinct
<1>4. CASE Environment
  <2>1. UNCHANGED <<pc, kept, todo, tmp>>
    BY <1>4 DEF Environment, Outside
  <2>2. \A q \in Path : fs'[q] \in {fs[q], NoFile}
    BY <1>4, EnvWrites
  <2>3. tmp \in TmpName => fs'[tmp] = fs[tmp] /\ fs[tmp] # NoFile
    BY <1>4, EnvWrites DEF Apart
  <2>4. todo \subseteq Path /\ (Acting => kept \in Path) /\ (pc = "rename" => tmp \in TmpName)
    BY DEF TypeOK, Acting
  <2> QED BY <2>1, <2>2, <2>3, <2>4 DEF Distinct, Acting
<1>5. CASE UNCHANGED vars
  BY <1>5 DEF Distinct, Acting
<1> QED BY <1>1, <1>2, <1>3, <1>4, <1>5 DEF Next, Program

\* A run in which nothing fails has no temporary sibling but the one in use.
LEMMA TidyStep ==
  TypeOK /\ Apart /\ Distinct /\ Tidy /\ [Next]_vars => Tidy'
<1> SUFFICES ASSUME TypeOK, Apart, Distinct, Tidy, [Next]_vars, clean'
             PROVE  \A t \in TmpName : t # tmp' => fs'[t] = NoFile
  BY DEF Tidy
<1> USE DEF vars, disk, planning, report
<1>1. CASE Scan \/ PlanGroup \/ FinishGroup \/ FinishRun \/ UNCHANGED vars
  <2>1. tmp' = tmp /\ fs' = fs /\ clean' = clean
    BY <1>1 DEF Scan, PlanGroup, FinishGroup, FinishRun
  <2> QED BY <2>1 DEF Tidy
<1>2. ASSUME NEW p \in Path, Apply(p)
      PROVE  \A t \in TmpName : t # tmp' => fs'[t] = NoFile
  <2>1. p \in todo /\ clean
    BY <1>2, ApplyFrame DEF Apply, ActionFails, CloneFails, RenameFails,
       ArchiveFails, Delete, Trash, RenameTmp, MoveToArchive, FillCopy, LinkTmp,
       FillClone, CloneTmp, FreshDestination, CreateCopy, Succeed, Fail, Continue
  <2>2. p \notin TmpName
    BY <2>1 DEF Apart, Tidy
  <2>3. CASE RenameTmp(p)
    BY <2>1, <2>2, <2>3 DEF RenameTmp, Renamed, At, Distinct, Tidy, TypeOK
  <2>4. CASE LinkTmp(p) \/ CloneTmp(p)
    BY <2>1, <2>4 DEF LinkTmp, CloneTmp, At, Tidy, TypeOK
  <2>5. CASE Delete(p) \/ Trash(p) \/ MoveToArchive(p)
    BY <2>1, <2>2, <2>5 DEF Delete, Trash, MoveToArchive, Succeed, At, Tidy, TypeOK
  <2>6. CASE \/ FillClone(p) \/ FreshDestination(p)
             \/ CreateCopy(p) \/ FillCopy(p)
    BY <2>1, <2>6 DEF FillClone, FreshDestination, CreateCopy, FillCopy, Succeed,
       At, Tidy, TypeOK
  <2> QED BY <1>2, <2>3, <2>4, <2>5, <2>6 DEF Apply, ActionFails, RenameFails,
       CloneFails, ArchiveFails, Fail
<1>3. CASE Environment
  <2>1. tmp' = tmp /\ clean' = clean
    BY <1>3 DEF Environment, Outside
  <2>2. \A t \in TmpName : fs'[t] = fs[t]
    BY <1>3, EnvWrites
  <2> QED BY <2>1, <2>2 DEF Tidy
<1>4. ~Crash
  BY DEF Crash
<1> QED BY <1>1, <1>2, <1>3, <1>4 DEF Next, Program

\* Half-written files stay under temporary names.
LEMMA WholeStep ==
  TypeOK /\ Private /\ Apart /\ Whole /\ [Next]_vars => Whole'
<1> SUFFICES ASSUME TypeOK, Private, Apart, Whole, [Next]_vars PROVE Whole'
  OBVIOUS
<1> USE DEF vars, disk, planning, report
<1>0. NoFile # Stub /\ NoFile \notin Path /\ Stub \notin Content
  OBVIOUS
<1>1. CASE Scan
  <2>1. groups' = Duplicates /\ pc' = "scanned" /\ UNCHANGED <<fs, data>>
    BY <1>1 DEF Scan
  <2>2. \A p : ContentAt(p)' = ContentAt(p)
    BY <2>1 DEF ContentAt
  <2>3. ASSUME NEW g \in Duplicates, NEW q \in g, q \notin TmpName, NEW p \in g
        PROVE  ContentAt(p) # Stub
    <3>1. q \in Path /\ ContentAt(p) = ContentAt(q)
      BY DuplicatesOK
    <3> QED BY <2>3, <3>1 DEF Whole
  <2> QED BY <2>1, <2>2, <2>3 DEF Whole, Acting
<1>2. CASE PlanGroup
  <2>1. PICK g \in groups : /\ kept' \in g /\ todo' = Planned(fs, g, kept')
                            /\ groups' = groups \ {g}
    BY <1>2, PlanFrame
  <2>2. UNCHANGED <<fs, data>> /\ pc' = "apply" /\ todo' \subseteq g
    BY <1>2, <2>1, PlanFrame DEF Planned
  <2>3. \A p : ContentAt(p)' = ContentAt(p)
    BY <2>2 DEF ContentAt
  <2>4. todo' \subseteq TmpName \/ \A p \in Path : p = kept' => ContentAt(p) # Stub
    BY <2>1, <2>2 DEF Whole
  <2>5. kept' \in Path
    BY <1>2, PlanFrame
  <2>6. todo' \subseteq TmpName \/ ContentAt(kept)' # Stub
    BY <2>2, <2>4, <2>5 DEF ContentAt
  <2> QED BY <2>1, <2>2, <2>3, <2>6 DEF Whole
<1>3. CASE FinishGroup \/ FinishRun \/ Crash
  <2>1. UNCHANGED <<fs, data>> /\ groups' \subseteq groups /\ pc' \in {"idle", "scanned"}
    BY <1>3 DEF FinishGroup, FinishRun, Crash
  <2> QED BY <2>1 DEF Whole, ContentAt, Acting
<1>4. ASSUME NEW p \in Path, Apply(p) PROVE Whole'
  <2>1. /\ kept' = kept /\ kept \in Path /\ todo' \in {todo, todo \ {p}} /\ Acting
        /\ p \in todo /\ todo \subseteq Path /\ groups' = groups
        /\ groups \subseteq SUBSET Path
    BY <1>4, ApplyFrame DEF TypeOK
  <2>2. ASSUME NEW q \in todo' \cup {kept} \cup UNION groups
        PROVE  q \in Path /\ fs'[q] = fs[q] /\ ContentAt(q)' = ContentAt(q)
    BY <1>4, RestOfPlan
  <2>3. ASSUME NEW q \in Path \ TmpName PROVE ContentAt(q)' # Stub
    <3>1. q # tmp /\ q # tmp' /\ ContentAt(q) # Stub
      BY <1>0, <1>4, TmpFrame DEF Whole, TypeOK
    <3>2. CASE q # p \/ p \in todo'
      BY <1>4, <3>1, <3>2, ApplyWrites
    <3>3. CASE q = p /\ p \notin todo'
      <4>1. CASE \/ ActionFails(p) \/ RenameFails(p) \/ ArchiveFails(p)
                 \/ CloneFails(p)
        BY <3>1, <3>3, <4>1 DEF ActionFails, RenameFails, ArchiveFails,
           CloneFails, ContentAt, TypeOK
      <4>2. CASE Delete(p) \/ Trash(p) \/ MoveToArchive(p)
        BY <1>0, <3>3, <4>2 DEF Delete, Trash, MoveToArchive, ContentAt, TypeOK
      <4>3. CASE RenameTmp(p)
        <5>1. /\ pc = "rename" /\ fs' = Renamed(tmp, p) /\ data' = data
              /\ tmp \in TmpName /\ fs[tmp] # NoFile /\ tmp # p
          BY <3>1, <3>3, <4>3 DEF RenameTmp, At, TypeOK
        <5>2. ContentAt(tmp) # Stub /\ fs[tmp] \in Inode
          BY <2>1, <3>3, <5>1 DEF Whole, TypeOK
        <5>3. fs'[p] = fs[tmp]
          BY <5>1 DEF Renamed, TypeOK
        <5> QED BY <3>3, <5>1, <5>2, <5>3 DEF ContentAt
      <4>4. CASE FillCopy(p)
        <5>1. \/ archive[p] = NoFile /\ data' = data
              \/ fs[p] # archive[p]
          BY <2>1, <4>4 DEF FillCopy, Private, At, TypeOK
        <5>2. fs' = fs /\ fs[p] \in Inode
          BY <4>4 DEF FillCopy, TypeOK
        <5>3. data'[fs[p]] = data[fs[p]]
          BY <4>4, <5>1, <5>2 DEF FillCopy, TypeOK
        <5>4. ContentAt(q)' = ContentAt(q)
          BY <3>3, <5>2, <5>3 DEF ContentAt
        <5> QED BY <3>1, <5>4
      <4> QED BY <1>4, <2>1, <3>3, <4>1, <4>2, <4>3, <4>4 DEF Apply, LinkTmp,
           CloneTmp, FillClone, FreshDestination, CreateCopy, Continue
    <3> QED BY <3>2, <3>3
  <2>4. \A g \in groups : g \subseteq TmpName \/ \A q \in g : ContentAt(q)' # Stub
    <3>1. \A g \in groups : \A q \in g : ContentAt(q)' = ContentAt(q)
      BY <2>2
    <3> QED BY <3>1 DEF Whole
  <2>5. todo' \subseteq TmpName \/ ContentAt(kept)' # Stub
    <3>1. ContentAt(kept)' = ContentAt(kept)
      BY <2>1, <2>2 DEF ContentAt
    <3>2. todo \subseteq TmpName \/ ContentAt(kept) # Stub
      BY <2>1 DEF Whole
    <3> QED BY <2>1, <3>1, <3>2
  <2>6. pc' = "rename" => todo' \subseteq TmpName \/ ContentAt(tmp)' # Stub
    <3>1. CASE LinkTmp(p)
      <4>1. PICK t \in TmpName : fs' = [fs EXCEPT ![t] = fs[kept]] /\ tmp' = t
        BY <3>1 DEF LinkTmp
      <4>2. fs[kept] # NoFile /\ fs'[tmp'] = fs[kept] /\ data' = data /\ todo' = todo
        BY <3>1, <4>1 DEF LinkTmp, Continue, TypeOK
      <4> QED BY <2>1, <4>2 DEF Whole, ContentAt
    <3>2. CASE FillClone(p)
      <4>1. /\ tmp' = tmp /\ fs' = fs /\ fs[tmp] \in Inode /\ fs[kept] # NoFile
            /\ data' = [data EXCEPT ![fs[tmp]] = data[fs[kept]]] /\ todo' = todo
        BY <3>2 DEF FillClone, At, Continue, TypeOK
      <4>2. data'[fs'[tmp']] = data[fs[kept]]
        BY <4>1 DEF TypeOK
      <4> QED BY <2>1, <4>1, <4>2 DEF Whole, ContentAt
    <3> QED BY <1>4, <3>1, <3>2 DEF Apply, ActionFails, CloneFails, RenameFails,
         ArchiveFails, Delete, Trash, RenameTmp, MoveToArchive, FillCopy,
         CloneTmp, FreshDestination, CreateCopy, Succeed, Fail, Continue
  <2> QED BY <2>1, <2>3, <2>4, <2>5, <2>6 DEF Whole
<1>5. CASE Environment
  <2>1. UNCHANGED <<pc, groups, kept, todo, tmp>>
    BY <1>5 DEF Environment, Outside
  <2>2. \A q \in Path : ContentAt(q) # Stub => ContentAt(q)' # Stub
    BY <1>0, <1>5, EnvWrites
  <2>3. (Acting => kept \in Path) /\ (pc = "rename" => tmp \in Path)
    BY DEF TypeOK, Acting
  <2>4. Acting => (ContentAt(kept) # Stub => ContentAt(kept)' # Stub)
    BY <2>1, <2>2, <2>3 DEF ContentAt
  <2>5. pc = "rename" => (ContentAt(tmp) # Stub => ContentAt(tmp)' # Stub)
    BY <2>1, <2>2, <2>3 DEF ContentAt
  <2>6. \A g \in groups : g \subseteq Path
    BY DEF TypeOK
  <2> QED BY <2>1, <2>2, <2>4, <2>5, <2>6 DEF Whole, Acting
<1>6. CASE UNCHANGED vars
  BY <1>6 DEF Whole, Acting, ContentAt
<1> QED BY <1>1, <1>2, <1>3, <1>4, <1>5, <1>6 DEF Next, Program

\* The action in progress stays of the kind the user asked for.
LEMMA KindStep == TypeOK /\ KindOK /\ [Next]_vars => KindOK'
<1> SUFFICES ASSUME TypeOK, KindOK, [Next]_vars PROVE KindOK'
  OBVIOUS
<1> USE DEF KindOK, vars, disk, planning, report
<1>1. CASE Scan \/ PlanGroup \/ FinishGroup \/ FinishRun \/ Crash \/ UNCHANGED vars
  BY <1>1 DEF Scan, PlanGroup, FinishGroup, FinishRun, Crash
<1>2. ASSUME NEW p \in Path, Apply(p) PROVE KindOK'
  <2>0. kind' = kind /\ kind \in Kinds
    BY <1>2, ApplyFrame DEF Acting
  <2>1. CASE Succeed(p) \/ Fail(p)
    BY <2>0, <2>1 DEF Succeed, Fail
  <2> QED BY <1>2, <2>0, <2>1 DEF Apply, ActionFails, CloneFails, RenameFails,
       ArchiveFails, Delete, Trash, RenameTmp, MoveToArchive, FillCopy, LinkTmp,
       FillClone, CloneTmp, FreshDestination, CreateCopy, Continue, At
<1>3. CASE Environment
  BY <1>3 DEF Environment, Outside
<1> QED BY <1>1, <1>2, <1>3 DEF Next, Program

\* The invariant that interference cannot break.
THEOREM RobustInvariant == Spec => []Robust
<1>1. Init => Robust
  <2> SUFFICES ASSUME Init PROVE Robust
    OBVIOUS
  <2>1. Safe
    BY DEF Init, Safe, TypeOK, Guarded, Private
  <2>2. Apart /\ Distinct /\ Tidy
    BY DEF Init, Apart, Distinct, Tidy, Acting
  <2>3. Whole /\ KindOK
    BY DEF Init, Whole, KindOK, Acting, ContentAt, Fresh
  <2> QED BY <2>1, <2>2, <2>3 DEF Robust
<1>2. Robust /\ [Next]_vars => Robust'
  BY TypeStep, GuardedStep, PrivateStep, ApartStep, DistinctStep, TidyStep,
     WholeStep, KindStep DEF Robust, Safe
<1> QED BY <1>1, <1>2, PTL DEF Spec

\* Whatever other programs do meanwhile, applying a plan leaves the file it
\* keeps untouched.
THEOREM KeptSafe == Spec => KeptUntouched
<1>1. Robust /\ [Next]_vars =>
        [env' = env /\ kept # NoFile =>
           /\ fs'[kept] = fs[kept]
           /\ fs[kept] # NoFile => data'[fs[kept]] = data[fs[kept]]]_vars
  <2> SUFFICES ASSUME Robust, [Next]_vars, env' = env, kept # NoFile
               PROVE  /\ fs'[kept] = fs[kept]
                      /\ fs[kept] # NoFile => data'[fs[kept]] = data[fs[kept]]
    OBVIOUS
  <2> USE DEF Robust, Safe
  <2>1. CASE Scan \/ PlanGroup \/ FinishGroup \/ FinishRun \/ Crash \/ UNCHANGED vars
    BY <2>1 DEF Scan, PlanGroup, FinishGroup, FinishRun, Crash, vars, disk
  <2>2. ASSUME NEW p \in Path, Apply(p)
        PROVE  /\ fs'[kept] = fs[kept]
               /\ fs[kept] # NoFile => data'[fs[kept]] = data[fs[kept]]
    <3>1. kept \in todo' \cup {kept} \cup UNION groups
      OBVIOUS
    <3> QED BY <2>2, <3>1, RestOfPlan
  <2>3. ~Environment
    BY DEF Environment, Outside, TypeOK
  <2> QED BY <2>1, <2>2, <2>3 DEF Next, Program
<1> QED BY <1>1, RobustInvariant, PTL DEF Spec, KeptUntouched

\* Linking, cloning and copying leave no path of the tree without a file or with
\* half of one, at any step and whatever other programs do in between.
THEOREM MissingNever == Spec => NeverMissing
<1>1. Robust /\ Robust' /\ [Next]_vars =>
        [env' = env /\ kind \in {"hardlink", "reflink", "copy"} =>
           \A p \in Path \ TmpName : fs[p] # NoFile =>
              /\ fs'[p] # NoFile
              /\ ContentAt(p)' = Stub => ContentAt(p) = Stub]_vars
  <2> SUFFICES ASSUME Robust, Robust', [Next]_vars, env' = env,
                      kind \in {"hardlink", "reflink", "copy"},
                      NEW q \in Path \ TmpName, fs[q] # NoFile
               PROVE  fs'[q] # NoFile /\ ContentAt(q)' # Stub
    OBVIOUS
  <2> USE DEF Robust, Safe
  <2>1. ContentAt(q)' # Stub
    BY DEF Whole
  <2>2. fs'[q] # NoFile
    <3>1. CASE Scan \/ PlanGroup \/ FinishGroup \/ FinishRun \/ Crash \/ UNCHANGED vars
      BY <3>1 DEF Scan, PlanGroup, FinishGroup, FinishRun, Crash, vars, disk
    <3>2. ASSUME NEW p \in Path, Apply(p) PROVE fs'[q] # NoFile
      <4>1. q # tmp /\ q # tmp'
        BY <3>2, TmpFrame DEF TypeOK
      <4>2. CASE q # p \/ p \in todo'
        BY <3>2, <4>1, <4>2, ApplyWrites
      <4>3. CASE Delete(p) \/ Trash(p) \/ MoveToArchive(p)
        BY <4>3 DEF Delete, Trash, MoveToArchive, At, KindOK
      <4>4. CASE RenameTmp(p)
        BY <4>1, <4>4 DEF RenameTmp, Renamed, TypeOK
      <4>5. CASE \/ ActionFails(p) \/ RenameFails(p) \/ CloneFails(p)
                 \/ ArchiveFails(p) \/ FillCopy(p)
        BY <4>1, <4>5 DEF ActionFails, RenameFails, CloneFails, ArchiveFails,
           FillCopy, disk, TypeOK
      <4>6. CASE \/ LinkTmp(p) \/ CloneTmp(p) \/ FillClone(p)
                 \/ FreshDestination(p) \/ CreateCopy(p)
        <5>1. todo' = todo
          BY <4>6 DEF LinkTmp, CloneTmp, FillClone, FreshDestination, CreateCopy,
             Continue, planning
        <5>2. p \in todo
          BY <3>2, ApplyFrame
        <5> QED BY <4>2, <5>1, <5>2
      <4> QED BY <3>2, <4>3, <4>4, <4>5, <4>6 DEF Apply
    <3>3. ~Environment
      BY DEF Environment, Outside, TypeOK
    <3> QED BY <3>1, <3>2, <3>3 DEF Next, Program
  <2> QED BY <2>1, <2>2
<1> QED BY <1>1, RobustInvariant, PTL DEF Spec, NeverMissing

\* When nothing has failed or died, no run leaves a temporary sibling behind.
THEOREM NoLitterEver == Spec => []NoLitter
<1>1. Robust => NoLitter
  BY DEF Robust, Safe, Tidy, NoLitter, TypeOK
<1> QED BY <1>1, RobustInvariant, PTL
-----------------------------------------------------------------------------
(* What the report says.                                                    *)

\* No file of the archive directory is replaced or shared with the tree.
ArchiveOK ==
    /\ pc \in {"moving", "copying"} => \A p \in First(todo) : archive[p] = NoFile
    /\ pc = "filling" => \A p \in First(todo) :
          /\ archive[p] # NoFile /\ data[archive[p]] = Stub
          /\ \A q \in Path \ {p} : archive[q] # archive[p]
    /\ pc = "cloning" => \A q \in Path : archive[q] # fs[tmp]

\* A hard link's sibling is the kept file, a clone's is a file of its own.
LinkedOK == pc = "rename" => (kind = "hardlink" <=> fs[tmp] = fs[kept])

\* What has succeeded is done with: neither the rest of the plan nor the kept
\* path nor the sibling, and in the state its action promises.
EffectsOK ==
    /\ pc = "idle" => succeeded = {}
    /\ succeeded \cap (todo \cup {kept, tmp}) = {}
    /\ \A p \in succeeded :
          /\ fs[kept] # NoFile /\ Effect(p)
          /\ kind \in {"move", "copy"} => archive[p] # NoFile

Effective == ArchiveOK /\ LinkedOK /\ EffectsOK
Exact == Undisturbed => GroupsOK /\ PlanOK /\ Effective

\* A run's own place in the archive is free until it is written, and nobody
\* else's after that.
LEMMA ArchiveStep ==
  TypeOK /\ Private /\ ArchiveOK /\ Next /\ env' = env => ArchiveOK'
<1> SUFFICES ASSUME TypeOK, Private, ArchiveOK, Next, env' = env PROVE ArchiveOK'
  OBVIOUS
<1> USE DEF disk, planning, report
<1>1. CASE Scan \/ PlanGroup \/ FinishGroup \/ FinishRun \/ Crash
  BY <1>1 DEF Scan, PlanGroup, FinishGroup, FinishRun, Crash, ArchiveOK
<1>2. ASSUME NEW p \in Path, Apply(p) PROVE ArchiveOK'
  <2>1. p \in todo /\ p \in First(todo) /\ \A q \in First(todo) : q = p
    BY <1>2, ApplyFrame DEF First, TypeOK
  <2>2. CASE Succeed(p) \/ Fail(p)
    BY <2>2 DEF Succeed, Fail, ArchiveOK
  <2>3. CASE LinkTmp(p) \/ FillClone(p)
    BY <2>3 DEF LinkTmp, FillClone, Continue, ArchiveOK
  <2>4. CASE CloneTmp(p)
    BY <2>4 DEF CloneTmp, Continue, ArchiveOK, Fresh, TypeOK
  <2>5. CASE FreshDestination(p)
    BY <2>1, <2>5 DEF FreshDestination, Continue, ArchiveOK
  <2>6. CASE CreateCopy(p)
    <3>1. archive[p] = NoFile
      BY <2>1, <2>6 DEF CreateCopy, At, ArchiveOK
    <3>2. PICK i \in Fresh : /\ archive' = [archive EXCEPT ![p] = i]
                             /\ data' = [data EXCEPT ![i] = Stub]
      BY <2>6, <3>1 DEF CreateCopy
    <3>3. pc' = "filling" /\ todo' = todo
      BY <2>6 DEF CreateCopy, Continue
    <3> QED BY <2>1, <3>2, <3>3 DEF ArchiveOK, Fresh, TypeOK
  <2> QED BY <1>2, <2>2, <2>3, <2>4, <2>5, <2>6 DEF Apply, ActionFails,
       RenameFails, ArchiveFails, CloneFails, Delete, Trash, RenameTmp,
       MoveToArchive, FillCopy
<1>3. ~Environment
  BY DEF Environment, Outside, TypeOK
<1> QED BY <1>1, <1>2, <1>3 DEF Next, Program

\* The sibling of a hard link is the kept file, that of a clone is not.
LEMMA LinkedStep ==
  TypeOK /\ Private /\ Apart /\ PlanOK /\ KindOK /\ LinkedOK /\ Next /\ env' = env
    => LinkedOK'
<1> SUFFICES ASSUME TypeOK, Private, Apart, PlanOK, KindOK, LinkedOK, Next,
                    env' = env
             PROVE  LinkedOK'
  OBVIOUS
<1> USE DEF disk, planning, report
<1>1. CASE Scan \/ PlanGroup \/ FinishGroup \/ FinishRun \/ Crash
  BY <1>1 DEF Scan, PlanGroup, FinishGroup, FinishRun, Crash, LinkedOK
<1>2. ASSUME NEW p \in Path, Apply(p) PROVE LinkedOK'
  <2>1. kept \in Path /\ kept' = kept /\ kind' = kind /\ fs[kept] # NoFile
    BY <1>2, ApplyFrame DEF PlanOK
  <2>2. fs'[kept] = fs[kept]
    BY <1>2, RestOfPlan
  <2>3. CASE LinkTmp(p)
    BY <2>1, <2>2, <2>3 DEF LinkTmp, LinkedOK, At, TypeOK
  <2>4. CASE FillClone(p)
    <3>1. pc = "cloning" /\ tmp' = tmp /\ fs' = fs /\ kind = "reflink"
      BY <2>4 DEF FillClone, At, KindOK
    <3>2. fs[kept] # fs[tmp]
      BY <2>1, <3>1 DEF Private, Apart, TypeOK
    <3> QED BY <2>1, <3>1, <3>2 DEF LinkedOK
  <2> QED BY <1>2, <2>3, <2>4 DEF Apply, ActionFails, RenameFails, ArchiveFails,
       CloneFails, Delete, Trash, RenameTmp, MoveToArchive, FillCopy, CloneTmp,
       FreshDestination, CreateCopy, Succeed, Fail, Continue, LinkedOK
<1>3. ~Environment
  BY DEF Environment, Outside, TypeOK
<1> QED BY <1>1, <1>2, <1>3 DEF Next, Program

\* No action of a plan touches what an earlier action has achieved.
LEMMA DoneStays ==
  ASSUME TypeOK, Private, Apart, PlanOK, KindOK, Effective, TypeOK', KindOK',
         NEW p \in Path, Apply(p), NEW q \in succeeded
  PROVE  /\ q \in Path /\ q # p /\ q # tmp' /\ fs'[q] = fs[q]
         /\ fs'[kept'] = fs[kept] /\ fs[kept] # NoFile
         /\ Effect(q)'
         /\ kind' \in {"move", "copy"} => archive'[q] # NoFile
<1> USE DEF Effective, disk
<1>1. /\ kept \in Path /\ kept' = kept /\ kind' = kind /\ fs[kept] # NoFile
      /\ p \in todo /\ Acting
  BY ApplyFrame DEF PlanOK
<1>2. q \in Path /\ q # p /\ q # tmp /\ Effect(q)
  BY <1>1 DEF EffectsOK, TypeOK
<1>3. q # tmp'
  <2>1. SUFFICES ASSUME tmp = NoFile, tmp' \in TmpName, fs[tmp'] = NoFile
                 PROVE  q # tmp'
    BY <1>2, TmpFrame
  <2>2. kind \in {"hardlink", "reflink"}
    BY <1>1, <2>1 DEF TypeOK, KindOK
  <2>3. ContentAt(kept) # NoFile
    <3>1. fs[kept] \in Inode /\ \A i \in Inode : data[i] \in Content \cup {Stub}
      BY <1>1 DEF TypeOK
    <3> QED BY <1>1, <3>1 DEF ContentAt
  <2>4. kind = "hardlink" => fs[q] # NoFile
    BY <1>1, <1>2 DEF Effect
  <2>5. kind = "reflink" => fs[q] # NoFile
    BY <1>2, <2>3 DEF Effect, ContentAt
  <2> QED BY <2>1, <2>2, <2>4, <2>5
<1>4. fs'[q] = fs[q] /\ ContentAt(q)' = ContentAt(q)
  BY <1>2, <1>3, ApplyWrites
<1>5. fs'[kept] = fs[kept] /\ data'[fs[kept]] = data[fs[kept]]
  BY <1>1, RestOfPlan
<1>6. ContentAt(kept)' = ContentAt(kept)
  BY <1>1, <1>5 DEF ContentAt
<1>7. ASSUME kind \in {"move", "copy"}
      PROVE  /\ archive[q] # NoFile /\ archive'[q] = archive[q]
             /\ data'[archive[q]] = data[archive[q]]
  <2>1. archive[q] \in Inode
    BY <1>2, <1>7 DEF EffectsOK, TypeOK
  <2>2. CASE MoveToArchive(p)
    BY <1>2, <2>1, <2>2 DEF MoveToArchive, TypeOK
  <2>3. CASE CreateCopy(p)
    BY <1>2, <2>1, <2>3 DEF CreateCopy, At, ArchiveOK, Fresh, TypeOK
  <2>4. CASE FillCopy(p)
    BY <1>2, <2>1, <2>4 DEF FillCopy, At, ArchiveOK, TypeOK
  <2>5. CASE \/ ActionFails(p) \/ RenameFails(p) \/ ArchiveFails(p)
             \/ CloneFails(p) \/ FreshDestination(p)
    BY <2>1, <2>5 DEF ActionFails, RenameFails, ArchiveFails, CloneFails,
       FreshDestination
  <2> QED BY <1>7, <2>1, <2>2, <2>3, <2>4, <2>5 DEF Apply, Delete, Trash,
       LinkTmp, CloneTmp, FillClone, RenameTmp, At, KindOK
<1>8. Effect(q)'
  <2>1. CASE kind \in {"delete", "trash", "hardlink", "reflink"}
    BY <1>1, <1>2, <1>4, <1>5, <1>6, <2>1 DEF Effect
  <2>2. CASE kind \in {"move", "copy"}
    BY <1>1, <1>2, <1>4, <1>5, <1>6, <1>7, <2>2 DEF Effect
  <2>3. kind \in Kinds
    BY <1>1 DEF Acting, KindOK
  <2> QED BY <2>1, <2>2, <2>3
<1> QED BY <1>1, <1>2, <1>3, <1>4, <1>5, <1>7, <1>8

\* What is reported as done is done, and stays so until the plan ends.
LEMMA EffectsStep ==
  TypeOK /\ Private /\ Apart /\ Distinct /\ PlanOK /\ KindOK /\ Effective
    /\ TypeOK' /\ KindOK' /\ Next /\ env' = env => EffectsOK'
<1> SUFFICES ASSUME TypeOK, Private, Apart, Distinct, PlanOK, KindOK, Effective,
                    TypeOK', KindOK', Next, env' = env
             PROVE  EffectsOK'
  OBVIOUS
<1> USE DEF disk, planning, report
<1> USE DEF Effective
<1>1. CASE Scan
  BY <1>1 DEF Scan, EffectsOK
<1>2. CASE PlanGroup \/ FinishRun \/ Crash
  BY <1>2 DEF PlanGroup, FinishRun, Crash, EffectsOK
<1>3. CASE FinishGroup
  BY <1>3 DEF FinishGroup, EffectsOK, Effect, ContentAt
<1>4. ASSUME NEW p \in Path, Apply(p) PROVE EffectsOK'
  <2>1. /\ p \in todo /\ p # kept /\ kept \in Path /\ kept' = kept /\ kind' = kind
        /\ Acting /\ todo' \subseteq todo
    BY <1>4, ApplyFrame
  <2>2. pc' # "idle" /\ (p \in succeeded' => p \notin todo' /\ tmp' = NoFile)
        /\ succeeded' \in {succeeded, succeeded \cup {p}}
    BY <1>4, <2>1 DEF Apply, ActionFails, RenameFails, ArchiveFails, CloneFails,
       Delete, Trash, RenameTmp, MoveToArchive, FillCopy, LinkTmp, CloneTmp,
       FillClone, FreshDestination, CreateCopy, Succeed, Fail, Continue, EffectsOK
  <2>3. \A q \in succeeded :
           /\ q \in Path /\ q # p /\ q # tmp'
           /\ fs'[kept'] = fs[kept] /\ fs[kept] # NoFile
           /\ Effect(q)'
           /\ kind' \in {"move", "copy"} => archive'[q] # NoFile
    BY <1>4, DoneStays
  <2>4. ASSUME p \in succeeded'
        PROVE  /\ fs'[kept] # NoFile /\ Effect(p)'
               /\ kind' \in {"move", "copy"} => archive'[p] # NoFile
    <3>1. Succeed(p)
      BY <1>4, <2>3, <2>4 DEF Apply, ActionFails, RenameFails, ArchiveFails,
         CloneFails, Delete, Trash, RenameTmp, MoveToArchive, FillCopy, LinkTmp,
         CloneTmp, FillClone, FreshDestination, CreateCopy, Fail, Continue
    <3>2. /\ fs[kept] # NoFile /\ fs'[kept] = fs[kept] /\ ContentAt(kept)' = ContentAt(kept)
          /\ ContentAt(p) = ContentAt(kept)
      <4>1. fs'[kept] = fs[kept] /\ (fs[kept] # NoFile => data'[fs[kept]] = data[fs[kept]])
        BY <1>4, RestOfPlan
      <4> QED BY <2>1, <4>1 DEF PlanOK, ContentAt
    <3>3. CASE Delete(p) \/ Trash(p)
      <4>1. kind \in {"delete", "trash"} /\ fs'[p] = NoFile
        BY <3>3 DEF Delete, Trash, TypeOK
      <4> QED BY <2>1, <3>2, <4>1 DEF Effect
    <3>4. CASE RenameTmp(p)
      <4>1. /\ pc = "rename" /\ tmp \in TmpName /\ fs[tmp] # NoFile /\ data' = data
            /\ fs' = Renamed(tmp, p) /\ fs[tmp] # fs[p] /\ tmp # p
            /\ kind \in {"hardlink", "reflink"}
        BY <2>1, <3>4 DEF RenameTmp, At, Distinct, PlanOK, KindOK, TypeOK
      <4>2. fs'[p] = fs[tmp]
        BY <4>1 DEF Renamed, TypeOK
      <4>3. ContentAt(p)' = ContentAt(kept)
        BY <4>1, <4>2 DEF PlanOK, ContentAt
      <4> QED BY <2>1, <3>2, <4>1, <4>2, <4>3 DEF Effect, LinkedOK
    <3>5. CASE MoveToArchive(p)
      <4>1. kind = "move" /\ fs[p] \in Inode /\ data' = data
            /\ fs'[p] = NoFile /\ archive'[p] = fs[p]
        BY <3>5 DEF MoveToArchive, At, KindOK, TypeOK
      <4> QED BY <2>1, <3>2, <4>1 DEF Effect, ContentAt
    <3>6. CASE FillCopy(p)
      <4>1. kind = "copy" /\ fs[p] \in Inode /\ fs' = fs /\ archive' = archive
            /\ data' = [data EXCEPT ![archive[p]] = data[fs[p]]]
            /\ archive[p] \in Inode /\ fs[p] # archive[p]
        BY <3>6 DEF FillCopy, At, KindOK, ArchiveOK, Private, TypeOK
      <4>2. data'[archive'[p]] = data[fs[p]] /\ ContentAt(p)' = data[fs[p]]
        BY <4>1 DEF ContentAt, TypeOK
      <4> QED BY <2>1, <3>2, <4>1, <4>2 DEF Effect
    <3> QED BY <1>4, <2>1, <2>4, <3>1, <3>3, <3>4, <3>5, <3>6 DEF Apply,
         ActionFails, RenameFails, ArchiveFails, CloneFails, LinkTmp, CloneTmp,
         FillClone, FreshDestination, CreateCopy, Fail, Continue, EffectsOK, Succeed
  <2> QED BY <2>1, <2>2, <2>3, <2>4 DEF EffectsOK
<1>5. ~Environment
  BY DEF Environment, Outside, TypeOK
<1> QED BY <1>1, <1>2, <1>3, <1>4, <1>5 DEF Next, Program

\* As long as no other program touches the tree, the plan, the archive and the
\* report are what the run has made of them.
LEMMA ExactStep == Robust /\ Robust' /\ Exact /\ [Next]_vars => Exact'
<1> SUFFICES ASSUME Robust, Robust', Exact, [Next]_vars, Undisturbed'
             PROVE  (GroupsOK /\ PlanOK /\ Effective)'
  BY DEF Exact
<1> USE DEF Robust, Safe
<1>1. env' = env
  <2>1. env \in 0..EnvSteps /\ env' = EnvSteps /\ BoundAssumption
    BY DEF TypeOK, Undisturbed
  <2>2. ~Environment
    BY <2>1 DEF Environment, Outside
  <2>3. ASSUME NEW p \in Path, Apply(p) PROVE env' = env
    BY <2>3, ApplyFrame
  <2> QED BY <2>2, <2>3 DEF Next, Program, Scan, PlanGroup, FinishGroup, FinishRun,
             Crash, vars
<1>2. GroupsOK /\ PlanOK /\ Effective
  BY <1>1 DEF Exact, Undisturbed
<1>3. CASE Next
  BY <1>1, <1>2, <1>3, GroupsStep, PlanStep, ArchiveStep, LinkedStep, EffectsStep
     DEF Effective
<1>4. CASE UNCHANGED vars
  <2>1. (GroupsOK /\ PlanOK)'
    BY <1>2, <1>4 DEF GroupsOK, PlanOK, Acting, ContentAt, vars, disk, planning, report
  <2>2. Effective'
    BY <1>2, <1>4 DEF Effective, ArchiveOK, LinkedOK, EffectsOK, Effect, ContentAt,
       vars, disk, planning, report
  <2> QED BY <2>1, <2>2
<1> QED BY <1>3, <1>4

THEOREM ExactInvariant == Spec => []Exact
<1>1. Init => Exact
  BY DEF Init, Exact, GroupsOK, PlanOK, Effective, ArchiveOK, LinkedOK, EffectsOK,
     Acting
<1>2. Robust /\ Robust' /\ Exact /\ [Next]_vars => Exact'
  BY ExactStep
<1> QED BY <1>1, <1>2, RobustInvariant, PTL DEF Spec

\* Every path a report lists as succeeded is in the state its action promises,
\* next to a kept file that is still there, until the plan ends.
THEOREM ReportTrue == Spec => []ReportedEffects
<1>1. Exact => ReportedEffects
  BY DEF Exact, Effective, EffectsOK, ReportedEffects
<1> QED BY <1>1, ExactInvariant, PTL

\* As long as no other program touches the archive, no step replaces a file in it
\* or rewrites a finished one: a later move or copy to the same place fails.
THEOREM ArchiveSafe == ASSUME EnvSteps = 0 PROVE Spec => ArchiveNeverOverwritten
<1>1. Robust /\ Exact /\ [Next]_vars =>
        [env' = env =>
           \A p \in Path : archive[p] # NoFile =>
              /\ archive'[p] = archive[p]
              /\ data[archive[p]] # Stub => data'[archive[p]] = data[archive[p]]]_vars
  <2> SUFFICES ASSUME Robust, Exact, [Next]_vars, env' = env,
                      NEW q \in Path, archive[q] # NoFile
               PROVE  /\ archive'[q] = archive[q]
                      /\ data[archive[q]] # Stub => data'[archive[q]] = data[archive[q]]
    OBVIOUS
  <2> USE DEF Robust, Safe, disk
  <2>1. ArchiveOK /\ archive[q] \in Inode
    BY DEF Exact, Effective, Undisturbed, TypeOK
  <2>2. CASE Scan \/ PlanGroup \/ FinishGroup \/ FinishRun \/ Crash \/ UNCHANGED vars
    BY <2>2 DEF Scan, PlanGroup, FinishGroup, FinishRun, Crash, vars
  <2>3. ASSUME NEW p \in Path, Apply(p)
        PROVE  /\ archive'[q] = archive[q]
               /\ data[archive[q]] # Stub => data'[archive[q]] = data[archive[q]]
    <3>1. CASE MoveToArchive(p)
      BY <2>1, <3>1 DEF MoveToArchive, At, ArchiveOK, TypeOK
    <3>2. CASE CreateCopy(p)
      BY <2>1, <3>2 DEF CreateCopy, At, ArchiveOK, Fresh, TypeOK
    <3>3. CASE FillCopy(p)
      BY <2>1, <3>3 DEF FillCopy, At, ArchiveOK, TypeOK
    <3>4. CASE CloneTmp(p)
      BY <2>1, <3>4 DEF CloneTmp, Fresh, TypeOK
    <3>5. CASE FillClone(p)
      BY <2>1, <3>5 DEF FillClone, At, ArchiveOK, TypeOK
    <3>6. CASE \/ ActionFails(p) \/ RenameFails(p) \/ ArchiveFails(p)
               \/ CloneFails(p) \/ FreshDestination(p) \/ Delete(p) \/ Trash(p)
               \/ LinkTmp(p) \/ RenameTmp(p)
      BY <3>6 DEF ActionFails, RenameFails, ArchiveFails, CloneFails,
         FreshDestination, Delete, Trash, LinkTmp, RenameTmp
    <3> QED BY <2>3, <3>1, <3>2, <3>3, <3>4, <3>5, <3>6 DEF Apply
  <2>4. ~Environment
    BY DEF Environment, Outside, TypeOK
  <2> QED BY <2>2, <2>3, <2>4 DEF Next, Program
<1> QED BY <1>1, RobustInvariant, ExactInvariant, PTL DEF Spec, ArchiveNeverOverwritten
=============================================================================
