----------------------------- MODULE ActionOps -----------------------------
(***************************************************************************)
(* The decisions of the action layer that touch nothing: which copy of a   *)
(* duplicate group is kept (select.rs) and which of the others are acted   *)
(* on (the planning half of action.rs).                                    *)
(*                                                                         *)
(* A path is the number of its place in the sorted order of the tree's     *)
(* paths, the order every DuplicateGroup lists its members in: the         *)
(* alphabetically first member of a group is the least one.  A choice that *)
(* the code makes deterministically is written as the set of the paths it  *)
(* can return, which is a singleton for a non-empty group.                 *)
(***************************************************************************)
EXTENDS Naturals

CONSTANTS Path,       \* the names of the scanned tree
          Inode,      \* file identities (FileId)
          NoFile,     \* what a name without a file maps to
          Protected,  \* the paths under a reference folder
          Depth       \* the number of components of each path

ASSUME PathAssumption == Path \subseteq Nat /\ Protected \subseteq Path
ASSUME NoFileAssumption == NoFile \notin Inode \cup Path

Rules == {"AlphabeticallyFirst", "Newest", "Oldest", "ShortestPath",
          "LongestPath", "Manual"}

\* The alphabetically first members of S.
First(S) == {p \in S : \A q \in S : p <= q}

\* The protected member that overrides every other choice, if there is one.
ProtectedMember(group) == First(group \cap Protected)

\* by_modified: the first best mtime among the members whose metadata can be
\* read, the first member when none can.
ByModified(group, fs, mtime, newest) ==
    LET readable == {p \in group : fs[p] # NoFile}
        Better(p, q) == IF newest THEN mtime[fs[p]] > mtime[fs[q]]
                        ELSE mtime[fs[p]] < mtime[fs[q]]
        best == {p \in readable : \A q \in readable : ~Better(q, p)}
    IN  IF readable = {} THEN First(group) ELSE First(best)

\* by_depth never looks at the disk: a member that has vanished can win.
ByDepth(group, shortest) ==
    LET Better(p, q) == IF shortest THEN Depth[p] < Depth[q] ELSE Depth[p] > Depth[q]
    IN  First({p \in group : \A q \in group : ~Better(q, p)})

\* The keep a caller proposes: choose_keep under one of its rules, or the
\* member the user clicked in the GUI.
ChooseKeep(rule, group, fs, mtime) ==
    IF rule = "Manual" THEN group
    ELSE IF ProtectedMember(group) # {} THEN ProtectedMember(group)
    ELSE CASE rule = "AlphabeticallyFirst" -> First(group)
           [] rule = "Newest" -> ByModified(group, fs, mtime, TRUE)
           [] rule = "Oldest" -> ByModified(group, fs, mtime, FALSE)
           [] rule = "ShortestPath" -> ByDepth(group, TRUE)
           [] rule = "LongestPath" -> ByDepth(group, FALSE)
           [] OTHER -> {}

\* plan_with_keep's guardrail: the first protected member replaces the proposed
\* keep.  The GUI sends the clicked member at the head of the group, so that a
\* protected keep stands; the rules only ever propose the first protected one.
EffectiveKeep(group, keep) ==
    IF ProtectedMember(group) = {} \/ keep \in Protected
    THEN {keep}
    ELSE ProtectedMember(group)

\* Known to share the kept file's inode: both identities can be read and are
\* equal.  A kept file that has vanished shares nothing with anybody.
SameFile(fs, p, kept) == fs[kept] # NoFile /\ fs[p] = fs[kept]

\* Mutant: existing hardlink aliases of the kept file are acted on as well.
PlannedWithAliases(fs, group, kept) ==
    {p \in group \ {kept} : p \notin Protected}

\* Mutant: reference folders only influence the choice of the kept file.
PlannedWithReferences(fs, group, kept) ==
    {p \in group \ {kept} : ~SameFile(fs, p, kept)}

\* The members plan_with_keep turns into actions.  A member that has vanished
\* stays in: apply reports it as a failure.
Planned(fs, group, kept) ==
    {p \in group \ {kept} : p \notin Protected /\ ~SameFile(fs, p, kept)}
=============================================================================
