--------------------------- MODULE MCPlanJournal ---------------------------
(* PlanJournal on four or five paths: enough for two groups, or for one with *)
(* an alias or a reference file in it.                                       *)
EXTENDS PlanJournal, TLC

CONSTANTS i1, i2, i3, i4, i5, c1, c2

MCDepth == [p \in Path |-> 1]
\* The first command that does anything is a scan; a move plan can be applied,
\* undone and applied again, or another scan be made in between.
MCMaxRuns == [k \in Kinds |-> CASE k = "move" -> 4 [] k = "copy" -> 2 [] OTHER -> 3]

Symmetric == Permutations(Inode) \cup Permutations(Content)
=============================================================================
