--------------------------- MODULE MCActionLayer ---------------------------
(* ActionLayer on a tree of three or four paths.  The temporary names 0 and  *)
(* 9 sort before and after every path of the tree, as the name of a          *)
(* temporary sibling can do with the paths of other directories.             *)
EXTENDS ActionLayer, TLC

CONSTANTS i1, i2, i3, i4, i5, c1, c2

MCDepth == [p \in Path |-> IF p = 2 THEN 1 ELSE 2]
Symmetric == Permutations(Inode) \cup Permutations(Content)
=============================================================================
