---------------------------- MODULE MCFolderPass ----------------------------
(* FolderPass on small trees.  A name is a number; 9 is a file name.          *)
EXTENDS FolderPass

CONSTANTS i1, i2, i3, i4, i5, c1, c2

Symmetric == Permutations(Inode) \cup Permutations(Content)

\* Two folders with two files each, and a loose file.
FlatParts == [p \in Path |-> <<<<1, 8>>, <<1, 9>>, <<2, 8>>, <<2, 9>>, <<9>>>>[p]]

\* A folder in a folder, and one next to it.
NestedParts == [p \in Path |-> <<<<1, 1, 9>>, <<1, 9>>, <<2, 1, 9>>, <<2, 9>>, <<3, 9>>>>[p]]

\* A folder in a folder, and one with two files next to it.
TwoLevelParts == [p \in Path |-> <<<<1, 1, 9>>, <<1, 9>>, <<2, 8>>, <<2, 9>>>>[p]]

MCMTime == [i \in Inode |-> 0]
MCDepth == [p \in Path |-> Len(Parts[p])]
=============================================================================
