--------------------------- MODULE DedupContract ---------------------------
(***************************************************************************)
(* What every action of the program promises about the user's tree, seen   *)
(* as a map from paths to contents: a copy disappears only while another   *)
(* path still holds the same content, nothing under a reference folder     *)
(* ever changes, and the only new names are the hidden temporary siblings  *)
(* that action.rs links or clones into before it renames them over a       *)
(* redundant copy.  ActionLayer is shown to implement this specification.  *)
(***************************************************************************)
CONSTANTS Path,       \* the names of the scanned tree
          TmpName,    \* those of them that tmp_sibling can produce
          Protected,  \* those of them that lie under a reference folder
          Content,    \* the file contents the tree can hold
          Stub,       \* the contents of a file whose writing has not finished
          None        \* there is no file at this path

VARIABLE tree

Valid == tree \in [Path -> Content \cup {Stub, None}]

Init == Valid /\ \A t \in TmpName : tree[t] = None

\* A redundant copy goes away; another path holds what it held.  Renaming a
\* temporary sibling over a copy of the same content is such a step too: it
\* is the temporary name that disappears.
Drop(p) ==
    /\ tree[p] # None
    /\ p \notin Protected
    /\ \E q \in Path \ {p} : tree[q] = tree[p]
    /\ tree' = [tree EXCEPT ![p] = None]

\* A temporary sibling appears, as a stub or already as a copy of a file.
Stage(t) ==
    /\ tree[t] = None
    /\ \E c \in {Stub} \cup {tree[q] : q \in Path} :
          /\ c # None
          /\ tree' = [tree EXCEPT ![t] = c]

\* A stub receives the content of a file of the tree, or is removed again.
Settle(t) ==
    /\ tree[t] = Stub
    /\ \E c \in {None} \cup {tree[q] : q \in Path} :
          tree' = [tree EXCEPT ![t] = c]

Next == \/ \E p \in Path : Drop(p)
        \/ \E t \in TmpName : Stage(t) \/ Settle(t)

Spec == Init /\ [][Next]_tree
=============================================================================
