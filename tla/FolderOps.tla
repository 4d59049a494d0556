----------------------------- MODULE FolderOps -----------------------------
(***************************************************************************)
(* The pure half of folder-level deduplication: what find_folder_duplicates*)
(* (folder_dedup.rs) concludes from a listing of the tree and the groups a *)
(* scan reported, and what the CLI makes of a match (folder_match_pairs).  *)
(*                                                                         *)
(* A directory is the sequence of the names that lead to it, the scan root *)
(* being the empty one; Parts gives those of a file.  Path numbers follow  *)
(* the sorted order of the files, as in ActionOps.                         *)
(***************************************************************************)
EXTENDS ActionOps, SequencesExt

CONSTANT Parts  \* the components of each path below the scan root

\* A scan is of some files, and no name is in two places or leads below a file.
ASSUME PartsAssumption ==
    /\ IsFiniteSet(Path) /\ Path # {}
    /\ Parts \in [Path -> Seq(Nat) \ {<<>>}]
    /\ \A p, q \in Path : IsPrefix(Parts[p], Parts[q]) => p = q

Dirs == UNION {{SubSeq(Parts[p], 1, n) : n \in 0..(Len(Parts[p]) - 1)} : p \in Path}
Parent(p) == Front(Parts[p])
Files(S, dir) == {p \in S : IsPrefix(dir, Parts[p])}
Relative(p, dir) == SubSeq(Parts[p], Len(dir) + 1, Len(Parts[p]))

\* Component-wise order of two directories.
DirBefore(d, e) ==
    \/ IsStrictPrefix(d, e)
    \/ \E i \in DOMAIN d \cap DOMAIN e :
          d[i] < e[i] /\ \A j \in 1..(i - 1) : d[j] = e[j]
DirsInOrder(S) ==
    CHOOSE s \in [1..Cardinality(S) -> S] :
       \A i, j \in 1..Cardinality(S) : i < j => DirBefore(s[i], s[j])
FirstDir(S) == DirsInOrder(S)[1]

\* The group a file was reported in.
GroupOf(groups, p) == CHOOSE g \in groups : p \in g

\* Directories that hold files, all of which have a duplicate somewhere.
FullyDuplicated(listing, groups, dir) ==
    Files(listing, dir) # {} /\ Files(listing, dir) \subseteq UNION groups

\* signature_of: every file of the subtree with the group it was reported in.
Signature(listing, groups, dir) ==
    {<<Relative(p, dir), GroupOf(groups, p)>> :
       p \in Files(listing, dir) \cap UNION groups}

\* find_supersets: the other directories in which every entry of the signature
\* has a duplicate at the same relative path.
Supersets(dir, signature) ==
    {base \in Dirs \ {dir} :
       \A entry \in signature :
          \E p \in entry[2] : Parts[p] = base \o entry[1]}

\* is_or_is_descendant_of_claimed
Claimed(dir, claimed) == \E c \in claimed : IsPrefix(c, dir)

Exact(folders) == [type |-> "exact", folders |-> folders]
Contained(subset, superset) ==
    [type |-> "contained", subset |-> subset, superset |-> superset]
Matches == {Exact(F) : F \in SUBSET Dirs}
           \cup {Contained(d, e) : d \in Dirs, e \in Dirs}

Pair(removed, kept) == [removed |-> removed, kept |-> kept]

\* The folder pairs to act on when the folder `kept` of an exact match stays.
PairsKeeping(match, kept) ==
    IF match.type = "contained" THEN {Pair(match.subset, match.superset)}
    ELSE {Pair(d, kept) : d \in match.folders \ {kept}}

\* folder_match_pairs: an exact match keeps its first folder.
MatchPairs(match) ==
    PairsKeeping(match, IF match.type = "contained" THEN match.superset
                        ELSE FirstDir(match.folders))

\* folder_match_roots and group_fully_covered_by
Roots(matches) ==
    UNION {IF m.type = "contained" THEN {m.subset, m.superset} ELSE m.folders :
             m \in matches}
FullyCovered(group, roots) ==
    \A p \in group : \E r \in roots : IsPrefix(r, Parts[p])

\* The path of a file's expected partner, if the tree can hold one there.
Partner(p, removed, kept) ==
    {q \in Path : Parts[q] = kept \o Relative(p, removed)}
=============================================================================
