--------------------------- MODULE MCScanPipeline ---------------------------
(* ScanPipeline on three files.  "none" is the empty content, s1 is small    *)
(* and the others have one size; t1, t2 and t3 have one sample, t2 and t3    *)
(* one hash.                                                                 *)
EXTENDS ScanPipeline, TLC

CONSTANTS f1, f2, f3, none, s1, t1, t2, t3, t4

MCSize == [c \in Content |-> IF c = none THEN 0 ELSE IF c = s1 THEN 1 ELSE 2]
MCSample == [c \in Content |-> IF c \in {t2, t3} THEN t1 ELSE c]
MCHash == [c \in Content |-> IF c = t3 THEN t2 ELSE c]

\* The trees of some contents, one of each set that differ in names only: in
\* those of files, and in those of two contents a and b that are alike.
Rank == NoFile :> 0 @@ none :> 1 @@ s1 :> 2 @@ t1 :> 3 @@ t2 :> 4 @@ t3 :> 5 @@ t4 :> 6
Trees(contents) ==
    {tree \in [File -> contents] :
        /\ Rank[tree[f1]] <= Rank[tree[f2]]
        /\ Rank[tree[f2]] <= Rank[tree[f3]]}
Alike(a, b, trees) ==
    {tree \in trees : Cardinality({f \in File : tree[f] = a})
                        >= Cardinality({f \in File : tree[f] = b})}

MCSetups ==
    {[contents |-> {t1, t2}, trees |-> Alike(t1, t2, Trees({t1, t2, NoFile})),
      verify |-> FALSE, imports |-> FALSE, renames |-> FALSE, scans |-> 2],
     [contents |-> {none, s1, t1, t4}, trees |-> Trees({none, s1, t1, t4, NoFile}),
      verify |-> FALSE, imports |-> TRUE, renames |-> FALSE, scans |-> 1],
     [contents |-> {t2, t3}, trees |-> Alike(t2, t3, Trees({t2, t3, NoFile})),
      verify |-> TRUE, imports |-> FALSE, renames |-> TRUE, scans |-> 1]}
=============================================================================
