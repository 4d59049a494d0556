----------------------------- MODULE Perceptual -----------------------------
(***************************************************************************)
(* The clusters of similar images (rusty_fclone-core/src/perceptual.rs):   *)
(* union-find over all pairs of images whose hashes are close, in the      *)
(* order the traversal has found them.  A hash is the set of its one bits, *)
(* hashed a sequence of records [path, hash].                              *)
(***************************************************************************)
EXTENDS Naturals, FiniteSets, SequencesExt

hamming_distance(a, b) == Cardinality((a \ b) \cup (b \ a))

\* The root of i.  That find shortens the way to it changes no root.
Find(parent, i) ==
    LET find[x \in DOMAIN parent] == IF parent[x] = x THEN x ELSE find[parent[x]]
    IN  find[i]

\* Mutant: an image is moved to the other's parent, its own cluster left behind.
JoinOne(parent, i, j) == [parent EXCEPT ![i] = Find(parent, j)]

Join(parent, i, j) == [parent EXCEPT ![Find(parent, i)] = Find(parent, j)]

Distance(hashed, i, j) == hamming_distance(hashed[i].hash, hashed[j].hash)

\* The inner loop of cluster: the image i with each one after it.
JoinLater(hashed, max_distance, parent, i) ==
    LET joined[j \in i..Len(hashed)] ==
          IF j = i THEN parent
          ELSE IF Distance(hashed, i, j) <= max_distance THEN Join(joined[j - 1], i, j)
          ELSE joined[j - 1]
    IN  joined[Len(hashed)]

\* The outer loop.  At first each image is its own parent.
Joined(hashed, max_distance) ==
    LET joined[i \in 0..Len(hashed)] ==
          IF i = 0 THEN [k \in DOMAIN hashed |-> k]
          ELSE JoinLater(hashed, max_distance, joined[i - 1], i)
    IN  joined[Len(hashed)]

\* cluster: the groups of two or more, with the largest distance in each.
Cluster(hashed, max_distance) ==
    LET parent == Joined(hashed, max_distance)
        members == {{i \in DOMAIN hashed : Find(parent, i) = r} : r \in DOMAIN hashed}
    IN  {[paths |-> {hashed[i].path : i \in m},
          max_distance |-> Max({Distance(hashed, i, j) : i, j \in m})] :
         m \in {n \in members : Cardinality(n) >= 2}}
-----------------------------------------------------------------------------
(* What it computes: the smallest sets of images that are closed under     *)
(* closeness.  SimilarGroup promises more, that every pair of a group is   *)
(* within the distance, which a chain of three images need not be.         *)

Connected(images, max_distance) ==
    LET Apart(r, s) == hamming_distance(r.hash, s.hash)
        Closed(S) == \A r \in S, s \in images : Apart(r, s) <= max_distance => s \in S
        parts == {S \in SUBSET images : /\ Cardinality(S) >= 2 /\ Closed(S)
                                       /\ \A T \in (SUBSET S) \ {{}, S} : ~Closed(T)}
    IN  {[paths |-> {s.path : s \in S},
          max_distance |-> Max({Apart(s, t) : s, t \in S})] : S \in parts}
=============================================================================
