-------------------------- MODULE FolderPassProofs --------------------------
(***************************************************************************)
(* What acting on duplicate folders does to the tree (FolderPass): for     *)
(* every tree, every choice of the user and every order in which the       *)
(* finder examines directories.                                            *)
(***************************************************************************)
EXTENDS FolderPass, FiniteSetTheorems, SequenceTheorems,
        NaturalsInduction, WellFoundedInduction, TLAPS

USE PathAssumption, NoFileAssumption
-----------------------------------------------------------------------------
(* Paths.                                                                  *)

Dir == Seq(Nat)

LEMMA PrefixElements ==
  ASSUME NEW s \in Dir, NEW t \in Dir
  PROVE  IsPrefix(s, t) <=> Len(s) <= Len(t) /\ \A i \in 1..Len(s) : s[i] = t[i]
<1>1. Len(s) \in Nat /\ Len(t) \in Nat
  BY DEF Dir
<1>2. ASSUME Len(s) <= Len(t), \A i \in 1..Len(s) : s[i] = t[i]
      PROVE  SubSeq(s, 1, Len(s)) = SubSeq(t, 1, Len(s))
  BY <1>1, <1>2 DEF Dir
<1>3. ASSUME Len(s) <= Len(t), SubSeq(s, 1, Len(s)) = SubSeq(t, 1, Len(s)), NEW i \in 1..Len(s)
      PROVE  s[i] = t[i]
  <2>1. SubSeq(s, 1, Len(s))[i] = s[i] /\ SubSeq(t, 1, Len(s))[i] = t[i]
    BY <1>1, <1>3 DEF Dir
  <2> QED
    BY <1>3, <2>1
<1> QED
  BY <1>2, <1>3 DEF IsPrefix

LEMMA PathParts ==
  ASSUME NEW p \in Path
  PROVE  Parts[p] \in Dir /\ Parts[p] # <<>> /\ Len(Parts[p]) \in Nat \ {0}
BY PartsAssumption DEF Dir

LEMMA DirsFacts ==
  /\ Dirs \subseteq Dir /\ IsFiniteSet(Dirs) /\ <<>> \in Dirs
  /\ \A p \in Path : /\ Parent(p) \in Dirs
                     /\ \A d \in Dir : IsPrefix(d, Parent(p)) => IsPrefix(d, Parts[p])
<1> DEFINE Above(p) == {SubSeq(Parts[p], 1, n) : n \in 0..(Len(Parts[p]) - 1)}
<1>1. ASSUME NEW p \in Path PROVE Above(p) \subseteq Dir /\ IsFiniteSet(Above(p))
  <2>1. \A n \in 0..(Len(Parts[p]) - 1) : SubSeq(Parts[p], 1, n) \in Dir
    BY PathParts DEF Dir
  <2> DEFINE f == [n \in 0..(Len(Parts[p]) - 1) |-> SubSeq(Parts[p], 1, n)]
  <2>2. f \in Surjection(0..(Len(Parts[p]) - 1), Above(p))
    BY DEF Surjection
  <2> HIDE DEF f
  <2>3. IsFiniteSet(0..(Len(Parts[p]) - 1))
    <3>1. \A a, b \in Int : IsFiniteSet(a..b)
      BY FS_Interval
    <3> QED
      BY <3>1, PathParts
  <2>4. IsFiniteSet(Above(p))
    BY ONLY <2>2, <2>3, FS_Surjection
  <2> QED
    BY <2>1, <2>4
<1>2. Dirs = UNION {Above(p) : p \in Path}
  BY DEF Dirs
<1> HIDE DEF Above
<1>3. Dirs \subseteq Dir
  BY <1>1, <1>2
<1>4. IsFiniteSet(Dirs)
  <2> DEFINE f == [p \in Path |-> Above(p)]
             All == {Above(p) : p \in Path}
  <2>1. f \in Surjection(Path, All)
    BY DEF Surjection
  <2> HIDE DEF f
  <2>2. IsFiniteSet(All)
    BY <2>1, FS_Surjection, PartsAssumption
  <2>3. \A T \in All : IsFiniteSet(T)
    BY <1>1
  <2> HIDE DEF All
  <2>4. IsFiniteSet(UNION All)
    BY <2>2, <2>3, FS_UNION
  <2> QED
    BY <1>2, <2>4 DEF All
<1>5. <<>> \in Dirs
  <2>1. PICK p \in Path : TRUE
    BY PartsAssumption
  <2>2. SubSeq(Parts[p], 1, 0) = <<>> /\ 0 \in 0..(Len(Parts[p]) - 1)
    <3>1. Parts[p] \in Seq(Nat) /\ Len(Parts[p]) \in Nat \ {0}
      BY PathParts DEF Dir
    <3>2. \A s \in Seq(Nat) : SubSeq(s, 1, 0) = <<>>
      OBVIOUS
    <3>3. \A n \in Nat \ {0} : 0 \in 0..(n - 1)
      OBVIOUS
    <3> QED
      BY <3>1, <3>2, <3>3, Zenon
  <2>3. <<>> \in Above(p)
    BY <2>2 DEF Above
  <2> QED
    BY <1>2, <2>3
<1>6. ASSUME NEW p \in Path
      PROVE  /\ Parent(p) \in Dirs
             /\ \A d \in Dir : IsPrefix(d, Parent(p)) => IsPrefix(d, Parts[p])
  <2>1. Parts[p] \in Dir /\ Len(Parts[p]) \in Nat \ {0}
    BY PathParts
  <2>2. Parent(p) = SubSeq(Parts[p], 1, Len(Parts[p]) - 1)
    BY DEF Parent, Front
  <2>3. Parent(p) \in Above(p)
    <3>1. Len(Parts[p]) - 1 \in 0..(Len(Parts[p]) - 1)
      BY <2>1
    <3> QED
      BY <2>2, <3>1, Zenon DEF Above
  <2>4. /\ Parent(p) \in Dir /\ Len(Parent(p)) = Len(Parts[p]) - 1
        /\ \A i \in 1..Len(Parent(p)) : Parent(p)[i] = Parts[p][i]
    <3> DEFINE s == Parts[p]
               n == Len(s) - 1
    <3>1. n \in Nat /\ \A i \in 1..n : s[i] \in Nat
      BY <2>1 DEF Dir
    <3> HIDE DEF s
    <3>2. /\ SubSeq(s, 1, n) \in Seq(Nat)
          /\ Len(SubSeq(s, 1, n)) = IF 1 <= n THEN n - 1 + 1 ELSE 0
          /\ \A i \in 1..(n - 1 + 1) : SubSeq(s, 1, n)[i] = s[1 + i - 1]
      <4> HIDE DEF n
      <4>1. 1 \in Int /\ n \in Int
        BY <3>1
      <4> QED
        BY ONLY <3>1, <4>1, SubSeqProperties
    <3>3. Len(SubSeq(s, 1, n)) = n /\ \A i \in 1..n : SubSeq(s, 1, n)[i] = s[i]
      <4> HIDE DEF n
      <4> QED
        BY <3>1, <3>2
    <3> QED
      BY <2>2, <3>2, <3>3 DEF s, Dir
  <2>5. ASSUME NEW d \in Dir, IsPrefix(d, Parent(p)) PROVE IsPrefix(d, Parts[p])
    <3>1. Len(d) <= Len(Parent(p)) /\ \A i \in 1..Len(d) : d[i] = Parent(p)[i]
      BY <2>4, <2>5, PrefixElements
    <3>2. Len(d) \in Nat
      BY DEF Dir
    <3>3. Len(d) <= Len(Parts[p]) /\ \A i \in 1..Len(d) : d[i] = Parts[p][i]
      BY <2>1, <2>4, <3>1, <3>2
    <3> QED
      BY <2>1, <3>3, PrefixElements
  <2> QED
    BY <1>2, <2>3, <2>5
<1> QED
  BY <1>3, <1>4, <1>5, <1>6

\* A file of a directory is where the directory and its relative path say.
LEMMA RelativeFacts ==
  ASSUME NEW d \in Dir, NEW p \in Files(Path, d)
  PROVE  /\ Relative(p, d) \in Dir
         /\ Parts[p] = d \o Relative(p, d)
         /\ Len(Relative(p, d)) = Len(Parts[p]) - Len(d)
<1>1. p \in Path /\ IsPrefix(d, Parts[p])
  BY DEF Files
<1>2. Parts[p] \in Dir /\ Len(Parts[p]) \in Nat /\ Len(d) \in Nat
  BY <1>1, PathParts DEF Dir
<1>3. Len(d) <= Len(Parts[p]) /\ \A i \in 1..Len(d) : d[i] = Parts[p][i]
  BY <1>1, <1>2, PrefixElements
<1> DEFINE r == Relative(p, d)
<1>4. /\ r \in Dir /\ Len(r) = Len(Parts[p]) - Len(d)
      /\ \A i \in 1..Len(r) : r[i] = Parts[p][Len(d) + i]
  <2> DEFINE s == Parts[p]
             m == Len(d) + 1
             n == Len(Parts[p])
  <2>1. s \in Seq(Nat) /\ m \in Int /\ n \in Int /\ m \in 1..(n + 1) /\ n - m + 1 = n - Len(d)
    BY ONLY <1>2, <1>3 DEF Dir
  <2>2. \A i \in m..n : s[i] \in Nat
    BY ONLY <1>2, <1>3 DEF Dir
  <2>3. r = SubSeq(s, m, n)
    BY DEF Relative
  <2>4. /\ SubSeq(s, m, n) \in Seq(Nat)
        /\ Len(SubSeq(s, m, n)) = IF m <= n THEN n - m + 1 ELSE 0
        /\ \A i \in 1..(n - m + 1) : SubSeq(s, m, n)[i] = s[m + i - 1]
    <3> HIDE DEF s, m, n
    <3> QED
      BY ONLY <2>1, <2>2, SubSeqProperties
  <2>5. Len(r) = n - Len(d)
    BY ONLY <1>2, <2>1, <2>3, <2>4
  <2>6. ASSUME NEW i \in 1..Len(r) PROVE r[i] = Parts[p][Len(d) + i]
    <3>1. i \in 1..(n - m + 1) /\ m + i - 1 = Len(d) + i
      BY ONLY <1>2, <2>1, <2>5, <2>6
    <3> QED
      BY ONLY <2>3, <2>4, <3>1
  <2> QED
    BY ONLY <2>3, <2>4, <2>5, <2>6 DEF Dir
<1> HIDE DEF r
<1>5. /\ d \o r \in Dir /\ Len(d \o r) = Len(Parts[p])
      /\ \A i \in 1..Len(Parts[p]) : (d \o r)[i] = Parts[p][i]
  <2>1. d \o r \in Dir /\ Len(d \o r) = Len(d) + Len(r)
    BY <1>4 DEF Dir
  <2>2. \A i \in 1..(Len(d) + Len(r)) :
           (d \o r)[i] = IF i <= Len(d) THEN d[i] ELSE r[i - Len(d)]
    BY <1>4, ConcatProperties DEF Dir
  <2>3. Len(d) + Len(r) = Len(Parts[p])
    BY <1>2, <1>4
  <2>4. ASSUME NEW i \in 1..Len(Parts[p]) PROVE (d \o r)[i] = Parts[p][i]
    <3>1. CASE i <= Len(d)
      BY <1>2, <1>3, <2>2, <2>3, <3>1
    <3>2. CASE ~(i <= Len(d))
      <4>1. i - Len(d) \in 1..Len(r) /\ Len(d) + (i - Len(d)) = i
        BY <1>2, <1>4, <2>3, <3>2
      <4> QED
        BY <1>4, <2>2, <2>3, <3>2, <4>1
    <3> QED
      BY <3>1, <3>2
  <2> QED
    BY <2>1, <2>3, <2>4
<1>6. Parts[p] = d \o r
  BY <1>2, <1>5, SeqEqual DEF Dir
<1> QED
  BY <1>4, <1>6 DEF r

LEMMA RelativeUnique ==
  ASSUME NEW d \in Dir, NEW r \in Dir, NEW p \in Path, Parts[p] = d \o r
  PROVE  IsPrefix(d, Parts[p]) /\ Relative(p, d) = r /\ Len(Parts[p]) = Len(d) + Len(r)
<1>1. Parts[p] \in Dir /\ Len(Parts[p]) \in Nat /\ Len(d) \in Nat /\ Len(r) \in Nat
  BY PathParts DEF Dir
<1>2. /\ Len(Parts[p]) = Len(d) + Len(r)
      /\ \A i \in 1..(Len(d) + Len(r)) :
            Parts[p][i] = IF i <= Len(d) THEN d[i] ELSE r[i - Len(d)]
  BY ConcatProperties DEF Dir
<1>3. IsPrefix(d, Parts[p])
  <2>1. Len(d) <= Len(Parts[p]) /\ \A i \in 1..Len(d) : d[i] = Parts[p][i]
    BY <1>1, <1>2
  <2> QED
    BY <1>1, <2>1, PrefixElements
<1>4. Relative(p, d) = r
  <2>1. p \in Files(Path, d)
    BY <1>3 DEF Files
  <2>2. Relative(p, d) \in Dir /\ Len(Relative(p, d)) = Len(r)
    BY <1>1, <1>2, <2>1, RelativeFacts
  <2>3. \A i \in 1..Len(r) : Relative(p, d)[i] = Parts[p][Len(d) + i]
    <3> DEFINE s == Parts[p]
               m == Len(d) + 1
               n == Len(s)
    <3>1. m \in Int /\ n \in Int /\ \A i \in m..n : s[i] \in Nat
      <4>1. \A i \in m..n : i \in 1..Len(Parts[p])
        BY <1>1
      <4> QED
        BY <1>1, <4>1 DEF Dir
    <3>2. n = Len(d) + Len(r)
      BY <1>2
    <3> HIDE DEF s, n
    <3>3. \A i \in 1..(n - m + 1) : SubSeq(s, m, n)[i] = s[m + i - 1]
      <4> HIDE DEF m
      <4> QED
        BY ONLY <3>1, SubSeqProperties
    <3>4. ASSUME NEW i \in 1..Len(r) PROVE SubSeq(s, m, n)[i] = s[Len(d) + i]
      <4>1. i \in 1..(n - m + 1) /\ m + i - 1 = Len(d) + i
        BY <1>1, <3>1, <3>2
      <4> QED
        BY <3>3, <4>1
    <3> QED
      BY <3>4 DEF Relative, s, n
  <2>4. \A i \in 1..Len(r) : Relative(p, d)[i] = r[i]
    <3> SUFFICES ASSUME NEW i \in 1..Len(r) PROVE Relative(p, d)[i] = r[i]
      OBVIOUS
    <3>1. Len(d) + i \in 1..(Len(d) + Len(r)) /\ ~(Len(d) + i <= Len(d)) /\ (Len(d) + i) - Len(d) = i
      BY <1>1
    <3> QED
      BY <1>2, <2>3, <3>1
  <2> QED
    BY <2>2, <2>4, SeqEqual DEF Dir
<1> QED
  BY <1>2, <1>3, <1>4
-----------------------------------------------------------------------------
(* The order of directories is total; a finite set of them has one list.   *)

LEMMA LeastNumber ==
  ASSUME NEW T \in SUBSET Nat, T # {}
  PROVE  \E m \in T : \A x \in T : m <= x
<1> DEFINE Less == {pair \in Nat \X Nat : pair[1] < pair[2]}
<1>1. IsWellFoundedOn(Less, Nat)
  BY NatLessThanWellFounded DEF OpToRel
<1>2. \A x, y \in Nat : x < y => <<x, y>> \in Less
  BY SMT
<1> HIDE DEF Less
<1>3. T \subseteq Nat
  OBVIOUS
<1>4. \E m \in T : \A x \in T : ~(<<x, m>> \in Less)
  BY ONLY <1>1, <1>3, T # {}, WFMin
<1>5. PICK m \in T : \A x \in T : ~(<<x, m>> \in Less)
  BY <1>4
<1>6. \A x \in T : m <= x
  <2> SUFFICES ASSUME NEW x \in T, x < m PROVE FALSE
    BY <1>3, <1>5
  <2>1. x \in Nat /\ m \in Nat
    BY <1>3, <1>5
  <2> QED
    BY <2>1, <1>2, <1>5, Zenon
<1> QED
  BY <1>6

\* Two directories agree on their first n names and the first is smaller next.
SplitAt(d, e, n) ==
  /\ n <= Len(d) /\ n < Len(e)
  /\ \A j \in 1..n : d[j] = e[j]
  /\ n < Len(d) => d[n + 1] < e[n + 1]

LEMMA BeforeSplit ==
  ASSUME NEW d \in Dir, NEW e \in Dir
  PROVE  DirBefore(d, e) <=> \E n \in Nat : SplitAt(d, e, n)
<1>1. Len(d) \in Nat /\ Len(e) \in Nat
  BY DEF Dir
<1>0. DOMAIN d = 1..Len(d) /\ DOMAIN e = 1..Len(e)
  BY DEF Dir
<1>2. ASSUME IsStrictPrefix(d, e) PROVE SplitAt(d, e, Len(d))
  <2>1. Len(d) <= Len(e) /\ \A i \in 1..Len(d) : d[i] = e[i]
    BY <1>2, PrefixElements DEF IsStrictPrefix
  <2>2. Len(d) # Len(e)
    BY <1>2, <2>1, SeqEqual DEF IsStrictPrefix, Dir
  <2> QED
    BY <1>1, <2>1, <2>2 DEF SplitAt
<1>3. ASSUME NEW i \in DOMAIN d \cap DOMAIN e, d[i] < e[i], \A j \in 1..(i - 1) : d[j] = e[j]
      PROVE  i - 1 \in Nat /\ SplitAt(d, e, i - 1)
  BY <1>0, <1>1, <1>3 DEF SplitAt
<1>4. ASSUME NEW n \in Nat, SplitAt(d, e, n) PROVE DirBefore(d, e)
  <2>1. CASE n = Len(d)
    <3>1. IsPrefix(d, e)
      BY <1>1, <1>4, <2>1, PrefixElements DEF SplitAt
    <3>2. d # e
      BY <1>1, <1>4, <2>1 DEF SplitAt
    <3> QED
      BY <3>1, <3>2 DEF DirBefore, IsStrictPrefix
  <2>2. CASE n # Len(d)
    <3>1. n + 1 \in DOMAIN d \cap DOMAIN e /\ d[n + 1] < e[n + 1]
      <4>1. n < Len(d) /\ n < Len(e) /\ d[n + 1] < e[n + 1]
        BY <1>1, <1>4, <2>2 DEF SplitAt
      <4>2. n + 1 \in 1..Len(d) /\ n + 1 \in 1..Len(e)
        BY <1>1, <4>1
      <4> QED
        BY <1>0, <4>1, <4>2
    <3>2. \A j \in 1..((n + 1) - 1) : d[j] = e[j]
      BY <1>4 DEF SplitAt
    <3> QED
      BY <3>1, <3>2 DEF DirBefore
  <2> QED
    BY <2>1, <2>2
<1> QED
  BY <1>1, <1>2, <1>3, <1>4, Zenon DEF DirBefore

LEMMA BeforeTransitive ==
  ASSUME NEW d \in Dir, NEW e \in Dir, NEW f \in Dir, DirBefore(d, e), DirBefore(e, f)
  PROVE  DirBefore(d, f)
<1>1. /\ Len(d) \in Nat /\ Len(e) \in Nat /\ Len(f) \in Nat
      /\ \A i \in 1..Len(d) : d[i] \in Nat
      /\ \A i \in 1..Len(e) : e[i] \in Nat
      /\ \A i \in 1..Len(f) : f[i] \in Nat
  BY DEF Dir
<1>2. PICK n \in Nat : SplitAt(d, e, n)
  BY BeforeSplit
<1>3. PICK m \in Nat : SplitAt(e, f, m)
  BY BeforeSplit
<1>4. CASE n < m
  <2>1. n + 1 \in 1..m /\ e[n + 1] = f[n + 1]
    BY <1>3, <1>4 DEF SplitAt
  <2>2. \A j \in 1..n : d[j] = f[j]
    BY <1>2, <1>3, <1>4 DEF SplitAt
  <2>3. SplitAt(d, f, n)
    BY <1>1, <1>2, <1>3, <1>4, <2>1, <2>2 DEF SplitAt
  <2> QED
    BY <2>3, BeforeSplit
<1>5. CASE m < n
  <2>1. m + 1 \in 1..n /\ d[m + 1] = e[m + 1]
    BY <1>2, <1>5 DEF SplitAt
  <2>2. \A j \in 1..m : d[j] = f[j]
    BY <1>2, <1>3, <1>5 DEF SplitAt
  <2>3. m < Len(e) /\ m < Len(d)
    BY <1>1, <1>2, <1>5 DEF SplitAt
  <2>4. SplitAt(d, f, m)
    BY <1>1, <1>3, <1>5, <2>1, <2>2, <2>3 DEF SplitAt
  <2> QED
    BY <2>4, BeforeSplit
<1>6. CASE m = n
  <2>1. \A j \in 1..n : d[j] = f[j]
    BY <1>2, <1>3, <1>6 DEF SplitAt
  <2>2. n < Len(e) /\ n < Len(f) /\ n <= Len(d) /\ e[n + 1] < f[n + 1]
    BY <1>2, <1>3, <1>6 DEF SplitAt
  <2>3. ASSUME n < Len(d) PROVE d[n + 1] < f[n + 1]
    <3>1. d[n + 1] < e[n + 1]
      BY <1>2, <2>3 DEF SplitAt
    <3>2. d[n + 1] \in Nat /\ e[n + 1] \in Nat /\ f[n + 1] \in Nat
      BY <1>1, <2>2, <2>3
    <3> QED
      BY <2>2, <3>1, <3>2
  <2>4. SplitAt(d, f, n)
    BY <2>1, <2>2, <2>3 DEF SplitAt
  <2> QED
    BY <2>4, BeforeSplit
<1> QED
  BY <1>4, <1>5, <1>6

LEMMA BeforeTotal ==
  ASSUME NEW d \in Dir, NEW e \in Dir
  PROVE  /\ ~DirBefore(d, d)
         /\ d # e => DirBefore(d, e) \/ DirBefore(e, d)
<1>1. /\ Len(d) \in Nat /\ Len(e) \in Nat
      /\ \A i \in 1..Len(d) : d[i] \in Nat
      /\ \A i \in 1..Len(e) : e[i] \in Nat
  BY DEF Dir
<1>2. ~DirBefore(d, d)
  <2> SUFFICES ASSUME NEW n \in Nat, SplitAt(d, d, n) PROVE FALSE
    BY BeforeSplit
  <2>1. n < Len(d) /\ d[n + 1] < d[n + 1]
    BY DEF SplitAt
  <2>2. d[n + 1] \in Nat
    BY <1>1, <2>1
  <2> QED
    BY <2>1, <2>2
<1>3. ASSUME d # e PROVE DirBefore(d, e) \/ DirBefore(e, d)
  <2> DEFINE Same(i) == i < Len(d) /\ i < Len(e) /\ d[i + 1] = e[i + 1]
             Differ == {i \in Nat : ~Same(i)}
  <2>1. Len(d) \in Differ
    BY <1>1
  <2>2. PICK n \in Differ : \A x \in Differ : n <= x
    BY <2>1, LeastNumber
  <2>3. n \in Nat /\ ~Same(n)
    BY <2>2
  <2>4. ASSUME NEW j \in 1..n PROVE j <= Len(d) /\ j <= Len(e) /\ d[j] = e[j]
    <3>1. j - 1 \in Nat /\ j - 1 < n /\ (j - 1) + 1 = j
      BY <2>3
    <3>2. j - 1 \notin Differ
      <4>1. j - 1 \in Differ => n <= j - 1
        BY <2>2, Zenon
      <4> HIDE DEF Differ
      <4> QED
        BY <2>3, <3>1, <4>1
    <3>3. Same(j - 1)
      BY <3>1, <3>2
    <3> QED
      BY <1>1, <2>3, <3>1, <3>3
  <2>5. n <= Len(d) /\ n <= Len(e)
    <3>1. CASE n = 0
      BY <1>1, <3>1
    <3>2. CASE n # 0
      <4>1. n \in 1..n
        BY <2>3, <3>2
      <4> QED
        BY <2>4, <4>1
    <3> QED
      BY <3>1, <3>2
  <2>6. ~(n = Len(d) /\ n = Len(e))
    BY <1>3, <2>4, SeqEqual DEF Dir
  <2>7. CASE n = Len(d)
    <3>1. SplitAt(d, e, n)
      BY <1>1, <2>3, <2>4, <2>5, <2>6, <2>7 DEF SplitAt
    <3> QED
      BY <2>3, <3>1, BeforeSplit
  <2>8. CASE n = Len(e)
    <3>1. SplitAt(e, d, n)
      BY <1>1, <2>3, <2>4, <2>5, <2>6, <2>8 DEF SplitAt
    <3> QED
      BY <2>3, <3>1, BeforeSplit
  <2>9. CASE n # Len(d) /\ n # Len(e)
    <3>1. n < Len(d) /\ n < Len(e) /\ d[n + 1] # e[n + 1]
      BY <1>1, <2>3, <2>5, <2>9
    <3>2. d[n + 1] \in Nat /\ e[n + 1] \in Nat
      BY <1>1, <2>3, <3>1
    <3>3. CASE d[n + 1] < e[n + 1]
      <4>1. SplitAt(d, e, n)
        BY <2>4, <3>1, <3>3 DEF SplitAt
      <4> QED
        BY <2>3, <4>1, BeforeSplit
    <3>4. CASE e[n + 1] < d[n + 1]
      <4>1. SplitAt(e, d, n)
        BY <2>4, <3>1, <3>4 DEF SplitAt
      <4> QED
        BY <2>3, <4>1, BeforeSplit
    <3> QED
      BY <3>1, <3>2, <3>3, <3>4
  <2> QED
    BY <2>7, <2>8, <2>9
<1> QED
  BY <1>2, <1>3

Ascending(s, n) == \A i, j \in 1..n : i < j => DirBefore(s[i], s[j])

\* A finite set of directories has a first one.
LEMMA FirstExists ==
  ASSUME NEW S \in SUBSET Dir, IsFiniteSet(S), S # {}
  PROVE  \E d \in S : \A e \in S : e = d \/ DirBefore(d, e)
<1> DEFINE HasFirst(T) == \E d \in T : \A e \in T : e = d \/ DirBefore(d, e)
           Bad == {n \in Nat : \E T \in SUBSET Dir :
                     T # {} /\ IsFiniteSet(T) /\ Cardinality(T) = n /\ ~HasFirst(T)}
<1>1. ASSUME Bad # {} PROVE FALSE
  <2>1. PICK n \in Bad : \A x \in Bad : n <= x
    BY <1>1, LeastNumber
  <2>2. PICK T \in SUBSET Dir :
           T # {} /\ IsFiniteSet(T) /\ Cardinality(T) = n /\ ~HasFirst(T)
    BY <2>1
  <2>3. n \in Nat
    BY <2>1
  <2>4. PICK a \in T : TRUE
    BY <2>2
  <2> DEFINE U == T \ {a}
  <2>5. IsFiniteSet(U) /\ Cardinality(U) = n - 1
    BY <2>2, <2>4, FS_RemoveElement
  <2>6. n # 0
    BY <2>2, FS_EmptySet
  <2>7. n - 1 \in Nat /\ n - 1 \notin Bad
    BY <2>1, <2>3, <2>6, SMT
  <2>8. CASE U = {}
    BY <2>2, <2>4, <2>8
  <2>9. CASE U # {}
    <3>1. PICK b \in U : \A e \in U : e = b \/ DirBefore(b, e)
      BY <2>2, <2>5, <2>7, <2>9
    <3>2. a \in Dir /\ b \in Dir /\ a # b /\ b \in T /\ \A e \in T : e \in Dir /\ (e = a \/ e \in U)
      BY <2>2, <2>4, <3>1
    <3> HIDE DEF U
    <3>3. CASE DirBefore(a, b)
      <4>1. \A e \in T : e = a \/ DirBefore(a, e)
        BY <3>1, <3>2, <3>3, BeforeTransitive
      <4> QED
        BY <2>2, <2>4, <4>1
    <3>4. CASE DirBefore(b, a)
      <4>1. \A e \in T : e = b \/ DirBefore(b, e)
        BY <3>1, <3>2, <3>4
      <4> QED
        BY <2>2, <3>2, <4>1
    <3> QED
      BY <3>2, <3>3, <3>4, BeforeTotal
  <2> QED
    BY <2>8, <2>9
<1>2. Cardinality(S) \in Nat
  BY FS_CardinalityType
<1> QED
  BY <1>1, <1>2

LEMMA DirsListed ==
  ASSUME NEW S \in SUBSET Dir, IsFiniteSet(S)
  PROVE  \E s \in [1..Cardinality(S) -> S] : Ascending(s, Cardinality(S))
<1> DEFINE Listed(T, n) == \E s \in [1..n -> T] : Ascending(s, n)
           Bad == {n \in Nat : \E T \in SUBSET Dir :
                     IsFiniteSet(T) /\ Cardinality(T) = n /\ ~Listed(T, n)}
<1>1. ASSUME Bad # {} PROVE FALSE
  <2>1. PICK n \in Bad : \A x \in Bad : n <= x
    BY <1>1, LeastNumber
  <2>2. PICK T \in SUBSET Dir : IsFiniteSet(T) /\ Cardinality(T) = n /\ ~Listed(T, n)
    BY <2>1
  <2>3. n \in Nat
    BY <2>1
  <2>4. CASE T = {}
    <3>1. n = 0
      BY <2>2, <2>4, FS_EmptySet
    <3>2. 1..0 = {}
      OBVIOUS
    <3>3. [i \in {} |-> 0] \in [{} -> T]
      OBVIOUS
    <3>4. \A s : Ascending(s, 0)
      BY <3>2, Zenon DEF Ascending
    <3>5. \E s \in [1..0 -> T] : Ascending(s, 0)
      BY <3>2, <3>3, <3>4, Zenon
    <3>6. Listed(T, 0)
      BY <3>5
    <3> HIDE DEF Listed
    <3> QED
      BY <3>1, <3>6, <2>2
  <2>5. CASE T # {}
    <3>1. PICK m \in T : \A e \in T : e = m \/ DirBefore(m, e)
      BY <2>2, <2>5, FirstExists
    <3> DEFINE U == T \ {m}
    <3>2. IsFiniteSet(U) /\ Cardinality(U) = n - 1
      BY <2>2, <3>1, FS_RemoveElement
    <3>3. n # 0
      BY <2>2, <2>5, FS_EmptySet
    <3>4. n - 1 \in Nat /\ n - 1 \notin Bad
      BY <2>1, <2>3, <3>3, SMT
    <3>5. U \in SUBSET Dir
      BY <2>2
    <3>6. PICK t \in [1..(n - 1) -> U] : Ascending(t, n - 1)
      BY <3>2, <3>4, <3>5
    <3> DEFINE s == [i \in 1..n |-> IF i = 1 THEN m ELSE t[i - 1]]
    <3>7. \A i \in 1..n : i # 1 => i - 1 \in 1..(n - 1)
      BY <2>3
    <3>8. s \in [1..n -> T]
      BY <3>1, <3>6, <3>7
    <3>9. \A x \in U : DirBefore(m, x)
      BY <3>1
    <3>10. Ascending(s, n)
      <4> SUFFICES ASSUME NEW i \in 1..n, NEW j \in 1..n, i < j PROVE DirBefore(s[i], s[j])
        BY DEF Ascending
      <4>1. j # 1 /\ s[j] = t[j - 1] /\ t[j - 1] \in U
        BY <2>3, <3>6, <3>7
      <4>2. CASE i = 1
        BY <4>1, <4>2, <3>9
      <4>3. CASE i # 1
        <5>1. s[i] = t[i - 1]
          BY <4>3
        <5>2. i - 1 < j - 1
          BY <2>3
        <5> QED
          BY <5>1, <5>2, <4>1, <4>3, <3>6, <3>7 DEF Ascending
      <4> QED
        BY <4>2, <4>3
    <3> QED
      BY <3>8, <3>10, <2>2
  <2> QED
    BY <2>4, <2>5
<1>2. Cardinality(S) \in Nat
  BY FS_CardinalityType
<1> QED
  BY <1>1, <1>2

\* DirsInOrder lists every directory of the set, once.
LEMMA DirsInOrderFacts ==
  ASSUME NEW S \in SUBSET Dir, IsFiniteSet(S)
  PROVE  /\ Cardinality(S) \in Nat
         /\ DirsInOrder(S) \in [1..Cardinality(S) -> S]
         /\ \A d \in S : \E i \in 1..Cardinality(S) : DirsInOrder(S)[i] = d
<1> DEFINE n == Cardinality(S)
           s == DirsInOrder(S)
<1>1. n \in Nat
  BY FS_CardinalityType
<1>2. s \in [1..n -> S] /\ Ascending(s, n)
  BY DirsListed DEF DirsInOrder, Ascending
<1>3. \A i \in 1..n : s[i] \in Dir
  BY <1>2
<1>4. s \in Injection(1..n, S)
  <2>1. ASSUME NEW i \in 1..n, NEW j \in 1..n, s[i] = s[j] PROVE i = j
    <3>1. i < j => DirBefore(s[i], s[j])
      BY <1>2 DEF Ascending
    <3>2. j < i => DirBefore(s[j], s[i])
      BY <1>2 DEF Ascending
    <3>3. ~DirBefore(s[i], s[i])
      BY <1>3, BeforeTotal
    <3> HIDE DEF s
    <3> QED
      BY <1>1, <2>1, <3>1, <3>2, <3>3
  <2> HIDE DEF s
  <2> QED
    BY <1>2, <2>1 DEF Injection, IsInjective
<1>5. Cardinality(1..n) = n
  BY <1>1, FS_Interval
<1>6. s \in Surjection(1..n, S)
  BY <1>4, <1>5, FS_Injection
<1>7. \A d \in S : \E i \in 1..n : s[i] = d
  <2> HIDE DEF n, s
  <2> QED
    BY <1>6 DEF Surjection
<1> QED
  BY <1>1, <1>2, <1>7, Zenon

LEMMA FirstDirFacts ==
  ASSUME NEW S \in SUBSET Dirs, S # {}
  PROVE  FirstDir(S) \in S
<1>1. S \in SUBSET Dir /\ IsFiniteSet(S)
  BY DirsFacts, FS_Subset
<1>2. Cardinality(S) \in Nat /\ Cardinality(S) # 0 /\ DirsInOrder(S) \in [1..Cardinality(S) -> S]
  BY <1>1, DirsInOrderFacts, FS_EmptySet
<1>3. 1 \in 1..Cardinality(S)
  BY <1>2
<1> QED
  BY <1>2, <1>3 DEF FirstDir
-----------------------------------------------------------------------------
(* What the finder concludes, and the pairs a match stands for.            *)

\* The matches a directory adds: none, one exact match, or one contained match
\* for each of its supersets.
LEMMA VerdictForms ==
  ASSUME NEW d \in Dirs
  PROVE  \/ Verdict(d) = <<>>
         \/ Verdict(d) = <<Exact(Members(d))>> /\ ~Claimed(d, claimed)
         \/ /\ ~Claimed(d, claimed)
            /\ Verdict(d) \in Seq({Contained(d, base) : base \in Supersets(d, SignatureOf(d))})
<1> DEFINE S == Supersets(d, SignatureOf(d))
           bases == DirsInOrder(S)
           C == {Contained(d, base) : base \in S}
<1>1. S \in SUBSET Dir /\ IsFiniteSet(S)
  <2>1. S \subseteq Dirs
    BY DEF Supersets
  <2> HIDE DEF S
  <2> QED
    BY <2>1, DirsFacts, FS_Subset
<1>2. Cardinality(S) \in Nat /\ bases \in [1..Cardinality(S) -> S]
  <2> HIDE DEF S
  <2> QED
    BY <1>1, DirsInOrderFacts
<1>3. [i \in DOMAIN bases |-> Contained(d, bases[i])] \in Seq(C)
  <2> DEFINE n == Cardinality(S)
  <2>1. [i \in DOMAIN bases |-> Contained(d, bases[i])] \in [1..n -> C]
    <3> HIDE DEF S, bases
    <3> QED
      BY <1>2
  <2> HIDE DEF C, S, bases
  <2> QED
    BY <1>2, <2>1
<1>4. CASE Claimed(d, claimed)
  BY <1>4 DEF Verdict
<1>5. CASE ~Claimed(d, claimed) /\ Cluster(d) # {d}
  BY <1>5 DEF Verdict
<1>6. CASE ~Claimed(d, claimed) /\ Cluster(d) = {d}
  <2>1. Verdict(d) = [i \in DOMAIN bases |-> Contained(d, bases[i])]
    BY <1>6 DEF Verdict
  <2> QED
    BY <1>3, <1>6, <2>1
<1> QED
  BY <1>4, <1>5, <1>6

LEMMA VerdictMatches ==
  ASSUME NEW d \in Dirs
  PROVE  /\ Verdict(d) \in Seq(Matches)
         /\ \A m \in ToSet(Verdict(d)) :
               /\ ~Claimed(d, claimed)
               /\ \/ m = Exact(Members(d))
                  \/ \E base \in Supersets(d, SignatureOf(d)) : m = Contained(d, base)
<1> DEFINE C == {Contained(d, base) : base \in Supersets(d, SignatureOf(d))}
<1>1. CASE Verdict(d) = <<>>
  BY <1>1 DEF ToSet
<1>2. CASE Verdict(d) = <<Exact(Members(d))>> /\ ~Claimed(d, claimed)
  <2>1. Exact(Members(d)) \in Matches
    BY DEF Matches, Members, Cluster
  <2>2. ToSet(Verdict(d)) = {Exact(Members(d))}
    BY <1>2 DEF ToSet
  <2> QED
    BY <1>2, <2>1, <2>2
<1>3. CASE Verdict(d) \in Seq(C) /\ ~Claimed(d, claimed)
  <2>1. C \subseteq Matches
    BY DEF Matches, Supersets
  <2>2. Verdict(d) \in Seq(Matches)
    BY <1>3, <2>1, SeqMonotonic
  <2>3. ToSet(Verdict(d)) \subseteq C
    BY <1>3 DEF ToSet
  <2> QED
    BY <1>3, <2>2, <2>3
<1> QED
  BY <1>1, <1>2, <1>3, VerdictForms

LEMMA PairsFacts ==
  ASSUME NEW m \in Matches, NEW kept \in Dirs,
         m.type = "contained" => kept = m.superset
  PROVE  /\ PairsKeeping(m, kept) \subseteq [removed : Dirs, kept : Dirs]
         /\ (m.type = "contained" => m.subset # m.superset) =>
               \A pair \in PairsKeeping(m, kept) : pair.removed # pair.kept
<1>1. CASE m \in {Exact(F) : F \in SUBSET Dirs}
  <2>1. PICK F \in SUBSET Dirs : m = Exact(F)
    BY <1>1
  <2>2. m.type = "exact" /\ m.folders = F
    BY <2>1 DEF Exact
  <2>3. PairsKeeping(m, kept) = {Pair(d, kept) : d \in F \ {kept}}
    BY <2>2 DEF PairsKeeping
  <2> QED
    BY <2>3 DEF Pair
<1>2. CASE m \in {Contained(d, e) : d \in Dirs, e \in Dirs}
  <2>1. PICK d \in Dirs, e \in Dirs : m = Contained(d, e)
    BY <1>2
  <2>2. m.type = "contained" /\ m.subset = d /\ m.superset = e
    BY <2>1 DEF Contained
  <2>3. PairsKeeping(m, kept) = {Pair(d, e)}
    BY <2>2 DEF PairsKeeping
  <2> QED
    BY <2>2, <2>3 DEF Pair
<1> QED
  BY <1>1, <1>2 DEF Matches

LEMMA MatchPairsFacts ==
  ASSUME NEW m \in Matches
  PROVE  /\ MatchPairs(m) \subseteq [removed : Dirs, kept : Dirs]
         /\ (m.type = "contained" => m.subset # m.superset) =>
               \A pair \in MatchPairs(m) : pair.removed # pair.kept
<1>1. CASE m \in {Exact(F) : F \in SUBSET Dirs}
  <2>1. PICK F \in SUBSET Dirs : m = Exact(F)
    BY <1>1
  <2>2. m.type = "exact" /\ m.folders = F
    BY <2>1 DEF Exact
  <2>3. MatchPairs(m) = PairsKeeping(m, FirstDir(F))
    BY <2>2 DEF MatchPairs
  <2>4. CASE F = {}
    BY <2>2, <2>3, <2>4 DEF PairsKeeping
  <2>5. CASE F # {}
    <3>1. FirstDir(F) \in Dirs
      BY <2>5, FirstDirFacts
    <3> QED
      BY <2>2, <2>3, <3>1, PairsFacts
  <2> QED
    BY <2>4, <2>5
<1>2. CASE m \in {Contained(d, e) : d \in Dirs, e \in Dirs}
  <2>1. m.type = "contained" /\ m.superset \in Dirs
    BY <1>2 DEF Contained
  <2> QED
    BY <2>1, PairsFacts DEF MatchPairs
<1> QED
  BY <1>1, <1>2 DEF Matches

\* A planned pair is a file of the folder that is not protected and a partner.
LEMMA PlannedPairs ==
  ASSUME NEW pair, NEW seen, PlanFolder(pair, seen), NEW e \in todo'
  PROVE  /\ e = <<e[1], e[2]>> /\ e \in Path \X Path
         /\ e[1] \in seen \ Protected
         /\ e[1] \in Files(Scanned, pair.removed)
         /\ e[2] \in Partner(e[1], pair.removed, pair.kept)
<1>1. todo' = UNION {{p} \X Partner(p, pair.removed, pair.kept) :
                        p \in seen \ Protected}
  BY DEF PlanFolder
<1>2. PICK p \in seen \ Protected :
         e \in {p} \X Partner(p, pair.removed, pair.kept)
  BY <1>1
<1>3. p \in Files(Scanned, pair.removed)
  BY DEF PlanFolder, Planning, Listings
<1>4. p \in Path /\ Partner(p, pair.removed, pair.kept) \subseteq Path
  BY <1>3 DEF Files, Scanned, Existing, Partner
<1> QED
  BY <1>2, <1>3, <1>4

\* The kept file of a group is one of its members, and nothing protected is
\* planned.
LEMMA GroupPlanFacts ==
  ASSUME NEW g \in SUBSET Path, NEW proposed \in Proposals(g),
         NEW k \in EffectiveKeep(g, proposed)
  PROVE  /\ k \in g
         /\ Planned(fs, g, k) \subseteq g \ Protected
<1>1. \A S : First(S) \subseteq S
  BY DEF First
<1>2. ProtectedMember(g) \subseteq g
  BY DEF ProtectedMember, First
<1>3. \A newest : ByModified(g, fs, MTime, newest) \subseteq g
  BY <1>1 DEF ByModified
<1>4. \A shortest : ByDepth(g, shortest) \subseteq g
  BY <1>1 DEF ByDepth
<1>5. \A rule : ChooseKeep(rule, g, fs, MTime) \subseteq g
  <2> SUFFICES ASSUME NEW rule PROVE ChooseKeep(rule, g, fs, MTime) \subseteq g
    OBVIOUS
  <2>1. CASE rule = "Manual"
    BY <2>1 DEF ChooseKeep
  <2>2. CASE rule # "Manual" /\ ProtectedMember(g) # {}
    BY <2>2, <1>2 DEF ChooseKeep
  <2>3. CASE rule # "Manual" /\ ProtectedMember(g) = {}
    BY <2>3, <1>1, <1>3, <1>4 DEF ChooseKeep
  <2> QED
    BY <2>1, <2>2, <2>3
<1>6. proposed \in g
  BY <1>5 DEF Proposals
<1>7. k \in g
  BY <1>2, <1>6 DEF EffectiveKeep
<1> QED
  BY <1>7 DEF Planned
-----------------------------------------------------------------------------
(* Typing.                                                                 *)

PlanType == [removed : Dirs, skipped : BOOLEAN, failed : BOOLEAN,
             unseen : SUBSET Path, live : BOOLEAN, quiet : BOOLEAN,
             had : SUBSET Content]

Disk ==
  /\ fs \in [Path -> Inode \cup {NoFile}]
  /\ data \in [Inode -> Content]
  /\ dirs \subseteq Dirs /\ litter \subseteq dirs
  /\ \A p \in Existing : Parent(p) \in dirs

Run ==
  /\ client \in Clients /\ kind \in Kinds
  /\ pc \in {"idle", "scanned", "finding", "acting", "folder", "group", "done"}
  /\ groups \subseteq SUBSET Path /\ rest \subseteq groups
  /\ pc = "idle" => rest = {} /\ groups = {}
  /\ listing \subseteq Path
  /\ pending \subseteq Dirs /\ claimed \subseteq Dirs
  /\ found \in Seq(Matches)
  /\ batch \subseteq [removed : Dirs, kept : Dirs]
  /\ plan \in PlanType
  /\ pc # "folder" => plan = NoPlan
  /\ todo \subseteq Path \X Path
  /\ todo # {} => pc \in {"folder", "group"}
  /\ budget \in 0..MaxActions /\ env \in 0..EnvSteps
  /\ changed \subseteq groups

Typed == Disk /\ Run

LEMMA TypedFacts ==
  ASSUME Typed
  PROVE  TypeOK
<1>1. ToSet(found) \subseteq Matches
  BY DEF Typed, Run, ToSet
<1> QED
  BY <1>1 DEF Typed, Disk, Run, TypeOK, PlanType

LEMMA NoPlanType == NoPlan \in PlanType
BY DirsFacts DEF NoPlan, PlanType

LEMMA TypedInit == Init => Typed
<1> SUFFICES ASSUME Init PROVE Typed
  OBVIOUS
<1>1. PICK empty \in Dirs : dirs = {d \in Dirs : \/ \E p \in Existing : IsPrefix(d, Parts[p])
                                              \/ IsPrefix(d, empty)}
  BY DEF Init
<1>2. ASSUME NEW p \in Existing PROVE Parent(p) \in dirs
  <2>1. p \in Path /\ Parent(p) \in Dirs
    BY DirsFacts DEF Existing
  <2>2. Parent(p) \in Dir
    BY <2>1, DirsFacts
  <2>3. IsPrefix(Parent(p), Parent(p))
    BY <2>2, PrefixElements DEF Dir
  <2>4. IsPrefix(Parent(p), Parts[p])
    BY <2>1, <2>2, <2>3, DirsFacts
  <2> QED
    BY <1>1, <2>1, <2>4
<1>3. dirs \subseteq Dirs
  BY <1>1
<1>4. Disk
  BY <1>2, <1>3 DEF Init, Disk
<1>5. Run
  <2>1. found \in Seq(Matches)
    BY DEF Init
  <2>2. budget \in 0..MaxActions /\ env \in 0..EnvSteps
    BY ClientAssumption DEF Init
  <2> QED
    BY <2>1, <2>2, NoPlanType DEF Init, Run
<1> QED
  BY <1>4, <1>5 DEF Typed

LEMMA DiskStays ==
  ASSUME Disk, UNCHANGED disk
  PROVE  Disk'
BY DEF Disk, disk, Existing

\* A step that only takes files away, and no directory.
LEMMA FilesGone ==
  ASSUME Disk, UNCHANGED <<data, dirs, litter>>,
         NEW gone, fs' = [p \in Path |-> IF p \in gone THEN NoFile ELSE fs[p]]
  PROVE  Disk'
<1>1. fs' \in [Path -> Inode \cup {NoFile}]
  BY DEF Disk
<1>2. \A p \in Existing' : p \in Existing
  BY DEF Existing
<1> QED
  BY <1>1, <1>2 DEF Disk

\* A step that puts a file at a path whose directory is there.
LEMMA FilePlaced ==
  ASSUME Disk, NEW p \in Path, NEW i \in Inode, Parent(p) \in dirs,
         fs' = [fs EXCEPT ![p] = i],
         data' \in [Inode -> Content],
         UNCHANGED dirs, litter' \subseteq dirs
  PROVE  Disk'
<1>1. fs' \in [Path -> Inode \cup {NoFile}]
  BY DEF Disk
<1>2. \A q \in Existing' : q \in Existing \/ q = p
  BY DEF Existing, Disk
<1> QED
  BY <1>1, <1>2 DEF Disk

LEMMA PruneDisk ==
  ASSUME Typed, Prune
  PROVE  Disk'
<1>0. plan.removed \in Dirs /\ Disk
  BY DEF Typed, Run, PlanType
<1>1. CASE /\ fs' = [p \in Path |-> IF p \in Files(Path, plan.removed)
                                    THEN NoFile ELSE fs[p]]
           /\ dirs' = {d \in dirs : ~IsPrefix(plan.removed, d)}
           /\ litter' = litter \cap dirs'
  <2>1. fs' \in [Path -> Inode \cup {NoFile}]
    BY <1>0, <1>1 DEF Disk
  <2>2. ASSUME NEW p \in Existing' PROVE Parent(p) \in dirs'
    <3>1. p \in Path /\ p \in Existing /\ p \notin Files(Path, plan.removed)
      BY <1>1, <2>2 DEF Existing
    <3>2. ~IsPrefix(plan.removed, Parts[p])
      BY <3>1 DEF Files
    <3>3. ~IsPrefix(plan.removed, Parent(p))
      BY <1>0, <3>1, <3>2, DirsFacts
    <3> QED
      BY <1>0, <1>1, <3>1, <3>3 DEF Disk
  <2>3. dirs' \subseteq Dirs /\ litter' \subseteq dirs'
    BY <1>0, <1>1 DEF Disk
  <2>4. data' = data
    BY DEF Prune
  <2> QED
    BY <1>0, <2>1, <2>2, <2>3, <2>4 DEF Disk
<1>2. CASE /\ \E gone \in SUBSET Files(Existing, plan.removed) :
                fs' = [p \in Path |-> IF p \in gone THEN NoFile ELSE fs[p]]
           /\ UNCHANGED <<dirs, litter>>
  BY <1>0, <1>2, FilesGone DEF Prune
<1> QED
  BY <1>1, <1>2 DEF Prune

LEMMA ActDisk ==
  ASSUME Typed, NEW entry \in todo, Act(entry)
  PROVE  Disk'
<1>1. Disk /\ entry \in Path \X Path
  BY DEF Typed, Run
<1>2. entry[1] \in Path /\ entry[2] \in Path
  BY <1>1
<1>3. CASE ActionFails(entry)
  BY <1>1, <1>3, DiskStays DEF ActionFails
<1>4. CASE RemoveFile(entry[1], entry[2])
  <2>1. fs' = [p \in Path |-> IF p \in {entry[1]} THEN NoFile ELSE fs[p]]
    BY <1>1, <1>2, <1>4 DEF RemoveFile, Disk
  <2> QED
    BY <1>1, <1>4, <2>1, FilesGone DEF RemoveFile
<1>5. CASE LinkFile(entry[1], entry[2])
  <2>1. fs[entry[2]] \in Inode /\ Parent(entry[1]) \in dirs
    BY <1>1, <1>2, <1>5 DEF LinkFile, Disk
  <2>2. litter' \subseteq dirs
    BY <1>1, <1>5, <2>1 DEF LinkFile, Disk
  <2>3. data' \in [Inode -> Content]
    BY <1>1, <1>5 DEF LinkFile, Disk
  <2> QED
    BY <1>1, <1>2, <1>5, <2>1, <2>2, <2>3, FilePlaced DEF LinkFile
<1>6. CASE CloneFile(entry[1], entry[2])
  <2>1. fs[entry[2]] \in Inode /\ Parent(entry[1]) \in dirs
    BY <1>1, <1>2, <1>6 DEF CloneFile, Disk
  <2>2. PICK i \in Unlinked : /\ fs' = [fs EXCEPT ![entry[1]] = i]
                              /\ data' = [data EXCEPT ![i] = data[fs[entry[2]]]]
    BY <1>6 DEF CloneFile
  <2>3. i \in Inode /\ data' \in [Inode -> Content]
    BY <1>1, <2>1, <2>2 DEF Unlinked, Disk
  <2>4. litter' \subseteq dirs /\ UNCHANGED dirs
    BY <1>1, <1>6 DEF CloneFile, Disk
  <2> QED
    BY <1>1, <1>2, <2>1, <2>2, <2>3, <2>4, FilePlaced
<1>7. CASE CopyFile(entry[1], entry[2])
  BY <1>1, <1>7, DiskStays DEF CopyFile
<1> QED
  BY <1>3, <1>4, <1>5, <1>6, <1>7 DEF Act

LEMMA EnvironmentDisk ==
  ASSUME Typed, Environment
  PROVE  Disk'
<1>1. Disk /\ UNCHANGED <<dirs, litter>>
  BY DEF Typed, Environment
<1>2. PICK p \in Path : Arrives(p) \/ Vanishes(p) \/ Rewritten(p)
  BY DEF Environment
<1>3. CASE Arrives(p)
  <2>1. PICK i \in Unlinked, c \in Content : fs' = [fs EXCEPT ![p] = i] /\ data' = [data EXCEPT ![i] = c]
    BY <1>3 DEF Arrives
  <2>2. i \in Inode /\ data' \in [Inode -> Content] /\ litter' \subseteq dirs
    BY <1>1, <2>1 DEF Unlinked, Disk
  <2> QED
    BY <1>1, <1>2, <1>3, <2>1, <2>2, FilePlaced DEF Arrives
<1>4. CASE Vanishes(p)
  <2>1. fs' = [q \in Path |-> IF q \in {p} THEN NoFile ELSE fs[q]]
    BY <1>1, <1>2, <1>4 DEF Vanishes, Disk
  <2> QED
    BY <1>1, <1>4, <2>1, FilesGone DEF Vanishes
<1>5. CASE Rewritten(p)
  <2>1. fs' = fs /\ \E c \in Content : data' = [data EXCEPT ![fs[p]] = c]
    BY <1>5 DEF Rewritten
  <2>2. data' \in [Inode -> Content]
    BY <1>1, <2>1 DEF Disk
  <2> QED
    BY <1>1, <2>1, <2>2 DEF Disk, Existing
<1> QED
  BY <1>2, <1>3, <1>4, <1>5

LEMMA FinderRun ==
  ASSUME Typed,
         Scan \/ ListTree \/ StartActing \/ \E d \in pending : Examine(d)
  PROVE  Run'
<1>0. Run
  BY DEF Typed
<1>1. CASE Scan
  <2>1. PICK seen \in Listings(Scanned) :
          groups' = {g \in {{p \in seen : data[fs[p]] = c} : c \in Content} :
                       \E p, q \in g : fs[p] # fs[q]}
    BY <1>1 DEF Scan
  <2>2. groups' \subseteq SUBSET Path /\ rest' \subseteq groups' /\ changed' \subseteq groups'
    <3>1. rest = {} /\ changed = {}
      BY <1>0, <1>1 DEF Run, Scan
    <3>2. seen \subseteq Path
      BY DEF Listings, Scanned, Existing
    <3> QED
      BY <1>1, <2>1, <3>1, <3>2 DEF Scan
  <2>3. todo' = {}
    BY <1>0, <1>1 DEF Run, Scan
  <2> QED
    BY <1>0, <1>1, <2>2, <2>3 DEF Run, Scan, options
<1>2. CASE ListTree
  <2>1. listing' \subseteq Path /\ pending' \subseteq Dirs
    BY <1>2 DEF ListTree, Listings, Scanned, Existing
  <2> QED
    BY <1>0, <1>2, <2>1 DEF Run, ListTree, options
<1>3. CASE StartActing
  <2>1. rest' \subseteq groups
    BY <1>3 DEF StartActing
  <2> QED
    BY <1>0, <1>3, <2>1 DEF Run, StartActing, finder, options
<1>4. CASE \E d \in pending : Examine(d)
  <2>1. PICK d \in pending : Examine(d)
    BY <1>4
  <2>2. d \in Dirs /\ found \in Seq(Matches)
    BY <1>0, <2>1 DEF Run
  <2>3. found' \in Seq(Matches)
    BY <2>1, <2>2, VerdictMatches, ConcatProperties DEF Examine
  <2>4. \A m \in ToSet(Verdict(d)) :
           (IF m.type = "exact" THEN m.folders ELSE {m.subset}) \subseteq Dirs
    <3> SUFFICES ASSUME NEW m \in ToSet(Verdict(d))
                 PROVE  (IF m.type = "exact" THEN m.folders ELSE {m.subset}) \subseteq Dirs
      OBVIOUS
    <3>1. CASE m = Exact(Members(d))
      BY <3>1 DEF Exact, Members, Cluster
    <3>2. CASE \E base \in Supersets(d, SignatureOf(d)) : m = Contained(d, base)
      BY <2>2, <3>2 DEF Contained
    <3> QED
      BY <2>2, <3>1, <3>2, VerdictMatches
  <2>5. claimed' \subseteq Dirs /\ pending' \subseteq Dirs
    <3>1. claimed \subseteq Dirs /\ pending \subseteq Dirs
      BY <1>0 DEF Run
    <3> QED
      BY <2>1, <2>4, <3>1 DEF Examine
  <2> QED
    BY <1>0, <2>1, <2>3, <2>5 DEF Run, Examine, options
<1> QED
  BY <1>1, <1>2, <1>3, <1>4

LEMMA FolderRun ==
  ASSUME Typed, FolderStep
  PROVE  Run'
<1>0. Run
  BY DEF Typed
<1>1. CASE NextMatch
  <2>1. Head(found) \in Matches /\ found' \in Seq(Matches)
    <3>1. found \in Seq(Matches) /\ found # <<>>
      BY <1>0, <1>1 DEF Run, NextMatch
    <3> QED
      BY <1>1, <3>1, HeadTailProperties DEF NextMatch
  <2>2. batch' \subseteq [removed : Dirs, kept : Dirs]
    BY <1>1, <2>1, MatchPairsFacts DEF NextMatch
  <2> QED
    BY <1>0, <1>1, <2>1, <2>2 DEF Run, NextMatch, options
<1>2. CASE PickMatch
  <2>1. PICK m \in ToSet(found) : \E k \in IF m.type = "exact" THEN m.folders ELSE {m.superset} :
           batch' = PairsKeeping(m, k)
    BY <1>2 DEF PickMatch
  <2>2. PICK k \in IF m.type = "exact" THEN m.folders ELSE {m.superset} :
           batch' = PairsKeeping(m, k)
    BY <2>1
  <2>3. m \in Matches
    BY <1>0, <2>1 DEF Run, ToSet
  <2>4. k \in Dirs /\ (m.type = "contained" => k = m.superset)
    BY <2>2, <2>3 DEF Matches, Exact, Contained
  <2>5. batch' \subseteq [removed : Dirs, kept : Dirs]
    BY <2>2, <2>3, <2>4, PairsFacts
  <2>6. budget' \in 0..MaxActions
    BY <1>0, <1>2, ClientAssumption DEF Run, PickMatch
  <2> QED
    BY <1>0, <1>2, <2>5, <2>6 DEF Run, PickMatch, finder, options
<1>3. ASSUME NEW pair \in batch, NEW seen, PlanFolder(pair, seen) PROVE Run'
  <2>1. pair.removed \in Dirs
    BY <1>0 DEF Run
  <2>2. todo' \subseteq Path \X Path
    BY <1>3, PlannedPairs
  <2>3. \A S \in SUBSET Existing : ContentsOf(S) \in SUBSET Content
    <3> SUFFICES ASSUME NEW p \in Existing PROVE data[fs[p]] \in Content
      BY DEF ContentsOf
    <3>1. fs[p] \in Inode
      BY DEF Existing, Typed, Disk
    <3> QED
      BY <3>1 DEF Typed, Disk
  <2>4. plan' \in PlanType
    <3> DEFINE unseen == Files(Existing, pair.removed) \ seen
    <3>1. unseen \in SUBSET Path /\ ContentsOf(Existing \ unseen) \in SUBSET Content
      BY <2>3 DEF Files, Existing
    <3> QED
      BY <1>3, <2>1, <3>1 DEF PlanFolder, PlanType
  <2>5. batch' \subseteq [removed : Dirs, kept : Dirs]
    BY <1>0, <1>3 DEF Run, PlanFolder
  <2>6. pc' = "folder"
    BY <1>3 DEF PlanFolder
  <2> QED
    BY <1>0, <1>3, <2>2, <2>4, <2>5, <2>6 DEF Run, PlanFolder, finder, options
<1>4. ASSUME NEW pair \in batch, NEW seen, PlanRefused(pair, seen) PROVE Run'
  <2>1. batch' \subseteq batch
    BY <1>4 DEF PlanRefused
  <2> QED
    BY <1>0, <1>4, <2>1 DEF Run, PlanRefused, finder, options
<1>5. CASE FinishFolder
  <2>1. todo' = {} /\ pc' = "acting" /\ plan' \in PlanType
    BY <1>5, NoPlanType DEF FinishFolder
  <2> QED
    BY <1>0, <1>5, <2>1 DEF Run, FinishFolder, finder, options
<1> QED
  BY <1>1, <1>2, <1>3, <1>4, <1>5 DEF FolderStep, Prune, KeepDirectory

LEMMA GroupRun ==
  ASSUME Typed, PlanGroup \/ FinishGroup \/ Finish
  PROVE  Run'
<1>0. Run
  BY DEF Typed
<1>1. CASE PlanGroup
  <2>1. PICK g \in rest : \E proposed \in Proposals(g) :
          \E k \in EffectiveKeep(g, proposed) :
             /\ todo' = Planned(fs, g, k) \X {k}
             /\ rest' = IF client = "cli" THEN rest \ {g} ELSE rest
    BY <1>1 DEF PlanGroup
  <2>7. PICK proposed \in Proposals(g) : \E k \in EffectiveKeep(g, proposed) :
          todo' = Planned(fs, g, k) \X {k}
    BY <2>1
  <2>2. PICK k \in EffectiveKeep(g, proposed) : todo' = Planned(fs, g, k) \X {k}
    BY <2>7
  <2>3. g \in SUBSET Path
    BY <1>0, <2>1 DEF Run
  <2>4. todo' \subseteq Path \X Path
    <3>1. k \in Path /\ Planned(fs, g, k) \subseteq Path
      BY <2>2, <2>3, GroupPlanFacts
    <3> QED
      BY <2>2, <3>1
  <2>5. rest' \subseteq groups
    BY <1>0, <2>1 DEF Run
  <2>6. budget' \in 0..MaxActions
    <3>1. CASE client = "gui"
      <4>1. budget > 0
        BY <1>1, <3>1 DEF PlanGroup, Ready
      <4> QED
        BY <1>0, <1>1, <3>1, <4>1, ClientAssumption DEF Run, PlanGroup
    <3>2. CASE client # "gui"
      BY <1>0, <1>1, <3>2 DEF Run, PlanGroup
    <3> QED
      BY <3>1, <3>2
  <2>8. plan' = NoPlan
    BY <1>0, <1>1 DEF Run, PlanGroup
  <2> QED
    BY <1>0, <1>1, <2>4, <2>5, <2>6, <2>8 DEF Run, PlanGroup, finder, options
<1>2. CASE FinishGroup
  BY <1>0, <1>2 DEF Run, FinishGroup, finder, options
<1>3. CASE Finish
  <2>1. plan' = NoPlan /\ todo' = {}
    BY <1>0, <1>3 DEF Run, Finish
  <2> QED
    BY <1>0, <1>3, <2>1 DEF Run, Finish, finder, options
<1> QED
  BY <1>1, <1>2, <1>3

LEMMA ActRun ==
  ASSUME Typed, NEW entry \in todo, Act(entry)
  PROVE  Run'
<1>0. Run /\ Now(entry)
  BY DEF Typed, Act, ActionFails
<1>1. plan' \in PlanType /\ (pc' # "folder" => plan' = NoPlan)
  <2>1. CASE ActionFails(entry)
    <3>1. plan \in PlanType /\ plan' = [plan EXCEPT !.failed = pc = "folder"] /\ pc' = pc
      BY <1>0, <2>1 DEF Run, ActionFails, Now
    <3>2. plan' \in PlanType
      BY <3>1 DEF PlanType
    <3>3. ASSUME pc # "folder" PROVE plan' = NoPlan
      <4>1. plan = NoPlan /\ (pc = "folder") = FALSE
        BY <1>0, <3>3 DEF Run
      <4> QED
        BY <3>1, <4>1 DEF NoPlan
    <3> QED
      BY <3>1, <3>2, <3>3
  <2>2. CASE UNCHANGED plan
    BY <1>0, <2>2 DEF Run, Now
  <2> QED
    BY <2>1, <2>2 DEF Act
<1>2. todo' \subseteq Path \X Path
  BY <1>0 DEF Run, Now
<1> QED
  BY <1>0, <1>1, <1>2 DEF Run, Now, finder, options

LEMMA EnvironmentRun ==
  ASSUME Typed, Environment
  PROVE  Run'
<1>0. Run
  BY DEF Typed
<1>1. plan \in PlanType /\ plan' = [plan EXCEPT !.quiet = pc # "folder"] /\ pc' = pc
  BY <1>0 DEF Run, Environment
<1>2. plan' \in PlanType
  BY <1>1 DEF PlanType
<1>3. ASSUME pc # "folder" PROVE plan' = NoPlan
  <2>1. plan = NoPlan /\ (pc # "folder") = TRUE
    BY <1>0, <1>3 DEF Run
  <2> QED
    BY <1>1, <2>1 DEF NoPlan
<1>4. env' \in 0..EnvSteps
  BY <1>0, ClientAssumption DEF Run, Environment
<1>5. changed' \subseteq groups
  BY <1>0 DEF Run, Environment
<1> QED
  BY <1>0, <1>1, <1>2, <1>3, <1>4, <1>5 DEF Run, Environment, finder, options

LEMMA TypedStep == Typed /\ [Next]_vars => Typed'
<1> SUFFICES ASSUME Typed, [Next]_vars PROVE Disk' /\ Run'
  BY DEF Typed
<1>1. CASE Scan \/ ListTree \/ StartActing \/ \E d \in pending : Examine(d)
  <2>1. UNCHANGED disk
    BY <1>1 DEF Scan, ListTree, StartActing, Examine
  <2> QED
    BY <1>1, <2>1, DiskStays, FinderRun DEF Typed
<1>2. CASE FolderStep
  <2>1. CASE Prune
    BY <1>2, <2>1, PruneDisk, FolderRun
  <2>2. CASE ~Prune
    <3>1. UNCHANGED disk
      BY <1>2, <2>2 DEF FolderStep, NextMatch, PickMatch, PlanFolder, PlanRefused, KeepDirectory
    <3> QED
      BY <1>2, <3>1, DiskStays, FolderRun DEF Typed
  <2> QED
    BY <2>1, <2>2
<1>3. CASE PlanGroup \/ FinishGroup \/ Finish
  <2>1. UNCHANGED disk
    BY <1>3 DEF PlanGroup, FinishGroup, Finish
  <2> QED
    BY <1>3, <2>1, DiskStays, GroupRun DEF Typed
<1>4. CASE \E entry \in todo : Act(entry)
  BY <1>4, ActDisk, ActRun
<1>5. CASE Environment
  BY <1>5, EnvironmentDisk, EnvironmentRun
<1>6. CASE UNCHANGED vars
  <2>1. Disk'
    BY <1>6, DiskStays DEF vars, Typed
  <2>2. Run'
    BY <1>6 DEF vars, Typed, Run, finder, options
  <2> QED
    BY <2>1, <2>2
<1> QED
  BY <1>1, <1>2, <1>3, <1>4, <1>5, <1>6 DEF Next

\* Every reachable state is well formed: a file lies in a directory that
\* exists, a folder plan is being applied only while the pass is in a folder.
THEOREM TypeCorrect == Spec => []TypeOK
<1>1. Spec => []Typed
  BY TypedInit, TypedStep, PTL DEF Spec
<1> QED
  BY <1>1, TypedFacts, PTL
-----------------------------------------------------------------------------
(* What each kind of step can change.                                      *)

\* A folder is planned.
Plans ==
  \E pair \in batch : \E seen \in Listings(Files(Scanned, pair.removed)) :
     PlanFolder(pair, seen)

\* A step that touches neither the disk nor what is still to be done on it.
Calm ==
  /\ UNCHANGED <<disk, todo, env>>
  /\ \/ plan' = plan /\ (pc' = "folder" <=> pc = "folder")
     \/ pc' # "folder"

LEMMA StepKinds ==
  ASSUME Typed, [Next]_vars
  PROVE  /\ kind' = kind
         /\ \/ Plans
            \/ PlanGroup
            \/ \E entry \in todo : Act(entry)
            \/ Environment
            \/ Prune
            \/ Calm
<1>1. CASE \/ Scan \/ ListTree \/ StartActing \/ \E d \in pending : Examine(d)
           \/ FinishGroup \/ Finish
  BY <1>1 DEF Scan, ListTree, StartActing, Examine, FinishGroup, Finish, Calm, options
<1>2. CASE FolderStep
  BY <1>2 DEF FolderStep, Plans, NextMatch, PickMatch, PlanFolder, PlanRefused, KeepDirectory,
              Prune, FinishFolder, Planning, Calm, options
<1>3. CASE PlanGroup
  BY <1>3 DEF PlanGroup, options
<1>4. CASE \E entry \in todo : Act(entry)
  BY <1>4 DEF Act, ActionFails, Now, options
<1>5. CASE Environment
  BY <1>5 DEF Environment, options
<1>6. CASE UNCHANGED vars
  BY <1>6 DEF vars, Calm, options
<1> QED
  BY <1>1, <1>2, <1>3, <1>4, <1>5, <1>6 DEF Next

LEMMA GroupsKept ==
  ASSUME [Next]_vars, ~Scan
  PROVE  groups' = groups
BY DEF Next, vars, finder, ListTree, StartActing, Examine, FolderStep, NextMatch, PickMatch,
       PlanFolder, PlanRefused, Prune, KeepDirectory, FinishFolder, PlanGroup, FinishGroup,
       Finish, Act, ActionFails, Now, Environment

\* While a folder is acted on by removing files, an action takes one of the
\* planned files away or fails.
LEMMA RemovingAct ==
  ASSUME Typed, Removing, NEW entry \in todo, Act(entry)
  PROVE  /\ todo' = todo \ {entry} /\ env' = env /\ pc' = pc /\ UNCHANGED data
         /\ entry[1] \in Path
         /\ \/ fs' = fs /\ plan' = [plan EXCEPT !.failed = pc = "folder"]
            \/ fs' = [fs EXCEPT ![entry[1]] = NoFile] /\ plan' = plan
<1>1. kind \in {"delete", "trash", "move"}
  BY DEF Removing
<1>2. Now(entry) /\ entry[1] \in Path
  BY DEF Act, ActionFails, Typed, Run
<1>3. CASE ActionFails(entry)
  BY <1>2, <1>3 DEF ActionFails, Now, disk
<1>4. CASE RemoveFile(entry[1], entry[2]) /\ UNCHANGED plan
  BY <1>2, <1>4 DEF RemoveFile, Now
<1>5. ~LinkFile(entry[1], entry[2]) /\ ~CloneFile(entry[1], entry[2]) /\ ~CopyFile(entry[1], entry[2])
  BY <1>1 DEF LinkFile, CloneFile, CopyFile
<1> QED
  BY <1>3, <1>4, <1>5 DEF Act

\* Pruning takes files below the folder away, and nothing else.
LEMMA PruneFacts ==
  ASSUME Typed, Prune
  PROVE  /\ pc = "folder" /\ todo = {} /\ todo' = {} /\ pc' = "acting" /\ env' = env
         /\ Removing /\ ~plan.failed /\ ~plan.skipped
         /\ UNCHANGED data
         /\ \A p \in Path : fs'[p] # fs[p] => p \in Files(Existing, plan.removed)
         /\ \A p \in Path : fs'[p] # NoFile => fs'[p] = fs[p]
<1>1. /\ pc = "folder" /\ todo = {} /\ todo' = {} /\ pc' = "acting" /\ env' = env
      /\ Removing /\ ~plan.failed /\ ~plan.skipped /\ UNCHANGED data
  BY DEF Prune, FinishFolder, Prunes
<1>2. \/ fs' = [p \in Path |-> IF p \in Files(Path, plan.removed) THEN NoFile ELSE fs[p]]
      \/ \E gone \in SUBSET Files(Existing, plan.removed) :
            fs' = [p \in Path |-> IF p \in gone THEN NoFile ELSE fs[p]]
  BY DEF Prune
<1>3. \A p \in Path : fs'[p] # fs[p] => p \in Files(Existing, plan.removed)
  BY <1>2 DEF Files, Existing
<1>4. \A p \in Path : fs'[p] # NoFile => fs'[p] = fs[p]
  BY <1>2
<1> QED
  BY <1>1, <1>3, <1>4
-----------------------------------------------------------------------------
(* Reference folders.                                                      *)

Unprotected == \A e \in todo : e[1] \notin Protected

\* Pruning will find no protected file that the planning did not miss: there
\* was none when the folder was planned, and none has appeared since.
PruneSpares ==
  (pc = "folder" /\ plan.quiet /\ ~plan.skipped /\ Removing) =>
    \A p \in Protected \ plan.unseen : p \in Files(Path, plan.removed) => fs[p] = NoFile

Shielded == Unprotected /\ PruneSpares

LEMMA UnprotectedStep ==
  ASSUME Typed, Unprotected, [Next]_vars
  PROVE  Unprotected'
<1>1. CASE Plans
  BY <1>1, PlannedPairs DEF Plans, Unprotected
<1>2. CASE PlanGroup
  <2>1. PICK g \in rest : \E proposed \in Proposals(g) :
          \E k \in EffectiveKeep(g, proposed) : todo' = Planned(fs, g, k) \X {k}
    BY <1>2 DEF PlanGroup
  <2>2. PICK proposed \in Proposals(g) : \E k \in EffectiveKeep(g, proposed) :
          todo' = Planned(fs, g, k) \X {k}
    BY <2>1
  <2>3. PICK k \in EffectiveKeep(g, proposed) : todo' = Planned(fs, g, k) \X {k}
    BY <2>2
  <2>4. g \in SUBSET Path
    BY <2>1 DEF Typed, Run
  <2>5. Planned(fs, g, k) \cap Protected = {}
    BY <2>2, <2>3, <2>4, GroupPlanFacts
  <2> QED
    BY <2>3, <2>5 DEF Unprotected
<1>3. CASE todo' \subseteq todo
  BY <1>3 DEF Unprotected
<1>4. CASE \E entry \in todo : Act(entry)
  BY <1>3, <1>4 DEF Act, ActionFails, Now
<1>5. CASE Environment \/ Prune \/ Calm
  BY <1>3, <1>5 DEF Environment, Prune, FinishFolder, Calm
<1> QED
  BY <1>1, <1>2, <1>4, <1>5, StepKinds

LEMMA PruneSparesStep ==
  ASSUME Typed, PruneSpares, [Next]_vars
  PROVE  PruneSpares'
<1> SUFFICES ASSUME pc' = "folder", plan'.quiet, ~plan'.skipped, Removing',
                    NEW p \in Protected, p \notin plan'.unseen,
                    p \in Files(Path, plan'.removed)
             PROVE  fs'[p] = NoFile
  BY DEF PruneSpares
<1>0. kind' = kind /\ Removing /\ p \in Path
  BY StepKinds DEF Removing
<1>1. CASE Plans
  <2>1. PICK pair \in batch : \E seen \in Listings(Files(Scanned, pair.removed)) :
           PlanFolder(pair, seen)
    BY <1>1 DEF Plans
  <2>9. PICK seen \in Listings(Files(Scanned, pair.removed)) : PlanFolder(pair, seen)
    BY <2>1
  <2>2. /\ plan'.removed = pair.removed /\ fs' = fs
        /\ plan'.skipped = (seen \cap Protected # {})
        /\ plan'.unseen = Files(Existing, pair.removed) \ seen
    BY <2>9 DEF PlanFolder, disk
  <2>3. p \notin Existing
    BY <2>2 DEF Files
  <2> QED
    BY <1>0, <2>2, <2>3 DEF Existing
<1>2. CASE PlanGroup
  BY <1>2 DEF PlanGroup
<1>3. CASE \E entry \in todo : Act(entry)
  <2>1. PICK entry \in todo : Act(entry)
    BY <1>3
  <2>2. pc = "folder" /\ plan \in PlanType
    BY <1>0, <2>1, RemovingAct DEF Typed, Run
  <2>3. /\ plan'.quiet = plan.quiet /\ plan'.skipped = plan.skipped
        /\ plan'.removed = plan.removed /\ plan'.unseen = plan.unseen
    BY <1>0, <2>1, <2>2, RemovingAct DEF PlanType
  <2>4. fs[p] = NoFile
    BY <1>0, <2>2, <2>3 DEF PruneSpares
  <2> QED
    BY <1>0, <2>1, <2>4, RemovingAct DEF Typed, Disk
<1>4. CASE Environment
  <2>1. plan' = [plan EXCEPT !.quiet = pc # "folder"] /\ pc' = pc /\ plan \in PlanType
    BY <1>4 DEF Environment, Typed, Run
  <2>2. plan'.quiet = FALSE
    BY <2>1 DEF PlanType
  <2> QED
    BY <2>2
<1>5. CASE Prune
  BY <1>5, PruneFacts
<1>6. CASE Calm
  BY <1>0, <1>6 DEF Calm, disk, PruneSpares
<1> QED
  BY <1>1, <1>2, <1>3, <1>4, <1>5, <1>6, StepKinds

LEMMA ReferenceStep ==
  ASSUME Typed, Shielded, [Next]_vars, env' = env, plan.quiet,
         NEW p \in Protected \ plan.unseen
  PROVE  fs'[p] = fs[p]
<1>0. p \in Path
  OBVIOUS
<1>1. CASE Plans \/ PlanGroup \/ Calm
  BY <1>1 DEF Plans, PlanFolder, PlanGroup, Calm, disk
<1>2. CASE \E entry \in todo : Act(entry)
  <2>1. PICK entry \in todo : Act(entry)
    BY <1>2
  <2>2. entry[1] # p
    BY <2>1 DEF Shielded, Unprotected
  <2> QED
    BY <1>0, <2>1, <2>2 DEF Act, ActionFails, RemoveFile, LinkFile, CloneFile, CopyFile, disk,
                            Typed, Disk
<1>3. CASE Environment
  BY <1>3 DEF Environment, Typed, Run
<1>4. CASE Prune
  <2>1. p \in Files(Path, plan.removed) => fs[p] = NoFile
    BY <1>4, PruneFacts DEF Shielded, PruneSpares
  <2>2. p \notin Files(Existing, plan.removed)
    BY <2>1 DEF Files, Existing
  <2> QED
    BY <1>0, <1>4, <2>2, PruneFacts
<1> QED
  BY <1>1, <1>2, <1>3, <1>4, StepKinds

\* Acting on folders, their pruning and acting on groups change no file under a
\* reference folder, for every tree, every match and every client: whatever
\* fails, and also when the file has appeared after the scan.  Only a file that
\* the walk of the planning has missed can go with the directory.
THEOREM ReferenceSafe == Spec => ReferenceUntouched
<1>1. Init => Typed /\ Shielded
  BY TypedInit DEF Init, Shielded, Unprotected, PruneSpares
<1>2. Typed /\ Shielded /\ [Next]_vars => (Typed /\ Shielded)'
  BY TypedStep, UnprotectedStep, PruneSparesStep DEF Shielded
<1>3. Typed /\ Shielded /\ [Next]_vars =>
        [env' = env /\ plan.quiet => \A p \in Protected \ plan.unseen : fs'[p] = fs[p]]_vars
  BY ReferenceStep
<1> QED
  BY <1>1, <1>2, <1>3, PTL DEF Spec, ReferenceUntouched
-----------------------------------------------------------------------------
(* Contents, when files are linked, cloned or copied.                      *)

\* What is to be linked together was reported in one group.
OneGroup == \A e \in todo : \E g \in groups : e[1] \in g /\ e[2] \in g
Disjoint == \A g, h \in groups : g \cap h # {} => g = h
GroupsAlike ==
  ~Removing => \A g \in groups \ changed :
                  \A p, q \in g \cap Existing : data[fs[p]] = data[fs[q]]

Grouped == OneGroup /\ Disjoint /\ GroupsAlike

LEMMA PartsInjective ==
  ASSUME NEW p \in Path, NEW q \in Path, Parts[p] = Parts[q]
  PROVE  p = q
<1>1. Parts[p] \in Dir /\ Parts[q] \in Dir
  BY PathParts
<1>2. IsPrefix(Parts[p], Parts[q])
  BY <1>1, PrefixElements DEF Dir
<1> QED
  BY <1>2, PartsAssumption

LEMMA ScanFacts ==
  ASSUME Typed, Scan
  PROVE  /\ todo = {} /\ todo' = {} /\ UNCHANGED <<disk, env, kind>>
         /\ \E seen \in SUBSET Scanned :
               \A g \in groups' : \E c \in Content : g = {p \in seen : data[fs[p]] = c}
<1>1. PICK seen \in Listings(Scanned) :
        groups' = {g \in {{p \in seen : data[fs[p]] = c} : c \in Content} :
                     \E p, q \in g : fs[p] # fs[q]}
  BY DEF Scan
<1>2. seen \in SUBSET Scanned
  BY DEF Listings
<1>3. \A g \in groups' : \E c \in Content : g = {p \in seen : data[fs[p]] = c}
  BY <1>1
<1>4. todo = {} /\ todo' = {} /\ UNCHANGED <<disk, env, kind>>
  BY DEF Scan, Typed, Run, options
<1> QED
  BY <1>2, <1>3, <1>4

LEMMA OneGroupStep ==
  ASSUME Typed, OneGroup, [Next]_vars
  PROVE  OneGroup'
<1>1. CASE Scan
  BY <1>1, ScanFacts DEF OneGroup
<1>2. CASE ~Scan /\ Plans
  <2>1. PICK pair \in batch : \E seen \in Listings(Files(Scanned, pair.removed)) :
           PlanFolder(pair, seen)
    BY <1>2 DEF Plans
  <2>9. PICK seen \in Listings(Files(Scanned, pair.removed)) : PlanFolder(pair, seen)
    BY <2>1
  <2>2. groups' = groups
    BY <1>2, GroupsKept
  <2> SUFFICES ASSUME NEW e \in todo' PROVE \E g \in groups : e[1] \in g /\ e[2] \in g
    BY <2>2 DEF OneGroup
  <2>3. e[1] \in seen \ Protected /\ e[2] \in Partner(e[1], pair.removed, pair.kept)
    BY <2>9, PlannedPairs
  <2>4. Confirmed(e[1], Partner(e[1], pair.removed, pair.kept))
    BY <2>9, <2>3 DEF PlanFolder, CanPlan
  <2>5. PICK g \in groups : e[1] \in g /\ Partner(e[1], pair.removed, pair.kept) \cap g # {}
    BY <2>4 DEF Confirmed
  <2>6. PICK q \in Partner(e[1], pair.removed, pair.kept) : q \in g
    BY <2>5
  <2>7. q = e[2]
    <3>1. q \in Path /\ e[2] \in Path /\ Parts[q] = Parts[e[2]]
      BY <2>3, <2>6 DEF Partner
    <3> QED
      BY <3>1, PartsInjective
  <2> QED
    BY <2>5, <2>6, <2>7
<1>3. CASE ~Scan /\ PlanGroup
  <2>1. PICK g \in rest : \E proposed \in Proposals(g) :
          \E k \in EffectiveKeep(g, proposed) : todo' = Planned(fs, g, k) \X {k}
    BY <1>3 DEF PlanGroup
  <2>2. PICK proposed \in Proposals(g) : \E k \in EffectiveKeep(g, proposed) :
          todo' = Planned(fs, g, k) \X {k}
    BY <2>1
  <2>3. PICK k \in EffectiveKeep(g, proposed) : todo' = Planned(fs, g, k) \X {k}
    BY <2>2
  <2>4. g \in SUBSET Path /\ g \in groups
    BY <2>1 DEF Typed, Run
  <2>5. k \in g /\ Planned(fs, g, k) \subseteq g
    BY <2>2, <2>3, <2>4, GroupPlanFacts
  <2>6. groups' = groups
    BY <1>3, GroupsKept
  <2> QED
    BY <2>3, <2>4, <2>5, <2>6 DEF OneGroup
<1>4. CASE ~Scan /\ todo' \subseteq todo
  BY <1>4, GroupsKept DEF OneGroup
<1>5. CASE ~Scan /\ \E entry \in todo : Act(entry)
  BY <1>4, <1>5 DEF Act, ActionFails, Now
<1>6. CASE ~Scan /\ (Environment \/ Prune \/ Calm)
  BY <1>4, <1>6 DEF Environment, Prune, FinishFolder, Calm
<1> QED
  BY <1>1, <1>2, <1>3, <1>5, <1>6, StepKinds

LEMMA DisjointStep ==
  ASSUME Typed, Disjoint, [Next]_vars
  PROVE  Disjoint'
<1>1. CASE Scan
  <2> SUFFICES ASSUME NEW g \in groups', NEW h \in groups', NEW p, p \in g, p \in h
               PROVE  g = h
    BY DEF Disjoint
  <2>3. PICK seen \in SUBSET Scanned :
           \A x \in groups' : \E c \in Content : x = {y \in seen : data[fs[y]] = c}
    BY <1>1, ScanFacts
  <2>1. PICK c \in Content : g = {x \in seen : data[fs[x]] = c}
    BY <2>3
  <2>2. PICK d \in Content : h = {x \in seen : data[fs[x]] = d}
    BY <2>3
  <2> QED
    BY <2>1, <2>2
<1>2. CASE ~Scan
  BY <1>2, GroupsKept DEF Disjoint
<1> QED
  BY <1>1, <1>2

\* Linking and cloning change the content of no path that has one, when the
\* content is the same on both sides; a path that had none gets that of the
\* kept file.
LEMMA LinkingAct ==
  ASSUME Typed, ~Removing, NEW entry \in todo, Act(entry)
  PROVE  /\ entry[1] \in Path /\ entry[2] \in Path /\ env' = env /\ pc' = pc
         /\ todo' = todo \ {entry}
         /\ Existing \subseteq Existing'
         /\ \A x \in Existing \ {entry[1]} : data'[fs'[x]] = data[fs[x]]
         /\ Existing' \subseteq Existing \cup {entry[1]}
         /\ \/ Existing' = Existing /\ \A x \in Existing : data'[fs'[x]] = data[fs[x]]
            \/ entry[2] \in Existing /\ data'[fs'[entry[1]]] = data[fs[entry[2]]]
         /\ plan' = plan \/ plan' = [plan EXCEPT !.failed = pc = "folder"]
<1> DEFINE p == entry[1]
           k == entry[2]
<1>1. /\ Now(entry) /\ p \in Path /\ k \in Path
      /\ env' = env /\ pc' = pc /\ todo' = todo \ {entry}
      /\ plan' = plan \/ plan' = [plan EXCEPT !.failed = pc = "folder"]
  BY DEF Act, ActionFails, Now, Typed, Run
<1>2. ~RemoveFile(p, k)
  BY DEF RemoveFile
<1>3. fs \in [Path -> Inode \cup {NoFile}] /\ data \in [Inode -> Content]
  BY DEF Typed, Disk
<1>4. CASE UNCHANGED <<fs, data>>
  BY <1>1, <1>4 DEF Existing
<1>5. CASE LinkFile(p, k)
  <2>1. fs[k] # NoFile /\ fs' = [fs EXCEPT ![p] = fs[k]] /\ data' = data
    BY <1>5 DEF LinkFile
  <2>2. k \in Existing /\ fs'[p] = fs[k] /\ \A x \in Path \ {p} : fs'[x] = fs[x]
    BY <1>1, <1>3, <2>1 DEF Existing
  <2>3. Existing \subseteq Existing' /\ Existing' \subseteq Existing \cup {p}
    BY <1>1, <2>1, <2>2 DEF Existing
  <2> QED
    BY <1>1, <2>1, <2>2, <2>3 DEF Existing
<1>6. CASE CloneFile(p, k)
  <2>1. fs[k] # NoFile
    BY <1>6 DEF CloneFile
  <2>2. PICK i \in Unlinked : fs' = [fs EXCEPT ![p] = i] /\ data' = [data EXCEPT ![i] = data[fs[k]]]
    BY <1>6 DEF CloneFile
  <2>3. i \in Inode /\ i # NoFile /\ \A x \in Path : fs[x] # i
    BY <2>2, NoFileAssumption DEF Unlinked
  <2>4. fs'[p] = i /\ \A x \in Path \ {p} : fs'[x] = fs[x]
    BY <1>1, <1>3, <2>2
  <2>5. data'[i] = data[fs[k]] /\ \A j \in Inode \ {i} : data'[j] = data[j]
    BY <1>3, <2>2, <2>3
  <2>6. Existing \subseteq Existing' /\ Existing' \subseteq Existing \cup {p} /\ k \in Existing
    BY <1>1, <2>1, <2>3, <2>4 DEF Existing
  <2>7. \A x \in Existing \ {p} : data'[fs'[x]] = data[fs[x]]
    BY <1>3, <2>3, <2>4, <2>5 DEF Existing
  <2> QED
    BY <1>1, <2>4, <2>5, <2>6, <2>7
<1> QED
  BY <1>1, <1>2, <1>4, <1>5, <1>6 DEF Act, ActionFails, CopyFile, disk

\* The content of a path stays when the paths of its group are alike.
LEMMA LinkingKeeps ==
  ASSUME Typed, OneGroup, GroupsAlike, ~Removing, NEW entry \in todo, Act(entry),
         NEW x \in Unchanged
  PROVE  x \in Existing' /\ data'[fs'[x]] = data[fs[x]]
<1>0. x \in Existing /\ \A g \in changed : x \notin g
  BY DEF Unchanged
<1>1. PICK g \in groups : entry[1] \in g /\ entry[2] \in g
  BY DEF OneGroup
<1>2. CASE x # entry[1]
  BY <1>0, <1>2, LinkingAct
<1>3. CASE x = entry[1]
  <2>1. g \notin changed
    BY <1>0, <1>1, <1>3
  <2>2. entry[2] \in Existing => data[fs[x]] = data[fs[entry[2]]]
    BY <1>0, <1>1, <1>3, <2>1 DEF GroupsAlike
  <2> QED
    BY <1>0, <1>3, <2>2, LinkingAct
<1> QED
  BY <1>2, <1>3

\* A step of another program: what a member of a group holds afterwards is what
\* it held before, or the group counts as changed.
LEMMA EnvironmentFacts ==
  ASSUME Typed, Environment
  PROVE  /\ env > 0 /\ env' = env - 1 /\ env \in 0..EnvSteps /\ env' # env /\ env' # EnvSteps
         /\ groups' = groups /\ changed \subseteq changed'
         /\ \A g \in groups \ changed' : \A x \in g \cap Existing' :
               x \in Existing /\ data'[fs'[x]] = data[fs[x]]
<1>1. env > 0 /\ env' = env - 1 /\ env \in 0..EnvSteps /\ env' # env /\ env' # EnvSteps
  BY ClientAssumption DEF Environment, Typed, Run
<1>2. groups' = groups /\ changed' = changed \cup {g \in groups : \E p \in g : HoldsOther(p)}
  BY DEF Environment, finder
<1>3. ASSUME NEW g \in groups \ changed', NEW x \in g \cap Existing'
      PROVE  x \in Existing /\ data'[fs'[x]] = data[fs[x]]
  <2>1. ~HoldsOther(x) /\ fs'[x] # NoFile /\ x \in Path
    BY <1>2, <1>3 DEF Existing
  <2>2. fs'[x] = fs[x] /\ data'[fs'[x]] = data[fs[x]]
    BY <2>1 DEF HoldsOther
  <2> QED
    BY <2>1, <2>2 DEF Existing
<1> QED
  BY <1>1, <1>2, <1>3

LEMMA ChangedKept ==
  ASSUME [Next]_vars, ~Environment
  PROVE  changed' = changed
BY DEF Next, vars, Scan, ListTree, StartActing, Examine, FolderStep, NextMatch, PickMatch,
       PlanFolder, PlanRefused, Prune, KeepDirectory, FinishFolder, PlanGroup, FinishGroup,
       Finish, Act, ActionFails, Now

LEMMA GroupsAlikeStep ==
  ASSUME Typed, Grouped, [Next]_vars
  PROVE  GroupsAlike'
<1> SUFFICES ASSUME ~Removing', NEW g \in groups' \ changed', NEW p \in g, NEW q \in g,
                    p \in Existing', q \in Existing'
             PROVE  data'[fs'[p]] = data'[fs'[q]]
  BY DEF GroupsAlike
<1>0. ~Removing
  BY StepKinds DEF Removing
<1>1. CASE Scan
  <2>1. PICK seen \in SUBSET Scanned :
           \A h \in groups' : \E c \in Content : h = {x \in seen : data[fs[x]] = c}
    BY <1>1, ScanFacts
  <2>2. PICK c \in Content : g = {x \in seen : data[fs[x]] = c}
    BY <2>1
  <2> QED
    BY <1>1, <2>2, ScanFacts DEF disk
<1>2. ASSUME ~Scan PROVE g \in groups
  BY <1>2, GroupsKept
<1>3. CASE ~Scan /\ \E entry \in todo : Act(entry)
  <2>1. PICK entry \in todo : Act(entry)
    BY <1>3
  <2>2. PICK h \in groups : entry[1] \in h /\ entry[2] \in h
    BY DEF Grouped, OneGroup
  <2>6. g \in groups \ changed
    <3>1. changed' = changed
      BY <2>1 DEF Act, ActionFails, Now
    <3> QED
      BY <1>2, <1>3, <3>1
  <2>3. ASSUME NEW x \in g, x \in Existing'
        PROVE  \/ x \in Existing /\ data'[fs'[x]] = data[fs[x]]
               \/ x = entry[1] /\ entry[2] \in Existing /\ data'[fs'[x]] = data[fs[entry[2]]]
    <3>1. CASE x \in Existing
      <4>1. x \in Unchanged
        BY <2>3, <2>6, <3>1 DEF Unchanged, Grouped, Disjoint, Typed, Run
      <4> QED
        BY <1>0, <2>1, <3>1, <4>1, LinkingKeeps DEF Grouped
    <3>2. CASE x \notin Existing
      BY <1>0, <2>1, <2>3, <3>2, LinkingAct
    <3> QED
      BY <3>1, <3>2
  <2>4. ASSUME NEW x \in g, x = entry[1] PROVE entry[2] \in g
    BY <2>6, <2>2, <2>4 DEF Grouped, Disjoint
  <2>5. \A x, y \in g \cap Existing : data[fs[x]] = data[fs[y]]
    BY <1>0, <2>6 DEF Grouped, GroupsAlike
  <2> QED
    BY <2>3, <2>4, <2>5
<1>4. CASE ~Scan /\ (Plans \/ PlanGroup \/ Calm) /\ ~Environment
  <2>1. fs' = fs /\ data' = data /\ Existing' = Existing /\ changed' = changed
    BY <1>4, ChangedKept DEF Plans, PlanFolder, PlanGroup, Calm, disk, Existing
  <2> QED
    BY <1>0, <1>2, <1>4, <2>1 DEF Grouped, GroupsAlike
<1>5. CASE ~Scan /\ Environment
  <2>1. g \in groups \ changed' /\ g \in groups \ changed
    BY <1>2, <1>5, EnvironmentFacts
  <2>2. /\ p \in Existing /\ data'[fs'[p]] = data[fs[p]]
        /\ q \in Existing /\ data'[fs'[q]] = data[fs[q]]
    BY <1>5, <2>1, EnvironmentFacts
  <2> QED
    BY <1>0, <2>1, <2>2 DEF Grouped, GroupsAlike
<1>6. CASE Prune
  BY <1>0, <1>6, PruneFacts
<1> QED
  BY <1>1, <1>3, <1>4, <1>5, <1>6, StepKinds

LEMMA ContentStep ==
  ASSUME Typed, Grouped, [Next]_vars, env' = env, ~Removing
  PROVE  ContentsOf(Unchanged) \subseteq ContentsOf(Existing)'
<1> SUFFICES ASSUME NEW x \in Unchanged
             PROVE  x \in Existing' /\ data'[fs'[x]] = data[fs[x]]
  BY DEF ContentsOf
<1>0. x \in Existing
  BY DEF Unchanged
<1>1. CASE \E entry \in todo : Act(entry)
  BY <1>1, LinkingKeeps DEF Grouped
<1>2. CASE Plans \/ PlanGroup \/ Calm
  BY <1>0, <1>2 DEF Plans, PlanFolder, PlanGroup, Calm, disk, Existing
<1>3. CASE Environment
  BY <1>3, EnvironmentFacts
<1>4. CASE Prune
  BY <1>4, PruneFacts
<1> QED
  BY <1>1, <1>2, <1>3, <1>4, StepKinds

\* Linking, cloning and copying lose no content of the tree, for every tree and
\* however the matches overlap, with stale matches too and whatever other
\* programs do: what is linked together was reported in one group, and the
\* members of a group stay alike until others change one of them.
THEOREM ContentKept == Spec => ContentPreserved
<1>1. Init => Typed /\ Grouped
  BY TypedInit DEF Init, Grouped, OneGroup, Disjoint, GroupsAlike
<1>2. Typed /\ Grouped /\ [Next]_vars => (Typed /\ Grouped)'
  BY TypedStep, OneGroupStep, DisjointStep, GroupsAlikeStep DEF Grouped
<1>3. Typed /\ Grouped /\ [Next]_vars =>
        [(env' = env /\ ~Removing) => ContentsOf(Unchanged) \subseteq ContentsOf(Existing)']_vars
  BY ContentStep
<1> QED
  BY <1>1, <1>2, <1>3, PTL DEF Spec, ContentPreserved
-----------------------------------------------------------------------------
(* Contents, while a folder plan whose partners are there is applied.      *)

LEMMA ConcatElements ==
  ASSUME NEW S, NEW s \in Seq(S), NEW t \in Seq(S)
  PROVE  /\ s \o t \in Seq(S) /\ Len(s) \in Nat /\ Len(t) \in Nat
         /\ \A i \in DOMAIN (s \o t) :
               \/ i \in DOMAIN s /\ (s \o t)[i] = s[i]
               \/ i - Len(s) \in DOMAIN t /\ ~(i \in DOMAIN s) /\ (s \o t)[i] = t[i - Len(s)]
<1>1. /\ s \o t \in Seq(S) /\ Len(s) \in Nat /\ Len(t) \in Nat
      /\ DOMAIN s = 1..Len(s) /\ DOMAIN t = 1..Len(t)
  BY LenProperties, ConcatProperties
<1>2. Len(s \o t) = Len(s) + Len(t) /\ DOMAIN (s \o t) = 1..(Len(s) + Len(t))
  BY <1>1, LenProperties, ConcatProperties
<1>3. \A i \in 1..(Len(s) + Len(t)) : (s \o t)[i] = IF i <= Len(s) THEN s[i] ELSE t[i - Len(s)]
  BY ConcatProperties
<1> SUFFICES ASSUME NEW i \in 1..(Len(s) + Len(t))
             PROVE  \/ i \in DOMAIN s /\ (s \o t)[i] = s[i]
                    \/ i - Len(s) \in DOMAIN t /\ ~(i \in DOMAIN s) /\ (s \o t)[i] = t[i - Len(s)]
  BY <1>1, <1>2
<1>4. CASE i <= Len(s)
  <2>1. i \in DOMAIN s
    BY <1>1, <1>4
  <2> QED
    BY <1>3, <1>4, <2>1
<1>5. CASE ~(i <= Len(s))
  <2>1. i - Len(s) \in 1..Len(t) /\ ~(i \in 1..Len(s))
    BY <1>1, <1>5
  <2> QED
    BY <1>1, <1>3, <1>5, <2>1
<1> QED
  BY <1>4, <1>5

\* The folder that is kept is not the one that is acted on.
PairsApart ==
  /\ \A m \in ToSet(found) : m.type = "contained" => m.subset # m.superset
  /\ \A pair \in batch : pair.removed # pair.kept

LEMMA PairsApartStep ==
  ASSUME Typed, PairsApart, [Next]_vars
  PROVE  PairsApart'
<1>0. found \in Seq(Matches)
  BY DEF Typed, Run
<1>1. ASSUME NEW d \in pending, Examine(d) PROVE PairsApart'
  <2>1. d \in Dirs /\ Verdict(d) \in Seq(Matches)
    BY <1>1, VerdictMatches DEF Typed, Run
  <2>2. found' = found \o Verdict(d) /\ batch' = batch
    BY <1>1 DEF Examine
  <2>3. ASSUME NEW m \in ToSet(Verdict(d)), m.type = "contained" PROVE m.subset # m.superset
    <3>1. m # Exact(Members(d))
      BY <2>3 DEF Exact
    <3>2. PICK base \in Supersets(d, SignatureOf(d)) : m = Contained(d, base)
      BY <2>1, <3>1, VerdictMatches
    <3> QED
      BY <3>2 DEF Contained, Supersets
  <2>4. ToSet(found') \subseteq ToSet(found) \cup ToSet(Verdict(d))
    <3> SUFFICES ASSUME NEW i \in DOMAIN (found \o Verdict(d))
                 PROVE  (found \o Verdict(d))[i] \in ToSet(found) \cup ToSet(Verdict(d))
      BY <2>2 DEF ToSet
    <3> QED
      BY <1>0, <2>1, ConcatElements DEF ToSet
  <2> QED
    BY <2>2, <2>3, <2>4 DEF PairsApart
<1>2. CASE NextMatch
  <2>1. found # <<>> /\ found' = Tail(found) /\ batch' = MatchPairs(Head(found))
    BY <1>2 DEF NextMatch
  <2>2. Head(found) \in ToSet(found) /\ Head(found) \in Matches
    BY <1>0, <2>1 DEF ToSet
  <2>3. ToSet(found') \subseteq ToSet(found)
    <3> SUFFICES ASSUME NEW i \in DOMAIN Tail(found) PROVE Tail(found)[i] \in ToSet(found)
      BY <2>1 DEF ToSet
    <3>1. /\ Len(Tail(found)) = Len(found) - 1 /\ DOMAIN Tail(found) = 1..(Len(found) - 1)
          /\ Len(found) \in Nat /\ DOMAIN found = 1..Len(found)
          /\ Tail(found)[i] = found[i + 1]
      BY <1>0, <2>1, HeadTailProperties, LenProperties
    <3>2. i + 1 \in DOMAIN found
      BY <3>1
    <3> QED
      BY <3>1, <3>2 DEF ToSet
  <2> QED
    BY <2>1, <2>2, <2>3, MatchPairsFacts DEF PairsApart
<1>3. CASE PickMatch
  <2>1. PICK m \in ToSet(found) : \E k \in IF m.type = "exact" THEN m.folders ELSE {m.superset} :
           batch' = PairsKeeping(m, k)
    BY <1>3 DEF PickMatch
  <2>2. PICK k \in IF m.type = "exact" THEN m.folders ELSE {m.superset} :
           batch' = PairsKeeping(m, k)
    BY <2>1
  <2>3. m \in Matches
    BY <1>0, <2>1 DEF ToSet
  <2>4. k \in Dirs /\ (m.type = "contained" => k = m.superset)
    BY <2>2, <2>3 DEF Matches, Exact, Contained
  <2>5. found' = found
    BY <1>3 DEF PickMatch, finder
  <2> QED
    BY <2>1, <2>2, <2>3, <2>4, <2>5, PairsFacts DEF PairsApart
<1>4. CASE found' = found /\ batch' \subseteq batch
  BY <1>4 DEF PairsApart
<1>5. CASE \/ Scan \/ ListTree \/ StartActing \/ Environment \/ UNCHANGED vars
           \/ PlanGroup \/ FinishGroup \/ Finish \/ FinishFolder
           \/ \E pair \in batch : \E seen \in Listings(Files(Scanned, pair.removed)) :
                 PlanFolder(pair, seen) \/ PlanRefused(pair, seen)
           \/ \E entry \in todo : Act(entry)
  BY <1>4, <1>5 DEF Scan, ListTree, StartActing, Environment, vars, finder, PlanGroup, FinishGroup,
                    Finish, FinishFolder, PlanFolder, PlanRefused, Act, ActionFails, Now
<1> QED
  BY <1>1, <1>2, <1>3, <1>5 DEF Next, FolderStep, Prune, KeepDirectory

\* Every content has a holder that is neither waiting to be removed nor going
\* to be pruned.
SafeHold ==
  (pc = "folder" /\ plan.live /\ plan.quiet /\ Removing) =>
    \A c \in plan.had : \E q \in Existing :
       /\ data[fs[q]] = c
       /\ \A e \in todo : e[1] # q
       /\ ~plan.failed /\ ~plan.skipped => q \notin Files(Path, plan.removed)

\* What is to be linked is there and alike on both sides, and nothing is lost.
LinkHold ==
  (pc = "folder" /\ plan.live /\ plan.quiet /\ ~Removing) =>
    /\ plan.had \subseteq ContentsOf(Existing)
    /\ \A e \in todo : /\ e[1] \in Existing /\ e[2] \in Existing
                       /\ data[fs[e[1]]] = data[fs[e[2]]]

Held == PairsApart /\ SafeHold /\ LinkHold

\* A file and its partner in another folder: the name differs in length by what
\* the folders differ, and two files have no partner in common.
LEMMA PartnerFacts ==
  ASSUME NEW d \in Dir, NEW e \in Dir, NEW p \in Files(Path, d), NEW q \in Partner(p, d, e)
  PROVE  /\ q \in Path /\ IsPrefix(e, Parts[q])
         /\ Len(Parts[q]) = Len(e) + (Len(Parts[p]) - Len(d))
         /\ Len(Parts[p]) \in Nat /\ Len(Parts[q]) \in Nat /\ Len(d) \in Nat /\ Len(e) \in Nat
         /\ \A p2 \in Files(Path, d) : q \in Partner(p2, d, e) => p = p2
<1>1. q \in Path /\ Parts[q] = e \o Relative(p, d)
  BY DEF Partner
<1>2. Relative(p, d) \in Dir /\ Len(Relative(p, d)) = Len(Parts[p]) - Len(d)
      /\ Parts[p] = d \o Relative(p, d)
  BY RelativeFacts
<1>3. /\ IsPrefix(e, Parts[q]) /\ Relative(q, e) = Relative(p, d)
      /\ Len(Parts[q]) = Len(e) + Len(Relative(p, d))
  BY <1>1, <1>2, RelativeUnique
<1>4. p \in Path
  BY DEF Files
<1>5. Len(Parts[p]) \in Nat /\ Len(Parts[q]) \in Nat /\ Len(d) \in Nat /\ Len(e) \in Nat
  BY <1>1, <1>4, PathParts DEF Dir
<1>6. ASSUME NEW p2 \in Files(Path, d), q \in Partner(p2, d, e) PROVE p = p2
  <2>1. p2 \in Path /\ Parts[q] = e \o Relative(p2, d)
    BY <1>6 DEF Partner, Files
  <2>2. Relative(p2, d) \in Dir /\ Parts[p2] = d \o Relative(p2, d)
    BY RelativeFacts
  <2>3. Relative(q, e) = Relative(p2, d)
    BY <1>1, <2>1, <2>2, RelativeUnique
  <2> QED
    BY <1>2, <1>3, <1>4, <2>1, <2>2, <2>3, PartsInjective
<1> QED
  BY <1>1, <1>2, <1>3, <1>5, <1>6

\* A set of files of a folder cannot be closed under taking the partner in
\* another folder: names would get shorter and shorter, longer and longer, or
\* the folders would be one.
LEMMA PartnersLeave ==
  ASSUME NEW d \in Dir, NEW e \in Dir, d # e,
         NEW H \in SUBSET Files(Path, d), H # {}
  PROVE  \E p \in H : Partner(p, d, e) \cap H = {}
<1> SUFFICES ASSUME \A p \in H : Partner(p, d, e) \cap H # {} PROVE FALSE
  OBVIOUS
<1> DEFINE f == [p \in H |-> CHOOSE q \in H : q \in Partner(p, d, e)]
           Lengths == {Len(Parts[p]) : p \in H}
<1>1. /\ H \in SUBSET Path /\ IsFiniteSet(H) /\ Len(d) \in Nat /\ Len(e) \in Nat
      /\ \A p \in H : Len(Parts[p]) \in Nat
  <2>1. H \subseteq Path
    BY DEF Files
  <2>2. IsFiniteSet(H)
    BY <2>1, FS_Subset, PartsAssumption
  <2> QED
    BY <2>1, <2>2, PathParts DEF Dir
<1>2. f \in [H -> H] /\ \A p \in H : f[p] \in Partner(p, d, e)
  OBVIOUS
<1>3. PICK m \in Lengths : \A x \in Lengths : m <= x
  <2>1. Lengths \in SUBSET Nat /\ Lengths # {}
    BY <1>1
  <2> HIDE DEF Lengths
  <2> QED
    BY <2>1, LeastNumber
<1>4. PICK a \in H : Len(Parts[a]) = m /\ \A p \in H : Len(Parts[a]) <= Len(Parts[p])
  BY <1>3
<1> HIDE DEF f, Lengths
<1>5. \A p \in H : Len(Parts[f[p]]) = Len(e) + (Len(Parts[p]) - Len(d))
                   /\ IsPrefix(e, Parts[f[p]])
  BY <1>2, PartnerFacts
<1>6. CASE Len(e) < Len(d)
  <2>1. f[a] \in H /\ Len(Parts[f[a]]) < Len(Parts[a])
    BY <1>1, <1>2, <1>4, <1>5, <1>6
  <2>2. /\ Len(Parts[f[a]]) \in Nat /\ Len(Parts[a]) \in Nat
        /\ Len(Parts[a]) <= Len(Parts[f[a]])
    BY <1>1, <1>4, <2>1
  <2> QED
    BY <2>1, <2>2
<1>7. CASE Len(d) < Len(e)
  <2>1. f \in Injection(H, H)
    <3>1. \A p, q \in H : f[p] = f[q] => p = q
      BY <1>2, PartnerFacts
    <3> QED
      BY <1>2, <3>1 DEF Injection, IsInjective
  <2>2. f \in Surjection(H, H)
    BY ONLY <1>1, <2>1, FS_Injection
  <2>3. PICK b \in H : f[b] = a
    BY <1>4, <2>2 DEF Surjection
  <2>5. /\ Len(Parts[a]) = Len(e) + (Len(Parts[b]) - Len(d))
        /\ {Len(Parts[a]), Len(Parts[b]), Len(d), Len(e)} \subseteq Nat
    BY ONLY <1>1, <1>4, <1>5, <2>3
  <2>4. Len(Parts[b]) < Len(Parts[a])
    BY ONLY <1>7, <2>5
  <2> QED
    BY <1>1, <1>4, <2>3, <2>4
<1>8. CASE Len(d) = Len(e)
  <2>1. f[a] \in H /\ IsPrefix(e, Parts[f[a]]) /\ IsPrefix(d, Parts[f[a]])
    BY <1>2, <1>4, <1>5 DEF Files
  <2>2. Parts[f[a]] \in Dir
    BY <1>1, <2>1, PathParts
  <2>3. \A i \in 1..Len(d) : d[i] = e[i]
    <3>1. \A i \in 1..Len(d) : d[i] = Parts[f[a]][i]
      BY <2>1, <2>2, PrefixElements
    <3>2. \A i \in 1..Len(e) : e[i] = Parts[f[a]][i]
      BY <2>1, <2>2, PrefixElements
    <3> QED
      BY <1>8, <3>1, <3>2
  <2> QED
    BY <1>8, <2>3, SeqEqual DEF Dir
<1> QED
  BY <1>1, <1>6, <1>7, <1>8

LEMMA PlannedHolds ==
  ASSUME Typed, PairsApart, NEW pair \in batch, NEW seen, PlanFolder(pair, seen), plan'.live
  PROVE  /\ \A c \in plan'.had : \E q \in Existing :
               /\ data[fs[q]] = c
               /\ \A e \in todo' : e[1] # q
               /\ ~plan'.skipped => q \notin Files(Path, plan'.removed)
         /\ plan'.had \subseteq ContentsOf(Existing)
         /\ \A e \in todo' : /\ e[1] \in Existing /\ e[2] \in Existing
                             /\ data[fs[e[1]]] = data[fs[e[2]]]
<1> DEFINE r == pair.removed
           k == pair.kept
           F == seen \ Protected
           unseen == Files(Existing, r) \ seen
           There == Existing \ unseen
           pairs == UNION {{p} \X Partner(p, r, k) : p \in F}
<1>1. r \in Dir /\ k \in Dir /\ r # k
  BY DirsFacts DEF Typed, Run, PairsApart
<1>2. /\ F \subseteq Existing /\ F \subseteq Files(Path, r) /\ F \subseteq There
      /\ There \subseteq Existing
  BY DEF PlanFolder, Planning, Listings, Scanned, Files, Existing
<1>3. todo' = pairs
  BY DEF PlanFolder
<1>4. plan' = [removed |-> r,
               skipped |-> seen \cap Protected # {},
               failed |-> FALSE, unseen |-> unseen,
               live |-> \A e \in pairs : e[2] \in There /\ data[fs[e[2]]] = data[fs[e[1]]],
               quiet |-> TRUE, had |-> ContentsOf(There)]
  BY DEF PlanFolder
<1>5. /\ plan'.removed = r /\ plan'.had = ContentsOf(There)
      /\ plan'.skipped = (seen \cap Protected # {})
  BY <1>4
<1>6. \A e \in pairs : e[2] \in There /\ data[fs[e[2]]] = data[fs[e[1]]]
  BY <1>4
<1>12. ASSUME NEW q \in There \ F, ~plan'.skipped PROVE q \notin Files(Path, r)
  BY <1>5, <1>12 DEF Files, Existing
<1> HIDE DEF pairs, F, r, k, There, unseen
<1>7. \A e \in todo' : e = <<e[1], e[2]>> /\ e[1] \in F /\ e[2] \in Path
  BY PlannedPairs DEF F
<1>8. \A p \in F : \E q \in Path : q \in Partner(p, r, k) /\ <<p, q>> \in todo'
  <2> SUFFICES ASSUME NEW p \in F PROVE \E q \in Path : q \in Partner(p, r, k) /\ <<p, q>> \in todo'
    OBVIOUS
  <2>1. Confirmed(p, Partner(p, r, k))
    BY DEF PlanFolder, CanPlan, F, r, k
  <2>2. PICK q \in Partner(p, r, k) : TRUE
    BY <2>1 DEF Confirmed
  <2>3. q \in Path
    BY DEF Partner
  <2> QED
    BY <1>3, <2>2, <2>3 DEF pairs
<1>9. \A e \in todo' : /\ e[1] \in There /\ e[2] \in There
                       /\ data[fs[e[1]]] = data[fs[e[2]]]
  BY <1>2, <1>3, <1>6, <1>7
<1>10. ASSUME NEW c \in ContentsOf(There)
       PROVE  \E q \in There \ F : data[fs[q]] = c
  <2> SUFFICES ASSUME \A q \in There \ F : data[fs[q]] # c PROVE FALSE
    OBVIOUS
  <2> DEFINE H == {p \in There : data[fs[p]] = c}
  <2>1. H # {}
    BY <1>10 DEF ContentsOf
  <2>2. H \subseteq F
    OBVIOUS
  <2>3. H \in SUBSET Files(Path, r)
    BY <1>2, <2>2
  <2>4. PICK p \in H : Partner(p, r, k) \cap H = {}
    <3> HIDE DEF H
    <3> QED
      BY <1>1, <2>1, <2>3, PartnersLeave
  <2>5. PICK q \in Path : q \in Partner(p, r, k) /\ <<p, q>> \in todo'
    BY <1>8, <2>2, <2>4
  <2>6. q \in There /\ data[fs[p]] = data[fs[q]]
    BY <1>9, <2>5
  <2>7. q \in H
    BY <2>4, <2>6
  <2> QED
    BY <2>4, <2>5, <2>7
<1>11. plan'.had \subseteq ContentsOf(Existing)
  BY <1>2, <1>5 DEF ContentsOf
<1> QED
  BY <1>2, <1>5, <1>7, <1>9, <1>10, <1>11, <1>12

LEMMA SafeHoldStep ==
  ASSUME Typed, Held, [Next]_vars
  PROVE  SafeHold'
<1> SUFFICES ASSUME pc' = "folder", plan'.live, plan'.quiet, Removing', NEW c \in plan'.had
             PROVE  \E q \in Existing' :
                       /\ data'[fs'[q]] = c
                       /\ \A e \in todo' : e[1] # q
                       /\ ~plan'.failed /\ ~plan'.skipped => q \notin Files(Path, plan'.removed)
  BY DEF SafeHold
<1>0. kind' = kind /\ Removing
  BY StepKinds DEF Removing
<1>1. CASE Plans
  <2>1. PICK pair \in batch : \E seen \in Listings(Files(Scanned, pair.removed)) :
           PlanFolder(pair, seen)
    BY <1>1 DEF Plans
  <2>9. PICK seen \in Listings(Files(Scanned, pair.removed)) : PlanFolder(pair, seen)
    BY <2>1
  <2>2. fs' = fs /\ data' = data /\ Existing' = Existing
    BY <2>9 DEF PlanFolder, disk, Existing
  <2>3. PICK q \in Existing : /\ data[fs[q]] = c
                              /\ \A e \in todo' : e[1] # q
                              /\ ~plan'.skipped => q \notin Files(Path, plan'.removed)
    BY <2>9, PlannedHolds DEF Held
  <2> QED
    BY <2>2, <2>3
<1>2. CASE PlanGroup
  BY <1>2 DEF PlanGroup
<1>3. CASE \E entry \in todo : Act(entry)
  <2>1. PICK entry \in todo : Act(entry)
    BY <1>3
  <2>2. pc = "folder" /\ plan \in PlanType
    BY <1>0, <2>1, RemovingAct DEF Typed, Run
  <2>3. /\ plan'.quiet = plan.quiet /\ plan'.skipped = plan.skipped /\ plan'.removed = plan.removed
        /\ plan'.live = plan.live /\ plan'.had = plan.had /\ (plan.failed => plan'.failed)
    BY <1>0, <2>1, <2>2, RemovingAct DEF PlanType
  <2>4. PICK q \in Existing :
          /\ data[fs[q]] = c
          /\ \A e \in todo : e[1] # q
          /\ ~plan.failed /\ ~plan.skipped => q \notin Files(Path, plan.removed)
    BY <1>0, <2>2, <2>3 DEF Held, SafeHold
  <2>5. q \in Path /\ fs[q] # NoFile /\ q # entry[1]
    BY <2>1, <2>4 DEF Existing
  <2>6. fs'[q] = fs[q] /\ data' = data /\ todo' \subseteq todo
    BY <1>0, <2>1, <2>5, RemovingAct DEF Typed, Disk
  <2>7. q \in Existing'
    BY <2>5, <2>6 DEF Existing
  <2> QED
    BY <2>3, <2>4, <2>6, <2>7
<1>4. CASE Environment
  <2>1. plan' = [plan EXCEPT !.quiet = pc # "folder"] /\ pc' = pc /\ plan \in PlanType
    BY <1>4 DEF Environment, Typed, Run
  <2>2. plan'.quiet = FALSE
    BY <2>1 DEF PlanType
  <2> QED
    BY <2>2
<1>5. CASE Prune
  BY <1>5, PruneFacts
<1>6. CASE Calm
  <2>1. fs' = fs /\ data' = data /\ Existing' = Existing /\ todo' = todo /\ plan' = plan /\ pc = "folder"
    BY <1>6 DEF Calm, disk, Existing
  <2> QED
    BY <1>0, <2>1 DEF Held, SafeHold
<1> QED
  BY <1>1, <1>2, <1>3, <1>4, <1>5, <1>6, StepKinds

LEMMA LinkHoldStep ==
  ASSUME Typed, Held, [Next]_vars
  PROVE  LinkHold'
<1> SUFFICES ASSUME pc' = "folder", plan'.live, plan'.quiet, ~Removing'
             PROVE  /\ plan'.had \subseteq ContentsOf(Existing)'
                    /\ \A e \in todo' : /\ e[1] \in Existing' /\ e[2] \in Existing'
                                        /\ data'[fs'[e[1]]] = data'[fs'[e[2]]]
  BY DEF LinkHold
<1>0. kind' = kind /\ ~Removing
  BY StepKinds DEF Removing
<1>1. CASE Plans
  <2>1. PICK pair \in batch : \E seen \in Listings(Files(Scanned, pair.removed)) :
           PlanFolder(pair, seen)
    BY <1>1 DEF Plans
  <2>9. PICK seen \in Listings(Files(Scanned, pair.removed)) : PlanFolder(pair, seen)
    BY <2>1
  <2>2. fs' = fs /\ data' = data /\ Existing' = Existing /\ ContentsOf(Existing)' = ContentsOf(Existing)
    BY <2>9 DEF PlanFolder, disk, Existing, ContentsOf
  <2> QED
    BY <2>9, <2>2, PlannedHolds DEF Held
<1>2. CASE PlanGroup
  BY <1>2 DEF PlanGroup
<1>3. CASE \E entry \in todo : Act(entry)
  <2>1. PICK entry \in todo : Act(entry)
    BY <1>3
  <2>2. pc = "folder" /\ plan \in PlanType /\ todo' \subseteq todo
    BY <1>0, <2>1, LinkingAct DEF Typed, Run
  <2>3. plan'.quiet = plan.quiet /\ plan'.live = plan.live /\ plan'.had = plan.had
    BY <1>0, <2>1, <2>2, LinkingAct DEF PlanType
  <2>4. /\ plan.had \subseteq ContentsOf(Existing)
        /\ \A e \in todo : /\ e[1] \in Existing /\ e[2] \in Existing
                           /\ data[fs[e[1]]] = data[fs[e[2]]]
    BY <1>0, <2>2, <2>3 DEF Held, LinkHold
  <2>5. \A x \in Existing : x \in Existing' /\ data'[fs'[x]] = data[fs[x]]
    <3> SUFFICES ASSUME NEW x \in Existing PROVE x \in Existing' /\ data'[fs'[x]] = data[fs[x]]
      OBVIOUS
    <3>1. CASE x # entry[1]
      BY <1>0, <2>1, <3>1, LinkingAct
    <3>2. CASE x = entry[1]
      BY <1>0, <2>1, <2>4, <3>2, LinkingAct
    <3> QED
      BY <3>1, <3>2
  <2>6. ContentsOf(Existing) \subseteq ContentsOf(Existing)'
    BY <2>5 DEF ContentsOf
  <2> QED
    BY <2>2, <2>3, <2>4, <2>5, <2>6
<1>4. CASE Environment
  <2>1. plan' = [plan EXCEPT !.quiet = pc # "folder"] /\ pc' = pc /\ plan \in PlanType
    BY <1>4 DEF Environment, Typed, Run
  <2>2. plan'.quiet = FALSE
    BY <2>1 DEF PlanType
  <2> QED
    BY <2>2
<1>5. CASE Prune
  BY <1>5, PruneFacts
<1>6. CASE Calm
  <2>1. /\ fs' = fs /\ data' = data /\ Existing' = Existing /\ todo' = todo /\ plan' = plan
        /\ pc = "folder" /\ ContentsOf(Existing)' = ContentsOf(Existing)
    BY <1>6 DEF Calm, disk, Existing, ContentsOf
  <2> QED
    BY <1>0, <2>1 DEF Held, LinkHold
<1> QED
  BY <1>1, <1>2, <1>3, <1>4, <1>5, <1>6, StepKinds

LEMMA LivePlanStep ==
  ASSUME Typed, Held, [Next]_vars, plan.live, plan.quiet, env' = env
  PROVE  plan.had \subseteq ContentsOf(Existing)'
<1>0. pc = "folder"
  BY DEF Typed, Run, NoPlan
<1>1. plan.had \subseteq ContentsOf(Existing)
  BY <1>0 DEF Held, SafeHold, LinkHold, ContentsOf
<1>2. CASE Plans \/ PlanGroup \/ Calm
  <2>1. ContentsOf(Existing)' = ContentsOf(Existing)
    BY <1>2 DEF Plans, PlanFolder, PlanGroup, Calm, disk, Existing, ContentsOf
  <2> QED
    BY <1>1, <2>1
<1>3. CASE (\E entry \in todo : Act(entry)) /\ Removing
  <2>1. PICK entry \in todo : Act(entry)
    BY <1>3
  <2> SUFFICES ASSUME NEW c \in plan.had PROVE \E q \in Existing' : data'[fs'[q]] = c
    BY DEF ContentsOf
  <2>2. PICK q \in Existing : data[fs[q]] = c /\ \A e \in todo : e[1] # q
    BY <1>0, <1>3 DEF Held, SafeHold
  <2>3. q \in Path /\ fs[q] # NoFile /\ q # entry[1]
    BY <2>1, <2>2 DEF Existing
  <2>4. fs'[q] = fs[q] /\ data' = data
    BY <1>3, <2>1, <2>3, RemovingAct DEF Typed, Disk
  <2> QED
    BY <2>2, <2>3, <2>4 DEF Existing
<1>4. CASE (\E entry \in todo : Act(entry)) /\ ~Removing
  <2>1. PICK entry \in todo : Act(entry)
    BY <1>4
  <2>2. \A x \in Existing : x \in Existing' /\ data'[fs'[x]] = data[fs[x]]
    <3> SUFFICES ASSUME NEW x \in Existing PROVE x \in Existing' /\ data'[fs'[x]] = data[fs[x]]
      OBVIOUS
    <3>1. CASE x # entry[1]
      BY <1>4, <2>1, <3>1, LinkingAct
    <3>2. CASE x = entry[1]
      <4>1. data[fs[x]] = data[fs[entry[2]]]
        BY <1>0, <1>4, <2>1, <3>2 DEF Held, LinkHold
      <4> QED
        BY <1>4, <2>1, <3>2, <4>1, LinkingAct
    <3> QED
      BY <3>1, <3>2
  <2> QED
    BY <1>1, <2>2 DEF ContentsOf
<1>5. CASE Environment
  BY <1>5, EnvironmentFacts
<1>6. CASE Prune
  <2> SUFFICES ASSUME NEW c \in plan.had PROVE \E q \in Existing' : data'[fs'[q]] = c
    BY DEF ContentsOf
  <2>1. PICK q \in Existing : data[fs[q]] = c /\ q \notin Files(Path, plan.removed)
    BY <1>0, <1>6, PruneFacts DEF Held, SafeHold
  <2>2. q \in Path /\ fs[q] # NoFile /\ q \notin Files(Existing, plan.removed)
    BY <2>1 DEF Existing, Files
  <2>3. fs'[q] = fs[q] /\ data' = data
    BY <1>6, <2>2, PruneFacts
  <2> QED
    BY <2>1, <2>2, <2>3 DEF Existing
<1> QED
  BY <1>2, <1>3, <1>4, <1>5, <1>6, StepKinds

\* Applying a folder plan whose partners were all there loses no content of the
\* tree, for every tree and every match, whatever fails and however far the
\* pruning gets: no set of files of the folder can have all its copies among
\* the files to be removed.  Only files that the walk of the planning has
\* missed are pruned without a partner.
THEOREM LivePlanSafe == Spec => LivePlanLosesNothing
<1>1. Init => Typed /\ Held
  BY TypedInit DEF Init, Held, PairsApart, SafeHold, LinkHold, ToSet
<1>2. Typed /\ Held /\ [Next]_vars => (Typed /\ Held)'
  BY TypedStep, PairsApartStep, SafeHoldStep, LinkHoldStep DEF Held
<1>3. Typed /\ Held /\ [Next]_vars =>
        [(plan.live /\ plan.quiet /\ env' = env) => plan.had \subseteq ContentsOf(Existing)']_vars
  BY LivePlanStep
<1> QED
  BY <1>1, <1>2, <1>3, PTL DEF Spec, LivePlanLosesNothing
-----------------------------------------------------------------------------
(* The matches.                                                            *)

\* Groups of files that are there, the members of one alike.
GroupsTrue ==
  /\ UNION groups \subseteq Scanned
  /\ \A g \in groups : \A p, q \in g : data[fs[p]] = data[fs[q]]

\* What the finder works on is true of the disk, unless others touched it.
Snapshot ==
  /\ pc \in {"idle", "scanned"} => found = <<>>
  /\ (pc \in {"scanned", "finding"} /\ Undisturbed) => GroupsTrue
  /\ (pc = "finding" /\ Undisturbed) => listing \subseteq Scanned
  /\ pc = "finding" => \A d \in pending : FullyDuplicated(listing, groups, d)

\* The folders of a match are claimed.
ClaimsRecorded == \A i \in DOMAIN found : Claims(found[i]) \subseteq claimed

Found == Snapshot /\ ClaimsRecorded /\ MatchesTrue /\ NestedMatchesOmitted

LEMMA UndisturbedStep ==
  ASSUME Typed, [Next]_vars, Undisturbed'
  PROVE  Undisturbed /\ ~Environment
<1>1. CASE Environment
  BY <1>1, EnvironmentFacts DEF Undisturbed
<1>2. CASE ~Environment
  <2>1. env' = env
    BY <1>2, StepKinds, PruneFacts DEF Plans, PlanFolder, PlanGroup, Act, ActionFails, Now, Calm
  <2> QED
    BY <1>2, <2>1 DEF Undisturbed
<1> QED
  BY <1>1, <1>2

\* The finder's steps; what they leave alone.
LEMMA FinderSteps ==
  ASSUME Typed, [Next]_vars
  PROVE  \/ Scan
         \/ ListTree
         \/ \E d \in pending : Examine(d)
         \/ pc' \notin {"idle", "scanned", "finding"} /\ UNCHANGED <<claimed, found>>
         \/ pc' \notin {"idle", "scanned", "finding"} /\ NextMatch
         \/ Environment
         \/ UNCHANGED vars
<1>1. CASE StartActing
  BY <1>1 DEF StartActing, finder
<1>2. CASE FolderStep /\ ~NextMatch
  BY <1>2 DEF FolderStep, PickMatch, PlanFolder, PlanRefused, Planning, Prune, KeepDirectory,
              FinishFolder, finder
<1>3. CASE NextMatch
  BY <1>3 DEF NextMatch
<1>4. CASE PlanGroup \/ FinishGroup \/ Finish
  BY <1>4 DEF PlanGroup, FinishGroup, Finish, finder
<1>5. CASE \E entry \in todo : Act(entry)
  BY <1>5 DEF Act, ActionFails, Now, finder
<1> QED
  BY <1>1, <1>2, <1>3, <1>4, <1>5 DEF Next

LEMMA SnapshotStep ==
  ASSUME Typed, Snapshot, [Next]_vars
  PROVE  Snapshot'
<1>1. CASE Scan
  <2>1. /\ pc' = "scanned" /\ UNCHANGED <<fs, data>> /\ pc = "idle" /\ found' = found
    BY <1>1 DEF Scan, disk
  <2>2. PICK seen \in SUBSET Scanned :
           \A g \in groups' : \E c \in Content : g = {p \in seen : data[fs[p]] = c}
    BY <1>1, ScanFacts
  <2>3. Scanned' = Scanned
    BY <2>1 DEF Scanned, Existing
  <2>4. ASSUME NEW g \in groups'
        PROVE  g \subseteq Scanned /\ \A p, q \in g : data[fs[p]] = data[fs[q]]
    <3>1. PICK c \in Content : g = {p \in seen : data[fs[p]] = c}
      BY <2>2
    <3> QED
      BY <3>1
  <2>5. GroupsTrue'
    BY <2>1, <2>3, <2>4 DEF GroupsTrue
  <2> QED
    BY <2>1, <2>5 DEF Snapshot
<1>2. CASE ListTree
  <2>1. /\ groups' = groups /\ pc = "scanned" /\ pc' = "finding" /\ UNCHANGED <<fs, data, env>>
        /\ listing' \subseteq Scanned
        /\ pending' = {d \in Dirs : FullyDuplicated(listing', groups, d)}
    BY <1>2 DEF ListTree, Listings, disk
  <2>2. GroupsTrue' = GroupsTrue /\ Scanned' = Scanned
    BY <2>1 DEF GroupsTrue, Scanned, Existing
  <2>3. \A d \in pending' : FullyDuplicated(listing', groups', d)
    BY <2>1
  <2> QED
    BY <2>1, <2>2, <2>3 DEF Snapshot, Undisturbed
<1>3. CASE \E d \in pending : Examine(d)
  <2>1. /\ UNCHANGED <<groups, listing, pc, env, fs, data>> /\ pending' \subseteq pending
        /\ pc = "finding"
    BY <1>3 DEF Examine, disk
  <2>2. GroupsTrue' = GroupsTrue /\ Scanned' = Scanned
    BY <2>1 DEF GroupsTrue, Scanned, Existing
  <2> QED
    BY <2>1, <2>2 DEF Snapshot, Undisturbed
<1>4. CASE pc' \notin {"idle", "scanned", "finding"}
  BY <1>4 DEF Snapshot
<1>5. CASE Environment
  <2>1. UNCHANGED <<groups, listing, pending, pc, found>> /\ ~Undisturbed'
    BY <1>5, EnvironmentFacts DEF Environment, Undisturbed, finder
  <2> QED
    BY <2>1 DEF Snapshot
<1>6. CASE UNCHANGED vars
  <2>1. UNCHANGED <<groups, listing, pending, pc, env, fs, data, found>>
    BY <1>6 DEF vars, finder, disk
  <2>2. GroupsTrue' = GroupsTrue /\ Scanned' = Scanned
    BY <2>1 DEF GroupsTrue, Scanned, Existing
  <2> QED
    BY <2>1, <2>2 DEF Snapshot, Undisturbed
<1> QED
  BY <1>1, <1>2, <1>3, <1>4, <1>5, <1>6, FinderSteps

LEMMA ClaimsRecordedStep ==
  ASSUME Typed, ClaimsRecorded, [Next]_vars
  PROVE  ClaimsRecorded'
<1>0. found \in Seq(Matches)
  BY DEF Typed, Run
<1>1. ASSUME NEW d \in pending, Examine(d) PROVE ClaimsRecorded'
  <2>1. d \in Dirs /\ Verdict(d) \in Seq(Matches)
    BY <1>1, VerdictMatches DEF Typed, Run
  <2>2. /\ found' = found \o Verdict(d)
        /\ claimed' = claimed \cup UNION {Claims(m) : m \in ToSet(Verdict(d))}
    BY <1>1 DEF Examine, Claims
  <2> SUFFICES ASSUME NEW i \in DOMAIN (found \o Verdict(d))
               PROVE  Claims((found \o Verdict(d))[i]) \subseteq claimed'
    BY <2>2 DEF ClaimsRecorded, Claims
  <2>3. CASE i \in DOMAIN found /\ (found \o Verdict(d))[i] = found[i]
    BY <2>2, <2>3 DEF ClaimsRecorded
  <2>4. CASE i - Len(found) \in DOMAIN Verdict(d) /\ (found \o Verdict(d))[i] = Verdict(d)[i - Len(found)]
    <3>1. (found \o Verdict(d))[i] \in ToSet(Verdict(d))
      BY <2>4 DEF ToSet
    <3> QED
      BY <2>2, <3>1
  <2> QED
    BY <1>0, <2>1, <2>3, <2>4, ConcatElements
<1>2. CASE NextMatch
  <2>1. found # <<>> /\ found' = Tail(found) /\ claimed' = claimed
    BY <1>2 DEF NextMatch
  <2>2. /\ Len(found) \in Nat /\ DOMAIN found = 1..Len(found)
        /\ DOMAIN Tail(found) = 1..(Len(found) - 1)
        /\ \A i \in 1..(Len(found) - 1) : Tail(found)[i] = found[i + 1]
    BY <1>0, <2>1, HeadTailProperties, LenProperties
  <2>3. \A i \in DOMAIN Tail(found) : i + 1 \in DOMAIN found /\ Tail(found)[i] = found[i + 1]
    BY <2>2
  <2> QED
    BY <2>1, <2>3 DEF ClaimsRecorded, Claims
<1>3. CASE UNCHANGED <<claimed, found>>
  BY <1>3 DEF ClaimsRecorded, Claims
<1>4. CASE Scan \/ ListTree \/ Environment \/ UNCHANGED vars
  BY <1>3, <1>4 DEF Scan, ListTree, Environment, vars, finder
<1> QED
  BY <1>1, <1>2, <1>3, <1>4, FinderSteps

\* A later match repeats or overlaps no earlier one.
Separate(m, n) ==
  \/ \A d \in Claims(n) : ~Claimed(d, Claims(m))
  \/ Claims(m) = Claims(n) /\ n.type = "contained"

LEMMA NestedForm ==
  /\ NestedMatchesOmitted <=> \A i, j \in DOMAIN found : i < j => Separate(found[i], found[j])
  /\ NestedMatchesOmitted' <=> \A i, j \in DOMAIN found' : i < j => Separate(found'[i], found'[j])
BY DEF NestedMatchesOmitted, Separate, Claims, Claimed

LEMMA NestedStep ==
  ASSUME Typed, ClaimsRecorded, NestedMatchesOmitted, [Next]_vars
  PROVE  NestedMatchesOmitted'
<1>0. found \in Seq(Matches)
  BY DEF Typed, Run
<1>1. ASSUME NEW d \in pending, Examine(d) PROVE NestedMatchesOmitted'
  <2>1. d \in Dirs /\ Verdict(d) \in Seq(Matches)
    BY <1>1, VerdictMatches DEF Typed, Run
  <2> DEFINE new == found \o Verdict(d)
  <2>2. found' = new
    BY <1>1 DEF Examine
  <2> SUFFICES ASSUME NEW i \in DOMAIN new, NEW j \in DOMAIN new, i < j
               PROVE  Separate(new[i], new[j])
    BY <2>2, NestedForm
  <2>3. /\ Len(found) \in Nat /\ DOMAIN found = 1..Len(found)
        /\ DOMAIN new = 1..(Len(found) + Len(Verdict(d))) /\ Len(Verdict(d)) \in Nat
        /\ DOMAIN Verdict(d) = 1..Len(Verdict(d))
    <3>1. /\ Len(found) \in Nat /\ DOMAIN found = 1..Len(found) /\ Len(Verdict(d)) \in Nat
          /\ DOMAIN Verdict(d) = 1..Len(Verdict(d))
      BY <1>0, <2>1, LenProperties
    <3>2. new \in Seq(Matches) /\ Len(new) = Len(found) + Len(Verdict(d))
      BY <1>0, <2>1, ConcatProperties
    <3>3. DOMAIN new = 1..Len(new)
      <4> HIDE DEF new
      <4> QED
        BY <3>2, LenProperties
    <3> QED
      BY <3>1, <3>2, <3>3
  <2>4. CASE j \in DOMAIN found
    <3>1. i \in DOMAIN found /\ new[i] = found[i] /\ new[j] = found[j]
      BY <1>0, <2>1, <2>3, <2>4, ConcatElements
    <3> QED
      BY <2>4, <3>1, NestedForm
  <2>5. CASE j \notin DOMAIN found
    <3>1. j - Len(found) \in DOMAIN Verdict(d) /\ new[j] = Verdict(d)[j - Len(found)]
      BY <1>0, <2>1, <2>5, ConcatElements
    <3>2. new[j] \in ToSet(Verdict(d))
      BY <3>1 DEF ToSet
    <3>3. CASE i \in DOMAIN found
      <4>1. new[i] = found[i] /\ Claims(found[i]) \subseteq claimed
        BY <1>0, <2>1, <3>3, ConcatElements DEF ClaimsRecorded
      <4>2. \A e \in Claims(new[j]) : ~Claimed(e, claimed)
        <5>1. CASE new[j] = Exact(Members(d))
          BY <5>1 DEF Claims, Exact, Members
        <5>2. CASE \E base \in Supersets(d, SignatureOf(d)) : new[j] = Contained(d, base)
          <6>1. Claims(new[j]) = {d}
            BY <5>2 DEF Claims, Contained
          <6> QED
            BY <2>1, <3>2, <6>1, VerdictMatches
        <5> QED
          BY <2>1, <3>2, <5>1, <5>2, VerdictMatches
      <4> QED
        BY <4>1, <4>2 DEF Claimed, Separate
    <3>4. CASE i \notin DOMAIN found
      <4>1. i - Len(found) \in DOMAIN Verdict(d) /\ new[i] = Verdict(d)[i - Len(found)]
        BY <1>0, <2>1, <3>4, ConcatElements
      <4>2. Len(Verdict(d)) > 1
        BY <2>3, <3>1, <4>1
      <4>3. Verdict(d) \in Seq({Contained(d, base) : base \in Supersets(d, SignatureOf(d))})
        <5>1. Len(<<>>) = 0 /\ Len(<<Exact(Members(d))>>) = 1
          OBVIOUS
        <5>2. Len(Verdict(d)) # 0 /\ Len(Verdict(d)) # 1
          BY <2>3, <4>2
        <5>3. Verdict(d) # <<>> /\ Verdict(d) # <<Exact(Members(d))>>
          BY <5>1, <5>2, Zenon
        <5> QED
          BY <2>1, <5>3, VerdictForms
      <4>4. ASSUME NEW x \in DOMAIN Verdict(d)
            PROVE  Claims(Verdict(d)[x]) = {d} /\ Verdict(d)[x].type = "contained"
        <5>1. Verdict(d)[x] \in {Contained(d, base) : base \in Supersets(d, SignatureOf(d))}
          BY <2>3, <4>3, <4>4, ElementOfSeq
        <5> QED
          BY <5>1 DEF Claims, Contained
      <4> QED
        BY <3>1, <4>1, <4>4 DEF Separate
    <3> QED
      BY <3>3, <3>4
  <2> QED
    BY <2>4, <2>5
<1>2. CASE NextMatch
  <2>1. found # <<>> /\ found' = Tail(found)
    BY <1>2 DEF NextMatch
  <2>2. /\ Len(found) \in Nat /\ DOMAIN found = 1..Len(found)
        /\ DOMAIN Tail(found) = 1..(Len(found) - 1)
        /\ \A i \in 1..(Len(found) - 1) : Tail(found)[i] = found[i + 1]
    BY <1>0, <2>1, HeadTailProperties, LenProperties
  <2>3. \A i \in DOMAIN Tail(found) : i + 1 \in DOMAIN found /\ Tail(found)[i] = found[i + 1]
    BY <2>2
  <2>4. \A i, j \in DOMAIN Tail(found) : i < j => i + 1 < j + 1
    BY <2>2
  <2> QED
    BY <2>1, <2>3, <2>4, NestedForm
<1>3. CASE UNCHANGED found
  BY <1>3, NestedForm
<1>4. CASE Scan \/ ListTree \/ Environment \/ UNCHANGED vars
  BY <1>3, <1>4 DEF Scan, ListTree, Environment, vars, finder
<1> QED
  BY <1>1, <1>2, <1>3, <1>4, FinderSteps

\* A file that has a duplicate is in the group found for it.
LEMMA GroupOfFacts ==
  ASSUME NEW G, NEW p, p \in UNION G
  PROVE  GroupOf(G, p) \in G /\ p \in GroupOf(G, p)
BY DEF GroupOf

\* Signatures speak of contents.
LEMMA SignatureTrue ==
  ASSUME listing \subseteq Scanned, GroupsTrue, NEW d \in Dirs,
         FullyDuplicated(listing, groups, d)
  PROVE  /\ \A e \in Dirs : SignatureOf(d) = SignatureOf(e) => Tree(listing, d) \subseteq Tree(listing, e)
         /\ \A e \in Supersets(d, SignatureOf(d)) : Tree(listing, d) \subseteq Tree(Scanned, e)
<1>1. ASSUME NEW p \in Files(listing, d)
      PROVE  /\ <<Relative(p, d), GroupOf(groups, p)>> \in SignatureOf(d)
             /\ p \in GroupOf(groups, p) /\ GroupOf(groups, p) \in groups
  <2>1. p \in UNION groups
    BY DEF FullyDuplicated
  <2> QED
    BY <2>1, GroupOfFacts DEF Signature, SignatureOf
<1>2. ASSUME NEW e \in Dirs, SignatureOf(d) = SignatureOf(e), NEW p \in Files(listing, d)
      PROVE  <<Relative(p, d), data[fs[p]]>> \in Tree(listing, e)
  <2>1. <<Relative(p, d), GroupOf(groups, p)>> \in SignatureOf(e)
    BY <1>1, <1>2
  <2>2. PICK q \in Files(listing, e) \cap UNION groups :
           <<Relative(p, d), GroupOf(groups, p)>> = <<Relative(q, e), GroupOf(groups, q)>>
    BY <2>1 DEF Signature, SignatureOf
  <2>3. q \in GroupOf(groups, p)
    BY <2>2, GroupOfFacts
  <2>5. p \in GroupOf(groups, p) /\ GroupOf(groups, p) \in groups
    BY <1>1
  <2>6. PICK g \in groups : p \in g /\ q \in g
    BY <2>3, <2>5
  <2>4. data[fs[p]] = data[fs[q]]
    BY <2>6 DEF GroupsTrue
  <2> QED
    BY <2>2, <2>4 DEF Tree
<1>3. ASSUME NEW e \in Supersets(d, SignatureOf(d)), NEW p \in Files(listing, d)
      PROVE  <<Relative(p, d), data[fs[p]]>> \in Tree(Scanned, e)
  <2>1. e \in Dir /\ d \in Dir
    BY DirsFacts DEF Supersets
  <2>7. <<Relative(p, d), GroupOf(groups, p)>> \in SignatureOf(d)
    BY ONLY <1>1, <1>3
  <2>8. \A entry \in SignatureOf(d) : \E q \in entry[2] : Parts[q] = e \o entry[1]
    <3> HIDE DEF SignatureOf
    <3> QED
      BY ONLY <1>3 DEF Supersets
  <2>2. PICK q \in GroupOf(groups, p) : Parts[q] = e \o Relative(p, d)
    BY ONLY <2>7, <2>8
  <2>9. PICK g \in groups : p \in g /\ q \in g
    BY ONLY <1>1, <1>3, <2>2
  <2>10. data[fs[p]] = data[fs[q]] /\ q \in Scanned /\ p \in Scanned
    <3>1. \A x \in g : x \in UNION groups
      BY ONLY <2>9
    <3> QED
      BY ONLY <2>9, <3>1, GroupsTrue DEF GroupsTrue
  <2>3. q \in Scanned /\ q \in Path /\ p \in Path /\ data[fs[p]] = data[fs[q]]
    BY ONLY <2>10 DEF Scanned, Existing
  <2>4. p \in Files(Path, d)
    BY <1>3, <2>3 DEF Files
  <2>5. Relative(p, d) \in Dir
    BY <2>1, <2>4, RelativeFacts
  <2>6. IsPrefix(e, Parts[q]) /\ Relative(q, e) = Relative(p, d)
    BY <2>1, <2>2, <2>3, <2>5, RelativeUnique
  <2> QED
    BY <2>3, <2>6 DEF Tree, Files
<1> QED
  BY <1>2, <1>3 DEF Tree

LEMMA MatchesTrueStep ==
  ASSUME Typed, Snapshot, MatchesTrue, [Next]_vars
  PROVE  MatchesTrue'
<1> SUFFICES ASSUME pc' = "finding", Undisturbed', NEW m \in ToSet(found')
             PROVE  IF m.type = "exact" THEN \A d, e \in m.folders : Tree(listing, d)' = Tree(listing, e)'
                    ELSE Tree(listing, m.subset)' \subseteq Tree(Scanned, m.superset)'
  BY DEF MatchesTrue, ToSet
<1>0. Undisturbed /\ ~Environment /\ found \in Seq(Matches)
  BY UndisturbedStep DEF Typed, Run
<1>1. ASSUME fs' = fs, data' = data, listing' = listing, NEW d
      PROVE  Tree(listing, d)' = Tree(listing, d) /\ Tree(Scanned, d)' = Tree(Scanned, d)
  BY <1>1 DEF Tree, Scanned, Existing
<1>2. CASE UNCHANGED <<found, fs, data, listing, pc>>
  BY <1>0, <1>1, <1>2 DEF MatchesTrue
<1>3. CASE ListTree
  <2>1. pc = "scanned" /\ found' = found
    BY <1>3 DEF ListTree
  <2>2. ToSet(found') = {}
    BY <2>1 DEF Snapshot, ToSet
  <2> QED
    BY <2>2
<1>4. ASSUME NEW d \in pending, Examine(d)
      PROVE  IF m.type = "exact" THEN \A x, y \in m.folders : Tree(listing, x)' = Tree(listing, y)'
             ELSE Tree(listing, m.subset)' \subseteq Tree(Scanned, m.superset)'
  <2>1. d \in Dirs /\ Verdict(d) \in Seq(Matches) /\ pc = "finding"
    BY <1>4, VerdictMatches DEF Typed, Run, Examine
  <2>2. found' = found \o Verdict(d) /\ fs' = fs /\ data' = data /\ listing' = listing
    BY <1>4 DEF Examine, disk
  <2>3. m \in ToSet(found) \/ m \in ToSet(Verdict(d))
    <3>1. PICK i \in DOMAIN (found \o Verdict(d)) : m = (found \o Verdict(d))[i]
      BY <2>2 DEF ToSet
    <3> QED
      BY <1>0, <2>1, <3>1, ConcatElements DEF ToSet
  <2>4. GroupsTrue /\ listing \subseteq Scanned /\ FullyDuplicated(listing, groups, d)
    BY <1>0, <2>1 DEF Snapshot
  <2>5. CASE m \in ToSet(found)
    BY <1>0, <1>1, <2>1, <2>2, <2>5 DEF MatchesTrue
  <2>6. CASE m = Exact(Members(d))
    <3>1. m.type = "exact" /\ m.folders = Members(d)
      BY <2>6 DEF Exact
    <3>2. ASSUME NEW x \in Members(d)
          PROVE  x \in Dirs /\ FullyDuplicated(listing, groups, x) /\ SignatureOf(x) = SignatureOf(d)
      BY <3>2 DEF Members, Cluster
    <3>4. ASSUME NEW x \in Members(d), NEW y \in Members(d)
          PROVE  Tree(listing, x) \subseteq Tree(listing, y)
      <4>1. /\ x \in Dirs /\ FullyDuplicated(listing, groups, x)
            /\ y \in Dirs /\ SignatureOf(x) = SignatureOf(y)
        BY ONLY <3>2, <3>4
      <4> QED
        BY ONLY <2>4, <4>1, SignatureTrue
    <3>3. \A x, y \in Members(d) : Tree(listing, x) = Tree(listing, y)
      BY ONLY <3>4
    <3>5. ASSUME NEW x \in m.folders, NEW y \in m.folders PROVE Tree(listing, x)' = Tree(listing, y)'
      BY ONLY <1>1, <2>2, <3>1, <3>3, <3>5
    <3> QED
      BY ONLY <3>1, <3>5
  <2>7. CASE \E base \in Supersets(d, SignatureOf(d)) : m = Contained(d, base)
    <3>1. PICK base \in Supersets(d, SignatureOf(d)) : m = Contained(d, base)
      BY <2>7
    <3>2. m.type = "contained" /\ m.subset = d /\ m.superset = base
      BY <3>1 DEF Contained
    <3>3. Tree(listing, d) \subseteq Tree(Scanned, base)
      BY <2>1, <2>4, SignatureTrue
    <3> QED
      BY <1>1, <2>2, <3>2, <3>3
  <2> QED
    BY <2>1, <2>3, <2>5, <2>6, <2>7, VerdictMatches
<1>5. CASE Scan
  BY <1>5 DEF Scan
<1>6. CASE UNCHANGED vars
  BY <1>2, <1>6 DEF vars, finder, disk
<1> QED
  BY <1>0, <1>3, <1>4, <1>5, <1>6, FinderSteps

\* The finder tells the truth about the disk in whatever order it examines
\* directories, and no match repeats or overlaps an earlier one, for every tree
\* and every split of its files into groups.
THEOREM MatchesSafe == Spec => []MatchesSound
<1>1. Init => Typed /\ Found
  <2> SUFFICES ASSUME Init PROVE Typed /\ Found
    OBVIOUS
  <2>1. DOMAIN found = {} /\ pc = "idle" /\ found = <<>>
    BY DEF Init
  <2> QED
    BY <2>1, TypedInit DEF Found, Snapshot, ClaimsRecorded, MatchesTrue, NestedMatchesOmitted
<1>2. Typed /\ Found /\ [Next]_vars => (Typed /\ Found)'
  BY TypedStep, SnapshotStep, ClaimsRecordedStep, NestedStep, MatchesTrueStep DEF Found
<1>3. Typed /\ Found => MatchesSound
  BY TypedFacts DEF Found, MatchesSound
<1> QED
  BY <1>1, <1>2, <1>3, PTL DEF Spec
=============================================================================
