-------------------------- MODULE GuiSessionProofs --------------------------
(***************************************************************************)
(* What the page of the graphical application shows and what its clicks    *)
(* change on disk (GuiSession): for every set of files, every choice of    *)
(* protected folders and any number of scans, clicks and instances.        *)
(***************************************************************************)
EXTENDS GuiSession, FiniteSetTheorems, TLAPS

USE FileAssumption, ProtectionsAssumption, KindsAssumption, SessionsAssumption
-----------------------------------------------------------------------------
(* Lists in order.  Induction is on the least counterexample.              *)

LEMMA LeastNumber ==
  ASSUME NEW T \in SUBSET Nat, T # {}
  PROVE  \E m \in T : \A x \in T : m <= x
<1> DEFINE Less == {pair \in Nat \X Nat : pair[1] < pair[2]}
<1>1. IsWellFoundedOn(Less, Nat)
  BY NatLessThanWellFounded DEF OpToRel
<1>2. \A x, y \in Nat : x < y => <<x, y>> \in Less
  BY SMT
<1> HIDE DEF Less
<1>3. T \subseteq Nat
  OBVIOUS
<1>4. \E m \in T : \A x \in T : ~(<<x, m>> \in Less)
  BY ONLY <1>1, <1>3, T # {}, WFMin
<1>5. PICK m \in T : \A x \in T : ~(<<x, m>> \in Less)
  BY <1>4
<1>6. \A x \in T : m <= x
  <2> SUFFICES ASSUME NEW x \in T, x < m PROVE FALSE
    BY <1>3, <1>5
  <2>1. x \in Nat /\ m \in Nat
    BY <1>3, <1>5
  <2> QED
    BY <2>1, <1>2, <1>5, Zenon
<1> QED
  BY <1>6

Increasing(s, n) == \A i, j \in 1..n : i < j => s[i] < s[j]

LEMMA InOrderExists ==
  ASSUME NEW S \in SUBSET Nat, IsFiniteSet(S)
  PROVE  \E s \in [1..Cardinality(S) -> S] : Increasing(s, Cardinality(S))
<1> DEFINE Listed(T, n) == \E s \in [1..n -> T] : Increasing(s, n)
           Bad == {n \in Nat : \E T \in SUBSET Nat :
                     IsFiniteSet(T) /\ Cardinality(T) = n /\ ~Listed(T, n)}
<1>1. ASSUME Bad # {} PROVE FALSE
  <2>1. PICK n \in Bad : \A x \in Bad : n <= x
    BY <1>1, LeastNumber
  <2>2. PICK T \in SUBSET Nat : IsFiniteSet(T) /\ Cardinality(T) = n /\ ~Listed(T, n)
    BY <2>1
  <2>3. n \in Nat
    BY <2>1
  <2>4. CASE T = {}
    <3>1. n = 0
      BY <2>2, <2>4, FS_EmptySet
    <3>2. 1..0 = {}
      OBVIOUS
    <3>3. [i \in {} |-> 0] \in [{} -> T]
      OBVIOUS
    <3>4. \A s : Increasing(s, 0)
      BY <3>2, Zenon DEF Increasing
    <3>5. \E s \in [1..0 -> T] : Increasing(s, 0)
      BY <3>2, <3>3, <3>4, Zenon
    <3>6. Listed(T, 0)
      BY <3>5
    <3> HIDE DEF Listed
    <3> QED
      BY <3>1, <3>6, <2>2
  <2>5. CASE T # {}
    <3>1. PICK m \in T : \A x \in T : m <= x
      BY <2>5, LeastNumber
    <3> DEFINE U == T \ {m}
    <3>2. IsFiniteSet(U) /\ Cardinality(U) = n - 1
      BY <2>2, <3>1, FS_RemoveElement
    <3>3. n # 0
      BY <2>2, <2>5, FS_EmptySet
    <3>4. n - 1 \in Nat /\ n - 1 \notin Bad
      BY <2>1, <2>3, <3>3, SMT
    <3>5. U \in SUBSET Nat
      BY <2>2
    <3>6. PICK t \in [1..(n - 1) -> U] : Increasing(t, n - 1)
      BY <3>2, <3>4, <3>5
    <3> DEFINE s == [i \in 1..n |-> IF i = 1 THEN m ELSE t[i - 1]]
    <3>7. \A i \in 1..n : i # 1 => i - 1 \in 1..(n - 1)
      BY <2>3
    <3>8. s \in [1..n -> T]
      BY <3>1, <3>6, <3>7
    <3>9. \A x \in U : m < x
      BY <3>1, <2>2
    <3>10. Increasing(s, n)
      <4> SUFFICES ASSUME NEW i \in 1..n, NEW j \in 1..n, i < j PROVE s[i] < s[j]
        BY DEF Increasing
      <4>1. j # 1 /\ s[j] = t[j - 1] /\ t[j - 1] \in U
        BY <2>3, <3>6, <3>7
      <4>2. CASE i = 1
        BY <4>1, <4>2, <3>9
      <4>3. CASE i # 1
        <5>1. s[i] = t[i - 1]
          BY <4>3
        <5>2. i - 1 < j - 1
          BY <2>3
        <5> QED
          BY <5>1, <5>2, <4>1, <4>3, <3>6, <3>7 DEF Increasing
      <4> QED
        BY <4>2, <4>3
    <3> QED
      BY <3>8, <3>10, <2>2
  <2> QED
    BY <2>4, <2>5
<1>2. Cardinality(S) \in Nat
  BY FS_CardinalityType
<1> QED
  BY <1>1, <1>2

LEMMA InOrderFacts ==
  ASSUME NEW S \in SUBSET Nat, IsFiniteSet(S)
  PROVE  /\ Cardinality(S) \in Nat
         /\ InOrder(S) \in [1..Cardinality(S) -> S]
         /\ Increasing(InOrder(S), Cardinality(S))
         /\ \A x \in S : \E i \in 1..Cardinality(S) : InOrder(S)[i] = x
<1> DEFINE n == Cardinality(S)
           s == InOrder(S)
<1>1. n \in Nat
  BY FS_CardinalityType
<1>2. s \in [1..n -> S] /\ Increasing(s, n)
  BY InOrderExists DEF InOrder, Increasing
<1>3. \A i \in 1..n : s[i] \in Nat
  BY <1>2
<1>4. s \in Injection(1..n, S)
  <2>1. \A i, j \in 1..n : s[i] = s[j] => i = j
    BY <1>1, <1>2, <1>3, SMT DEF Increasing
  <2> HIDE DEF s
  <2> QED
    BY <1>2, <2>1 DEF Injection, IsInjective
<1>5. Cardinality(1..n) = n
  BY <1>1, FS_Interval
<1>6. s \in Surjection(1..n, S)
  BY <1>4, <1>5, FS_Injection
<1>7. \A x \in S : \E i \in 1..n : s[i] = x
  <2> HIDE DEF n, s
  <2> QED
    BY <1>6 DEF Surjection
<1> QED
  BY <1>1, <1>2, <1>7, Zenon

\* A greater number goes to the end.
LEMMA InOrderAppend ==
  ASSUME NEW S \in SUBSET Nat, IsFiniteSet(S), NEW y \in Nat, \A x \in S : x < y
  PROVE  /\ Cardinality(S \cup {y}) = Cardinality(S) + 1
         /\ \A i \in 1..Cardinality(S) : InOrder(S \cup {y})[i] = InOrder(S)[i]
<1> DEFINE T == S \cup {y}
           n == Cardinality(S)
           s == InOrder(S)
           t == InOrder(T)
<1>1. T \in SUBSET Nat /\ IsFiniteSet(T) /\ Cardinality(T) = n + 1 /\ n \in Nat
  BY FS_AddElement, FS_CardinalityType
<1>2. /\ s \in [1..n -> S] /\ Increasing(s, n)
      /\ \A x \in S : \E i \in 1..n : s[i] = x
  BY InOrderFacts
<1> HIDE DEF T
<1>3. /\ t \in [1..(n + 1) -> T] /\ Increasing(t, n + 1)
      /\ \A x \in T : \E i \in 1..(n + 1) : t[i] = x
  <2>1. /\ t \in [1..Cardinality(T) -> T] /\ Increasing(t, Cardinality(T))
        /\ \A x \in T : \E i \in 1..Cardinality(T) : t[i] = x
    BY <1>1, InOrderFacts
  <2> HIDE DEF t
  <2> QED
    BY <2>1, <1>1
<1> HIDE DEF s, t
<1> USE DEF T
<1> DEFINE Bad == {i \in 1..n : t[i] # s[i]}
<1>4. ASSUME Bad # {} PROVE FALSE
  <2>1. Bad \in SUBSET Nat
    OBVIOUS
  <2>2. PICK i \in Bad : \A x \in Bad : i <= x
    BY <2>1, <1>4, LeastNumber
  <2>3. i \in 1..n /\ i \in 1..(n + 1) /\ i \in Nat /\ t[i] # s[i]
    BY <2>2, <1>1
  <2>4. \A k \in 1..n : k < i => t[k] = s[k]
    BY <2>2, <2>3, <1>1
  <2>5. s[i] \in S /\ s[i] \in Nat /\ t[i] \in T /\ t[i] \in Nat
    BY <2>3, <1>2, <1>3, <1>1
  <2>6. PICK j \in 1..(n + 1) : t[j] = s[i]
    BY <2>5, <1>3
  <2>7. j > i
    <3>1. j # i
      BY <2>3, <2>6
    <3>2. ASSUME j < i PROVE FALSE
      <4>1. j \in 1..n
        BY <3>2, <2>3, <1>1
      <4>2. t[j] = s[j] /\ s[j] < s[i]
        BY <4>1, <3>2, <2>3, <2>4, <1>2 DEF Increasing
      <4> QED
        BY <4>2, <2>5, <2>6
    <3> QED
      BY <3>1, <3>2, <2>3, <1>1
  <2>8. t[i] < s[i]
    BY <2>3, <2>6, <2>7, <1>3 DEF Increasing
  <2>9. t[i] \in S
    BY <2>5, <2>8
  <2>10. PICK m \in 1..n : s[m] = t[i]
    BY <2>9, <1>2
  <2>11. m < i
    <3>1. m # i
      BY <2>3, <2>10
    <3>2. ASSUME i < m PROVE FALSE
      <4>1. s[i] < s[m]
        BY <3>2, <2>3, <1>2 DEF Increasing
      <4> QED
        BY <4>1, <2>8, <2>10, <2>5
    <3> QED
      BY <3>1, <3>2, <2>3, <1>1
  <2>12. t[m] = s[m] /\ t[m] < t[i]
    BY <2>11, <2>3, <2>4, <1>1, <1>3 DEF Increasing
  <2> QED
    BY <2>12, <2>10, <2>5
<1>5. \A i \in 1..n : t[i] = s[i]
  BY <1>4
<1> QED
  BY <1>1, <1>5, Zenon DEF s, t
-----------------------------------------------------------------------------
(* The invariant.                                                          *)

PathList == Seq(File) \ {<<>>}
IsQueue(s) == s \in Seq(ToSet(s))
Presets == [Profile -> Preset \cup {None}]

CallOK(c) ==
    /\ c.command = "start_scan" => c.scan \in Nat
    /\ c.command = "choose_keep" => c.key \in Keys /\ c.paths \in PathList /\ c.refs \subseteq File
    /\ c.command = "run_action" => c.paths \in PathList /\ c.refs \subseteq File
    /\ c.command = "change_profile" => c.name \in Profile /\ c.preset \in Preset \cup {None}

EventOK(e) ==
    /\ e.type \in {"duplicate_group", "error", "finished"}
    /\ e.scan \in Nat
    /\ e.type = "duplicate_group" => e.paths \in PathList

Threads == [scan : Nat, phase : {"opening", "scanning"}, done : SUBSET Content,
            sent : SUBSET File, failed : BOOLEAN]

IoOK(r) ==
    \/ r = Idle
    \/ r \in [stage : {"loaded", "truncated"}, list : Presets,
              change : [name : Profile, preset : Preset \cup {None}]]

\* The shape of everything, and of what is under way.
Typed ==
    /\ inode \in [File -> File \cup {Gone}] /\ scan \in Nat
    /\ DOMAIN state = DOMAIN FreshPage
    /\ state.scanning \in BOOLEAN
    /\ state.groups \in Seq([scan : Nat, paths : PathList])
    /\ state.keepChoice \in [Keys -> File \cup {None}]
    /\ state.ruleKeepChoice \in [Keys -> File \cup {None, Loading}]
    /\ state.referencePaths \subseteq File
    /\ state.scanProfiles \in Presets
    /\ store \in Presets \cup {Torn}
    /\ DOMAIN io = {"app", "other"} /\ \A p \in DOMAIN io : IoOK(io[p])
    /\ DOMAIN history = {"moved", "lookup_failed", "disturbed", "images", "wanted"}
    /\ history.wanted \in Presets
    /\ IsQueue(calls) /\ IsQueue(events)
    /\ \A c \in ToSet(calls) : CallOK(c)
    /\ \A e \in ToSet(events) : EventOK(e)
    /\ threads \subseteq Threads

\* A scan is asked for, runs or has ended: only one at a time, and while one is
\* the button is disabled.  Its last event is the end.
Starting == {i \in DOMAIN calls : calls[i].command = "start_scan"}
Ends == {i \in DOMAIN events : events[i].type = "finished"}
Dups == {i \in DOMAIN events : events[i].type = "duplicate_group"}

OneScan ==
    /\ ~state.scanning => Starting = {} /\ threads = {} /\ Ends = {} /\ Dups = {}
    /\ Starting # {} => threads = {} /\ Ends = {} /\ Dups = {} /\ state.groups = <<>>
    /\ \A i, j \in Starting : i = j
    /\ threads # {} => Ends = {}
    /\ \A t, u \in threads : t = u
    /\ \A i \in Ends : i = Len(events)
    /\ \A i \in Starting : calls[i].scan = scan
    /\ \A t \in threads : t.scan = scan
    /\ \A i \in Ends \cup Dups : events[i].scan = scan
    /\ \A i \in DOMAIN state.groups : state.groups[i].scan = scan

\* What one scan has sent: no file twice, and one group of each content it has
\* done with.
Sent(p, S) == ToSet(p) \subseteq S
Apart(p, q) == ToSet(p) \cap ToSet(q) = {}

SentOnce ==
    /\ \A i, j \in DOMAIN state.groups : i = j \/ Apart(state.groups[i].paths, state.groups[j].paths)
    /\ \A i \in DOMAIN state.groups, j \in Dups : Apart(state.groups[i].paths, events[j].paths)
    /\ \A i, j \in Dups : i = j \/ Apart(events[i].paths, events[j].paths)
    /\ \A t \in threads : /\ \A i \in DOMAIN state.groups : Sent(state.groups[i].paths, t.sent)
                          /\ \A i \in Dups : Sent(events[i].paths, t.sent)

Counted ==
    /\ Len(state.groups) + Cardinality(Dups) <= Cardinality(Content)
    /\ \A t \in threads : Len(state.groups) + Cardinality(Dups) <= Cardinality(t.done)

\* The folder matches are those of this scan, or they have been asked for and
\* nothing else after them.
Asking == {i \in DOMAIN calls : calls[i].command = "find_duplicate_folders"}

Lookup ==
    ~state.scanning /\ state.groups # <<>> /\ ~history.lookup_failed =>
      \/ Asking = {} /\ state.folderMatches = scan
      \/ \E i \in Asking : calls[i].scan = scan /\ \A j \in Asking : j <= i

\* Every choice is one of the group that is displayed at its key.
At(k, f) == k \in DOMAIN Shown /\ f \in ToSet(Shown[k].paths)

ChoicesOK ==
    ~history.moved =>
      /\ \A k \in Keys : state.keepChoice[k] # None => At(k, state.keepChoice[k])
      /\ \A k \in Keys : state.ruleKeepChoice[k] \in File => At(k, state.ruleKeepChoice[k])
      /\ \A c \in ToSet(calls) : c.command = "choose_keep" =>
            c.key \in DOMAIN Shown /\ c.paths = Shown[c.key].paths

\* One instance at a time, with what the saves and deletes have made so far.
ToSave(r) == [history.wanted EXCEPT ![r.change.name] = r.change.preset]

ProfilesOK ==
    ~history.disturbed =>
      /\ \A p, q \in DOMAIN io : p = q \/ io[p] = Idle \/ io[q] = Idle
      /\ (\A p \in DOMAIN io : io[p].stage # "truncated") => store = history.wanted
      /\ \A p \in DOMAIN io : io[p] # Idle => io[p].list = ToSave(io[p])
-----------------------------------------------------------------------------
(* Queues, lists of files and what is displayed.                           *)

LEMMA QueueAppend ==
  ASSUME NEW s, IsQueue(s), NEW x
  PROVE  /\ IsQueue(Append(s, x))
         /\ ToSet(Append(s, x)) = ToSet(s) \cup {x}
         /\ Len(s) \in Nat /\ DOMAIN s = 1..Len(s)
         /\ Len(Append(s, x)) = Len(s) + 1
         /\ DOMAIN Append(s, x) = 1..(Len(s) + 1)
         /\ \A i \in 1..Len(s) : Append(s, x)[i] = s[i]
         /\ Append(s, x)[Len(s) + 1] = x
         /\ Append(s, x) = s \o <<x>>
<1> DEFINE S == ToSet(s) \cup {x}
           a == Append(s, x)
<1>1. s \in Seq(S)
  BY DEF IsQueue
<1>2. /\ a \in Seq(S) /\ Len(s) \in Nat /\ DOMAIN s = 1..Len(s)
      /\ Len(a) = Len(s) + 1 /\ DOMAIN a = 1..(Len(s) + 1)
      /\ \A i \in 1..Len(s) : a[i] = s[i]
      /\ a[Len(s) + 1] = x
      /\ a = s \o <<x>>
  BY <1>1
<1>3. ToSet(a) = S
  <2> HIDE DEF a
  <2>1. \A i \in DOMAIN a : a[i] \in S
    BY <1>2
  <2>2. \A y \in ToSet(s) : y \in ToSet(a)
    BY <1>2 DEF ToSet
  <2>3. x \in ToSet(a)
    BY <1>2 DEF ToSet
  <2> QED
    BY <2>1, <2>2, <2>3 DEF ToSet
<1> QED
  BY <1>2, <1>3 DEF IsQueue

LEMMA QueueTail ==
  ASSUME NEW s, IsQueue(s), s # <<>>
  PROVE  /\ IsQueue(Tail(s)) /\ ToSet(Tail(s)) \subseteq ToSet(s)
         /\ Head(s) = s[1] /\ Head(s) \in ToSet(s)
         /\ Len(s) \in Nat \ {0} /\ DOMAIN s = 1..Len(s)
         /\ Len(Tail(s)) = Len(s) - 1
         /\ DOMAIN Tail(s) = 1..(Len(s) - 1)
         /\ \A i \in 1..(Len(s) - 1) : Tail(s)[i] = s[i + 1]
<1>1. s \in Seq(ToSet(s))
  BY DEF IsQueue
<1>2. /\ Tail(s) \in Seq(ToSet(s)) /\ Head(s) = s[1] /\ Head(s) \in ToSet(s)
      /\ Len(s) \in Nat \ {0} /\ DOMAIN s = 1..Len(s)
      /\ Len(Tail(s)) = Len(s) - 1 /\ DOMAIN Tail(s) = 1..(Len(s) - 1)
      /\ \A i \in 1..(Len(s) - 1) : Tail(s)[i] = s[i + 1]
  BY <1>1
<1>3. IsQueue(Tail(s)) /\ ToSet(Tail(s)) \subseteq ToSet(s)
  <2> DEFINE t == Tail(s)
  <2>1. t \in Seq(ToSet(s))
    BY <1>2
  <2> HIDE DEF t
  <2>2. \A i \in DOMAIN t : t[i] \in ToSet(s)
    BY <2>1
  <2>3. t \in Seq(ToSet(t))
    BY <2>1 DEF ToSet
  <2>4. ToSet(t) \subseteq ToSet(s)
    BY <2>2 DEF ToSet
  <2> QED
    BY <2>3, <2>4 DEF t, IsQueue
<1> QED
  BY <1>2, <1>3

LEMMA QueueOne ==
  /\ IsQueue(<<>>) /\ ToSet(<<>>) = {}
  /\ \A x : IsQueue(<<x>>) /\ ToSet(<<x>>) = {x}
BY DEF IsQueue, ToSet

LEMMA ListOfFiles ==
  ASSUME NEW S \in SUBSET File
  PROVE  /\ InOrder(S) \in Seq(File) /\ ToSet(InOrder(S)) = S
         /\ Len(InOrder(S)) = Cardinality(S)
<1> DEFINE n == Cardinality(S)
           s == InOrder(S)
<1>1. IsFiniteSet(S) /\ S \in SUBSET Nat
  BY FS_Subset
<1>2. n \in Nat /\ s \in [1..n -> S] /\ \A x \in S : \E i \in 1..n : s[i] = x
  BY <1>1, InOrderFacts
<1> HIDE DEF n, s
<1>3. s \in Seq(File) /\ Len(s) = n
  <2>1. s \in [1..n -> File]
    BY <1>2
  <2> QED
    BY <2>1, <1>2
<1>4. ToSet(s) = S
  <2>1. DOMAIN s = 1..n /\ \A i \in 1..n : s[i] \in S
    BY <1>2
  <2>2. ToSet(s) \subseteq S
    BY <2>1 DEF ToSet
  <2>3. S \subseteq ToSet(s)
    BY <2>1, <1>2, Zenon DEF ToSet
  <2> QED
    BY <2>2, <2>3
<1> QED
  BY <1>3, <1>4 DEF n, s

LEMMA FirstFound ==
  ASSUME NEW paths \in PathList, NEW S, NEW x \in ToSet(paths), x \in S
  PROVE  FirstIn(paths, S) \in S \cap ToSet(paths)
<1> DEFINE Hits == {i \in DOMAIN paths : paths[i] \in S}
<1>1. DOMAIN paths = 1..Len(paths) /\ Len(paths) \in Nat
  BY DEF PathList
<1>2. Hits \in SUBSET Nat /\ Hits # {}
  BY <1>1 DEF ToSet
<1>3. PICK m \in Hits : \A i \in Hits : m <= i
  BY <1>2, LeastNumber
<1>4. m \in DOMAIN paths /\ paths[m] \in S /\ \A j \in 1..(m - 1) : paths[j] \notin S
  BY <1>1, <1>3
<1> DEFINE i == CHOOSE i \in DOMAIN paths : paths[i] \in S /\ \A j \in 1..(i - 1) : paths[j] \notin S
<1>5. i \in DOMAIN paths /\ paths[i] \in S
  BY <1>4
<1>6. FirstIn(paths, S) = paths[i]
  BY DEF FirstIn
<1> HIDE DEF i
<1> QED
  BY <1>5, <1>6 DEF ToSet

LEMMA ChosenFound ==
  ASSUME NEW paths \in PathList, NEW rule, NEW refs
  PROVE  Chosen(paths, rule, refs) \in ToSet(paths)
<1> DEFINE protected == ToSet(paths) \cap refs
           there == {f \in ToSet(paths) : inode[f] # Gone}
           newest == {f \in there : \A g \in there : Age[inode[f]] <= Age[inode[g]]}
<1>1. protected # {} => FirstIn(paths, protected) \in ToSet(paths)
  BY FirstFound
<1>2. newest # {} => FirstIn(paths, newest) \in ToSet(paths)
  BY FirstFound
<1>3. paths[1] \in ToSet(paths)
  BY DEF PathList, ToSet
<1> HIDE DEF protected, newest
<1>4. Chosen(paths, rule, refs) =
        IF protected # {} THEN FirstIn(paths, protected)
        ELSE IF rule = "newest" /\ newest # {} THEN FirstIn(paths, newest) ELSE paths[1]
  BY DEF Chosen, protected, newest
<1> QED
  BY <1>1, <1>2, <1>3, <1>4

LEMMA VisibleFinite ==
  ASSUME Typed
  PROVE  /\ Visible \in SUBSET Nat /\ IsFiniteSet(Visible)
         /\ DOMAIN state.groups = 1..Len(state.groups) /\ Len(state.groups) \in Nat
<1>1. DOMAIN state.groups = 1..Len(state.groups) /\ Len(state.groups) \in Nat
  BY DEF Typed
<1>2. IsFiniteSet(DOMAIN state.groups)
  <2>1. IsFiniteSet(1..Len(state.groups))
    BY ONLY <1>1, FS_Interval
  <2> QED
    BY ONLY <1>1, <2>1
<1>3. Visible \subseteq DOMAIN state.groups
  BY DEF Visible
<1> QED
  BY <1>1, <1>2, <1>3, FS_Subset

LEMMA ShownGroup ==
  ASSUME Typed, NEW k \in DOMAIN Shown
  PROVE  \E i \in DOMAIN state.groups : Shown[k] = state.groups[i]
<1>1. DOMAIN Shown = 1..Cardinality(Visible)
  BY DEF Shown
<1>2. InOrder(Visible)[k] \in Visible
  BY <1>1, VisibleFinite, InOrderFacts
<1>3. InOrder(Visible)[k] \in DOMAIN state.groups
  BY <1>2 DEF Visible
<1>4. Shown[k] = state.groups[InOrder(Visible)[k]]
  BY <1>1 DEF Shown
<1> QED
  BY <1>3, <1>4
LEMMA ElementIn ==
  ASSUME NEW S, NEW s \in Seq(S), NEW i \in DOMAIN s PROVE s[i] \in S
OBVIOUS

LEMMA ShownPaths ==
  ASSUME Typed, NEW k \in DOMAIN Shown
  PROVE  Shown[k].paths \in PathList
<1>1. PICK i \in DOMAIN state.groups : Shown[k] = state.groups[i]
  BY ShownGroup
<1>2. state.groups \in Seq([scan : Nat, paths : PathList])
  BY DEF Typed
<1>3. state.groups[i] \in [scan : Nat, paths : PathList]
  BY <1>1, <1>2, ElementIn
<1> QED
  BY <1>1, <1>3
-----------------------------------------------------------------------------
(* The shapes.                                                             *)

LEMMA TypedInit == Init => Typed
<1> SUFFICES ASSUME Init PROVE Typed
  OBVIOUS
<1>1. PICK s \in Sessions :
         state = [FreshPage EXCEPT !.keepRule = s.rule, !.matchMode = s.mode,
                                   !.referencePaths = s.refs]
  BY DEF Init
<1>2. s.refs \subseteq File
  OBVIOUS
<1>3. inode \in [File -> File \cup {Gone}] /\ scan \in Nat
  BY DEF Init
<1>4. /\ DOMAIN state = DOMAIN FreshPage
      /\ state.scanning \in BOOLEAN
      /\ state.groups = <<>>
      /\ state.keepChoice = NoChoice /\ state.ruleKeepChoice = NoChoice
      /\ state.referencePaths \subseteq File
      /\ state.scanProfiles = NoProfiles
  BY <1>1, <1>2 DEF FreshPage
<1>5. NoChoice \in [Keys -> File \cup {None}] /\ NoChoice \in [Keys -> File \cup {None, Loading}]
  BY DEF NoChoice
<1>6. NoProfiles \in Presets
  BY DEF NoProfiles, Presets
<1>7. /\ store = NoProfiles /\ history.wanted = NoProfiles
      /\ DOMAIN history = {"moved", "lookup_failed", "disturbed", "images", "wanted"}
      /\ DOMAIN io = {"app", "other"} /\ \A p \in DOMAIN io : io[p] = Idle
  BY DEF Init
<1>8. /\ IsQueue(calls) /\ IsQueue(events)
      /\ ToSet(events) = {} /\ \A c \in ToSet(calls) : c = [command |-> "list_scan_profiles"]
      /\ threads = {}
  BY QueueOne DEF Init, Startup
<1>9. /\ \A c \in ToSet(calls) : CallOK(c)
      /\ \A e \in ToSet(events) : EventOK(e)
  BY <1>8 DEF CallOK
<1> QED
  BY <1>3, <1>4, <1>5, <1>6, <1>7, <1>8, <1>9 DEF Typed, IoOK

\* The queue of commands after a click.
LEMMA CallsAppend ==
  ASSUME Typed, NEW c, Invoke(c), CallOK(c)
  PROVE  IsQueue(calls') /\ \A d \in ToSet(calls') : CallOK(d)
<1>1. IsQueue(calls) /\ (\A d \in ToSet(calls) : CallOK(d)) /\ calls' = Append(calls, c)
  BY DEF Typed, Invoke
<1>2. IsQueue(Append(calls, c)) /\ ToSet(Append(calls, c)) = ToSet(calls) \cup {c}
  BY <1>1, QueueAppend
<1> QED
  BY <1>1, <1>2, Zenon

LEMMA CallsTail ==
  ASSUME Typed, calls # <<>>, Answered
  PROVE  IsQueue(calls') /\ \A d \in ToSet(calls') : CallOK(d)
BY QueueTail DEF Typed, Answered

LEMMA EventsAppend ==
  ASSUME Typed, NEW e, Emit(e), EventOK(e)
  PROVE  IsQueue(events') /\ \A d \in ToSet(events') : EventOK(d)
<1>1. IsQueue(events) /\ (\A d \in ToSet(events) : EventOK(d)) /\ events' = Append(events, e)
  BY DEF Typed, Emit
<1>2. IsQueue(Append(events, e)) /\ ToSet(Append(events, e)) = ToSet(events) \cup {e}
  BY <1>1, QueueAppend
<1> QED
  BY <1>1, <1>2, Zenon

LEMMA TypedUser == ASSUME Typed, User PROVE Typed'
<1> USE DEF Typed
<1>1. CASE StartScan
  <2>1. CallOK([command |-> "start_scan", scan |-> scan + 1])
    BY DEF CallOK
  <2>2. IsQueue(calls') /\ \A d \in ToSet(calls') : CallOK(d)
    BY <1>1, <2>1, CallsAppend DEF StartScan
  <2>3. /\ DOMAIN state' = DOMAIN state
        /\ state'.scanning = TRUE /\ state'.groups = <<>>
        /\ state'.keepChoice = NoChoice /\ state'.ruleKeepChoice = NoChoice
        /\ state'.referencePaths = state.referencePaths
        /\ state'.scanProfiles = state.scanProfiles
    BY <1>1 DEF StartScan, Cleared, FreshPage
  <2>4. NoChoice \in [Keys -> File \cup {None}] /\ NoChoice \in [Keys -> File \cup {None, Loading}]
    BY DEF NoChoice
  <2>5. /\ DOMAIN history' = DOMAIN history /\ history'.wanted = history.wanted
    BY <1>1 DEF StartScan
  <2>6. scan' \in Nat /\ UNCHANGED <<inode, threads, events, store, io>>
    BY <1>1 DEF StartScan, disk, profile_store
  <2>7. state'.groups \in Seq([scan : Nat, paths : PathList])
    BY <2>3
  <2>8. TRUE \in BOOLEAN
    OBVIOUS
  <2> QED
    BY <2>2, <2>3, <2>4, <2>5, <2>6, <2>7, <2>8
<1>2. CASE ToggleKeepNewest
  <2>1. /\ DOMAIN state' = DOMAIN state
        /\ state'.scanning = state.scanning /\ state'.groups = state.groups
        /\ state'.keepChoice = state.keepChoice /\ state'.ruleKeepChoice = NoChoice
        /\ state'.referencePaths = state.referencePaths
        /\ state'.scanProfiles = state.scanProfiles
    BY <1>2 DEF ToggleKeepNewest, FreshPage
  <2>2. NoChoice \in [Keys -> File \cup {None, Loading}]
    BY DEF NoChoice
  <2>3. UNCHANGED <<inode, threads, events, calls, scan, store, io, history>>
    BY <1>2 DEF ToggleKeepNewest, disk, profile_store
  <2> QED
    BY <2>1, <2>2, <2>3
<1>3. ASSUME NEW category, ToggleType(category) PROVE Typed'
  <2>1. /\ DOMAIN state' = DOMAIN state
        /\ state'.scanning = state.scanning /\ state'.groups = state.groups
        /\ state'.keepChoice = state.keepChoice /\ state'.ruleKeepChoice = state.ruleKeepChoice
        /\ state'.referencePaths = state.referencePaths
        /\ state'.scanProfiles = state.scanProfiles
    BY <1>3 DEF ToggleType, FreshPage
  <2>2. /\ DOMAIN history' = DOMAIN history /\ history'.wanted = history.wanted
    BY <1>3 DEF ToggleType
  <2>3. UNCHANGED <<inode, threads, events, calls, scan, store, io>>
    BY <1>3 DEF ToggleType, disk, profile_store
  <2> QED
    BY <2>1, <2>2, <2>3
<1>4. ASSUME NEW refs \in Protections, TypeProtected(refs) PROVE Typed'
  <2>1. /\ DOMAIN state' = DOMAIN state
        /\ state'.scanning = state.scanning /\ state'.groups = state.groups
        /\ state'.keepChoice = state.keepChoice /\ state'.ruleKeepChoice = state.ruleKeepChoice
        /\ state'.referencePaths = refs
        /\ state'.scanProfiles = state.scanProfiles
    BY <1>4 DEF TypeProtected, FreshPage
  <2>2. UNCHANGED <<inode, threads, events, calls, scan, store, io, history>>
    BY <1>4 DEF TypeProtected, disk, profile_store
  <2> QED
    BY <2>1, <2>2
<1>5. ASSUME NEW k \in Keys, Display(k) PROVE Typed'
  <2>1. /\ DOMAIN state' = DOMAIN state
        /\ state'.scanning = state.scanning /\ state'.groups = state.groups
        /\ state'.keepChoice = state.keepChoice
        /\ state'.ruleKeepChoice = [state.ruleKeepChoice EXCEPT ![k] = Loading]
        /\ state'.referencePaths = state.referencePaths
        /\ state'.scanProfiles = state.scanProfiles
    BY <1>5 DEF Display, FreshPage
  <2>2. k \in DOMAIN Shown
    BY <1>5 DEF Display
  <2>3. Shown[k].paths \in PathList
    BY <2>2, ShownPaths
  <2>4. IsQueue(calls') /\ \A d \in ToSet(calls') : CallOK(d)
    <3> DEFINE c == [command |-> "choose_keep", key |-> k, paths |-> Shown[k].paths,
                     rule |-> state.keepRule, refs |-> state.referencePaths]
    <3>1. CallOK(c)
      BY <2>3 DEF CallOK
    <3>2. Invoke(c)
      BY <1>5 DEF Display
    <3> QED
      BY <3>1, <3>2, CallsAppend
  <2>5. UNCHANGED <<inode, threads, events, scan, store, io, history>>
    BY <1>5 DEF Display, disk, profile_store
  <2> QED
    BY <2>1, <2>4, <2>5
<1>6. ASSUME NEW k \in Keys, ChooseKeep(k) PROVE Typed'
  <2>1. k \in DOMAIN Shown
    BY <1>6 DEF ChooseKeep
  <2>2. Shown[k].paths \in PathList
    BY <2>1, ShownPaths
  <2>3. PICK f \in ToSet(Shown[k].paths) : state' = [state EXCEPT !.keepChoice[k] = f]
    BY <1>6 DEF ChooseKeep
  <2>4. f \in File
    BY <2>2, <2>3 DEF ToSet, PathList
  <2>5. /\ DOMAIN state' = DOMAIN state
        /\ state'.scanning = state.scanning /\ state'.groups = state.groups
        /\ state'.keepChoice = [state.keepChoice EXCEPT ![k] = f]
        /\ state'.ruleKeepChoice = state.ruleKeepChoice
        /\ state'.referencePaths = state.referencePaths
        /\ state'.scanProfiles = state.scanProfiles
    BY <2>3 DEF FreshPage
  <2>6. UNCHANGED <<inode, threads, events, calls, scan, store, io, history>>
    BY <1>6 DEF ChooseKeep, disk, profile_store
  <2> QED
    BY <2>4, <2>5, <2>6
<1>7. ASSUME NEW k \in Keys, ApplyAction(k) PROVE Typed'
  <2>1. k \in DOMAIN Shown
    BY <1>7 DEF ApplyAction
  <2>2. Shown[k].paths \in PathList
    BY <2>1, ShownPaths
  <2>3. KeepPath(k) \in File
    BY <2>2 DEF KeepPath, PathList
  <2> DEFINE keep == KeepPath(k)
             list == <<keep>> \o InOrder(ToSet(Shown[k].paths) \ {keep})
  <2>4. list \in PathList
    <3>1. ToSet(Shown[k].paths) \ {keep} \in SUBSET File
      BY <2>2 DEF ToSet, PathList
    <3>2. InOrder(ToSet(Shown[k].paths) \ {keep}) \in Seq(File)
      BY <3>1, ListOfFiles
    <3> HIDE DEF keep
    <3> QED
      BY <2>3, <3>2 DEF PathList, keep
  <2>5. PICK kind \in Kinds :
           Invoke([command |-> "run_action", kind |-> kind, refs |-> state.referencePaths,
                   paths |-> list, group |-> ToSet(Shown[k].paths), moved |-> history.moved])
    BY <1>7 DEF ApplyAction
  <2> HIDE DEF list
  <2>6. IsQueue(calls') /\ \A d \in ToSet(calls') : CallOK(d)
    <3> DEFINE c == [command |-> "run_action", kind |-> kind, refs |-> state.referencePaths,
                     paths |-> list, group |-> ToSet(Shown[k].paths), moved |-> history.moved]
    <3>1. CallOK(c)
      BY <2>4 DEF CallOK
    <3> QED
      BY <3>1, <2>5, CallsAppend
  <2>7. UNCHANGED <<inode, threads, events, state, scan, store, io, history>>
    BY <1>7 DEF ApplyAction, disk, profile_store
  <2> QED
    BY <2>6, <2>7
<1>8. ASSUME NEW name \in Profile, NEW preset \in Preset \cup {None}, ChangeProfile(name, preset)
      PROVE  Typed'
  <2> DEFINE c == [command |-> "change_profile", name |-> name, preset |-> preset]
  <2>1. CallOK(c)
    BY DEF CallOK
  <2>2. IsQueue(calls') /\ \A d \in ToSet(calls') : CallOK(d)
    BY <1>8, <2>1, CallsAppend DEF ChangeProfile
  <2>3. UNCHANGED <<inode, threads, events, state, scan, store, io, history>>
    BY <1>8 DEF ChangeProfile, disk, profile_store
  <2> QED
    BY <2>2, <2>3
<1> HIDE DEF Typed
<1>9. CASE \/ StartScan \/ ToggleKeepNewest
           \/ \E category \in {"photo", "document"} : ToggleType(category)
           \/ \E refs \in Protections : TypeProtected(refs)
  BY <1>1, <1>2, <1>3, <1>4, <1>9
<1>10. CASE \/ \E k \in Keys : Display(k) \/ ChooseKeep(k) \/ ApplyAction(k)
            \/ \E name \in Profile, preset \in Preset \cup {None} : ChangeProfile(name, preset)
  BY <1>5, <1>6, <1>7, <1>8, <1>10
<1> QED
  BY <1>9, <1>10 DEF User

LEMMA TypedScan == ASSUME Typed, ScanThread PROVE Typed'
<1> USE DEF Typed
<1> PICK t \in threads : \/ \E ok \in BOOLEAN : OpenRoot(t, ok)
                         \/ \E c \in Content : EmitGroup(t, c)
                         \/ EmitError(t) \/ EmitFinished(t)
  BY DEF ScanThread
<1>1. t \in Threads
  OBVIOUS
<1> HIDE DEF Typed
<1>2. ASSUME NEW e, EventOK(e), Emit(e), threads' \subseteq Threads,
             UNCHANGED <<disk, calls, state, scan, profile_store, history>>
      PROVE  Typed'
  <2>1. IsQueue(events') /\ \A d \in ToSet(events') : EventOK(d)
    BY <1>2, EventsAppend
  <2> QED
    BY <1>2, <2>1 DEF Typed, disk, profile_store
<1>3. threads \subseteq Threads
  BY DEF Typed
<1>4. ASSUME NEW ok \in BOOLEAN, OpenRoot(t, ok) PROVE Typed'
  <2>1. CASE ok
    <3>1. [t EXCEPT !.phase = "scanning"] \in Threads
      BY <1>1 DEF Threads
    <3>2. threads' \subseteq Threads
      BY <1>3, <1>4, <2>1, <3>1 DEF OpenRoot
    <3> QED
      BY <1>4, <2>1, <3>2 DEF OpenRoot, Typed, disk, profile_store
  <2>2. CASE ~ok
    <3> DEFINE e == [type |-> "error", scan |-> t.scan]
    <3>1. EventOK(e)
      BY <1>1 DEF EventOK, Threads
    <3>2. /\ Emit(e) /\ threads' \subseteq Threads
          /\ UNCHANGED <<disk, calls, state, scan, profile_store, history>>
      BY <1>3, <1>4, <2>2 DEF OpenRoot
    <3> QED
      BY <3>1, <3>2, <1>2
  <2> QED
    BY <2>1, <2>2
<1>5. ASSUME NEW c \in Content, EmitGroup(t, c) PROVE Typed'
  <2> DEFINE D == Duplicates(t, c)
             e == [type |-> "duplicate_group", scan |-> t.scan, paths |-> InOrder(D)]
  <2>1. D \in SUBSET File /\ Cardinality(D) >= 2
    BY <1>5 DEF Duplicates, Holding, EmitGroup
  <2>2. InOrder(D) \in PathList
    <3>1. InOrder(D) \in Seq(File) /\ Len(InOrder(D)) >= 2
      BY <2>1, ListOfFiles
    <3> QED
      BY <3>1 DEF PathList
  <2>3. EventOK(e)
    BY <1>1, <2>2 DEF EventOK, Threads
  <2>4. [t EXCEPT !.done = @ \cup {c}, !.sent = @ \cup D] \in Threads
    BY <1>1, <2>1 DEF Threads
  <2>5. /\ Emit(e) /\ threads' \subseteq Threads
        /\ UNCHANGED <<disk, calls, state, scan, profile_store, history>>
    BY <1>3, <1>5, <2>4 DEF EmitGroup
  <2> QED
    BY <2>3, <2>5, <1>2
<1>6. CASE EmitError(t)
  <2> DEFINE e == [type |-> "error", scan |-> t.scan]
  <2>1. EventOK(e) /\ [t EXCEPT !.failed = TRUE] \in Threads
    BY <1>1 DEF EventOK, Threads
  <2>2. /\ Emit(e) /\ threads' \subseteq Threads
        /\ UNCHANGED <<disk, calls, state, scan, profile_store, history>>
    BY <1>3, <1>6, <2>1 DEF EmitError
  <2> QED
    BY <2>1, <2>2, <1>2
<1>7. CASE EmitFinished(t)
  <2> DEFINE e == [type |-> "finished", scan |-> t.scan]
  <2>1. EventOK(e)
    BY <1>1 DEF EventOK, Threads
  <2>2. /\ Emit(e) /\ threads' \subseteq Threads
        /\ UNCHANGED <<disk, calls, state, scan, profile_store, history>>
    BY <1>3, <1>7 DEF EmitFinished
  <2> QED
    BY <2>1, <2>2, <1>2
<1> QED
  BY <1>4, <1>5, <1>6, <1>7

\* What finishing a scan asks for.
LEMMA LookupCalls ==
  ASSUME NEW s
  PROVE  \/ Lookups(s) = <<>>
         \/ state.groups # <<>> /\ Lookups(s) = <<AskFolders(s)>>
         \/ Lookups(s) = <<AskSimilar(s)>>
BY DEF Lookups

LEMMA TypedEvent == ASSUME Typed, HandleEvent PROVE Typed'
<1> DEFINE e == Head(events)
<1>1. events # <<>> /\ IsQueue(events) /\ events' = Tail(events)
  BY DEF HandleEvent, Typed
<1>2. /\ IsQueue(events') /\ EventOK(e)
      /\ \A d \in ToSet(events') : EventOK(d)
  BY <1>1, QueueTail DEF Typed
<1>3. UNCHANGED <<inode, threads, scan, store, io, history>>
  BY DEF HandleEvent, disk, profile_store
<1> HIDE DEF e
<1> DEFINE CallsOK == IsQueue(calls') /\ \A c \in ToSet(calls') : CallOK(c)
<1>4. ASSUME CallsOK, DOMAIN state' = DOMAIN state, state'.scanning \in BOOLEAN,
             state'.groups \in Seq([scan : Nat, paths : PathList]),
             state'.keepChoice = state.keepChoice, state'.ruleKeepChoice = state.ruleKeepChoice,
             state'.referencePaths = state.referencePaths,
             state'.scanProfiles = state.scanProfiles
      PROVE  Typed'
  BY <1>2, <1>3, <1>4 DEF Typed
<1>5. UNCHANGED calls => CallsOK
  BY DEF Typed
<1>6. state.scanning \in BOOLEAN /\ state.groups \in Seq([scan : Nat, paths : PathList])
      /\ DOMAIN state = DOMAIN FreshPage
  BY DEF Typed
<1> HIDE DEF CallsOK
<1>7. CASE e.type = "duplicate_group"
  <2>1. state' = [state EXCEPT !.groups = Append(@, [scan |-> e.scan, paths |-> e.paths])]
        /\ UNCHANGED calls
    BY <1>7 DEF HandleEvent, e
  <2>2. [scan |-> e.scan, paths |-> e.paths] \in [scan : Nat, paths : PathList]
    BY <1>2, <1>7 DEF EventOK
  <2>3. Append(state.groups, [scan |-> e.scan, paths |-> e.paths])
           \in Seq([scan : Nat, paths : PathList])
    BY <1>6, <2>2
  <2>4. /\ DOMAIN state' = DOMAIN state /\ state'.scanning = state.scanning
        /\ state'.groups = Append(state.groups, [scan |-> e.scan, paths |-> e.paths])
        /\ state'.keepChoice = state.keepChoice /\ state'.ruleKeepChoice = state.ruleKeepChoice
        /\ state'.referencePaths = state.referencePaths
        /\ state'.scanProfiles = state.scanProfiles
    BY <2>1, <1>6 DEF FreshPage
  <2> QED
    BY <2>1, <2>3, <2>4, <1>4, <1>5, <1>6
<1>8. CASE e.type = "error"
  <2>1. UNCHANGED <<state, calls>>
    BY <1>8 DEF HandleEvent, e
  <2> QED
    BY <2>1, <1>4, <1>5, <1>6
<1>9. CASE e.type = "finished"
  <2>1. state' = Finished /\ calls' = calls \o Lookups(e.scan)
    BY <1>9 DEF HandleEvent, e
  <2>2. /\ DOMAIN state' = DOMAIN state /\ state'.scanning = FALSE
        /\ state'.groups = state.groups
        /\ state'.keepChoice = state.keepChoice /\ state'.ruleKeepChoice = state.ruleKeepChoice
        /\ state'.referencePaths = state.referencePaths
        /\ state'.scanProfiles = state.scanProfiles
    BY <2>1, <1>6 DEF FreshPage, Finished
  <2>3. CallsOK
    <3>1. IsQueue(calls) /\ calls \in Seq(ToSet(calls))
      BY DEF Typed, IsQueue
    <3>2. calls \o <<>> = calls
      BY <3>1
    <3>3. \A c : calls \o <<c>> = Append(calls, c)
      BY <3>1, QueueAppend
    <3>4. CallOK(AskFolders(e.scan)) /\ CallOK(AskSimilar(e.scan))
      BY DEF CallOK, AskFolders, AskSimilar
    <3>5. calls' = calls \/ Invoke(AskFolders(e.scan)) \/ Invoke(AskSimilar(e.scan))
      BY <2>1, <3>2, <3>3, LookupCalls DEF Invoke
    <3> QED
      BY <3>4, <3>5, <1>5, CallsAppend DEF CallsOK
  <2> QED
    BY <2>2, <2>3, <1>4, <1>6
<1> QED
  BY <1>2, <1>7, <1>8, <1>9 DEF EventOK

\* What the application does with profiles.
LEMMA IoLoad ==
  ASSUME Typed, NEW p \in DOMAIN io,
         NEW change \in [name : Profile, preset : Preset \cup {None}], Load(p, change)
  PROVE  /\ DOMAIN io' = {"app", "other"} /\ \A q \in DOMAIN io' : IoOK(io[q])'
         /\ store' \in Presets \cup {Torn} /\ history'.wanted \in Presets
         /\ DOMAIN history' = DOMAIN history
<1> DEFINE new == [stage |-> "loaded", change |-> change,
                   list |-> [store EXCEPT ![change.name] = change.preset]]
<1>1. [store EXCEPT ![change.name] = change.preset] \in Presets
  BY DEF Load, Typed, Presets
<1>2. IoOK(new)
  BY <1>1 DEF IoOK
<1>3. io' = [io EXCEPT ![p] = new] /\ store' = store
  BY DEF Load
<1>4. DOMAIN history' = DOMAIN history /\ history'.wanted = history.wanted
  BY DEF Load, Typed
<1> HIDE DEF new
<1> QED
  BY <1>2, <1>3, <1>4 DEF Typed

LEMMA IoTruncate ==
  ASSUME Typed, NEW p \in DOMAIN io, Truncate(p)
  PROVE  /\ DOMAIN io' = {"app", "other"} /\ \A q \in DOMAIN io' : IoOK(io[q])'
         /\ store' \in Presets \cup {Torn} /\ history'.wanted \in Presets
         /\ DOMAIN history' = DOMAIN history
<1>1. io[p] \in [stage : {"loaded", "truncated"}, list : Presets,
                 change : [name : Profile, preset : Preset \cup {None}]]
  BY DEF Truncate, Typed, IoOK, Idle
<1>2. IoOK([io[p] EXCEPT !.stage = "truncated"])
  BY <1>1 DEF IoOK
<1>3. io' = [io EXCEPT ![p] = [io[p] EXCEPT !.stage = "truncated"]]
  BY DEF Truncate
<1>4. store' = NoProfiles /\ NoProfiles \in Presets
  BY DEF Truncate, NoProfiles, Presets
<1>5. history' = history
  BY DEF Truncate
<1> QED
  BY <1>2, <1>3, <1>4, <1>5 DEF Typed

LEMMA IoWrite ==
  ASSUME Typed, NEW p \in DOMAIN io, NEW ok \in BOOLEAN, Write(p, ok)
  PROVE  /\ DOMAIN io' = {"app", "other"} /\ \A q \in DOMAIN io' : IoOK(io[q])'
         /\ store' \in Presets \cup {Torn} /\ history'.wanted \in Presets
         /\ DOMAIN history' = DOMAIN history
         /\ io[p].list \in Presets
<1>1. io[p] \in [stage : {"loaded", "truncated"}, list : Presets,
                 change : [name : Profile, preset : Preset \cup {None}]]
  BY DEF Write, Typed, IoOK, Idle
<1>2. io' = [io EXCEPT ![p] = Idle] /\ IoOK(Idle)
  BY DEF Write, IoOK
<1>3. NoProfiles \in Presets
  BY DEF NoProfiles, Presets
<1>4. store' \in Presets \cup {Torn}
  BY <1>1, <1>3 DEF Write
<1>5. history'.wanted \in Presets /\ DOMAIN history' = DOMAIN history
  <2>1. CASE ok
    <3>1. [history.wanted EXCEPT ![io[p].change.name] = io[p].change.preset] \in Presets
      BY <1>1 DEF Typed, Presets
    <3>2. history' = [history EXCEPT !.wanted =
                        [history.wanted EXCEPT ![io[p].change.name] = io[p].change.preset]]
      BY <2>1 DEF Write
    <3> QED
      BY <3>1, <3>2 DEF Typed
  <2>2. CASE ~ok
    BY <2>2 DEF Write, Typed
  <2> QED
    BY <2>1, <2>2
<1> QED
  BY <1>1, <1>2, <1>4, <1>5 DEF Typed

LEMMA TypedOther == ASSUME Typed, OtherInstance PROVE Typed'
<1>1. UNCHANGED <<inode, threads, events, calls, state, scan>>
  BY DEF OtherInstance, disk
<1>2. ASSUME /\ DOMAIN io' = {"app", "other"} /\ \A q \in DOMAIN io' : IoOK(io[q])'
             /\ store' \in Presets \cup {Torn} /\ history'.wanted \in Presets
             /\ DOMAIN history' = DOMAIN history
      PROVE  Typed'
  BY <1>1, <1>2 DEF Typed
<1>3. "other" \in DOMAIN io
  BY DEF Typed
<1>4. CASE \E name \in Profile, preset \in Preset \cup {None} :
             Load("other", [name |-> name, preset |-> preset])
  BY <1>2, <1>3, <1>4, IoLoad
<1>5. CASE Truncate("other")
  BY <1>2, <1>3, <1>5, IoTruncate
<1>6. CASE \E ok \in BOOLEAN : Write("other", ok)
  BY <1>2, <1>3, <1>6, IoWrite
<1> QED
  BY <1>4, <1>5, <1>6 DEF OtherInstance

LEMMA TypedRestart == ASSUME Typed, Restart PROVE Typed'
<1>1. UNCHANGED <<inode, scan, store>> /\ threads' = {}
  BY DEF Restart, disk
<1>2. /\ DOMAIN io' = {"app", "other"} /\ \A q \in DOMAIN io' : IoOK(io[q])'
  <2>1. io' = [io EXCEPT !["app"] = Idle]
    BY DEF Restart
  <2> QED
    BY <2>1 DEF Typed, IoOK
<1>3. DOMAIN history' = DOMAIN history /\ history'.wanted = history.wanted
  BY DEF Restart, Typed
<1>4. /\ IsQueue(calls') /\ IsQueue(events')
      /\ ToSet(events') = {} /\ \A c \in ToSet(calls') : c = [command |-> "list_scan_profiles"]
  BY QueueOne DEF Restart, Startup
<1>5. /\ \A c \in ToSet(calls') : CallOK(c)
      /\ \A e \in ToSet(events') : EventOK(e)
  BY <1>4 DEF CallOK
<1>6. /\ DOMAIN state' = DOMAIN FreshPage
      /\ state'.scanning \in BOOLEAN
      /\ state'.groups = <<>>
      /\ state'.keepChoice = NoChoice /\ state'.ruleKeepChoice = NoChoice
      /\ state'.referencePaths = {}
      /\ state'.scanProfiles = NoProfiles
  BY DEF Restart, FreshPage
<1>7. /\ NoChoice \in [Keys -> File \cup {None}] /\ NoChoice \in [Keys -> File \cup {None, Loading}]
      /\ NoProfiles \in Presets
  BY DEF NoChoice, NoProfiles, Presets
<1>8. state'.groups \in Seq([scan : Nat, paths : PathList])
  BY <1>6
<1> QED
  BY <1>1, <1>2, <1>3, <1>4, <1>5, <1>6, <1>7, <1>8 DEF Typed

LEMMA TypedApplication == ASSUME Typed, Application PROVE Typed'
<1> DEFINE call == Head(calls)
           CallsOK == IsQueue(calls') /\ \A c \in ToSet(calls') : CallOK(c)
           Same == UNCHANGED <<inode, threads, events, state, scan, store, io, history>>
<1>1. calls # <<>> => CallOK(call) /\ IsQueue(calls)
  BY QueueTail DEF Typed
<1>2. Answered /\ calls # <<>> => CallsOK
  BY CallsTail
<1>3. UNCHANGED calls => CallsOK
  BY DEF Typed
<1>4. DOMAIN state = DOMAIN FreshPage
  BY DEF Typed
<1> HIDE DEF call, CallsOK
<1>5. ASSUME CallsOK, Same PROVE Typed'
  BY <1>5 DEF Typed, CallsOK
<1>6. ASSUME NEW ok \in BOOLEAN, AnswerStart(ok) PROVE Typed'
  <2>1. CallsOK /\ CallOK(call) /\ call.command = "start_scan"
    BY <1>1, <1>2, <1>6 DEF AnswerStart, Command, call
  <2>2. CASE ok
    <3>1. [scan |-> call.scan, phase |-> "opening", done |-> {}, sent |-> {}, failed |-> FALSE] \in Threads
      BY <2>1 DEF Threads, CallOK
    <3>2. threads' \subseteq Threads
      BY <1>6, <2>2, <3>1 DEF AnswerStart, Typed, call
    <3> QED
      BY <1>6, <2>1, <2>2, <3>2 DEF AnswerStart, Typed, CallsOK, disk, profile_store
  <2>3. CASE ~ok
    <3>1. state' = [state EXCEPT !.scanning = FALSE] /\ UNCHANGED threads
      BY <1>6, <2>3 DEF AnswerStart
    <3>2. /\ DOMAIN state' = DOMAIN state /\ state'.scanning = FALSE
          /\ state'.groups = state.groups
          /\ state'.keepChoice = state.keepChoice /\ state'.ruleKeepChoice = state.ruleKeepChoice
          /\ state'.referencePaths = state.referencePaths
          /\ state'.scanProfiles = state.scanProfiles
      BY <3>1, <1>4 DEF FreshPage
    <3>3. UNCHANGED <<inode, events, scan, store, io, history>>
      BY <1>6 DEF AnswerStart, disk, profile_store
    <3> QED
      BY <2>1, <3>1, <3>2, <3>3 DEF Typed, CallsOK
  <2> QED
    BY <2>2, <2>3
<1>7. ASSUME NEW ok \in BOOLEAN, AnswerFolders(ok) PROVE Typed'
  <2>1. calls # <<>>
    BY <1>7 DEF AnswerFolders, Command
  <2>2. CallsOK
    <3> DEFINE t == Tail(calls)
    <3>1. IsQueue(t) /\ \A c \in ToSet(t) : CallOK(c)
      BY <2>1, QueueTail DEF Typed
    <3>2. calls' = t \/ calls' = t \o <<AskSimilar(call.scan)>>
      <4>1. t \o <<>> = t
        BY <3>1 DEF IsQueue
      <4> QED
        BY <1>7, <4>1 DEF AnswerFolders, call
    <3> HIDE DEF t
    <3>3. /\ t \o <<AskSimilar(call.scan)>> = Append(t, AskSimilar(call.scan))
          /\ IsQueue(Append(t, AskSimilar(call.scan)))
          /\ ToSet(Append(t, AskSimilar(call.scan))) = ToSet(t) \cup {AskSimilar(call.scan)}
      BY <3>1, QueueAppend
    <3>4. CallOK(AskSimilar(call.scan))
      BY DEF CallOK, AskSimilar
    <3> QED
      BY <3>1, <3>2, <3>3, <3>4, Zenon DEF CallsOK
  <2>3. /\ DOMAIN state' = DOMAIN state /\ state'.scanning = state.scanning
        /\ state'.groups = state.groups
        /\ state'.keepChoice = state.keepChoice /\ state'.ruleKeepChoice = state.ruleKeepChoice
        /\ state'.referencePaths = state.referencePaths
        /\ state'.scanProfiles = state.scanProfiles
    BY <1>4, <1>7 DEF FreshPage, AnswerFolders
  <2>4. DOMAIN history' = DOMAIN history /\ history'.wanted = history.wanted
    BY <1>7 DEF AnswerFolders, Typed
  <2>5. UNCHANGED <<inode, threads, events, scan, store, io>>
    BY <1>7 DEF AnswerFolders, disk, profile_store
  <2> QED
    BY <2>2, <2>3, <2>4, <2>5 DEF Typed, CallsOK
<1>8. CASE AnswerChooseKeep
  <2>1. CallsOK /\ CallOK(call) /\ call.command = "choose_keep"
    BY <1>1, <1>2, <1>8 DEF AnswerChooseKeep, Command, call
  <2> DEFINE f == Chosen(call.paths, call.rule, call.refs)
  <2>2. f \in File
    <3>1. call.paths \in PathList
      BY <2>1 DEF CallOK
    <3>2. f \in ToSet(call.paths)
      BY <3>1, ChosenFound
    <3> HIDE DEF f
    <3> QED
      BY <3>1, <3>2 DEF PathList, ToSet
  <2>3. state' = [state EXCEPT !.ruleKeepChoice[call.key] = f]
    BY <1>8 DEF AnswerChooseKeep, call
  <2> HIDE DEF f
  <2>4. /\ DOMAIN state' = DOMAIN state /\ state'.scanning = state.scanning
        /\ state'.groups = state.groups /\ state'.keepChoice = state.keepChoice
        /\ state'.ruleKeepChoice = [state.ruleKeepChoice EXCEPT ![call.key] = f]
        /\ state'.referencePaths = state.referencePaths
        /\ state'.scanProfiles = state.scanProfiles
    BY <1>4, <2>3 DEF FreshPage
  <2>5. UNCHANGED <<inode, threads, events, scan, store, io, history>>
    BY <1>8 DEF AnswerChooseKeep, disk, profile_store
  <2>6. state'.ruleKeepChoice \in [Keys -> File \cup {None, Loading}]
    BY <2>1, <2>2, <2>4 DEF Typed, CallOK
  <2>7. /\ DOMAIN state' = DOMAIN FreshPage /\ state'.scanning \in BOOLEAN
        /\ state'.groups \in Seq([scan : Nat, paths : PathList])
        /\ state'.keepChoice \in [Keys -> File \cup {None}]
        /\ state'.referencePaths \subseteq File
        /\ state'.scanProfiles \in Presets
    BY <2>4 DEF Typed
  <2> QED
    BY <2>1, <2>5, <2>6, <2>7 DEF Typed, CallsOK
<1>9. CASE AnswerRunAction
  <2>1. CallsOK /\ CallOK(call) /\ call.command = "run_action"
    BY <1>1, <1>2, <1>9 DEF AnswerRunAction, Command, call
  <2> DEFINE kept == Kept(call.paths, call.refs)
  <2>2. kept \in File
    <3>1. call.paths \in PathList
      BY <2>1 DEF CallOK
    <3>2. kept \in ToSet(call.paths)
      BY <3>1, ChosenFound DEF Kept
    <3> HIDE DEF kept
    <3> QED
      BY <3>1, <3>2 DEF PathList, ToSet
  <2>3. \E done : inode' = [f \in File |->
                         IF f \notin done \/ call.kind = "copy" THEN inode[f]
                         ELSE IF call.kind = "hardlink" THEN inode[kept] ELSE Gone]
    BY <1>9 DEF AnswerRunAction, call
  <2> HIDE DEF kept
  <2>4. inode' \in [File -> File \cup {Gone}]
    BY <2>2, <2>3 DEF Typed
  <2>5. UNCHANGED <<threads, events, state, scan, store, io, history>>
    BY <1>9 DEF AnswerRunAction, profile_store
  <2> QED
    BY <2>1, <2>4, <2>5 DEF Typed, CallsOK
<1>10. CASE AnswerSimilar
  <2>1. CallsOK
    BY <1>2, <1>10 DEF AnswerSimilar, Command
  <2>2. \E v : state' = [state EXCEPT !.similarGroups = v]
    BY <1>10, Zenon DEF AnswerSimilar
  <2>3. \E v : history' = [history EXCEPT !.images = v]
    BY <1>10, Zenon DEF AnswerSimilar
  <2>4. /\ DOMAIN state' = DOMAIN state /\ state'.scanning = state.scanning
        /\ state'.groups = state.groups
        /\ state'.keepChoice = state.keepChoice /\ state'.ruleKeepChoice = state.ruleKeepChoice
        /\ state'.referencePaths = state.referencePaths
        /\ state'.scanProfiles = state.scanProfiles
    BY <1>4, <2>2 DEF FreshPage
  <2>5. DOMAIN history' = DOMAIN history /\ history'.wanted = history.wanted
    BY <2>3 DEF Typed
  <2>6. UNCHANGED <<inode, threads, events, scan, store, io>>
    BY <1>10 DEF AnswerSimilar, disk, profile_store
  <2> QED
    BY <2>1, <2>4, <2>5, <2>6 DEF Typed, CallsOK
<1>11. CASE SimilarFails
  BY <1>2, <1>5, <1>11 DEF SimilarFails, Command, disk, profile_store
<1>12. CASE AnswerList
  <2>1. CallsOK
    BY <1>2, <1>12 DEF AnswerList, Command
  <2>2. /\ DOMAIN state' = DOMAIN state /\ state'.scanning = state.scanning
        /\ state'.groups = state.groups
        /\ state'.keepChoice = state.keepChoice /\ state'.ruleKeepChoice = state.ruleKeepChoice
        /\ state'.referencePaths = state.referencePaths
        /\ state'.scanProfiles = (IF store = Torn THEN state.scanProfiles ELSE store)
    BY <1>4, <1>12 DEF FreshPage, AnswerList
  <2>3. UNCHANGED <<inode, threads, events, scan, store, io, history>>
    BY <1>12 DEF AnswerList, disk, profile_store
  <2> QED
    BY <2>1, <2>2, <2>3 DEF Typed, CallsOK
<1>13. CASE AnswerProfile
  <2>1. CallOK(call) /\ call.command = "change_profile" /\ calls # <<>>
    BY <1>1, <1>13 DEF AnswerProfile, Command, call
  <2> DEFINE change == [name |-> call.name, preset |-> call.preset]
             IosOK == /\ DOMAIN io' = {"app", "other"} /\ \A q \in DOMAIN io' : IoOK(io[q])'
                      /\ store' \in Presets \cup {Torn} /\ history'.wanted \in Presets
                      /\ DOMAIN history' = DOMAIN history
  <2>2. change \in [name : Profile, preset : Preset \cup {None}] /\ "app" \in DOMAIN io
    BY <2>1 DEF CallOK, Typed
  <2>3. UNCHANGED <<inode, threads, events, scan>>
    BY <1>13 DEF AnswerProfile, disk
  <2>4. ASSUME CallsOK, UNCHANGED state, IosOK PROVE Typed'
    BY <2>3, <2>4 DEF Typed, CallsOK
  <2>5. CASE Answered /\ UNCHANGED <<profile_store, state, history>>
    BY <2>1, <2>3, <2>5, <1>2, <1>5 DEF profile_store
  <2>6. CASE Load("app", change) /\ UNCHANGED <<calls, state>>
    <3>1. IosOK
      BY <2>2, <2>6, IoLoad
    <3> QED
      BY <2>4, <2>6, <3>1, <1>3
  <2>7. CASE Truncate("app") /\ UNCHANGED <<calls, state>>
    <3>1. IosOK
      BY <2>2, <2>7, IoTruncate
    <3> QED
      BY <2>4, <2>7, <3>1, <1>3
  <2>8. CASE Write("app", TRUE) /\ Answered /\ state' = [state EXCEPT !.scanProfiles = io.app.list]
    <3>1. IosOK /\ io.app.list \in Presets
      BY <2>2, <2>8, IoWrite
    <3>2. /\ DOMAIN state' = DOMAIN state /\ state'.scanning = state.scanning
          /\ state'.groups = state.groups
          /\ state'.keepChoice = state.keepChoice /\ state'.ruleKeepChoice = state.ruleKeepChoice
          /\ state'.referencePaths = state.referencePaths
          /\ state'.scanProfiles = io.app.list
      BY <1>4, <2>8 DEF FreshPage
    <3>3. CallsOK
      BY <2>1, <2>8, <1>2
    <3> QED
      BY <2>3, <3>1, <3>2, <3>3 DEF Typed, CallsOK
  <2>9. CASE Write("app", FALSE) /\ Answered /\ UNCHANGED state
    <3>1. IosOK
      BY <2>2, <2>9, IoWrite
    <3> QED
      BY <2>4, <2>9, <3>1, <2>1, <1>2
  <2> QED
    BY <1>13, <2>5, <2>6, <2>7, <2>8, <2>9 DEF AnswerProfile, call
<1> QED
  BY <1>6, <1>7, <1>8, <1>9, <1>10, <1>11, <1>12, <1>13 DEF Application

LEMMA TypedNext == Typed /\ [Next]_vars => Typed'
<1>1. ASSUME Typed, UNCHANGED vars PROVE Typed'
  BY <1>1 DEF Typed, vars, disk, profile_store
<1> QED
  BY <1>1, TypedUser, TypedScan, TypedEvent, TypedApplication, TypedOther, TypedRestart DEF Next

LEMMA AlwaysTyped == Spec => []Typed
BY TypedInit, TypedNext, PTL DEF Spec
-----------------------------------------------------------------------------
(* What a click changes on disk.                                           *)

\* Only run_action changes the tree.
LEMMA OnlyRunAction ==
  ASSUME [Next]_vars, inode' # inode PROVE AnswerRunAction
<1>1. CASE UNCHANGED vars
  BY <1>1 DEF vars, disk
<1>2. CASE User
  BY <1>2 DEF User, StartScan, ToggleKeepNewest, ToggleType, TypeProtected, Display, ChooseKeep,
              ApplyAction, ChangeProfile, disk
<1>3. CASE ScanThread
  BY <1>3 DEF ScanThread, OpenRoot, EmitGroup, EmitError, EmitFinished, disk
<1>4. CASE HandleEvent \/ OtherInstance \/ Restart
  BY <1>4 DEF HandleEvent, OtherInstance, Restart, disk
<1>5. CASE Application
  <2>1. ASSUME NEW ok \in BOOLEAN, AnswerStart(ok) \/ AnswerFolders(ok) PROVE FALSE
    BY <2>1 DEF AnswerStart, AnswerFolders, disk
  <2>2. CASE AnswerChooseKeep \/ AnswerSimilar \/ SimilarFails
    BY <2>2 DEF AnswerChooseKeep, AnswerSimilar, SimilarFails, disk
  <2>3. CASE AnswerList \/ AnswerProfile
    BY <2>3 DEF AnswerList, AnswerProfile, disk
  <2> QED
    BY <1>5, <2>1, <2>2, <2>3 DEF Application
<1> QED
  BY <1>1, <1>2, <1>3, <1>4, <1>5 DEF Next

LEMMA RunActionEffect ==
  ASSUME Typed, AnswerRunAction
  PROVE  LET refs == Head(calls).refs
             kept == Kept(Head(calls).paths, refs)
         IN  kept \in File /\ inode'[kept] = inode[kept]
<1> DEFINE call == Head(calls)
           kept == Kept(call.paths, call.refs)
<1>1. CallOK(call) /\ call.command = "run_action"
  BY QueueTail DEF Typed, AnswerRunAction, Command
<1>2. call.paths \in PathList /\ call.refs \subseteq File
  BY <1>1 DEF CallOK
<1>3. kept \in File
  <2>1. kept \in ToSet(call.paths)
    BY <1>2, ChosenFound DEF Kept
  <2> HIDE DEF kept
  <2> QED
    BY <1>2, <2>1 DEF PathList, ToSet
<1>4. PICK done \in SUBSET Planned(call.paths, call.refs) :
         inode' = [f \in File |->
                     IF f \notin done \/ call.kind = "copy" THEN inode[f]
                     ELSE IF call.kind = "hardlink" THEN inode[kept] ELSE Gone]
  <2> HIDE DEF call
  <2> QED
    BY DEF AnswerRunAction, call
<1>5. done \subseteq ToSet(call.paths) \ ({kept} \cup call.refs)
  BY <1>4 DEF Planned
<1> HIDE DEF kept, call
<1>6. inode'[kept] = inode[kept]
  BY <1>2, <1>3, <1>4, <1>5
<1> QED
  BY <1>3, <1>6 DEF kept, call

\* A click loses a content only where the kept file of the request is gone or of
\* another content: a keep that is there and of the group's content stays.
THEOREM LossExplained == Spec => LossNeedsStrangeKeep
<1> DEFINE kept == Kept(Head(calls).paths, Head(calls).refs)
           Safe == inode' # inode =>
                     \A c \in Content : (Holding(c) # {} /\ Holding(c)' = {}) =>
                        inode[kept] = Gone \/ Initial[inode[kept]] # c
<1>1. Typed /\ [Next]_vars => Safe
  <2> SUFFICES ASSUME Typed, [Next]_vars, inode' # inode, NEW c \in Content, Holding(c)' = {},
                      inode[kept] # Gone, Initial[inode[kept]] = c
               PROVE  FALSE
    OBVIOUS
  <2>1. kept \in File /\ inode'[kept] = inode[kept]
    BY OnlyRunAction, RunActionEffect
  <2> HIDE DEF kept
  <2>2. kept \in Holding(c)'
    BY <2>1 DEF Holding
  <2> QED
    BY <2>2
<1> QED
  BY <1>1, AlwaysTyped, PTL DEF Spec, LossNeedsStrangeKeep
-----------------------------------------------------------------------------
(* Scan profiles.                                                          *)

LEMMA ProfilesLoad ==
  ASSUME Typed, ProfilesOK, NEW p \in DOMAIN io, NEW change, Load(p, change)
  PROVE  ProfilesOK'
<1> SUFFICES ASSUME ~history'.disturbed PROVE ProfilesOK'
  BY DEF ProfilesOK
<1> DEFINE new == [stage |-> "loaded", change |-> change,
                   list |-> [store EXCEPT ![change.name] = change.preset]]
<1>1. ~history.disturbed /\ \A q \in DOMAIN io : io[q] = Idle
  BY DEF Load, Typed
<1>2. io' = [io EXCEPT ![p] = new] /\ store' = store /\ history'.wanted = history.wanted
  BY DEF Load, Typed
<1>3. store = history.wanted
  BY <1>1 DEF ProfilesOK, Idle
<1>4. /\ new.list = [history'.wanted EXCEPT ![new.change.name] = new.change.preset]
      /\ new.stage = "loaded"
  BY <1>2, <1>3
<1> HIDE DEF new
<1>5. \A q \in DOMAIN io' : q # p => io'[q] = Idle
  BY <1>1, <1>2
<1>6. io'[p] = new /\ DOMAIN io' = DOMAIN io
  BY <1>2
<1>7. io'[p].list = [history'.wanted EXCEPT ![io'[p].change.name] = io'[p].change.preset]
  BY <1>4, <1>6
<1> QED
  BY <1>2, <1>3, <1>5, <1>6, <1>7 DEF ProfilesOK, ToSave

LEMMA ProfilesTruncate ==
  ASSUME Typed, ProfilesOK, NEW p \in DOMAIN io, Truncate(p)
  PROVE  ProfilesOK'
<1> SUFFICES ASSUME ~history'.disturbed PROVE ProfilesOK'
  BY DEF ProfilesOK
<1>1. ~history.disturbed /\ history' = history
  BY DEF Truncate
<1>2. io[p] # Idle /\ io[p] \in [stage : {"loaded", "truncated"}, list : Presets,
                                 change : [name : Profile, preset : Preset \cup {None}]]
  BY DEF Truncate, Typed, IoOK, Idle
<1>3. \A q \in DOMAIN io : q # p => io[q] = Idle
  BY <1>1, <1>2 DEF ProfilesOK
<1>4. io[p].list = ToSave(io[p])
  BY <1>1, <1>2 DEF ProfilesOK
<1> DEFINE new == [io[p] EXCEPT !.stage = "truncated"]
<1>5. new.stage = "truncated" /\ new.list = io[p].list /\ new.change = io[p].change
  BY <1>2
<1>6. io' = [io EXCEPT ![p] = new]
  BY DEF Truncate
<1> HIDE DEF new
<1>7. io'[p] = new /\ DOMAIN io' = DOMAIN io /\ \A q \in DOMAIN io' : q # p => io'[q] = Idle
  BY <1>3, <1>6
<1>8. io'[p].list = [history'.wanted EXCEPT ![io'[p].change.name] = io'[p].change.preset]
  BY <1>1, <1>4, <1>5, <1>7 DEF ToSave
<1> QED
  BY <1>5, <1>7, <1>8 DEF ProfilesOK, ToSave

LEMMA ProfilesWrite ==
  ASSUME Typed, ProfilesOK, NEW p \in DOMAIN io, NEW ok \in BOOLEAN, Write(p, ok)
  PROVE  ProfilesOK'
<1> SUFFICES ASSUME ~history'.disturbed PROVE ProfilesOK'
  BY DEF ProfilesOK
<1>1. ok
  BY DEF Write, Typed
<1>2. /\ store' = io[p].list
      /\ history' = [history EXCEPT !.wanted[io[p].change.name] = io[p].change.preset]
  BY <1>1 DEF Write
<1>3. history'.disturbed = history.disturbed /\ history'.wanted = ToSave(io[p])
  BY <1>2 DEF Typed, ToSave
<1>4. io[p] # Idle
  BY DEF Write, Idle
<1>5. store' = history'.wanted /\ \A q \in DOMAIN io : q # p => io[q] = Idle
  BY <1>2, <1>3, <1>4 DEF ProfilesOK
<1>6. \A q \in DOMAIN io' : io'[q] = Idle
  BY <1>5 DEF Write
<1> QED
  BY <1>5, <1>6 DEF ProfilesOK

LEMMA ProfilesRestart == ASSUME Typed, ProfilesOK, Restart PROVE ProfilesOK'
<1> SUFFICES ASSUME ~history'.disturbed PROVE ProfilesOK'
  BY DEF ProfilesOK
<1>1. ~history.disturbed /\ io["app"].stage # "truncated" /\ history'.wanted = history.wanted
  BY DEF Restart, Typed
<1>2. io' = [io EXCEPT !["app"] = Idle] /\ store' = store
  BY DEF Restart
<1>3. DOMAIN io = {"app", "other"}
  BY DEF Typed
<1>4. \A q \in DOMAIN io' : io'[q] = Idle \/ (q = "other" /\ io'[q] = io[q])
  BY <1>2, <1>3
<1>5. (\A q \in DOMAIN io' : io'[q].stage # "truncated") => store' = history'.wanted
  BY <1>1, <1>2, <1>3 DEF ProfilesOK
<1>6. \A q \in DOMAIN io' : io'[q] # Idle => io'[q].list = ToSave(io[q])'
  BY <1>1, <1>2, <1>3, <1>4 DEF ProfilesOK, ToSave
<1> QED
  BY <1>2, <1>3, <1>4, <1>5, <1>6 DEF ProfilesOK

\* Nothing else changes what the invariant is about.
LEMMA ProfilesNext == Typed /\ ProfilesOK /\ [Next]_vars => ProfilesOK'
<1> SUFFICES ASSUME Typed, ProfilesOK, [Next]_vars PROVE ProfilesOK'
  OBVIOUS
<1>1. ASSUME UNCHANGED <<store, io>>, history'.disturbed = history.disturbed,
             history'.wanted = history.wanted
      PROVE  ProfilesOK'
  BY <1>1 DEF ProfilesOK, ToSave
<1>2. ASSUME UNCHANGED <<profile_store, history>> PROVE ProfilesOK'
  BY <1>1, <1>2 DEF profile_store
<1>3. CASE UNCHANGED vars
  BY <1>2, <1>3 DEF vars
<1>4. CASE User
  <2>1. CASE StartScan
    BY <1>1, <2>1 DEF StartScan, Typed, profile_store
  <2>2. ASSUME NEW category, ToggleType(category) PROVE ProfilesOK'
    BY <1>1, <2>2 DEF ToggleType, Typed, profile_store
  <2>3. CASE ToggleKeepNewest \/ \E refs \in Protections : TypeProtected(refs)
    BY <1>2, <2>3 DEF ToggleKeepNewest, TypeProtected
  <2>4. ASSUME NEW k \in Keys, Display(k) \/ ChooseKeep(k) \/ ApplyAction(k) PROVE ProfilesOK'
    BY <1>2, <2>4 DEF Display, ChooseKeep, ApplyAction
  <2>5. ASSUME NEW name, NEW preset, ChangeProfile(name, preset) PROVE ProfilesOK'
    BY <1>2, <2>5 DEF ChangeProfile
  <2> QED
    BY <1>4, <2>1, <2>2, <2>3, <2>4, <2>5 DEF User
<1>5. CASE ScanThread \/ HandleEvent
  BY <1>2, <1>5 DEF ScanThread, OpenRoot, EmitGroup, EmitError, EmitFinished, HandleEvent
<1>6. CASE Application
  <2>1. ASSUME NEW ok \in BOOLEAN, AnswerStart(ok) PROVE ProfilesOK'
    BY <1>2, <2>1 DEF AnswerStart
  <2>2. ASSUME NEW ok \in BOOLEAN, AnswerFolders(ok) PROVE ProfilesOK'
    BY <1>1, <2>2 DEF AnswerFolders, Typed, profile_store
  <2>3. CASE AnswerChooseKeep \/ AnswerRunAction
    BY <1>2, <2>3 DEF AnswerChooseKeep, AnswerRunAction
  <2>4. CASE AnswerSimilar
    <3>1. \E v : history' = [history EXCEPT !.images = v]
      BY <2>4, Zenon DEF AnswerSimilar
    <3>2. UNCHANGED profile_store
      BY <2>4 DEF AnswerSimilar
    <3> QED
      BY <1>1, <3>1, <3>2 DEF Typed, profile_store
  <2>5. CASE SimilarFails \/ AnswerList
    BY <1>2, <2>5 DEF SimilarFails, AnswerList
  <2>6. CASE AnswerProfile
    <3>1. "app" \in DOMAIN io
      BY DEF Typed
    <3> QED
      BY <1>2, <2>6, <3>1, ProfilesLoad, ProfilesTruncate, ProfilesWrite DEF AnswerProfile
  <2> QED
    BY <1>6, <2>1, <2>2, <2>3, <2>4, <2>5, <2>6 DEF Application
<1>7. CASE OtherInstance
  <2>1. "other" \in DOMAIN io
    BY DEF Typed
  <2>2. CASE \E name \in Profile, preset \in Preset \cup {None} :
               Load("other", [name |-> name, preset |-> preset])
    BY <2>1, <2>2, ProfilesLoad
  <2>3. CASE Truncate("other") \/ \E ok \in BOOLEAN : Write("other", ok)
    BY <2>1, <2>3, ProfilesTruncate, ProfilesWrite
  <2> QED
    BY <1>7, <2>2, <2>3 DEF OtherInstance
<1>8. CASE Restart
  BY <1>8, ProfilesRestart
<1> QED
  BY <1>3, <1>4, <1>5, <1>6, <1>7, <1>8 DEF Next

\* As long as no write fails or dies and no two instances save at a time, the
\* profiles on disk are what the saves and deletes of both have made them
\* (profiles.rs: upsert and remove).
THEOREM ProfilesSafe == Spec => []ProfilesTrue
<1>1. Init => ProfilesOK
  BY DEF Init, ProfilesOK, Idle
<1>2. Typed /\ ProfilesOK => ProfilesTrue
  <2> SUFFICES ASSUME Typed, ProfilesOK, ~history.disturbed, \A p \in DOMAIN io : io[p] = Idle
               PROVE  store = history.wanted
    BY DEF ProfilesTrue
  <2> QED
    BY DEF ProfilesOK, Idle
<1> QED
  BY <1>1, <1>2, AlwaysTyped, ProfilesNext, PTL DEF Spec
-----------------------------------------------------------------------------
(* One scan at a time.                                                     *)

Special == {"start_scan", "find_duplicate_folders"}
ScanView == <<state.scanning, state.groups, state.folderMatches, threads, events, scan,
              history.lookup_failed>>

\* A step that has nothing to do with a scan and its folder matches.
Aside ==
    /\ UNCHANGED ScanView
    /\ \/ UNCHANGED calls
       \/ \E c : Invoke(c) /\ c.command \notin Special
       \/ calls # <<>> /\ Answered /\ Head(calls).command \notin Special

LEMMA AsideUser == ASSUME Typed, User PROVE StartScan \/ Aside
<1>1. DOMAIN state = DOMAIN FreshPage /\ "lookup_failed" \in DOMAIN history
  BY DEF Typed
<1> USE DEF Aside, ScanView
<1>2. CASE ToggleKeepNewest
  BY <1>1, <1>2 DEF ToggleKeepNewest, FreshPage
<1>3. ASSUME NEW category, ToggleType(category) PROVE Aside
  BY <1>1, <1>3 DEF ToggleType, FreshPage
<1>4. ASSUME NEW refs, TypeProtected(refs) PROVE Aside
  BY <1>1, <1>4 DEF TypeProtected, FreshPage
<1>5. ASSUME NEW k, Display(k) PROVE Aside
  <2> DEFINE c == [command |-> "choose_keep", key |-> k, paths |-> Shown[k].paths,
                   rule |-> state.keepRule, refs |-> state.referencePaths]
  <2>1. Invoke(c) /\ c.command = "choose_keep"
    BY <1>5 DEF Display
  <2>2. UNCHANGED ScanView
    BY <1>1, <1>5 DEF Display, FreshPage
  <2> HIDE DEF c
  <2> QED
    BY <2>1, <2>2 DEF Special
<1>6. ASSUME NEW k, ChooseKeep(k) PROVE Aside
  BY <1>1, <1>6 DEF ChooseKeep, FreshPage
<1>7. ASSUME NEW k, ApplyAction(k) PROVE Aside
  <2>1. \E kind, refs, paths, group, moved :
           Invoke([command |-> "run_action", kind |-> kind, refs |-> refs, paths |-> paths,
                   group |-> group, moved |-> moved])
    BY <1>7, Zenon DEF ApplyAction
  <2>2. \E c : Invoke(c) /\ c.command = "run_action"
    BY <2>1
  <2>3. UNCHANGED ScanView
    BY <1>7 DEF ApplyAction
  <2> QED
    BY <2>2, <2>3 DEF Special
<1>8. ASSUME NEW name, NEW preset, ChangeProfile(name, preset) PROVE Aside
  <2> DEFINE c == [command |-> "change_profile", name |-> name, preset |-> preset]
  <2>1. Invoke(c) /\ c.command = "change_profile"
    BY <1>8 DEF ChangeProfile
  <2>2. UNCHANGED ScanView
    BY <1>8 DEF ChangeProfile
  <2> HIDE DEF c
  <2> QED
    BY <2>1, <2>2 DEF Special
<1> HIDE DEF Aside
<1> QED
  BY <1>2, <1>3, <1>4, <1>5, <1>6, <1>7, <1>8 DEF User

LEMMA AsideApplication ==
  ASSUME Typed, Application
  PROVE  Aside \/ \E ok \in BOOLEAN : AnswerStart(ok) \/ AnswerFolders(ok)
<1>1. DOMAIN state = DOMAIN FreshPage /\ "lookup_failed" \in DOMAIN history
  BY DEF Typed
<1> USE DEF Aside, ScanView, Special, Command
<1>2. CASE AnswerChooseKeep
  BY <1>1, <1>2 DEF AnswerChooseKeep, FreshPage
<1>3. CASE AnswerRunAction
  BY <1>3 DEF AnswerRunAction
<1>4. CASE AnswerSimilar
  <2>1. (\E v : state' = [state EXCEPT !.similarGroups = v])
        /\ (\E v : history' = [history EXCEPT !.images = v])
    BY <1>4, Zenon DEF AnswerSimilar
  <2>2. /\ calls # <<>> /\ Answered /\ Head(calls).command = "find_similar_images"
        /\ UNCHANGED <<threads, events, scan>>
    BY <1>4 DEF AnswerSimilar
  <2> QED
    BY <1>1, <2>1, <2>2 DEF FreshPage
<1>5. CASE SimilarFails
  BY <1>5 DEF SimilarFails
<1>6. CASE AnswerList
  BY <1>1, <1>6 DEF AnswerList, FreshPage
<1>7. CASE AnswerProfile
  <2>1. history'.lookup_failed = history.lookup_failed
    BY <1>1, <1>7 DEF AnswerProfile, Load, Truncate, Write, Typed
  <2>2. /\ calls # <<>> /\ Head(calls).command = "change_profile"
        /\ UNCHANGED <<threads, events, scan>> /\ (UNCHANGED calls \/ Answered)
    BY <1>7 DEF AnswerProfile
  <2>3. UNCHANGED state \/ state' = [state EXCEPT !.scanProfiles = io.app.list]
    BY <1>7 DEF AnswerProfile
  <2> QED
    BY <1>1, <2>1, <2>2, <2>3 DEF FreshPage
<1> HIDE DEF Aside
<1> QED
  BY <1>2, <1>3, <1>4, <1>5, <1>6, <1>7 DEF Application

LEMMA StepKinds ==
  ASSUME Typed, [Next]_vars
  PROVE  \/ Aside \/ StartScan \/ ScanThread \/ HandleEvent \/ Restart
         \/ \E ok \in BOOLEAN : AnswerStart(ok) \/ AnswerFolders(ok)
<1>1. CASE UNCHANGED vars
  BY <1>1 DEF vars, Aside, ScanView
<1>2. CASE OtherInstance
  <2>1. history'.lookup_failed = history.lookup_failed
    BY <1>2 DEF OtherInstance, Load, Truncate, Write, Typed
  <2> QED
    BY <1>2, <2>1 DEF OtherInstance, Aside, ScanView
<1> QED
  BY <1>1, <1>2, AsideUser, AsideApplication DEF Next

\* Commands that are waiting have been waiting, at the same place or one behind.
Moved(s, S, q, Q, d) == \A i \in Q : i + d \in S /\ q[i] = s[i + d]

LEMMA OldCalls ==
  ASSUME Typed, NEW command,
         \/ UNCHANGED calls
         \/ \E c : Invoke(c) /\ c.command # command
         \/ calls # <<>> /\ Answered
  PROVE  \E d \in {0, 1} :
            Moved(calls, {i \in DOMAIN calls : calls[i].command = command}, calls',
                  {i \in DOMAIN calls' : calls'[i].command = command}, d)
<1>1. IsQueue(calls)
  BY DEF Typed
<1>2. CASE UNCHANGED calls
  <2>1. DOMAIN calls \subseteq Nat
    BY <1>1 DEF IsQueue
  <2> QED
    BY <1>2, <2>1 DEF Moved
<1>3. CASE \E c : Invoke(c) /\ c.command # command
  <2>1. PICK c : calls' = Append(calls, c) /\ c.command # command
    BY <1>3 DEF Invoke
  <2>2. /\ Len(calls) \in Nat /\ DOMAIN calls = 1..Len(calls)
        /\ DOMAIN calls' = 1..(Len(calls) + 1)
        /\ \A i \in 1..Len(calls) : calls'[i] = calls[i]
        /\ calls'[Len(calls) + 1] = c
    BY <1>1, <2>1, QueueAppend
  <2>3. \A i \in DOMAIN calls' : i \in DOMAIN calls \/ i = Len(calls) + 1
    BY <2>2
  <2>4. \A i \in DOMAIN calls' : calls'[i].command = command => i \in DOMAIN calls
    BY <2>1, <2>2, <2>3
  <2> QED
    BY <2>2, <2>4 DEF Moved
<1>4. CASE calls # <<>> /\ Answered
  BY <1>1, <1>4, QueueTail DEF Answered, Moved
<1> QED
  BY <1>2, <1>3, <1>4

LEMMA EventCalls ==
  ASSUME Typed, HandleEvent
  PROVE  LET e == Head(events)
         IN  \/ UNCHANGED calls /\ (e.type = "finished" => state.groups = <<>>)
             \/ e.type = "finished" /\ state.groups # <<>> /\ Invoke(AskFolders(e.scan))
             \/ e.type = "finished" /\ state.groups = <<>> /\ Invoke(AskSimilar(e.scan))
<1> DEFINE e == Head(events)
<1>1. e.type \in {"duplicate_group", "error", "finished"}
  BY QueueTail DEF Typed, HandleEvent, EventOK
<1>2. IsQueue(calls) /\ calls \in Seq(ToSet(calls))
  BY DEF Typed, IsQueue
<1>3. calls \o <<>> = calls /\ \A c : calls \o <<c>> = Append(calls, c)
  BY <1>2, QueueAppend
<1>4. CASE e.type = "duplicate_group" \/ e.type = "error"
  BY <1>4 DEF HandleEvent
<1>5. CASE e.type = "finished"
  <2>1. calls' = calls \o Lookups(e.scan)
    BY <1>5 DEF HandleEvent
  <2> HIDE DEF e
  <2>2. CASE state.groups # <<>>
    BY <1>3, <1>5, <2>1, <2>2 DEF Lookups, Invoke, e
  <2>3. CASE state.groups = <<>>
    BY <1>3, <1>5, <2>1, <2>3 DEF Lookups, Invoke, e
  <2> QED
    BY <2>2, <2>3
<1> QED
  BY <1>1, <1>4, <1>5

LEMMA FoldersCalls ==
  ASSUME Typed, NEW ok, AnswerFolders(ok)
  PROVE  /\ calls # <<>> /\ Head(calls).command = "find_duplicate_folders"
         /\ Moved(calls, Starting, calls', Starting', 1)
         /\ Moved(calls, Asking, calls', Asking', 1)
         /\ \A i \in 1..(Len(calls) - 1) : i \in DOMAIN calls' /\ calls'[i] = calls[i + 1]
<1> DEFINE t == Tail(calls)
           last == AskSimilar(Head(calls).scan)
<1>1. calls # <<>> /\ Head(calls).command = "find_duplicate_folders" /\ IsQueue(calls)
  BY DEF AnswerFolders, Command, Typed
<1>2. /\ IsQueue(t) /\ Len(calls) \in Nat \ {0} /\ DOMAIN calls = 1..Len(calls)
      /\ Len(t) = Len(calls) - 1 /\ DOMAIN t = 1..(Len(calls) - 1)
      /\ \A i \in 1..(Len(calls) - 1) : t[i] = calls[i + 1]
  BY <1>1, QueueTail
<1>3. calls' = t \/ calls' = t \o <<last>>
  <2>1. t \o <<>> = t
    BY <1>2 DEF IsQueue
  <2> QED
    BY <2>1 DEF AnswerFolders
<1> HIDE DEF t, last
<1>4. CASE calls' = t
  BY <1>1, <1>2, <1>4 DEF Moved, Starting, Asking
<1>5. CASE calls' = t \o <<last>>
  <2> DEFINE a == Append(t, last)
  <2>0. /\ a = t \o <<last>> /\ DOMAIN a = 1..(Len(t) + 1) /\ Len(t) \in Nat
        /\ \A i \in 1..Len(t) : a[i] = t[i]
        /\ a[Len(t) + 1] = last
    <3>1. IsQueue(t)
      BY <1>2
    <3> HIDE DEF a
    <3>2. \A s : IsQueue(s) => \A x :
             /\ Append(s, x) = s \o <<x>> /\ DOMAIN Append(s, x) = 1..(Len(s) + 1)
             /\ Len(s) \in Nat /\ Append(s, x)[Len(s) + 1] = x
             /\ \A i \in 1..Len(s) : Append(s, x)[i] = s[i]
      BY ONLY QueueAppend
    <3> QED
      BY <3>1, <3>2, Zenon DEF a
  <2>1. /\ DOMAIN calls' = 1..Len(calls) /\ Len(calls) \in Nat \ {0}
        /\ \A i \in 1..(Len(calls) - 1) : calls'[i] = t[i]
        /\ calls'[Len(calls)] = last
    <3> HIDE DEF a
    <3>1. Len(t) + 1 = Len(calls) /\ Len(t) = Len(calls) - 1
      BY <1>2
    <3> QED
      BY <1>2, <1>5, <2>0, <3>1
  <2>2. last.command = "find_similar_images"
    BY DEF last, AskSimilar
  <2>3. \A i \in DOMAIN calls' : i \in 1..(Len(calls) - 1) \/ calls'[i] = last
    BY <1>2, <2>1
  <2>4. \A i \in 1..(Len(calls) - 1) : i \in DOMAIN calls' /\ calls'[i] = calls[i + 1]
                                                         /\ i + 1 \in DOMAIN calls
    BY <1>2, <2>1
  <2>5. Moved(calls, Starting, calls', Starting', 1)
    BY <2>2, <2>3, <2>4 DEF Moved, Starting
  <2>6. Moved(calls, Asking, calls', Asking', 1)
    BY <2>2, <2>3, <2>4 DEF Moved, Asking
  <2> QED
    BY <1>1, <2>4, <2>5, <2>6
<1> QED
  BY <1>3, <1>4, <1>5

LEMMA OldStarts ==
  ASSUME Typed, [Next]_vars, ~StartScan
  PROVE  \E d \in {0, 1} : Moved(calls, Starting, calls', Starting', d)
<1>1. ASSUME \/ UNCHANGED calls
             \/ \E c : Invoke(c) /\ c.command # "start_scan"
             \/ calls # <<>> /\ Answered
      PROVE  \E d \in {0, 1} : Moved(calls, Starting, calls', Starting', d)
  BY <1>1, OldCalls DEF Starting
<1>2. CASE Aside
  <2>1. \/ UNCHANGED calls
        \/ \E c : Invoke(c) /\ c.command \notin Special
        \/ calls # <<>> /\ Answered
    BY ONLY <1>2 DEF Aside
  <2>2. \A c : c.command \notin Special => c.command # "start_scan"
    BY ONLY TRUE DEF Special
  <2> QED
    BY ONLY <1>1, <2>1, <2>2
<1>3. CASE ScanThread
  BY <1>1, <1>3 DEF ScanThread, OpenRoot, EmitGroup, EmitError, EmitFinished
<1>4. CASE HandleEvent
  BY <1>1, <1>4, EventCalls DEF AskFolders, AskSimilar
<1>5. CASE Restart
  <2>1. Starting' = {}
    BY <1>5 DEF Restart, Startup, Starting
  <2> QED
    BY <2>1 DEF Moved
<1>6. ASSUME NEW ok, AnswerStart(ok) PROVE \E d \in {0, 1} : Moved(calls, Starting, calls', Starting', d)
  BY <1>1, <1>6 DEF AnswerStart, Command
<1>7. ASSUME NEW ok, AnswerFolders(ok) PROVE \E d \in {0, 1} : Moved(calls, Starting, calls', Starting', d)
  BY <1>7, FoldersCalls
<1> QED
  BY <1>2, <1>3, <1>4, <1>5, <1>6, <1>7, StepKinds

\* What happens to the queue of events.
LEMMA EventsTail ==
  ASSUME Typed, HandleEvent
  PROVE  /\ Moved(events, Ends, events', Ends', 1) /\ Moved(events, Dups, events', Dups', 1)
         /\ Len(events) \in Nat /\ Len(events') = Len(events) - 1
         /\ 1 \in DOMAIN events /\ Head(events) = events[1]
         /\ events' = Tail(events) /\ EventOK(Head(events))
<1>1. events # <<>> /\ events' = Tail(events) /\ IsQueue(events)
  BY DEF HandleEvent, Typed
<1>2. /\ Len(events) \in Nat \ {0} /\ DOMAIN events = 1..Len(events)
      /\ Len(events') = Len(events) - 1
      /\ DOMAIN events' = 1..(Len(events) - 1)
      /\ \A i \in 1..(Len(events) - 1) : events'[i] = events[i + 1]
      /\ Head(events) = events[1] /\ Head(events) \in ToSet(events)
  BY <1>1, QueueTail
<1>3. \A i \in DOMAIN events' : i + 1 \in DOMAIN events /\ events'[i] = events[i + 1]
  BY <1>2
<1>4. EventOK(Head(events))
  BY <1>2 DEF Typed
<1> QED
  BY <1>1, <1>2, <1>3, <1>4 DEF Moved, Ends, Dups

LEMMA EventsGrow ==
  ASSUME Typed, NEW e, Emit(e)
  PROVE  LET n == Len(events) + 1
         IN  /\ Len(events) \in Nat /\ Len(events') = n /\ DOMAIN events = 1..Len(events)
             /\ events'[n] = e /\ \A i \in DOMAIN events : events'[i] = events[i]
             /\ Ends' = Ends \cup (IF e.type = "finished" THEN {n} ELSE {})
             /\ Dups' = Dups \cup (IF e.type = "duplicate_group" THEN {n} ELSE {})
<1> DEFINE n == Len(events) + 1
<1>1. events' = Append(events, e) /\ IsQueue(events)
  BY DEF Emit, Typed
<1>2. /\ Len(events) \in Nat /\ DOMAIN events = 1..Len(events)
      /\ Len(events') = n /\ DOMAIN events' = 1..n
      /\ \A i \in 1..Len(events) : events'[i] = events[i]
      /\ events'[n] = e
  BY <1>1, QueueAppend
<1>3. DOMAIN events' = DOMAIN events \cup {n} /\ n \notin DOMAIN events
  BY <1>2
<1> HIDE DEF n
<1>4. Ends' = Ends \cup (IF e.type = "finished" THEN {n} ELSE {})
  BY <1>2, <1>3 DEF Ends
<1>5. Dups' = Dups \cup (IF e.type = "duplicate_group" THEN {n} ELSE {})
  BY <1>2, <1>3 DEF Dups
<1> QED
  BY <1>2, <1>4, <1>5 DEF n

\* Nothing is under way at first, after a restart and when a page is idle.
LEMMA NothingYet ==
  ASSUME calls = Startup, events = <<>>
  PROVE  Starting = {} /\ Asking = {} /\ Ends = {} /\ Dups = {}
BY DEF Startup, Starting, Asking, Ends, Dups

LEMMA OneScanInit == Init => OneScan
<1> SUFFICES ASSUME Init PROVE OneScan
  OBVIOUS
<1>1. Starting = {} /\ Ends = {} /\ Dups = {} /\ threads = {}
  BY NothingYet DEF Init
<1>2. state.groups = <<>>
  BY DEF Init, FreshPage
<1> QED
  BY <1>1, <1>2 DEF OneScan

\* The scan that runs.
LEMMA RunningScan ==
  ASSUME OneScan, NEW t \in threads
  PROVE  /\ threads = {t} /\ t.scan = scan /\ state.scanning
         /\ Starting = {} /\ Ends = {}
BY DEF OneScan

LEMMA OneScanThread == ASSUME Typed, OneScan, ScanThread PROVE OneScan'
<1>0. PICK t \in threads : \/ \E ok \in BOOLEAN : OpenRoot(t, ok)
                           \/ \E c \in Content : EmitGroup(t, c)
                           \/ EmitError(t) \/ EmitFinished(t)
  BY DEF ScanThread
<1>1. /\ threads = {t} /\ t.scan = scan /\ state.scanning
      /\ Starting = {} /\ Ends = {} /\ t \in Threads
  BY <1>0, RunningScan DEF Typed
<1>2. UNCHANGED <<calls, state, scan>> /\ Starting' = Starting
  BY <1>0 DEF OpenRoot, EmitGroup, EmitError, EmitFinished, Starting
<1>3. ASSUME NEW u, threads' = {u}, u.scan = scan, Ends' = {},
             \A i \in Dups' : events'[i].scan = scan
      PROVE  OneScan'
  BY <1>1, <1>2, <1>3 DEF OneScan
<1>4. ASSUME threads' = {}, \A i \in Ends' : i = Len(events'),
             \A i \in Ends' \cup Dups' : events'[i].scan = scan
      PROVE  OneScan'
  BY <1>1, <1>2, <1>4 DEF OneScan
<1>5. \A i \in Dups : events[i].scan = scan /\ i \in DOMAIN events
  BY DEF OneScan, Dups
<1>6. CASE \E ok \in BOOLEAN : OpenRoot(t, ok)
  <2>1. CASE OpenRoot(t, TRUE)
    <3> DEFINE u == [t EXCEPT !.phase = "scanning"]
    <3>1. threads' = {u} /\ UNCHANGED events
      BY <1>1, <2>1 DEF OpenRoot
    <3>2. u.scan = scan
      BY <1>1 DEF Threads
    <3> HIDE DEF u
    <3>3. Ends' = Ends /\ Dups' = Dups
      BY <3>1 DEF Ends, Dups
    <3> QED
      BY <1>1, <1>3, <1>5, <3>1, <3>2, <3>3
  <2>2. CASE OpenRoot(t, FALSE)
    <3> DEFINE e == [type |-> "error", scan |-> t.scan]
    <3>1. threads' = {} /\ Emit(e) /\ e.type = "error"
      BY <1>1, <2>2 DEF OpenRoot
    <3> HIDE DEF e
    <3>2. /\ Ends' = Ends /\ Dups' = Dups
          /\ \A i \in DOMAIN events : events'[i] = events[i]
      BY <3>1, EventsGrow
    <3> QED
      BY <1>1, <1>4, <1>5, <3>1, <3>2
  <2> QED
    BY <1>6, <2>1, <2>2
<1>7. CASE \E c \in Content : EmitGroup(t, c)
  <2>1. PICK c \in Content : EmitGroup(t, c)
    BY <1>7
  <2> DEFINE u == [t EXCEPT !.done = @ \cup {c}, !.sent = @ \cup Duplicates(t, c)]
             e == [type |-> "duplicate_group", scan |-> t.scan, paths |-> InOrder(Duplicates(t, c))]
  <2>2. threads' = {u} /\ Emit(e)
    BY <1>1, <2>1 DEF EmitGroup
  <2>3. u.scan = scan /\ e.scan = scan /\ e.type = "duplicate_group"
    BY <1>1 DEF Threads
  <2> HIDE DEF u, e
  <2>4. /\ events'[Len(events) + 1] = e /\ \A i \in DOMAIN events : events'[i] = events[i]
        /\ Ends' = Ends /\ Dups' = Dups \cup {Len(events) + 1}
    BY <2>2, <2>3, EventsGrow
  <2> QED
    BY <1>1, <1>3, <1>5, <2>2, <2>3, <2>4
<1>8. CASE EmitError(t)
  <2> DEFINE u == [t EXCEPT !.failed = TRUE]
             e == [type |-> "error", scan |-> t.scan]
  <2>1. threads' = {u} /\ Emit(e)
    BY <1>1, <1>8 DEF EmitError
  <2>2. u.scan = scan /\ e.type = "error"
    BY <1>1 DEF Threads
  <2> HIDE DEF u, e
  <2>3. Ends' = Ends /\ Dups' = Dups /\ \A i \in DOMAIN events : events'[i] = events[i]
    BY <2>1, <2>2, EventsGrow
  <2> QED
    BY <1>1, <1>3, <1>5, <2>1, <2>2, <2>3
<1>9. CASE EmitFinished(t)
  <2> DEFINE e == [type |-> "finished", scan |-> t.scan]
  <2>1. threads' = {} /\ Emit(e) /\ e.type = "finished" /\ e.scan = scan
    BY <1>1, <1>9 DEF EmitFinished
  <2> HIDE DEF e
  <2>2. /\ Len(events') = Len(events) + 1
        /\ events'[Len(events) + 1] = e /\ \A i \in DOMAIN events : events'[i] = events[i]
        /\ Ends' = Ends \cup {Len(events) + 1} /\ Dups' = Dups
    BY <2>1, EventsGrow
  <2> QED
    BY <1>1, <1>4, <1>5, <2>1, <2>2
<1> QED
  BY <1>0, <1>6, <1>7, <1>8, <1>9

LEMMA OneScanEvent == ASSUME Typed, OneScan, HandleEvent PROVE OneScan'
<1> DEFINE e == Head(events)
<1>1. /\ Moved(events, Ends, events', Ends', 1) /\ Moved(events, Dups, events', Dups', 1)
      /\ Len(events) \in Nat /\ Len(events') = Len(events) - 1
      /\ 1 \in DOMAIN events /\ e = events[1] /\ EventOK(e)
  BY EventsTail
<1>2. PICK d \in {0, 1} : Moved(calls, Starting, calls', Starting', d)
  <2>1. ~StartScan
    BY DEF HandleEvent, StartScan, vars
  <2> QED
    BY <2>1, OldStarts DEF Next
<1>3. UNCHANGED <<threads, scan>>
  BY DEF HandleEvent
<1> HIDE DEF e
<1>7. /\ Ends' # {} => Ends # {}
      /\ Dups' # {} => Dups # {}
      /\ \A i \in Ends' : i = Len(events')
      /\ \A i \in Ends' \cup Dups' : events'[i].scan = scan'
  <2>1. \A i \in Ends' : i + 1 = Len(events)
    BY <1>1 DEF Moved, OneScan
  <2>2. Ends' \subseteq Nat
    BY TypedNext DEF Typed, IsQueue, Ends, Next
  <2>3. \A i \in Ends' : i = Len(events')
    <3>1. \A i \in Nat : i + 1 = Len(events) => i = Len(events) - 1
      BY <1>1
    <3> QED
      BY <1>1, <2>1, <2>2, <3>1
  <2>4. Ends' # {} => Ends # {}
    BY <1>1 DEF Moved
  <2>5. Dups' # {} => Dups # {}
    BY <1>1 DEF Moved
  <2>6. \A i \in Ends' : i + 1 \in Ends /\ events'[i] = events[i + 1]
    BY <1>1 DEF Moved
  <2>7. \A i \in Dups' : i + 1 \in Dups /\ events'[i] = events[i + 1]
    BY <1>1 DEF Moved
  <2>8. \A i \in Ends \cup Dups : events[i].scan = scan
    BY DEF OneScan
  <2>9. \A i \in Ends' \cup Dups' : events'[i].scan = scan
    BY <2>6, <2>7, <2>8, <1>3
  <2> QED
    BY <1>3, <2>3, <2>4, <2>5, <2>9
<1>4. CASE e.type = "duplicate_group"
  <2>1. 1 \in Dups /\ Dups # {}
    BY <1>1, <1>4 DEF Dups
  <2>2. state.scanning /\ Starting = {} /\ e.scan = scan
    BY <1>1, <2>1 DEF OneScan
  <2> DEFINE g == [scan |-> e.scan, paths |-> e.paths]
  <2>3. state' = [state EXCEPT !.groups = Append(@, g)]
    BY <1>4 DEF HandleEvent, e
  <2>4. state'.groups = Append(state.groups, g) /\ state'.scanning = state.scanning
    BY <2>3 DEF Typed, FreshPage
  <2>5. \A i \in DOMAIN state'.groups : state'.groups[i].scan = scan
    <3>1. g.scan = scan
      BY <2>2
    <3> HIDE DEF g
    <3>2. state.groups \in Seq([scan : Nat, paths : PathList])
      BY DEF Typed
    <3>3. \A i \in DOMAIN state'.groups : state'.groups[i] = g
                                           \/ (i \in DOMAIN state.groups /\ state'.groups[i] = state.groups[i])
      BY <2>4, <3>2
    <3> QED
      BY <3>1, <3>3 DEF OneScan
  <2> HIDE DEF g
  <2>6. Starting' = {}
    BY <1>2, <2>2 DEF Moved
  <2> QED
    BY <1>3, <1>7, <2>2, <2>4, <2>5, <2>6 DEF OneScan
<1>5. CASE e.type = "error"
  <2>1. UNCHANGED <<state, calls>>
    BY <1>5 DEF HandleEvent, e
  <2>2. Starting' = Starting
    BY <2>1 DEF Starting
  <2> QED
    BY <1>3, <1>7, <2>1, <2>2 DEF OneScan
<1>6. CASE e.type = "finished"
  <2>1. 1 \in Ends
    BY <1>1, <1>6 DEF Ends
  <2>2. Len(events) = 1 /\ threads = {} /\ Starting = {}
    BY <2>1 DEF OneScan
  <2>3. Ends' = {} /\ Dups' = {}
    <3>1. Len(events') = 0
      BY <1>1, <2>2
    <3>2. events' \in Seq(ToSet(events))
      BY EventsTail, QueueTail DEF HandleEvent, Typed, IsQueue
    <3>3. DOMAIN events' = {}
      BY <3>1, <3>2
    <3> QED
      BY <3>3 DEF Ends, Dups
  <2>4. state'.scanning = FALSE /\ state'.groups = state.groups
    <3>1. state' = [state EXCEPT !.scanning = FALSE]
      BY <1>6 DEF HandleEvent, e, Finished
    <3> QED
      BY <3>1 DEF Typed, FreshPage
  <2>5. Starting' = {}
    BY <1>2, <2>2 DEF Moved
  <2> QED
    BY <1>3, <2>2, <2>3, <2>4, <2>5 DEF OneScan
<1> QED
  BY <1>1, <1>4, <1>5, <1>6 DEF EventOK

LEMMA OneScanStart == ASSUME Typed, OneScan, StartScan PROVE OneScan'
<1> DEFINE c == [command |-> "start_scan", scan |-> scan + 1]
           n == Len(calls) + 1
<1>1. /\ Starting = {} /\ threads = {} /\ Ends = {} /\ Dups = {}
      /\ UNCHANGED <<threads, events>> /\ scan' = scan + 1 /\ calls' = Append(calls, c)
  BY DEF OneScan, StartScan, CanStart, Invoke
<1>2. state'.scanning = TRUE /\ state'.groups = <<>>
  BY DEF StartScan, Cleared, Typed, FreshPage
<1>3. Ends' = {} /\ Dups' = {}
  BY <1>1 DEF Ends, Dups
<1>4. Starting' \subseteq {n} /\ calls'[n].scan = scan'
  <2>1. c.scan = scan'
    BY <1>1
  <2> HIDE DEF c
  <2>2. /\ Len(calls) \in Nat /\ DOMAIN calls = 1..Len(calls)
        /\ DOMAIN calls' = 1..n /\ calls'[n] = c
        /\ \A i \in 1..Len(calls) : calls'[i] = calls[i]
    BY <1>1, QueueAppend DEF Typed
  <2> QED
    BY <1>1, <2>1, <2>2 DEF Starting
<1>5. threads' = {} /\ \A i \in DOMAIN state'.groups : FALSE
  BY <1>1, <1>2
<1> HIDE DEF n
<1> QED
  BY <1>2, <1>3, <1>4, <1>5 DEF OneScan

LEMMA OneScanAnswer == ASSUME Typed, OneScan, NEW ok \in BOOLEAN, AnswerStart(ok) PROVE OneScan'
<1>1. calls # <<>> /\ Answered /\ Head(calls).command = "start_scan"
  BY DEF AnswerStart, Command
<1>2. 1 \in Starting /\ Head(calls) = calls[1]
  BY <1>1, QueueTail DEF Typed, Starting
<1>3. /\ threads = {} /\ Ends = {} /\ Dups = {} /\ state.groups = <<>>
      /\ Head(calls).scan = scan /\ state.scanning
  BY <1>2 DEF OneScan, Typed
<1>4. Starting' = {}
  <2>1. \A i \in Starting' : i + 1 \in Starting
    BY <1>1, QueueTail DEF Typed, Starting, Answered
  <2>2. \A i \in Starting' : i \in Nat \ {0}
    BY <1>1, QueueTail DEF Typed, Starting, Answered
  <2> QED
    BY <1>2, <2>1, <2>2 DEF OneScan
<1>5. UNCHANGED <<events, scan>> /\ Ends' = Ends /\ Dups' = Dups
  BY DEF AnswerStart, Ends, Dups
<1>6. CASE ok
  <2> DEFINE u == [scan |-> Head(calls).scan, phase |-> "opening",
                   done |-> {}, sent |-> {}, failed |-> FALSE]
  <2>1. threads' = {u} /\ u.scan = scan
    BY <1>3, <1>6 DEF AnswerStart
  <2> HIDE DEF u
  <2>2. UNCHANGED state
    BY <1>6 DEF AnswerStart
  <2> QED
    BY <1>3, <1>4, <1>5, <2>1, <2>2 DEF OneScan
<1>7. CASE ~ok
  <2>1. threads' = {} /\ state'.groups = state.groups
    BY <1>3, <1>7 DEF AnswerStart, Typed, FreshPage
  <2> QED
    BY <1>3, <1>4, <1>5, <2>1 DEF OneScan
<1> QED
  BY <1>6, <1>7

LEMMA OneScanNext == Typed /\ OneScan /\ [Next]_vars => OneScan'
<1> SUFFICES ASSUME Typed, OneScan, [Next]_vars PROVE OneScan'
  OBVIOUS
<1>1. ASSUME UNCHANGED <<state.scanning, state.groups, threads, events, scan>>, ~StartScan
      PROVE  OneScan'
  <2>1. PICK d \in {0, 1} : Moved(calls, Starting, calls', Starting', d)
    BY <1>1, OldStarts
  <2>2. Ends' = Ends /\ Dups' = Dups
    BY <1>1 DEF Ends, Dups
  <2>3. Starting' # {} => Starting # {}
    BY <2>1 DEF Moved
  <2>4. \A i \in Starting' : i \in Nat /\ i + d \in Starting /\ calls'[i].scan = scan
    <3>1. DOMAIN calls' \subseteq Nat
      BY TypedNext DEF Typed, IsQueue
    <3> QED
      BY <2>1, <3>1 DEF Moved, Starting, OneScan
  <2>5. \A i, j \in Starting' : i = j
    <3> SUFFICES ASSUME NEW i \in Starting', NEW j \in Starting' PROVE i = j
      OBVIOUS
    <3>1. i \in Nat /\ j \in Nat /\ i + d = j + d
      BY <2>4 DEF OneScan
    <3> QED
      BY <3>1
  <2> QED
    BY <1>1, <2>2, <2>3, <2>4, <2>5 DEF OneScan
<1>2. CASE Aside /\ ~StartScan
  BY <1>1, <1>2 DEF Aside, ScanView
<1>3. ASSUME NEW ok \in BOOLEAN, AnswerFolders(ok) PROVE OneScan'
  <2>1. UNCHANGED <<state.scanning, state.groups, threads, events, scan>> /\ ~StartScan
    BY <1>3 DEF AnswerFolders, StartScan, Typed, FreshPage
  <2> QED
    BY <1>1, <2>1
<1>4. CASE Restart
  <2>1. threads' = {} /\ state'.groups = <<>> /\ Starting' = {} /\ Ends' = {} /\ Dups' = {}
    BY <1>4 DEF Restart, FreshPage, Startup, Starting, Ends, Dups
  <2> QED
    BY <2>1 DEF OneScan
<1> QED
  BY <1>2, <1>3, <1>4, StepKinds, OneScanStart, OneScanThread, OneScanEvent, OneScanAnswer
THEOREM OneScanAlways == Spec => [](Typed /\ OneScan)
BY OneScanInit, AlwaysTyped, OneScanNext, PTL DEF Spec
-----------------------------------------------------------------------------
(* What one scan sends: no file twice, and no more groups than contents.   *)

LEMMA ContentFinite == IsFiniteSet(Content) /\ Cardinality(Content) \in Nat
<1> DEFINE f == [x \in File |-> Initial[x]]
<1>1. f \in Surjection(File, Content)
  BY DEF Surjection, Content
<1> HIDE DEF f
<1>2. IsFiniteSet(Content)
  BY <1>1, FS_Surjection
<1> QED
  BY <1>2, FS_CardinalityType

LEMMA DupsFinite ==
  ASSUME Typed
  PROVE  IsFiniteSet(Dups) /\ Cardinality(Dups) \in Nat /\ Dups \in SUBSET Nat
<1>1. DOMAIN events = 1..Len(events) /\ Len(events) \in Nat
  BY DEF Typed, IsQueue
<1>2. \A n \in Nat : IsFiniteSet(1..n)
  BY FS_Interval
<1>3. Dups \subseteq 1..Len(events)
  BY <1>1 DEF Dups
<1>4. IsFiniteSet(Dups)
  BY <1>1, <1>2, <1>3, FS_Subset
<1> QED
  BY <1>3, <1>4, FS_CardinalityType

\* A set of numbers that lies one behind another one has no more elements.
LEMMA BehindSmaller ==
  ASSUME NEW S \in SUBSET Nat, IsFiniteSet(S), NEW Q \in SUBSET Nat, \A i \in Q : i + 1 \in S
  PROVE  IsFiniteSet(Q) /\ Cardinality(Q) <= Cardinality(S)
<1> DEFINE f == [i \in Q |-> i + 1]
<1>1. f \in [Q -> S]
  OBVIOUS
<1>2. \A i, j \in Q : f[i] = f[j] => i = j
  OBVIOUS
<1> HIDE DEF f
<1>3. f \in Injection(Q, S)
  BY <1>1, <1>2 DEF Injection, IsInjective
<1> QED
  BY <1>3, FS_Injection

LEMMA AnyQueue == ASSUME NEW S, NEW s \in Seq(S) PROVE IsQueue(s)
<1>1. \A i \in 1..Len(s) : s[i] \in ToSet(s)
  BY DEF ToSet
<1> QED
  BY <1>1 DEF IsQueue

LEMMA GroupsFacts ==
  ASSUME Typed
  PROVE  /\ state.groups \in Seq([scan : Nat, paths : PathList])
         /\ Len(state.groups) \in Nat /\ DOMAIN state.groups = 1..Len(state.groups)
         /\ \A g : LET a == Append(state.groups, g)
                   IN  /\ Len(a) = Len(state.groups) + 1
                       /\ DOMAIN a = 1..(Len(state.groups) + 1)
                       /\ \A i \in 1..Len(state.groups) : a[i] = state.groups[i]
                       /\ a[Len(state.groups) + 1] = g
<1>1. state.groups \in Seq([scan : Nat, paths : PathList])
  BY DEF Typed
<1>2. IsQueue(state.groups)
  BY <1>1, AnyQueue
<1> QED
  BY <1>1, <1>2, QueueAppend

LEMMA SentInit == Init => SentOnce /\ Counted
<1> SUFFICES ASSUME Init PROVE SentOnce /\ Counted
  OBVIOUS
<1>1. Dups = {} /\ threads = {} /\ state.groups = <<>>
  BY NothingYet DEF Init, FreshPage
<1>2. Cardinality(Dups) = 0 /\ Len(state.groups) = 0 /\ DOMAIN state.groups = {}
  BY <1>1, FS_EmptySet
<1> QED
  BY <1>1, <1>2, ContentFinite DEF SentOnce, Counted

LEMMA SentSame ==
  ASSUME Typed, SentOnce, Counted, state'.groups = state.groups, Dups' = Dups,
         \A i \in Dups : events'[i] = events[i],
         \A u \in threads' : \E t \in threads : u.sent = t.sent /\ u.done = t.done
  PROVE  SentOnce' /\ Counted'
<1>1. \A i \in Dups' : i \in Dups /\ events'[i].paths = events[i].paths
  OBVIOUS
<1>2. ASSUME NEW u \in threads'
      PROVE  /\ \A i \in DOMAIN state'.groups : Sent(state'.groups[i].paths, u.sent)
             /\ \A i \in Dups' : Sent(events'[i].paths, u.sent)
             /\ Len(state'.groups) + Cardinality(Dups') <= Cardinality(u.done)
  <2>1. PICK t \in threads : u.sent = t.sent /\ u.done = t.done
    OBVIOUS
  <2>2. /\ \A i \in DOMAIN state.groups : Sent(state.groups[i].paths, t.sent)
        /\ \A i \in Dups : Sent(events[i].paths, t.sent)
        /\ Len(state.groups) + Cardinality(Dups) <= Cardinality(t.done)
    BY DEF SentOnce, Counted
  <2> QED
    BY <1>1, <2>1, <2>2
<1>3. SentOnce'
  BY <1>1, <1>2 DEF SentOnce
<1>4. Counted'
  BY <1>2 DEF Counted
<1> QED
  BY <1>3, <1>4

LEMMA SentGroup ==
  ASSUME Typed, OneScan, SentOnce, Counted, NEW t \in threads, NEW c \in Content, EmitGroup(t, c)
  PROVE  SentOnce' /\ Counted'
<1> DEFINE n == Len(events) + 1
           D == Duplicates(t, c)
           u == [t EXCEPT !.done = @ \cup {c}, !.sent = @ \cup D]
           e == [type |-> "duplicate_group", scan |-> t.scan, paths |-> InOrder(D)]
<1>1. t \in Threads /\ threads = {t}
  BY RunningScan DEF Typed
<1>2. threads' = {u} /\ Emit(e) /\ c \notin t.done /\ state' = state
  BY <1>1 DEF EmitGroup
<1>3. u.done = t.done \cup {c} /\ u.sent = t.sent \cup D
  BY <1>1 DEF Threads
<1>4. D \in SUBSET File /\ D \cap t.sent = {}
  BY DEF Duplicates, Holding
<1>5. ToSet(e.paths) = D /\ e.type = "duplicate_group"
  BY <1>4, ListOfFiles
<1> HIDE DEF u, e, D, n
<1>6. /\ n \notin Dups /\ n \in Nat /\ events'[n] = e
      /\ \A i \in Dups : events'[i] = events[i]
      /\ Dups' = Dups \cup {n}
  BY <1>2, <1>5, EventsGrow DEF n, Dups
<1>7. /\ \A i \in DOMAIN state.groups : Sent(state.groups[i].paths, t.sent)
      /\ \A i \in Dups : Sent(events[i].paths, t.sent)
      /\ \A i, j \in DOMAIN state.groups : i = j \/ Apart(state.groups[i].paths, state.groups[j].paths)
      /\ \A i \in DOMAIN state.groups, j \in Dups : Apart(state.groups[i].paths, events[j].paths)
      /\ \A i, j \in Dups : i = j \/ Apart(events[i].paths, events[j].paths)
  BY DEF SentOnce
<1>8. \A p : Sent(p, t.sent) => Sent(p, u.sent) /\ Apart(p, e.paths) /\ Apart(e.paths, p)
  BY <1>3, <1>4, <1>5, Zenon DEF Sent, Apart
<1>9. Sent(e.paths, u.sent)
  BY <1>3, <1>5 DEF Sent
<1>10. SentOnce'
  <2>1. \A i \in DOMAIN state'.groups : Sent(state'.groups[i].paths, u.sent)
    BY <1>2, <1>7, <1>8
  <2>2. \A i \in Dups' : Sent(events'[i].paths, u.sent)
    BY <1>6, <1>7, <1>8, <1>9
  <2>3. \A i \in DOMAIN state'.groups, j \in Dups' : Apart(state'.groups[i].paths, events'[j].paths)
    BY <1>2, <1>6, <1>7, <1>8
  <2>4. \A i, j \in Dups' : i = j \/ Apart(events'[i].paths, events'[j].paths)
    <3> SUFFICES ASSUME NEW i \in Dups', NEW j \in Dups', i # j
                 PROVE  Apart(events'[i].paths, events'[j].paths)
      OBVIOUS
    <3>1. CASE i \in Dups /\ j \in Dups
      BY <3>1, <1>6, <1>7
    <3>2. CASE i = n
      <4>1. j \in Dups
        BY <3>2, <1>6
      <4> QED
        BY <3>2, <4>1, <1>6, <1>7, <1>8
    <3>3. CASE j = n
      <4>1. i \in Dups
        BY <3>3, <1>6
      <4> QED
        BY <3>3, <4>1, <1>6, <1>7, <1>8
    <3> QED
      BY <1>6, <3>1, <3>2, <3>3
  <2> QED
    BY <1>2, <1>7, <2>1, <2>2, <2>3, <2>4 DEF SentOnce
<1>11. Counted'
  <2>1. Cardinality(Dups') = Cardinality(Dups) + 1
    BY <1>6, DupsFinite, FS_AddElement
  <2>2. t.done \in SUBSET Content
    BY <1>1 DEF Threads
  <2>3. IsFiniteSet(t.done) /\ Cardinality(t.done) \in Nat
    BY <2>2, ContentFinite, FS_Subset, FS_CardinalityType
  <2>4. Cardinality(u.done) = Cardinality(t.done) + 1
    BY <1>2, <1>3, <2>3, FS_AddElement
  <2>5. u.done \in SUBSET Content
    BY <2>2, <1>3
  <2>6. Cardinality(u.done) <= Cardinality(Content)
    BY <2>5, ContentFinite, FS_Subset
  <2>7. Len(state.groups) + Cardinality(Dups) <= Cardinality(t.done)
    BY DEF Counted
  <2>8. Len(state.groups) \in Nat /\ Cardinality(Dups) \in Nat
    BY GroupsFacts, DupsFinite
  <2>9. /\ Len(state'.groups) + Cardinality(Dups') <= Cardinality(u.done)
        /\ Len(state'.groups) + Cardinality(Dups') <= Cardinality(Content)
    BY <1>2, <2>1, <2>3, <2>4, <2>6, <2>7, <2>8, ContentFinite
  <2> QED
    BY <1>2, <2>9 DEF Counted
<1> QED
  BY <1>10, <1>11

LEMMA SentThread == ASSUME Typed, OneScan, SentOnce, Counted, ScanThread PROVE SentOnce' /\ Counted'
<1>0. PICK t \in threads : \/ \E ok \in BOOLEAN : OpenRoot(t, ok)
                           \/ \E c \in Content : EmitGroup(t, c)
                           \/ EmitError(t) \/ EmitFinished(t)
  BY DEF ScanThread
<1>1. t \in Threads /\ threads = {t}
  BY RunningScan DEF Typed
<1>2. ASSUME NEW e, Emit(e), e.type # "duplicate_group", state' = state,
             \A u \in threads' : u.sent = t.sent /\ u.done = t.done
      PROVE  SentOnce' /\ Counted'
  <2>1. Dups' = Dups /\ \A i \in Dups : events'[i] = events[i]
    BY <1>2, EventsGrow DEF Dups
  <2> QED
    BY <1>2, <2>1, SentSame
<1>3. CASE OpenRoot(t, TRUE)
  <2>1. threads' = {[t EXCEPT !.phase = "scanning"]} /\ UNCHANGED <<events, state>>
    BY <1>1, <1>3 DEF OpenRoot
  <2>2. \A u \in threads' : u.sent = t.sent /\ u.done = t.done
    BY <1>1, <2>1 DEF Threads
  <2>3. Dups' = Dups
    BY <2>1 DEF Dups
  <2> QED
    BY <2>1, <2>2, <2>3, SentSame
<1>4. CASE OpenRoot(t, FALSE) \/ EmitFinished(t)
  <2>1. threads' = {} /\ state' = state
    BY <1>1, <1>4 DEF OpenRoot, EmitFinished
  <2>2. Emit([type |-> "error", scan |-> t.scan]) \/ Emit([type |-> "finished", scan |-> t.scan])
    BY <1>4 DEF OpenRoot, EmitFinished
  <2>3. PICK e : Emit(e) /\ e.type # "duplicate_group"
    BY <2>2
  <2> QED
    BY <1>2, <2>1, <2>3
<1>5. CASE EmitError(t)
  <2> DEFINE e == [type |-> "error", scan |-> t.scan]
  <2>1. threads' = {[t EXCEPT !.failed = TRUE]} /\ Emit(e) /\ state' = state
    BY <1>1, <1>5 DEF EmitError
  <2>2. \A u \in threads' : u.sent = t.sent /\ u.done = t.done
    BY <1>1, <2>1 DEF Threads
  <2>3. e.type # "duplicate_group"
    OBVIOUS
  <2> HIDE DEF e
  <2> QED
    BY <1>2, <2>1, <2>2, <2>3
<1> QED
  BY <1>0, <1>3, <1>4, <1>5, SentGroup

LEMMA SentEvent == ASSUME Typed, OneScan, SentOnce, Counted, HandleEvent PROVE SentOnce' /\ Counted'
<1> DEFINE e == Head(events)
<1>1. /\ Moved(events, Dups, events', Dups', 1)
      /\ 1 \in DOMAIN events /\ e = events[1] /\ EventOK(e)
  BY EventsTail
<1> HIDE DEF e
<1>2. UNCHANGED threads
  BY DEF HandleEvent
<1>3. Dups' \in SUBSET Nat /\ 0 \notin Dups'
  <2>1. Typed'
    BY TypedNext DEF Next
  <2>2. IsQueue(events)'
    BY <2>1 DEF Typed
  <2>3. DOMAIN events' = 1..Len(events')
    BY <2>2 DEF IsQueue
  <2> QED
    BY <2>3 DEF Dups
<1>4. \A i \in Dups' : i + 1 \in Dups /\ events'[i] = events[i + 1]
  BY <1>1 DEF Moved
<1>5. \A i, j \in Dups' : i # j => i + 1 # j + 1
  BY <1>3
<1>6. /\ \A i, j \in Dups' : i = j \/ Apart(events'[i].paths, events'[j].paths)
      /\ \A t \in threads' : \A i \in Dups' : Sent(events'[i].paths, t.sent)
  BY <1>2, <1>4, <1>5 DEF SentOnce
<1>7. CASE e.type = "duplicate_group"
  <2> DEFINE g == [scan |-> e.scan, paths |-> e.paths]
             n == Len(state.groups) + 1
  <2>1. 1 \in Dups
    BY <1>1, <1>7 DEF Dups
  <2>2. state'.groups = Append(state.groups, g)
    <3>1. state' = [state EXCEPT !.groups = Append(@, g)]
      BY <1>7 DEF HandleEvent, e
    <3> QED
      BY <3>1 DEF Typed, FreshPage
  <2>3. g.paths = events[1].paths
    BY <1>1
  <2> HIDE DEF g
  <2>4. /\ Len(state'.groups) = n /\ DOMAIN state'.groups = DOMAIN state.groups \cup {n}
        /\ \A i \in DOMAIN state.groups : state'.groups[i] = state.groups[i]
        /\ state'.groups[n] = g /\ Len(state.groups) \in Nat
    BY <2>2, GroupsFacts
  <2> HIDE DEF n
  <2>5. \A i \in Dups' : i + 1 # 1
    BY <1>3
  <2>6. \A i \in DOMAIN state.groups : /\ Apart(state.groups[i].paths, g.paths)
                                       /\ Apart(g.paths, state.groups[i].paths)
    BY <2>1, <2>3 DEF SentOnce, Apart
  <2>7. \A i, j \in DOMAIN state'.groups :
           i = j \/ Apart(state'.groups[i].paths, state'.groups[j].paths)
    BY <2>4, <2>6 DEF SentOnce
  <2>8. \A i \in DOMAIN state'.groups, j \in Dups' :
           Apart(state'.groups[i].paths, events'[j].paths)
    <3> SUFFICES ASSUME NEW i \in DOMAIN state'.groups, NEW j \in Dups'
                 PROVE  Apart(state'.groups[i].paths, events[j + 1].paths)
      BY <1>4
    <3>1. j + 1 \in Dups /\ j + 1 # 1
      BY <1>4, <2>5
    <3>2. CASE i \in DOMAIN state.groups
      BY <2>4, <3>1, <3>2 DEF SentOnce
    <3>3. CASE i = n
      BY <2>1, <2>3, <2>4, <3>1, <3>3 DEF SentOnce
    <3> QED
      BY <2>4, <3>2, <3>3
  <2>9. \A t \in threads' : \A i \in DOMAIN state'.groups : Sent(state'.groups[i].paths, t.sent)
    BY <1>2, <2>1, <2>3, <2>4 DEF SentOnce
  <2>10. SentOnce'
    BY <1>6, <2>7, <2>8, <2>9 DEF SentOnce
  <2>11. Cardinality(Dups') + 1 <= Cardinality(Dups) /\ Cardinality(Dups') \in Nat
    <3> DEFINE S == Dups \ {1}
    <3>1. IsFiniteSet(S) /\ Cardinality(S) = Cardinality(Dups) - 1 /\ S \in SUBSET Nat
      BY <2>1, DupsFinite, FS_RemoveElement
    <3>2. \A i \in Dups' : i + 1 \in S
      BY <1>4, <2>5
    <3> HIDE DEF S
    <3>3. IsFiniteSet(Dups') /\ Cardinality(Dups') <= Cardinality(S)
      BY <1>3, <3>1, <3>2, BehindSmaller
    <3>4. Cardinality(Dups') \in Nat
      BY <3>3, FS_CardinalityType
    <3> QED
      BY <3>1, <3>3, <3>4, DupsFinite
  <2>12. \A m \in Nat : Len(state.groups) + Cardinality(Dups) <= m
                        => Len(state'.groups) + Cardinality(Dups') <= m
    BY <2>4, <2>11, DupsFinite DEF n
  <2>13. Counted'
    <3>1. Len(state'.groups) + Cardinality(Dups') <= Cardinality(Content)
      BY <2>12, ContentFinite DEF Counted
    <3>2. \A t \in threads : Cardinality(t.done) \in Nat
      <4>1. \A t \in threads : t.done \in SUBSET Content
        BY DEF Typed, Threads
      <4> QED
        BY <4>1, ContentFinite, FS_Subset, FS_CardinalityType
    <3>3. \A t \in threads' : Len(state'.groups) + Cardinality(Dups') <= Cardinality(t.done)
      BY <1>2, <2>12, <3>2 DEF Counted
    <3> QED
      BY <3>1, <3>3 DEF Counted
  <2> QED
    BY <2>10, <2>13
<1>8. CASE e.type # "duplicate_group"
  <2>1. state'.groups = state.groups
    <3>1. state' = state \/ state' = Finished
      BY <1>1, <1>8 DEF HandleEvent, e, EventOK
    <3> QED
      BY <3>1 DEF Finished, Typed, FreshPage
  <2>2. SentOnce'
    BY <1>2, <1>4, <1>6, <2>1 DEF SentOnce
  <2>3. Cardinality(Dups') <= Cardinality(Dups) /\ Cardinality(Dups') \in Nat
    <3>1. IsFiniteSet(Dups') /\ Cardinality(Dups') <= Cardinality(Dups)
      BY <1>3, <1>4, DupsFinite, BehindSmaller
    <3> QED
      BY <3>1, FS_CardinalityType
  <2>4. \A m \in Nat : Len(state.groups) + Cardinality(Dups) <= m
                        => Len(state'.groups) + Cardinality(Dups') <= m
    BY <2>1, <2>3, DupsFinite, GroupsFacts
  <2>5. Counted'
    <3>1. Len(state'.groups) + Cardinality(Dups') <= Cardinality(Content)
      BY <2>4, ContentFinite DEF Counted
    <3>2. \A t \in threads : Cardinality(t.done) \in Nat
      <4>1. \A t \in threads : t.done \in SUBSET Content
        BY DEF Typed, Threads
      <4> QED
        BY <4>1, ContentFinite, FS_Subset, FS_CardinalityType
    <3>3. \A t \in threads' : Len(state'.groups) + Cardinality(Dups') <= Cardinality(t.done)
      BY <1>2, <2>4, <3>2 DEF Counted
    <3> QED
      BY <3>1, <3>3 DEF Counted
  <2> QED
    BY <2>2, <2>5
<1> QED
  BY <1>7, <1>8

\* A page without groups and events, for which no scan has sent anything.
LEMMA SentNothing ==
  ASSUME state'.groups = <<>>, Dups' = {}, \A t \in threads' : t.done = {}
  PROVE  SentOnce' /\ Counted'
<1>1. Len(state'.groups) = 0 /\ DOMAIN state'.groups = {} /\ Cardinality(Dups') = 0 /\ Cardinality({}) = 0
  BY FS_EmptySet
<1>2. SentOnce'
  BY <1>1 DEF SentOnce, Sent, Apart
<1>3. Len(state'.groups) + Cardinality(Dups') = 0 /\ 0 <= Cardinality(Content)
  BY <1>1, ContentFinite
<1>4. \A t \in threads' : Cardinality(t.done) = 0
  BY <1>1
<1>5. Counted'
  BY <1>3, <1>4 DEF Counted
<1> QED
  BY <1>2, <1>5

LEMMA SentNext == Typed /\ OneScan /\ SentOnce /\ Counted /\ [Next]_vars => SentOnce' /\ Counted'
<1> SUFFICES ASSUME Typed, OneScan, SentOnce, Counted, [Next]_vars PROVE SentOnce' /\ Counted'
  OBVIOUS
<1>1. ASSUME UNCHANGED <<state.groups, threads, events>> PROVE SentOnce' /\ Counted'
  <2>1. Dups' = Dups
    BY <1>1 DEF Dups
  <2> QED
    BY <1>1, <2>1, SentSame
<1>2. CASE Aside
  BY <1>1, <1>2 DEF Aside, ScanView
<1>3. CASE StartScan
  <2>1. Dups' = {} /\ threads' = {}
    BY <1>3 DEF StartScan, CanStart, OneScan, Dups
  <2>2. state'.groups = <<>>
    BY <1>3 DEF StartScan, Cleared, Typed, FreshPage
  <2> QED
    BY <2>1, <2>2, SentNothing
<1>4. ASSUME NEW ok \in BOOLEAN, AnswerFolders(ok) PROVE SentOnce' /\ Counted'
  <2>1. UNCHANGED <<state.groups, threads, events>>
    BY <1>4 DEF AnswerFolders, Typed, FreshPage
  <2> QED
    BY <1>1, <2>1
<1>5. ASSUME NEW ok \in BOOLEAN, AnswerStart(ok) PROVE SentOnce' /\ Counted'
  <2>1. 1 \in Starting
    BY <1>5, QueueTail DEF AnswerStart, Command, Typed, Starting
  <2>2. threads = {} /\ Dups = {} /\ state.groups = <<>>
    BY <2>1 DEF OneScan
  <2>3. Dups' = {} /\ state'.groups = <<>>
    BY <1>5, <2>2 DEF AnswerStart, Dups, Typed, FreshPage
  <2>4. \A t \in threads' : t.done = {}
    BY <1>5, <2>2 DEF AnswerStart
  <2> QED
    BY <2>3, <2>4, SentNothing
<1>6. CASE Restart
  <2>1. threads' = {} /\ state'.groups = <<>> /\ Dups' = {}
    BY <1>6 DEF Restart, FreshPage, Dups
  <2> QED
    BY <2>1, SentNothing
<1> QED
  BY <1>2, <1>3, <1>4, <1>5, <1>6, StepKinds, SentThread, SentEvent

\* The list of groups never mixes two scans, and no file is in two of its groups,
\* however late the events of a scan are handled (startScan, start_scan).
THEOREM ListsSafe == Spec => []ListsOfThisScan
<1>1. OneScan /\ SentOnce => ListsOfThisScan
  BY DEF OneScan, SentOnce, ListsOfThisScan, Apart
<1> QED
  BY <1>1, SentInit, OneScanAlways, SentNext, PTL DEF Spec
-----------------------------------------------------------------------------
(* The folder matches.                                                     *)

LEMMA AskingStays ==
  ASSUME Typed, Aside
  PROVE  \E d \in {0, 1} : /\ Moved(calls, Asking, calls', Asking', d)
                           /\ \A i \in Asking : i - d \in Asking'
<1>1. IsQueue(calls)
  BY DEF Typed
<1>2. DOMAIN calls \subseteq Nat
  BY <1>1 DEF IsQueue
<1>3. CASE UNCHANGED calls
  <2>1. Moved(calls, Asking, calls', Asking', 0) /\ \A i \in Asking : i - 0 \in Asking'
    BY <1>2, <1>3 DEF Moved, Asking
  <2> QED
    BY <2>1
<1>4. CASE \E c : Invoke(c) /\ c.command \notin Special
  <2>1. PICK c : calls' = Append(calls, c) /\ c.command # "find_duplicate_folders"
    BY <1>4 DEF Invoke, Special
  <2>2. /\ Len(calls) \in Nat /\ DOMAIN calls = 1..Len(calls)
        /\ DOMAIN calls' = 1..(Len(calls) + 1)
        /\ \A i \in 1..Len(calls) : calls'[i] = calls[i]
        /\ calls'[Len(calls) + 1] = c
    BY <1>1, <2>1, QueueAppend
  <2>3. \A i \in DOMAIN calls' : i \in DOMAIN calls \/ i = Len(calls) + 1
    BY <2>2
  <2>4. Asking' \subseteq DOMAIN calls
    BY <2>1, <2>2, <2>3 DEF Asking
  <2>5. DOMAIN calls \subseteq DOMAIN calls'
    BY <2>2
  <2>6. Moved(calls, Asking, calls', Asking', 0) /\ \A i \in Asking : i - 0 \in Asking'
    BY <1>2, <2>2, <2>4, <2>5 DEF Moved, Asking
  <2> QED
    BY <2>6
<1>5. CASE calls # <<>> /\ Answered /\ Head(calls).command \notin Special
  <2>1. /\ Len(calls) \in Nat \ {0} /\ DOMAIN calls = 1..Len(calls)
        /\ DOMAIN calls' = 1..(Len(calls) - 1)
        /\ \A i \in 1..(Len(calls) - 1) : calls'[i] = calls[i + 1]
        /\ Head(calls) = calls[1]
    BY <1>1, <1>5, QueueTail DEF Answered
  <2>2. 1 \notin Asking
    BY <1>5, <2>1 DEF Asking, Special
  <2>3. \A i \in Asking : i - 1 \in DOMAIN calls' /\ calls'[i - 1] = calls[i]
    <3> SUFFICES ASSUME NEW i \in Asking PROVE i - 1 \in DOMAIN calls' /\ calls'[i - 1] = calls[i]
      OBVIOUS
    <3>1. i \in 1..Len(calls) /\ i # 1
      BY <2>1, <2>2 DEF Asking
    <3>2. i - 1 \in 1..(Len(calls) - 1) /\ (i - 1) + 1 = i
      BY <2>1, <3>1
    <3> QED
      BY <2>1, <3>2
  <2>4. \A i \in DOMAIN calls' : i + 1 \in DOMAIN calls /\ calls'[i] = calls[i + 1]
    BY <2>1
  <2>5. Moved(calls, Asking, calls', Asking', 1)
    BY <2>4 DEF Moved, Asking
  <2>6. \A i \in Asking : i - 1 \in Asking'
    BY <2>3 DEF Asking
  <2> QED
    BY <2>5, <2>6
<1> QED
  BY <1>3, <1>4, <1>5 DEF Aside

LEMMA LookupAside == ASSUME Typed, Typed', Lookup, Aside PROVE Lookup'
<1> SUFFICES ASSUME ~state.scanning, state.groups # <<>>, ~history.lookup_failed
             PROVE  \/ Asking' = {} /\ state'.folderMatches = scan'
                    \/ \E i \in Asking' : calls'[i].scan = scan' /\ \A j \in Asking' : j <= i
  BY DEF Lookup, Aside, ScanView
<1>1. UNCHANGED <<state.folderMatches, scan>>
  BY DEF Aside, ScanView
<1>2. PICK d \in {0, 1} : /\ Moved(calls, Asking, calls', Asking', d)
                          /\ \A i \in Asking : i - d \in Asking'
  BY AskingStays
<1>3. CASE Asking = {} /\ state.folderMatches = scan
  BY <1>1, <1>2, <1>3 DEF Moved
<1>4. CASE \E i \in Asking : calls[i].scan = scan /\ \A j \in Asking : j <= i
  <2>1. PICK i \in Asking : calls[i].scan = scan /\ \A j \in Asking : j <= i
    BY <1>4
  <2>8. calls \in Seq(ToSet(calls))
    BY DEF Typed, IsQueue
  <2>9. i \in Nat
    BY ONLY <2>1, <2>8 DEF Asking
  <2>2. i - d \in Asking' /\ i \in Nat
    BY ONLY <1>2, <2>1, <2>9
  <2>3. (i - d) + d = i
    BY <2>2
  <2>4. calls'[i - d] = calls[(i - d) + d]
    BY <1>2, <2>2 DEF Moved
  <2>5. Asking' \subseteq Nat
    BY DEF Typed, IsQueue, Asking
  <2>6. \A j \in Asking' : j + d <= i
    BY <1>2, <2>1 DEF Moved
  <2>7. \A j \in Asking' : j <= i - d
    BY <2>2, <2>5, <2>6
  <2> QED
    BY <1>1, <2>1, <2>2, <2>3, <2>4, <2>7
<1> QED
  BY <1>3, <1>4 DEF Lookup

LEMMA LookupFolders ==
  ASSUME Typed, Typed', Lookup, NEW ok \in BOOLEAN, AnswerFolders(ok) PROVE Lookup'
<1>1. /\ calls # <<>> /\ Head(calls).command = "find_duplicate_folders"
      /\ Moved(calls, Asking, calls', Asking', 1)
      /\ \A i \in 1..(Len(calls) - 1) : i \in DOMAIN calls' /\ calls'[i] = calls[i + 1]
  BY FoldersCalls
<1>2. /\ Head(calls) = calls[1] /\ 1 \in DOMAIN calls
      /\ DOMAIN calls = 1..Len(calls) /\ Len(calls) \in Nat \ {0}
  BY <1>1, QueueTail DEF Typed
<1>3. 1 \in Asking
  BY <1>1, <1>2 DEF Asking
<1>4. CASE ~ok
  <2>1. history'.lookup_failed
    BY <1>4 DEF AnswerFolders, Typed
  <2> QED
    BY <2>1 DEF Lookup
<1>5. CASE ok
  <2>1. state' = [state EXCEPT !.folderMatches = Head(calls).scan] /\ UNCHANGED <<scan, history>>
    BY <1>5 DEF AnswerFolders
  <2>2. /\ UNCHANGED <<state.scanning, state.groups, scan, history>>
        /\ state'.folderMatches = calls[1].scan
    BY <1>2, <2>1 DEF Typed, FreshPage
  <2> SUFFICES ASSUME ~state.scanning, state.groups # <<>>, ~history.lookup_failed
               PROVE  \/ Asking' = {} /\ state'.folderMatches = scan'
                      \/ \E i \in Asking' : calls'[i].scan = scan' /\ \A j \in Asking' : j <= i
    BY <2>2 DEF Lookup
  <2>3. PICK i \in Asking : calls[i].scan = scan /\ \A j \in Asking : j <= i
    BY <1>3 DEF Lookup
  <2>4. i \in 1..Len(calls) /\ calls[i].command = "find_duplicate_folders"
    BY <1>2 DEF Asking
  <2>5. Asking' \subseteq Nat /\ 0 \notin Asking'
    BY DEF Typed, IsQueue, Asking
  <2>6. \A j \in Asking' : j + 1 <= i
    BY <1>1, <2>3 DEF Moved
  <2>7. CASE i = 1
    <3>1. Asking' = {}
      BY <2>5, <2>6, <2>7
    <3> QED
      BY <2>2, <2>3, <2>7, <3>1
  <2>8. CASE i # 1
    <3>1. i - 1 \in 1..(Len(calls) - 1) /\ (i - 1) + 1 = i
      BY <1>2, <2>4, <2>8
    <3>2. i - 1 \in DOMAIN calls' /\ calls'[i - 1] = calls[i]
      BY <1>1, <3>1
    <3>3. i - 1 \in Asking'
      BY <2>4, <3>2 DEF Asking
    <3>4. \A j \in Asking' : j <= i - 1
      BY <2>4, <2>5, <2>6
    <3> QED
      BY <2>2, <2>3, <3>2, <3>3, <3>4
  <2> QED
    BY <2>7, <2>8
<1> QED
  BY <1>4, <1>5

LEMMA LookupEvent == ASSUME Typed, Typed', OneScan, Lookup, HandleEvent PROVE Lookup'
<1> DEFINE e == Head(events)
<1>1. 1 \in DOMAIN events /\ e = events[1] /\ EventOK(e)
  BY EventsTail
<1>2. UNCHANGED <<scan, history>>
  BY DEF HandleEvent
<1> HIDE DEF e
<1>3. CASE e.type = "duplicate_group"
  <2>1. 1 \in Dups
    BY <1>1, <1>3 DEF Dups
  <2>2. state.scanning
    BY <2>1 DEF OneScan
  <2>3. \E v : state' = [state EXCEPT !.groups = v]
    BY <1>3, Zenon DEF HandleEvent, e
  <2>4. state'.scanning = state.scanning
    BY <2>3 DEF Typed, FreshPage
  <2> QED
    BY <2>2, <2>4 DEF Lookup
<1>4. CASE e.type = "error"
  <2>1. UNCHANGED <<state, calls>>
    BY <1>4 DEF HandleEvent, e
  <2>2. Asking' = Asking
    BY <2>1 DEF Asking
  <2> QED
    BY <1>2, <2>1, <2>2 DEF Lookup
<1>5. CASE e.type = "finished"
  <2>1. state'.groups = state.groups
    <3>1. state' = [state EXCEPT !.scanning = FALSE]
      BY <1>5 DEF HandleEvent, e, Finished
    <3> QED
      BY <3>1 DEF Typed, FreshPage
  <2>2. CASE state.groups = <<>>
    BY <2>1, <2>2 DEF Lookup
  <2>3. CASE state.groups # <<>>
    <3>1. Invoke(AskFolders(e.scan))
      BY <1>5, <2>3, EventCalls DEF e
    <3>2. e.scan = scan
      BY <1>1, <1>5 DEF OneScan, Ends
    <3> DEFINE c == AskFolders(e.scan)
               n == Len(calls) + 1
    <3>3. c.command = "find_duplicate_folders" /\ c.scan = scan
      BY <3>2 DEF AskFolders
    <3> HIDE DEF c
    <3>4. /\ DOMAIN calls' = 1..n /\ calls'[n] = c /\ Len(calls) \in Nat
      BY <3>1, QueueAppend DEF Invoke, Typed, c
    <3>5. n \in Asking' /\ calls'[n].scan = scan
      BY <3>3, <3>4 DEF Asking
    <3>6. \A j \in Asking' : j <= n
      BY <3>4 DEF Asking
    <3> HIDE DEF n
    <3> QED
      BY <1>2, <3>5, <3>6 DEF Lookup
  <2> QED
    BY <2>2, <2>3
<1> QED
  BY <1>1, <1>3, <1>4, <1>5 DEF EventOK

LEMMA LookupNext == Typed /\ OneScan /\ Lookup /\ [Next]_vars => Lookup'
<1> SUFFICES ASSUME Typed, OneScan, Lookup, [Next]_vars PROVE Lookup'
  OBVIOUS
<1>1. Typed'
  BY TypedNext
<1>2. CASE StartScan
  <2>1. state'.scanning
    BY <1>2 DEF StartScan, Cleared, Typed, FreshPage
  <2> QED
    BY <2>1 DEF Lookup
<1>3. CASE ScanThread
  <2>1. state' = state
    BY <1>3 DEF ScanThread, OpenRoot, EmitGroup, EmitError, EmitFinished
  <2>2. state.scanning
    BY <1>3 DEF OneScan, ScanThread
  <2> QED
    BY <2>1, <2>2 DEF Lookup
<1>4. CASE Restart
  <2>1. state'.groups = <<>>
    BY <1>4 DEF Restart, FreshPage
  <2> QED
    BY <2>1 DEF Lookup
<1>5. ASSUME NEW ok \in BOOLEAN, AnswerStart(ok) PROVE Lookup'
  <2>1. 1 \in Starting
    BY <1>5, QueueTail DEF AnswerStart, Command, Typed, Starting
  <2>2. state.groups = <<>>
    BY <2>1 DEF OneScan
  <2>3. state'.groups = <<>>
    BY <1>5, <2>2 DEF AnswerStart, Typed, FreshPage
  <2> QED
    BY <2>3 DEF Lookup
<1> QED
  BY <1>1, <1>2, <1>3, <1>4, <1>5, StepKinds, LookupAside, LookupFolders, LookupEvent

\* Once a scan has ended and the lookup of its folders has been answered, the
\* matches that are shown are those of this scan, whatever answers of an earlier
\* scan came late (onScanFinished, find_duplicate_folders).
THEOREM MatchesTrue == Spec => []MatchesSettle
<1>1. Init => Lookup
  BY DEF Init, FreshPage, Lookup
<1>2. Lookup => MatchesSettle
  <2>1. \A i \in Asking : calls[i] \in ToSet(calls)
    BY DEF Asking, ToSet
  <2>2. (\A c \in ToSet(calls) : c.command # "find_duplicate_folders") => Asking = {}
    BY <2>1 DEF Asking
  <2> QED
    BY <2>2 DEF Lookup, MatchesSettle
<1> QED
  BY <1>1, <1>2, OneScanAlways, LookupNext, PTL DEF Spec
-----------------------------------------------------------------------------
(* The choices of the review.                                              *)

ShownStays == \A k \in DOMAIN Shown : k \in DOMAIN Shown' /\ Shown'[k] = Shown[k]

LEMMA SameShown ==
  ASSUME UNCHANGED <<state.groups, state.typeFilter>> PROVE ShownStays
<1>1. Visible' = Visible
  BY DEF Visible
<1>2. Shown' = Shown
  BY <1>1 DEF Shown
<1> QED
  BY <1>2 DEF ShownStays

\* Another group comes last, if it is displayed at all.
LEMMA ShownGrows ==
  ASSUME Typed, NEW g, state'.groups = Append(state.groups, g),
         state'.typeFilter = state.typeFilter
  PROVE  ShownStays
<1> DEFINE n == Len(state.groups) + 1
<1>1. /\ DOMAIN state.groups = 1..Len(state.groups) /\ Len(state.groups) \in Nat
      /\ DOMAIN state'.groups = 1..n
      /\ \A i \in 1..Len(state.groups) : state'.groups[i] = state.groups[i]
  BY GroupsFacts
<1>2. Visible \in SUBSET Nat /\ IsFiniteSet(Visible)
  BY VisibleFinite
<1>3. \A x \in Visible : x < n /\ x \in DOMAIN state.groups
  BY <1>1 DEF Visible
<1>4. Visible' = Visible \/ Visible' = Visible \cup {n}
  <2>1. \A i \in DOMAIN state'.groups : i \in DOMAIN state.groups \/ i = n
    BY <1>1
  <2>2. DOMAIN state.groups \subseteq DOMAIN state'.groups /\ n \in DOMAIN state'.groups
    BY <1>1
  <2> HIDE DEF n
  <2> QED
    BY <1>1, <2>1, <2>2 DEF Visible
<1>5. n \in Nat
  BY <1>1
<1> HIDE DEF n
<1>6. /\ Cardinality(Visible \cup {n}) = Cardinality(Visible) + 1
      /\ \A i \in 1..Cardinality(Visible) : InOrder(Visible \cup {n})[i] = InOrder(Visible)[i]
  BY <1>2, <1>3, <1>5, InOrderAppend
<1>7. Cardinality(Visible) \in Nat /\ InOrder(Visible) \in [1..Cardinality(Visible) -> Visible]
  BY <1>2, InOrderFacts
<1>8. /\ 1..Cardinality(Visible) \subseteq 1..Cardinality(Visible')
      /\ \A i \in 1..Cardinality(Visible) : InOrder(Visible')[i] = InOrder(Visible)[i]
  <2>1. CASE Visible' = Visible
    BY <2>1
  <2>2. CASE Visible' = Visible \cup {n}
    <3>1. 1..Cardinality(Visible) \subseteq 1..(Cardinality(Visible) + 1)
      BY <1>7
    <3> QED
      BY <1>6, <2>2, <3>1
  <2> QED
    BY <1>4, <2>1, <2>2
<1>9. ASSUME NEW k \in DOMAIN Shown PROVE k \in DOMAIN Shown' /\ Shown'[k] = Shown[k]
  <2>1. k \in 1..Cardinality(Visible) /\ k \in 1..Cardinality(Visible')
    BY <1>8 DEF Shown
  <2>2. InOrder(Visible)[k] \in DOMAIN state.groups
    BY <1>3, <1>7, <2>1
  <2>3. Shown[k] = state.groups[InOrder(Visible)[k]]
    BY <2>1 DEF Shown
  <2>4. Shown'[k] = state'.groups[InOrder(Visible')[k]] /\ DOMAIN Shown' = 1..Cardinality(Visible')
    BY <2>1 DEF Shown
  <2> QED
    BY <1>1, <1>8, <2>1, <2>2, <2>3, <2>4
<1> QED
  BY <1>9 DEF ShownStays

Clicks == {"choose_keep", "run_action"}
NoNewClicks == \A c \in ToSet(calls') : c.command \in Clicks => c \in ToSet(calls)

LEMMA OldClicks ==
  ASSUME Typed, \/ UNCHANGED calls
                \/ \E c : Invoke(c) /\ c.command \notin Clicks
                \/ calls # <<>> /\ Answered
  PROVE  NoNewClicks
<1>1. IsQueue(calls)
  BY DEF Typed
<1>2. CASE \E c : Invoke(c) /\ c.command \notin Clicks
  <2>1. PICK c : calls' = Append(calls, c) /\ c.command \notin Clicks
    BY <1>2 DEF Invoke
  <2>2. ToSet(calls') = ToSet(calls) \cup {c}
    BY <1>1, <2>1, QueueAppend
  <2> QED
    BY <2>1, <2>2 DEF NoNewClicks
<1>3. CASE calls # <<>> /\ Answered
  BY <1>1, <1>3, QueueTail DEF Answered, NoNewClicks
<1>4. CASE UNCHANGED calls
  BY <1>4 DEF NoNewClicks
<1> QED
  BY <1>2, <1>3, <1>4

LEMMA FoldersClicks == ASSUME Typed, NEW ok, AnswerFolders(ok) PROVE NoNewClicks
<1> DEFINE t == Tail(calls)
           last == AskSimilar(Head(calls).scan)
<1>1. calls # <<>> /\ IsQueue(calls)
  BY DEF AnswerFolders, Command, Typed
<1>2. IsQueue(t) /\ ToSet(t) \subseteq ToSet(calls)
  BY <1>1, QueueTail
<1>3. calls' = t \/ calls' = t \o <<last>>
  <2>1. t \o <<>> = t
    BY <1>2 DEF IsQueue
  <2> QED
    BY <2>1 DEF AnswerFolders
<1>4. last.command = "find_similar_images"
  BY DEF AskSimilar
<1> HIDE DEF t, last
<1>5. ToSet(t \o <<last>>) = ToSet(t) \cup {last}
  BY <1>2, QueueAppend
<1> QED
  BY <1>2, <1>3, <1>4, <1>5 DEF NoNewClicks, Clicks

\* What is displayed stays, and no choice is added.
LEMMA ChoicesKept ==
  ASSUME Typed, ChoicesOK, ChoicesStay, history'.moved = history.moved, ShownStays,
         state'.keepChoice = state.keepChoice,
         \A k \in Keys : state'.ruleKeepChoice[k] \in File
                         => state'.ruleKeepChoice[k] = state.ruleKeepChoice[k],
         NoNewClicks
  PROVE  ChoicesOK' /\ ChoicesStay'
<1>1. ChoicesStay'
  BY DEF ChoicesStay, NoNewClicks, Clicks
<1>2. \A k, f : At(k, f) => k \in DOMAIN Shown' /\ f \in ToSet(Shown'[k].paths)
  BY DEF At, ShownStays
<1>3. ASSUME ~history.moved, NEW k \in Keys
      PROVE  /\ state'.keepChoice[k] # None => At(k, state.keepChoice[k])
             /\ state'.ruleKeepChoice[k] \in File => At(k, state.ruleKeepChoice[k])
  BY <1>3 DEF ChoicesOK
<1>4. ASSUME ~history.moved, NEW c \in ToSet(calls'), c.command = "choose_keep"
      PROVE  c.key \in DOMAIN Shown' /\ c.paths = Shown'[c.key].paths
  <2>1. c \in ToSet(calls)
    BY <1>4 DEF NoNewClicks, Clicks
  <2>2. c.key \in DOMAIN Shown /\ c.paths = Shown[c.key].paths
    BY <1>4, <2>1 DEF ChoicesOK
  <2> QED
    BY <2>2 DEF ShownStays
<1>5. ChoicesOK'
  BY <1>2, <1>3, <1>4 DEF ChoicesOK, At
<1> QED
  BY <1>1, <1>5

ReviewView == <<state.groups, state.typeFilter, state.keepChoice, state.ruleKeepChoice,
                history.moved>>

LEMMA ReviewSame ==
  ASSUME Typed, ChoicesOK, ChoicesStay, UNCHANGED ReviewView, NoNewClicks
  PROVE  ChoicesOK' /\ ChoicesStay'
<1>1. ShownStays
  BY SameShown DEF ReviewView
<1> QED
  BY <1>1, ChoicesKept DEF ReviewView

\* A page on which nothing has been chosen.
LEMMA NothingChosen ==
  ASSUME state.keepChoice = NoChoice, state.ruleKeepChoice = NoChoice, ~Choosing
  PROVE  ChoicesOK
<1>1. \A k \in Keys : state.keepChoice[k] = None /\ state.ruleKeepChoice[k] = None /\ None \notin File
  BY DEF NoChoice
<1> QED
  BY <1>1 DEF ChoicesOK, Choosing

LEMMA ChoicesInit == Init => ChoicesOK /\ ChoicesStay
<1> SUFFICES ASSUME Init PROVE ChoicesOK /\ ChoicesStay
  OBVIOUS
<1>1. \A c \in ToSet(calls) : c = [command |-> "list_scan_profiles"]
  BY QueueOne DEF Init, Startup
<1>2. \A c \in ToSet(calls) : c.command = "list_scan_profiles"
  BY <1>1
<1>3. state.keepChoice = NoChoice /\ state.ruleKeepChoice = NoChoice
  BY DEF Init, FreshPage
<1> QED
  BY <1>2, <1>3, NothingChosen DEF ChoicesStay, Choosing

LEMMA ChoicesDisplay ==
  ASSUME Typed, ChoicesOK, ChoicesStay, NEW k \in Keys, Display(k)
  PROVE  ChoicesOK' /\ ChoicesStay'
<1> DEFINE c == [command |-> "choose_keep", key |-> k, paths |-> Shown[k].paths,
                 rule |-> state.keepRule, refs |-> state.referencePaths]
<1>1. /\ k \in DOMAIN Shown /\ state' = [state EXCEPT !.ruleKeepChoice[k] = Loading]
      /\ calls' = Append(calls, c) /\ history' = history
  BY DEF Display, Invoke
<1>2. /\ UNCHANGED <<state.groups, state.typeFilter, state.keepChoice>>
      /\ state'.ruleKeepChoice = [state.ruleKeepChoice EXCEPT ![k] = Loading]
  BY <1>1 DEF Typed, FreshPage
<1>3. ShownStays
  BY <1>2, SameShown
<1>4. c.command = "choose_keep" /\ c.key = k /\ c.paths = Shown[k].paths
  OBVIOUS
<1> HIDE DEF c
<1>5. ToSet(calls') = ToSet(calls) \cup {c}
  BY <1>1, QueueAppend DEF Typed
<1>6. ChoicesStay'
  BY <1>4, <1>5 DEF ChoicesStay
<1>7. \A i \in Keys : state'.ruleKeepChoice[i] \in File
                      => state'.ruleKeepChoice[i] = state.ruleKeepChoice[i]
  BY <1>2 DEF Typed
<1>8. \A i, f : At(i, f) => i \in DOMAIN Shown' /\ f \in ToSet(Shown'[i].paths)
  BY <1>3 DEF At, ShownStays
<1>9. \A d \in ToSet(calls') : d.command = "choose_keep" => d \in ToSet(calls) \/ d = c
  BY <1>5
<1>10. k \in DOMAIN Shown' /\ Shown'[k] = Shown[k]
  BY <1>1, <1>3 DEF ShownStays
<1>11. ASSUME ~history.moved, NEW d \in ToSet(calls'), d.command = "choose_keep"
       PROVE  d.key \in DOMAIN Shown' /\ d.paths = Shown'[d.key].paths
  <2>1. CASE d = c
    BY <1>4, <1>10, <2>1
  <2>2. CASE d \in ToSet(calls)
    BY <1>3, <1>11, <2>2 DEF ChoicesOK, ShownStays
  <2> QED
    BY <1>9, <1>11, <2>1, <2>2
<1>12. ASSUME ~history.moved, NEW i \in Keys
       PROVE  /\ state'.keepChoice[i] # None => At(i, state.keepChoice[i])
              /\ state'.ruleKeepChoice[i] \in File => At(i, state.ruleKeepChoice[i])
  BY <1>2, <1>7, <1>12 DEF ChoicesOK
<1>13. ChoicesOK'
  BY <1>1, <1>2, <1>7, <1>8, <1>11, <1>12 DEF ChoicesOK, At
<1> QED
  BY <1>6, <1>13

LEMMA ChoicesClick ==
  ASSUME Typed, ChoicesOK, ChoicesStay, NEW k \in Keys, ChooseKeep(k)
  PROVE  ChoicesOK' /\ ChoicesStay'
<1>1. k \in DOMAIN Shown /\ UNCHANGED <<calls, history>>
  BY DEF ChooseKeep
<1>2. PICK f \in ToSet(Shown[k].paths) : state' = [state EXCEPT !.keepChoice[k] = f]
  BY DEF ChooseKeep
<1>3. /\ UNCHANGED <<state.groups, state.typeFilter, state.ruleKeepChoice>>
      /\ state'.keepChoice = [state.keepChoice EXCEPT ![k] = f]
  BY <1>2 DEF Typed, FreshPage
<1>4. ShownStays
  BY <1>3, SameShown
<1>5. ChoicesStay'
  BY <1>1 DEF ChoicesStay
<1>6. \A i, x : At(i, x) => i \in DOMAIN Shown' /\ x \in ToSet(Shown'[i].paths)
  BY <1>4 DEF At, ShownStays
<1>7. At(k, f)
  BY <1>1, <1>2 DEF At
<1>8. ASSUME ~history.moved, NEW i \in Keys, state'.keepChoice[i] # None
      PROVE  At(i, state'.keepChoice[i])
  <2>1. CASE i = k
    BY <1>3, <1>7, <2>1 DEF Typed
  <2>2. CASE i # k
    BY <1>3, <1>8, <2>2 DEF ChoicesOK, Typed
  <2> QED
    BY <2>1, <2>2
<1>9. \A d \in ToSet(calls') : ~history.moved /\ d.command = "choose_keep" =>
        d.key \in DOMAIN Shown' /\ d.paths = Shown'[d.key].paths
  BY <1>1, <1>4 DEF ChoicesOK, ShownStays
<1>10. ChoicesOK'
  BY <1>1, <1>3, <1>6, <1>8, <1>9 DEF ChoicesOK, At
<1> QED
  BY <1>5, <1>10

\* What is kept is one of the group at the key.
LEMMA KeepInGroup ==
  ASSUME Typed, ChoicesOK, NEW k \in Keys, k \in DOMAIN Shown, ~history.moved
  PROVE  KeepPath(k) \in ToSet(Shown[k].paths)
<1>1. Shown[k].paths[1] \in ToSet(Shown[k].paths)
  BY ShownPaths DEF PathList, ToSet
<1> QED
  BY <1>1 DEF KeepPath, ChoicesOK, At

LEMMA ChoicesApply ==
  ASSUME Typed, ChoicesOK, ChoicesStay, NEW k \in Keys, ApplyAction(k)
  PROVE  ChoicesOK' /\ ChoicesStay'
<1> DEFINE keep == KeepPath(k)
           rest == InOrder(ToSet(Shown[k].paths) \ {keep})
<1>1. k \in DOMAIN Shown /\ UNCHANGED <<state, history>>
  BY DEF ApplyAction
<1>2. PICK kind \in Kinds :
         Invoke([command |-> "run_action", kind |-> kind, refs |-> state.referencePaths,
                 paths |-> <<keep>> \o rest, group |-> ToSet(Shown[k].paths),
                 moved |-> history.moved])
  BY DEF ApplyAction
<1>3. rest \in Seq(File)
  <2>1. Shown[k].paths \in Seq(File)
    BY <1>1, ShownPaths DEF PathList
  <2>2. ToSet(Shown[k].paths) \ {keep} \in SUBSET File
    BY <2>1 DEF ToSet
  <2> QED
    BY <2>2, ListOfFiles
<1> HIDE DEF keep, rest
<1>4. (<<keep>> \o rest)[1] = keep
  <2>1. <<keep>> \in Seq(File \cup {keep}) /\ rest \in Seq(File \cup {keep})
    BY <1>3
  <2> QED
    BY <2>1
<1> DEFINE c == [command |-> "run_action", kind |-> kind, refs |-> state.referencePaths,
                 paths |-> <<keep>> \o rest, group |-> ToSet(Shown[k].paths),
                 moved |-> history.moved]
<1>5. /\ c.command = "run_action" /\ c.paths[1] = keep /\ c.group = ToSet(Shown[k].paths)
      /\ c.moved = history.moved
  BY <1>4
<1>6. calls' = Append(calls, c)
  BY <1>2 DEF Invoke
<1> HIDE DEF c
<1>7. ToSet(calls') = ToSet(calls) \cup {c}
  BY <1>6, QueueAppend DEF Typed
<1>8. c.moved \/ c.paths[1] \in c.group
  BY <1>1, <1>5, KeepInGroup DEF keep
<1>9. ChoicesStay'
  BY <1>7, <1>8 DEF ChoicesStay
<1>10. ShownStays
  BY <1>1, SameShown
<1>11. \A i, x : At(i, x) => i \in DOMAIN Shown' /\ x \in ToSet(Shown'[i].paths)
  BY <1>10 DEF At, ShownStays
<1>12. \A d \in ToSet(calls') : ~history.moved /\ d.command = "choose_keep" =>
        d.key \in DOMAIN Shown' /\ d.paths = Shown'[d.key].paths
  BY <1>5, <1>7, <1>10 DEF ChoicesOK, ShownStays
<1>13. ChoicesOK'
  BY <1>1, <1>11, <1>12 DEF ChoicesOK, At
<1> QED
  BY <1>9, <1>13

LEMMA ChoicesAnswer ==
  ASSUME Typed, ChoicesOK, ChoicesStay, AnswerChooseKeep
  PROVE  ChoicesOK' /\ ChoicesStay'
<1> DEFINE c == Head(calls)
           f == Chosen(c.paths, c.rule, c.refs)
<1>1. /\ calls # <<>> /\ c.command = "choose_keep" /\ Answered /\ UNCHANGED history
      /\ state' = [state EXCEPT !.ruleKeepChoice[c.key] = f]
  BY DEF AnswerChooseKeep, Command
<1>2. c \in ToSet(calls)
  BY <1>1, QueueTail DEF Typed
<1>3. c.key \in Keys /\ c.paths \in PathList
  BY <1>1, <1>2 DEF Typed, CallOK
<1>4. f \in ToSet(c.paths)
  BY <1>3, ChosenFound
<1> HIDE DEF c, f
<1>5. /\ UNCHANGED <<state.groups, state.typeFilter, state.keepChoice>>
      /\ state'.ruleKeepChoice = [state.ruleKeepChoice EXCEPT ![c.key] = f]
  BY <1>1 DEF Typed, FreshPage
<1>6. ShownStays
  BY <1>5, SameShown
<1>7. NoNewClicks
  BY <1>1, OldClicks
<1>8. ChoicesStay'
  BY <1>7 DEF ChoicesStay, NoNewClicks, Clicks
<1>9. \A i, x : At(i, x) => i \in DOMAIN Shown' /\ x \in ToSet(Shown'[i].paths)
  BY <1>6 DEF At, ShownStays
<1>10. ~history.moved => At(c.key, f)
  BY <1>1, <1>2, <1>4 DEF ChoicesOK, At
<1>11. ASSUME ~history.moved, NEW i \in Keys, state'.ruleKeepChoice[i] \in File
      PROVE  At(i, state'.ruleKeepChoice[i])
  <2>1. CASE i = c.key
    BY <1>3, <1>5, <1>10, <1>11, <2>1 DEF Typed
  <2>2. CASE i # c.key
    BY <1>5, <1>11, <2>2 DEF ChoicesOK, Typed
  <2> QED
    BY <2>1, <2>2
<1>12. ASSUME ~history.moved, NEW d \in ToSet(calls'), d.command = "choose_keep"
       PROVE  d.key \in DOMAIN Shown' /\ d.paths = Shown'[d.key].paths
  <2>1. d \in ToSet(calls)
    BY <1>7, <1>12 DEF NoNewClicks, Clicks
  <2> QED
    BY <1>6, <1>12, <2>1 DEF ChoicesOK, ShownStays
<1>13. ChoicesOK'
  BY <1>1, <1>5, <1>9, <1>11, <1>12 DEF ChoicesOK, At
<1> QED
  BY <1>8, <1>13

LEMMA ChoicesUser == ASSUME Typed, ChoicesOK, ChoicesStay, User PROVE ChoicesOK' /\ ChoicesStay'
<1>1. CASE StartScan
  <2> DEFINE c == [command |-> "start_scan", scan |-> scan + 1]
  <2>1. calls' = Append(calls, c) /\ history'.moved = Choosing
    BY <1>1 DEF StartScan, Invoke, Typed
  <2>2. state'.keepChoice = NoChoice /\ state'.ruleKeepChoice = NoChoice
    BY <1>1 DEF StartScan, Cleared, Typed, FreshPage
  <2>3. c.command = "start_scan"
    OBVIOUS
  <2> HIDE DEF c
  <2>4. ToSet(calls') = ToSet(calls) \cup {c}
    BY <2>1, QueueAppend DEF Typed
  <2>5. ChoicesStay'
    BY <2>3, <2>4 DEF ChoicesStay
  <2>6. ~history'.moved => ~Choosing'
    BY <2>1, <2>3, <2>4 DEF Choosing
  <2>7. ~Choosing' => ChoicesOK'
    <3>1. \A i \in Keys : state'.keepChoice[i] = None /\ state'.ruleKeepChoice[i] = None
                          /\ None \notin File
      BY <2>2 DEF NoChoice
    <3> QED
      BY <3>1 DEF ChoicesOK, Choosing
  <2>8. ChoicesOK'
    BY <2>6, <2>7 DEF ChoicesOK
  <2> QED
    BY <2>5, <2>8
<1>2. CASE ToggleKeepNewest
  <2>1. /\ UNCHANGED <<state.groups, state.typeFilter, state.keepChoice, calls, history>>
        /\ state'.ruleKeepChoice = NoChoice
    BY <1>2 DEF ToggleKeepNewest, Typed, FreshPage
  <2>2. \A i \in Keys : state'.ruleKeepChoice[i] \notin File
    BY <2>1 DEF NoChoice
  <2>3. ShownStays
    BY <2>1, SameShown
  <2>4. NoNewClicks
    BY <2>1, OldClicks
  <2> QED
    BY <2>1, <2>2, <2>3, <2>4, ChoicesKept
<1>3. ASSUME NEW category, ToggleType(category) PROVE ChoicesOK' /\ ChoicesStay'
  <2>1. /\ UNCHANGED <<state.keepChoice, state.ruleKeepChoice, calls>>
    BY <1>3 DEF ToggleType, Typed, FreshPage
  <2>2. history'.moved = \/ history.moved \/ Choosing
                         \/ NoChoice # state.keepChoice
                         \/ NoChoice # state.ruleKeepChoice
    BY <1>3 DEF ToggleType, Typed
  <2>3. ChoicesStay'
    BY <2>1 DEF ChoicesStay
  <2>4. ChoicesOK'
    <3> SUFFICES ASSUME ~history'.moved PROVE ChoicesOK'
      BY DEF ChoicesOK
    <3>1. state'.keepChoice = NoChoice /\ state'.ruleKeepChoice = NoChoice /\ ~Choosing'
      BY <2>1, <2>2 DEF Choosing
    <3>2. \A i \in Keys : state'.keepChoice[i] = None /\ state'.ruleKeepChoice[i] = None
                          /\ None \notin File
      BY <3>1 DEF NoChoice
    <3> QED
      BY <3>1, <3>2 DEF ChoicesOK, Choosing
  <2> QED
    BY <2>3, <2>4
<1>4. ASSUME NEW refs, TypeProtected(refs) PROVE ChoicesOK' /\ ChoicesStay'
  <2>1. UNCHANGED ReviewView /\ UNCHANGED calls
    BY <1>4 DEF TypeProtected, ReviewView, Typed, FreshPage
  <2> QED
    BY <2>1, OldClicks, ReviewSame
<1>5. ASSUME NEW name, NEW preset, ChangeProfile(name, preset) PROVE ChoicesOK' /\ ChoicesStay'
  <2> DEFINE c == [command |-> "change_profile", name |-> name, preset |-> preset]
  <2>1. Invoke(c) /\ c.command = "change_profile"
    BY <1>5 DEF ChangeProfile
  <2>2. UNCHANGED ReviewView
    BY <1>5 DEF ChangeProfile, ReviewView
  <2> HIDE DEF c
  <2>3. NoNewClicks
    BY <2>1, OldClicks DEF Clicks
  <2> QED
    BY <2>2, <2>3, ReviewSame
<1> QED
  BY <1>1, <1>2, <1>3, <1>4, <1>5, ChoicesDisplay, ChoicesClick, ChoicesApply DEF User

LEMMA ChoicesEvent ==
  ASSUME Typed, ChoicesOK, ChoicesStay, HandleEvent PROVE ChoicesOK' /\ ChoicesStay'
<1> DEFINE e == Head(events)
<1>1. NoNewClicks
  BY EventCalls, OldClicks DEF AskFolders, AskSimilar, Clicks
<1>2. UNCHANGED history /\ EventOK(e)
  BY EventsTail DEF HandleEvent
<1>3. CASE e.type = "duplicate_group"
  <2> DEFINE g == [scan |-> e.scan, paths |-> e.paths]
  <2>1. state' = [state EXCEPT !.groups = Append(@, g)]
    BY <1>3 DEF HandleEvent
  <2> HIDE DEF g
  <2>2. /\ state'.groups = Append(state.groups, g)
        /\ UNCHANGED <<state.typeFilter, state.keepChoice, state.ruleKeepChoice>>
    BY <2>1 DEF Typed, FreshPage
  <2>3. ShownStays
    BY <2>2, ShownGrows
  <2> QED
    BY <1>1, <1>2, <2>2, <2>3, ChoicesKept
<1>4. CASE e.type # "duplicate_group"
  <2>1. state' = state \/ state' = [state EXCEPT !.scanning = FALSE]
    BY <1>2, <1>4 DEF HandleEvent, EventOK, Finished
  <2>2. UNCHANGED ReviewView
    BY <1>2, <2>1 DEF ReviewView, Typed, FreshPage
  <2> QED
    BY <1>1, <2>2, ReviewSame
<1> QED
  BY <1>3, <1>4

LEMMA ChoicesApplication ==
  ASSUME Typed, ChoicesOK, ChoicesStay, Application PROVE ChoicesOK' /\ ChoicesStay'
<1>1. DOMAIN state = DOMAIN FreshPage /\ DOMAIN history = {"moved", "lookup_failed", "disturbed", "images", "wanted"}
  BY DEF Typed
<1> USE DEF ReviewView, Command
<1>2. ASSUME NEW ok \in BOOLEAN, AnswerStart(ok) PROVE ChoicesOK' /\ ChoicesStay'
  <2>1. UNCHANGED ReviewView
    BY <1>1, <1>2 DEF AnswerStart, FreshPage
  <2>2. NoNewClicks
    BY <1>2, OldClicks DEF AnswerStart
  <2> QED
    BY <2>1, <2>2, ReviewSame
<1>3. ASSUME NEW ok \in BOOLEAN, AnswerFolders(ok) PROVE ChoicesOK' /\ ChoicesStay'
  <2>1. UNCHANGED ReviewView
    BY <1>1, <1>3 DEF AnswerFolders, FreshPage
  <2> QED
    BY <1>3, <2>1, FoldersClicks, ReviewSame
<1>4. CASE AnswerRunAction \/ SimilarFails
  <2>1. UNCHANGED ReviewView /\ calls # <<>> /\ Answered
    BY <1>4 DEF AnswerRunAction, SimilarFails
  <2> QED
    BY <2>1, OldClicks, ReviewSame
<1>5. CASE AnswerSimilar
  <2>1. (\E v : state' = [state EXCEPT !.similarGroups = v])
        /\ (\E v : history' = [history EXCEPT !.images = v])
    BY <1>5, Zenon DEF AnswerSimilar
  <2>2. calls # <<>> /\ Answered
    BY <1>5 DEF AnswerSimilar
  <2>3. UNCHANGED ReviewView
    BY <1>1, <2>1 DEF FreshPage
  <2> QED
    BY <2>2, <2>3, OldClicks, ReviewSame
<1>6. CASE AnswerList
  <2>1. UNCHANGED ReviewView /\ calls # <<>> /\ Answered
    BY <1>1, <1>6 DEF AnswerList, FreshPage
  <2> QED
    BY <2>1, OldClicks, ReviewSame
<1>7. CASE AnswerProfile
  <2>1. history'.moved = history.moved
    BY <1>1, <1>7 DEF AnswerProfile, Load, Truncate, Write, Typed
  <2>2. calls # <<>> /\ (UNCHANGED calls \/ Answered)
    BY <1>7 DEF AnswerProfile
  <2>3. UNCHANGED state \/ state' = [state EXCEPT !.scanProfiles = io.app.list]
    BY <1>7 DEF AnswerProfile
  <2>4. UNCHANGED ReviewView
    BY <1>1, <2>1, <2>3 DEF FreshPage
  <2> QED
    BY <2>2, <2>4, OldClicks, ReviewSame
<1> QED
  BY <1>2, <1>3, <1>4, <1>5, <1>6, <1>7, ChoicesAnswer DEF Application

LEMMA ChoicesNext ==
  Typed /\ ChoicesOK /\ ChoicesStay /\ [Next]_vars => ChoicesOK' /\ ChoicesStay'
<1> SUFFICES ASSUME Typed, ChoicesOK, ChoicesStay, [Next]_vars PROVE ChoicesOK' /\ ChoicesStay'
  OBVIOUS
<1>1. CASE UNCHANGED vars
  BY <1>1, OldClicks, ReviewSame DEF vars, ReviewView
<1>2. CASE ScanThread
  <2>1. UNCHANGED <<state, calls, history>>
    BY <1>2 DEF ScanThread, OpenRoot, EmitGroup, EmitError, EmitFinished
  <2> QED
    BY <2>1, OldClicks, ReviewSame DEF ReviewView
<1>3. CASE OtherInstance
  <2>1. history'.moved = history.moved
    BY <1>3 DEF OtherInstance, Load, Truncate, Write, Typed
  <2>2. UNCHANGED <<state, calls>>
    BY <1>3 DEF OtherInstance
  <2> QED
    BY <2>1, <2>2, OldClicks, ReviewSame DEF ReviewView
<1>4. CASE Restart
  <2>1. calls' = Startup /\ state' = FreshPage
    BY <1>4 DEF Restart
  <2>2. \A c \in ToSet(calls') : c.command = "list_scan_profiles"
    BY <2>1, QueueOne DEF Startup
  <2>3. \A i \in Keys : state'.keepChoice[i] = None /\ state'.ruleKeepChoice[i] = None
                        /\ None \notin File
    BY <2>1 DEF FreshPage, NoChoice
  <2> QED
    BY <2>2, <2>3 DEF ChoicesOK, ChoicesStay
<1> QED
  BY <1>1, <1>2, <1>3, <1>4, ChoicesUser, ChoicesEvent, ChoicesApplication DEF Next

\* The path that run_action keeps is one of the group it acts on, unless the type
\* filter or a late answer has moved a choice to another group (applyAction,
\* choose_keep): for any number of groups, clicks and scans.
THEOREM ChoicesTrue == Spec => []ChoicesStay
BY ChoicesInit, ChoicesNext, AlwaysTyped, PTL DEF Spec

\* What the page shows and sends belongs to one scan, in whatever order events
\* and answers of two scans arrive (app.js, commands.rs).
THEOREM PageSafe == Spec => []PageTrue
<1>1. Typed /\ OneScan /\ Counted => TypeOK
  <2> SUFFICES ASSUME Typed, OneScan, Counted PROVE TypeOK
    OBVIOUS
  <2>1. IsFiniteSet(threads) /\ Cardinality(threads) <= 1
    <3>1. CASE threads = {}
      BY <3>1, FS_EmptySet
    <3>2. CASE threads # {}
      <4>1. PICK t \in threads : TRUE
        BY <3>2
      <4>2. threads = {t}
        BY <4>1, RunningScan
      <4>3. IsFiniteSet(threads) /\ Cardinality(threads) = 1
        BY ONLY <4>2, FS_Singleton
      <4> QED
        BY <4>3
    <3> QED
      BY <3>1, <3>2
  <2>2. Len(state.groups) <= Cardinality(Content)
    <3>1. Len(state.groups) + Cardinality(Dups) <= Cardinality(Content)
      BY DEF Counted
    <3> QED
      BY <3>1, GroupsFacts, DupsFinite, ContentFinite
  <2> QED
    BY <2>1, <2>2 DEF Typed, TypeOK, Threads, Presets
<1> QED
  BY <1>1, SentInit, OneScanAlways, SentNext, ListsSafe, MatchesTrue, ChoicesTrue, PTL DEF Spec, PageTrue
-----------------------------------------------------------------------------
(* Similar images: what union-find computes.                               *)

\* Up to hi from lo, by the least counterexample.
LEMMA UpTo ==
  ASSUME NEW lo \in Nat, NEW hi \in Nat, NEW S, lo \in S,
         \A k \in Nat : lo <= k /\ k < hi /\ k \in S => k + 1 \in S
  PROVE  \A k \in lo..hi : k \in S
<1> DEFINE T == {k \in lo..hi : k \notin S}
<1> SUFFICES ASSUME T # {} PROVE FALSE
  OBVIOUS
<1>1. PICK k \in T : \A x \in T : k <= x
  <2>1. T \in SUBSET Nat
    OBVIOUS
  <2> HIDE DEF T
  <2> QED
    BY <2>1, LeastNumber
<1>2. k \in Nat /\ lo < k /\ k <= hi /\ k \notin S
  BY <1>1
<1>3. k - 1 \in lo..hi /\ k - 1 \notin T /\ k - 1 \in Nat
  BY <1>1, <1>2
<1>4. k - 1 \in S
  BY <1>3
<1>5. (k - 1) + 1 \in S
  BY <1>2, <1>3, <1>4
<1> QED
  BY <1>2, <1>5

\* parent is a forest: root tells where the way up from an image ends, and depth
\* that it ends.
Forest(parent, root, depth, D) ==
    /\ parent \in [D -> D] /\ root \in [D -> D] /\ depth \in [D -> Nat]
    /\ \A k \in D : /\ parent[root[k]] = root[k]
                    /\ parent[k] = k => root[k] = k
                    /\ parent[k] # k => root[k] = root[parent[k]] /\ depth[parent[k]] < depth[k]

Way(parent, find) == find = [x \in DOMAIN parent |-> IF parent[x] = x THEN x ELSE find[parent[x]]]

LEMMA FindRoot ==
  ASSUME NEW D, NEW parent, NEW root, NEW depth, Forest(parent, root, depth, D)
  PROVE  \A i \in D : Find(parent, i) = root[i]
<1>1. Way(parent, root)
  BY DEF Way, Forest
<1>2. ASSUME NEW find, Way(parent, find) PROVE \A i \in D : find[i] = root[i]
  <2> DEFINE Wrong == {k \in D : find[k] # root[k]}
             Depths == {depth[k] : k \in Wrong}
  <2> SUFFICES ASSUME Wrong # {} PROVE FALSE
    OBVIOUS
  <2>1. Depths \in SUBSET Nat /\ Depths # {}
    BY DEF Forest
  <2>2. PICK d \in Depths : \A x \in Depths : d <= x
    <3> HIDE DEF Depths
    <3> QED
      BY <2>1, LeastNumber
  <2>3. PICK k \in Wrong : depth[k] = d
    BY <2>2
  <2>4. find[k] = IF parent[k] = k THEN k ELSE find[parent[k]]
    BY <1>2, <2>3 DEF Way, Forest
  <2>5. parent[k] # k /\ find[parent[k]] # root[parent[k]] /\ parent[k] \in D
        /\ depth[parent[k]] < depth[k]
    BY <2>3, <2>4 DEF Forest
  <2>6. depth[parent[k]] \in Depths /\ depth[parent[k]] \in Nat /\ depth[k] \in Nat
    BY <2>3, <2>5 DEF Forest
  <2> QED
    BY <2>2, <2>3, <2>5, <2>6
<1> DEFINE find == CHOOSE f : f = [x \in DOMAIN parent |-> IF parent[x] = x THEN x ELSE f[parent[x]]]
<1>3. Way(parent, find)
  BY <1>1 DEF Way
<1>4. \A i : Find(parent, i) = find[i]
  BY DEF Find
<1> HIDE DEF find
<1> QED
  BY <1>2, <1>3, <1>4

\* Joining two images makes one cluster of theirs.
LEMMA JoinForest ==
  ASSUME NEW D, NEW parent, NEW root, NEW depth, Forest(parent, root, depth, D),
         NEW i \in D, NEW j \in D
  PROVE  \E root2, depth2 :
            /\ Forest(Join(parent, i, j), root2, depth2, D)
            /\ \A k \in D : root2[k] = IF root[k] = root[i] THEN root[j] ELSE root[k]
<1> DEFINE ri == root[i]
           rj == root[j]
           root2 == [k \in D |-> IF root[k] = ri THEN rj ELSE root[k]]
           depth2 == [k \in D |-> IF root[k] = ri THEN depth[k] + depth[rj] + 1 ELSE depth[k]]
           parent2 == [parent EXCEPT ![ri] = rj]
<1>1. Join(parent, i, j) = parent2
  <2>1. \A k \in D : Find(parent, k) = root[k]
    BY FindRoot
  <2> QED
    BY <2>1 DEF Join
<1>2. /\ ri \in D /\ rj \in D /\ parent[ri] = ri /\ parent[rj] = rj /\ root[ri] = ri /\ root[rj] = rj
      /\ parent \in [D -> D] /\ root \in [D -> D] /\ depth \in [D -> Nat]
  BY DEF Forest
<1>3. CASE ri = rj
  <2>1. parent2 = parent /\ root2 = root
    BY <1>2, <1>3
  <2>2. Forest(Join(parent, i, j), root, depth, D)
    BY <1>1, <2>1
  <2>3. \A k \in D : root[k] = IF root[k] = root[i] THEN root[j] ELSE root[k]
    BY <1>3
  <2> HIDE DEF parent2, root2
  <2> QED
    BY <2>2, <2>3
<1>4. CASE ri # rj
  <2>1. parent2 \in [D -> D] /\ root2 \in [D -> D]
    BY <1>2
  <2>2. depth2 \in [D -> Nat]
    <3>1. \A k \in D : depth[k] \in Nat /\ depth[rj] \in Nat
      BY <1>2
    <3> QED
      BY <3>1
  <2>3. ASSUME NEW k \in D
        PROVE  /\ parent2[root2[k]] = root2[k]
               /\ parent2[k] = k => root2[k] = k
               /\ parent2[k] # k => root2[k] = root2[parent2[k]] /\ depth2[parent2[k]] < depth2[k]
    <3>1. /\ parent[root[k]] = root[k] /\ (parent[k] = k => root[k] = k)
          /\ (parent[k] # k => root[k] = root[parent[k]] /\ depth[parent[k]] < depth[k])
          /\ parent[k] \in D /\ root[k] \in D
      BY DEF Forest
    <3>2. parent2[root2[k]] = root2[k]
      BY <1>2, <1>4, <3>1
    <3>3. CASE k = ri
      <4>1. parent2[k] = rj /\ root2[k] = rj /\ root2[rj] = rj
        BY <1>2, <1>4, <3>3
      <4>2. depth2[rj] = depth[rj] /\ depth2[k] = depth[k] + depth[rj] + 1
        BY <1>2, <1>4, <3>3
      <4>3. depth[rj] \in Nat /\ depth[k] \in Nat
        BY <1>2
      <4> QED
        BY <1>4, <3>2, <3>3, <4>1, <4>2, <4>3
    <3>4. CASE k # ri
      <4>1. parent2[k] = parent[k]
        BY <1>2, <3>4
      <4>2. CASE parent[k] = k
        BY <3>1, <3>2, <3>4, <4>1, <4>2
      <4>3. CASE parent[k] # k
        <5>1. root2[k] = root2[parent[k]]
          BY <3>1, <4>3
        <5>2. depth2[parent[k]] < depth2[k]
          <6>1. depth[k] \in Nat /\ depth[parent[k]] \in Nat /\ depth[rj] \in Nat
            BY <1>2, <3>1
          <6> QED
            BY <3>1, <4>3, <6>1
        <5> QED
          BY <3>2, <4>1, <4>3, <5>1, <5>2
      <4> QED
        BY <4>2, <4>3
    <3> QED
      BY <3>3, <3>4
  <2>4. \A k \in D : root2[k] = IF root[k] = root[i] THEN root[j] ELSE root[k]
    OBVIOUS
  <2> HIDE DEF parent2, root2, depth2
  <2>5. Forest(parent2, root2, depth2, D)
    BY <2>1, <2>2, <2>3 DEF Forest
  <2> QED
    BY <1>1, <2>4, <2>5
<1> QED
  BY <1>3, <1>4

\* The clusters after image i has been compared with all images up to j, and all
\* images before i with all others: close images are in one cluster, and a cluster
\* is in every set that is closed under closeness and has one of its images.
Near(hashed, max, i, j) == Distance(hashed, i, j) <= max
ClosedTo(hashed, max, S) == \A a \in S, b \in DOMAIN hashed : Near(hashed, max, a, b) => b \in S
Whole(root, S) == \A a \in S, b \in DOMAIN root : root[a] = root[b] => b \in S
Compared(a, b, i, j) == a < b /\ (a < i \/ (a = i /\ b <= j))

Clusters(hashed, max, root, i, j) ==
    /\ \A a, b \in DOMAIN hashed :
          Near(hashed, max, a, b) /\ Compared(a, b, i, j) => root[a] = root[b]
    /\ \A S \in SUBSET DOMAIN hashed : ClosedTo(hashed, max, S) => Whole(root, S)
Fits(hashed, max, parent, i, j) ==
    \E root, depth : /\ Forest(parent, root, depth, DOMAIN hashed)
                     /\ Clusters(hashed, max, root, i, j)

Step(hashed, max, parent, i, j) ==
    IF Distance(hashed, i, j) <= max THEN Join(parent, i, j) ELSE parent

LEMMA NearBoth == \A hashed, max, i, j : Near(hashed, max, i, j) <=> Near(hashed, max, j, i)
<1>1. \A hashed, i, j : Distance(hashed, i, j) = Distance(hashed, j, i)
  <2> SUFFICES ASSUME NEW hashed, NEW i, NEW j PROVE Distance(hashed, i, j) = Distance(hashed, j, i)
    OBVIOUS
  <2> DEFINE a == hashed[i].hash
             b == hashed[j].hash
  <2>1. (a \ b) \cup (b \ a) = (b \ a) \cup (a \ b)
    OBVIOUS
  <2> QED
    BY <2>1 DEF Distance, hamming_distance
<1> QED
  BY <1>1 DEF Near

LEMMA FitsStep ==
  ASSUME NEW hashed, NEW max, NEW n \in Nat, DOMAIN hashed = 1..n, NEW parent,
         NEW i \in 1..n, NEW j \in Nat, i <= j, j < n, Fits(hashed, max, parent, i, j)
  PROVE  Fits(hashed, max, Step(hashed, max, parent, i, j + 1), i, j + 1)
<1> DEFINE D == DOMAIN hashed
           y == j + 1
<1>1. PICK root, depth : Forest(parent, root, depth, D) /\ Clusters(hashed, max, root, i, j)
  BY DEF Fits
<1>2. i \in D /\ y \in D /\ D \in SUBSET Nat
  OBVIOUS
<1>3. \A a, b \in D : Compared(a, b, i, y) => Compared(a, b, i, j) \/ (a = i /\ b = y)
  BY <1>2 DEF Compared
<1>4. CASE ~Near(hashed, max, i, y)
  <2>1. Clusters(hashed, max, root, i, y)
    BY <1>1, <1>3, <1>4 DEF Clusters
  <2>2. Step(hashed, max, parent, i, y) = parent
    BY <1>4 DEF Step, Near
  <2> QED
    BY <1>1, <2>1, <2>2 DEF Fits
<1>5. CASE Near(hashed, max, i, y)
  <2> HIDE DEF y
  <2>1. PICK root2, depth2 :
           /\ Forest(Join(parent, i, y), root2, depth2, D)
           /\ \A k \in D : root2[k] = IF root[k] = root[i] THEN root[y] ELSE root[k]
    <3> HIDE DEF D
    <3>1. Forest(parent, root, depth, D) /\ i \in D /\ y \in D
      BY <1>1, <1>2 DEF D
    <3> QED
      BY ONLY <3>1, JoinForest
  <2>2. \A k \in D : root2[k] = IF root[k] = root[i] THEN root[y] ELSE root[k]
    BY <2>1
  <2>3. root2[i] = root2[y]
    BY <1>2, <2>2
  <2>4. \A a, b \in D : root[a] = root[b] => root2[a] = root2[b]
    BY <2>2
  <2>5. ASSUME NEW a \in D, NEW b \in D, Near(hashed, max, a, b), Compared(a, b, i, y)
        PROVE  root2[a] = root2[b]
    BY <1>1, <1>3, <2>3, <2>4, <2>5 DEF Clusters
  <2>6. DOMAIN root = D /\ DOMAIN root2 = D
    BY <1>1, <2>1 DEF Forest
  <2>7. ASSUME NEW S \in SUBSET D, ClosedTo(hashed, max, S) PROVE Whole(root2, S)
    <3>1. \A a \in S, b \in D : root[a] = root[b] => b \in S
      BY <1>1, <2>6, <2>7 DEF Clusters, Whole
    <3>2. i \in S <=> y \in S
      BY <1>2, <1>5, <2>7, NearBoth DEF ClosedTo
    <3> SUFFICES ASSUME NEW a \in S, NEW b \in D, root2[a] = root2[b] PROVE b \in S
      BY <2>6 DEF Whole
    <3>3. a \in D /\ (root[a] = root[i] => i \in S)
      BY <1>2, <3>1
    <3>4. CASE root[a] = root[b]
      BY <3>1, <3>4
    <3>5. CASE root[a] = root[i] /\ root[b] # root[i]
      BY <1>2, <2>2, <3>1, <3>2, <3>3, <3>5
    <3>6. CASE root[a] # root[i] /\ root[b] = root[i]
      <4>1. root[a] = root[y]
        BY <2>2, <3>3, <3>6
      <4>2. y \in S /\ i \in S
        BY <1>2, <3>1, <3>2, <4>1
      <4> QED
        BY <3>1, <3>6, <4>2
    <3>7. CASE root[a] # root[i] /\ root[b] # root[i]
      BY <2>2, <3>1, <3>3, <3>7
    <3> QED
      BY <3>4, <3>5, <3>6, <3>7
  <2>8. Clusters(hashed, max, root2, i, y)
    BY <2>5, <2>7 DEF Clusters
  <2>9. Step(hashed, max, parent, i, y) = Join(parent, i, y)
    BY <1>5 DEF Step, Near
  <2>10. Fits(hashed, max, Step(hashed, max, parent, i, y), i, y)
    BY <2>1, <2>8, <2>9 DEF Fits
  <2> QED
    BY <2>10 DEF y
<1> QED
  BY <1>4, <1>5

\* The inner loop.
Inner(hashed, max, parent, i, k, joined) ==
    joined = [j \in i..k |->
                IF j = i THEN parent
                ELSE IF Distance(hashed, i, j) <= max THEN Join(joined[j - 1], i, j)
                ELSE joined[j - 1]]

LEMMA FitsRow ==
  ASSUME NEW hashed, NEW max, NEW n \in Nat, DOMAIN hashed = 1..n, Len(hashed) = n, NEW parent,
         NEW i \in 1..n, Fits(hashed, max, parent, i, i)
  PROVE  Fits(hashed, max, JoinLater(hashed, max, parent, i), i, n)
<1>0. i \in Nat /\ i <= n
  OBVIOUS
<1>1. \E joined : Inner(hashed, max, parent, i, n, joined)
  <2> DEFINE S == {k \in Nat : \E joined : Inner(hashed, max, parent, i, k, joined)}
  <2>1. i \in S
    <3> DEFINE f == [j \in i..i |-> parent]
    <3>1. Inner(hashed, max, parent, i, i, f)
      BY <1>0 DEF Inner
    <3> QED
      BY <1>0, <3>1
  <2>2. ASSUME NEW k \in Nat, i <= k, k < n, k \in S PROVE k + 1 \in S
    <3>1. PICK g : Inner(hashed, max, parent, i, k, g)
      BY <2>2
    <3> DEFINE x == k + 1
               f == [j \in i..x |-> IF j = x THEN Step(hashed, max, g[k], i, x) ELSE g[j]]
    <3>2. i..x = (i..k) \cup {x} /\ x \notin i..k /\ x # i /\ x - 1 = k /\ k \in i..k
      BY <1>0, <2>2
    <3>3. \A j \in i..k : j # i => j - 1 \in i..k /\ j - 1 # x
      BY <1>0, <2>2
    <3> HIDE DEF x
    <3>4. ASSUME NEW j \in i..x
          PROVE  f[j] = IF j = i THEN parent
                        ELSE IF Distance(hashed, i, j) <= max THEN Join(f[j - 1], i, j)
                        ELSE f[j - 1]
      <4>1. CASE j = x
        <5>1. f[j] = Step(hashed, max, g[k], i, x) /\ f[j - 1] = g[k] /\ j # i
          BY <3>2, <4>1
        <5> QED
          BY <4>1, <5>1 DEF Step
      <4>2. CASE j # x
        <5>1. j \in i..k
          BY <3>2, <4>2
        <5>2. f[j] = g[j] /\ (j # i => f[j - 1] = g[j - 1])
          BY <3>2, <3>3, <4>2, <5>1
        <5>3. g[j] = IF j = i THEN parent
                     ELSE IF Distance(hashed, i, j) <= max THEN Join(g[j - 1], i, j)
                     ELSE g[j - 1]
          BY <3>1, <5>1 DEF Inner
        <5> QED
          BY <5>2, <5>3
      <4> QED
        BY <4>1, <4>2
    <3>5. Inner(hashed, max, parent, i, x, f)
      BY <3>4 DEF Inner
    <3> HIDE DEF f
    <3>6. k + 1 \in Nat /\ \E joined : Inner(hashed, max, parent, i, k + 1, joined)
      BY <3>5 DEF x
    <3> QED
      BY <3>6
  <2> HIDE DEF S
  <2>3. \A k \in i..n : k \in S
    BY <1>0, <2>1, <2>2, UpTo
  <2>4. n \in S
    BY <1>0, <2>3
  <2> QED
    BY <2>4 DEF S
<1> DEFINE joined == CHOOSE f : f = [j \in i..Len(hashed) |->
                        IF j = i THEN parent
                        ELSE IF Distance(hashed, i, j) <= max THEN Join(f[j - 1], i, j)
                        ELSE f[j - 1]]
<1>2. Inner(hashed, max, parent, i, n, joined)
  BY <1>1 DEF Inner
<1>3. JoinLater(hashed, max, parent, i) = joined[n]
  BY DEF JoinLater
<1> HIDE DEF joined
<1>4. joined[i] = parent
  BY <1>0, <1>2 DEF Inner
<1>5. ASSUME NEW k \in Nat, i <= k, k < n PROVE joined[k + 1] = Step(hashed, max, joined[k], i, k + 1)
  <2>1. k + 1 \in i..n /\ k + 1 # i /\ (k + 1) - 1 = k
    BY <1>0, <1>5
  <2> QED
    BY <1>2, <2>1 DEF Inner, Step
<1> DEFINE S == {k \in Nat : Fits(hashed, max, joined[k], i, k)}
<1>6. i \in S
  BY <1>0, <1>4
<1>7. ASSUME NEW k \in Nat, i <= k, k < n, k \in S PROVE k + 1 \in S
  <2>1. Fits(hashed, max, joined[k], i, k)
    BY <1>7
  <2>2. Fits(hashed, max, joined[k + 1], i, k + 1)
    BY <1>5, <1>7, <2>1, FitsStep
  <2> QED
    BY <2>2
<1> HIDE DEF S
<1>8. n \in S
  <2>1. \A k \in i..n : k \in S
    BY <1>0, <1>6, <1>7, UpTo
  <2> QED
    BY <1>0, <2>1
<1> QED
  BY <1>3, <1>8 DEF S

\* The outer loop.
Outer(hashed, max, k, joined) ==
    joined = [i \in 0..k |-> IF i = 0 THEN [x \in DOMAIN hashed |-> x]
                             ELSE JoinLater(hashed, max, joined[i - 1], i)]

LEMMA FitsAll ==
  ASSUME NEW hashed, NEW max, NEW n \in Nat, DOMAIN hashed = 1..n, Len(hashed) = n
  PROVE  Fits(hashed, max, Joined(hashed, max), n, n)
<1>1. \E joined : Outer(hashed, max, n, joined)
  <2> DEFINE S == {k \in Nat : \E joined : Outer(hashed, max, k, joined)}
  <2>1. 0 \in S
    <3> DEFINE f == [i \in 0..0 |-> [x \in DOMAIN hashed |-> x]]
    <3>1. Outer(hashed, max, 0, f)
      BY DEF Outer
    <3> QED
      BY <3>1
  <2>2. ASSUME NEW k \in Nat, 0 <= k, k < n, k \in S PROVE k + 1 \in S
    <3>1. PICK g : Outer(hashed, max, k, g)
      BY <2>2
    <3> DEFINE x == k + 1
               f == [i \in 0..x |-> IF i = x THEN JoinLater(hashed, max, g[k], x) ELSE g[i]]
    <3>2. 0..x = (0..k) \cup {x} /\ x \notin 0..k /\ x # 0 /\ x - 1 = k /\ k \in 0..k
      BY <2>2
    <3>3. \A i \in 0..k : i # 0 => i - 1 \in 0..k /\ i - 1 # x
      BY <2>2
    <3> HIDE DEF x
    <3>4. ASSUME NEW i \in 0..x
          PROVE  f[i] = IF i = 0 THEN [y \in DOMAIN hashed |-> y]
                        ELSE JoinLater(hashed, max, f[i - 1], i)
      <4>1. CASE i = x
        <5>1. f[i] = JoinLater(hashed, max, g[k], x) /\ f[i - 1] = g[k] /\ i # 0
          BY <3>2, <4>1
        <5> QED
          BY <4>1, <5>1
      <4>2. CASE i # x
        <5>1. i \in 0..k
          BY <3>2, <4>2
        <5>2. f[i] = g[i] /\ (i # 0 => f[i - 1] = g[i - 1])
          BY <3>2, <3>3, <4>2, <5>1
        <5>3. g[i] = IF i = 0 THEN [y \in DOMAIN hashed |-> y]
                     ELSE JoinLater(hashed, max, g[i - 1], i)
          BY <3>1, <5>1 DEF Outer
        <5> QED
          BY <5>2, <5>3
      <4> QED
        BY <4>1, <4>2
    <3>5. Outer(hashed, max, x, f)
      BY <3>4 DEF Outer
    <3> HIDE DEF f
    <3>6. k + 1 \in Nat /\ \E joined : Outer(hashed, max, k + 1, joined)
      BY <3>5 DEF x
    <3> QED
      BY <3>6
  <2> HIDE DEF S
  <2>3. \A k \in 0..n : k \in S
    BY <2>1, <2>2, UpTo
  <2>4. n \in S
    BY <2>3
  <2> QED
    BY <2>4 DEF S
<1> DEFINE joined == CHOOSE f : f = [i \in 0..Len(hashed) |->
                        IF i = 0 THEN [x \in DOMAIN hashed |-> x]
                        ELSE JoinLater(hashed, max, f[i - 1], i)]
<1>2. Outer(hashed, max, n, joined)
  BY <1>1 DEF Outer
<1>3. Joined(hashed, max) = joined[n]
  BY DEF Joined
<1> HIDE DEF joined
<1>4. Fits(hashed, max, joined[0], 0, n)
  <2> DEFINE D == DOMAIN hashed
             p == [x \in D |-> x]
             depth == [x \in D |-> 0]
  <2>1. joined[0] = p
    BY <1>2 DEF Outer
  <2>2. Forest(p, p, depth, D)
    BY DEF Forest
  <2>3. \A a, b \in D : ~Compared(a, b, 0, n)
    BY DEF Compared
  <2>4. \A S \in SUBSET D : Whole(p, S)
    BY DEF Whole
  <2> HIDE DEF p, depth
  <2>5. Clusters(hashed, max, p, 0, n)
    BY <2>3, <2>4 DEF Clusters
  <2> QED
    BY <2>1, <2>2, <2>5 DEF Fits
<1> DEFINE S == {k \in Nat : Fits(hashed, max, joined[k], k, n)}
<1>5. 0 \in S
  BY <1>4
<1>6. ASSUME NEW k \in Nat, 0 <= k, k < n, k \in S PROVE k + 1 \in S
  <2> DEFINE x == k + 1
  <2>1. x \in 1..n /\ x - 1 = k /\ x # 0 /\ x \in 0..n
    BY <1>6
  <2>2. joined[x] = JoinLater(hashed, max, joined[k], x)
    BY <1>2, <2>1 DEF Outer
  <2>3. Fits(hashed, max, joined[k], x, x)
    <3>1. PICK root, depth : /\ Forest(joined[k], root, depth, DOMAIN hashed)
                             /\ Clusters(hashed, max, root, k, n)
      BY <1>6 DEF Fits
    <3>2. \A a, b \in DOMAIN hashed : Compared(a, b, x, x) => Compared(a, b, k, n)
      BY <1>6 DEF Compared
    <3>3. Clusters(hashed, max, root, x, x)
      BY <3>1, <3>2 DEF Clusters
    <3> QED
      BY <3>1, <3>3 DEF Fits
  <2> HIDE DEF x
  <2>4. Fits(hashed, max, joined[x], x, n)
    BY <2>1, <2>2, <2>3, FitsRow
  <2> QED
    BY <2>4 DEF x
<1> HIDE DEF S
<1>7. n \in S
  <2>1. \A k \in 0..n : k \in S
    BY <1>5, <1>6, UpTo
  <2> QED
    BY <2>1
<1> QED
  BY <1>3, <1>7 DEF S

\* Of the clusters, then: two images are in one if they are close, and what is
\* closed under closeness holds a cluster whole.
Roots(hashed, max, n, root) ==
    /\ root \in [1..n -> 1..n]
    /\ \A i \in 1..n : root[root[i]] = root[i]
    /\ \A i, j \in 1..n : Near(hashed, max, i, j) => root[i] = root[j]
    /\ \A S \in SUBSET (1..n) : ClosedTo(hashed, max, S) =>
          \A i \in S, j \in 1..n : root[i] = root[j] => j \in S

LEMMA RootsExact ==
  ASSUME NEW hashed, NEW max, NEW n \in Nat, DOMAIN hashed = 1..n, Len(hashed) = n
  PROVE  \E root : /\ Roots(hashed, max, n, root)
                   /\ \A i \in 1..n : Find(Joined(hashed, max), i) = root[i]
<1>1. PICK root, depth : /\ Forest(Joined(hashed, max), root, depth, 1..n)
                         /\ Clusters(hashed, max, root, n, n)
  BY FitsAll DEF Fits
<1>2. \A i \in 1..n : Find(Joined(hashed, max), i) = root[i]
  BY <1>1, FindRoot
<1>3. root \in [1..n -> 1..n] /\ DOMAIN root = 1..n /\ \A i \in 1..n : root[root[i]] = root[i]
  BY <1>1 DEF Forest
<1>4. ASSUME NEW i \in 1..n, NEW j \in 1..n, Near(hashed, max, i, j) PROVE root[i] = root[j]
  <2>1. i = j \/ Compared(i, j, n, n) \/ Compared(j, i, n, n)
    BY DEF Compared
  <2>2. Near(hashed, max, j, i)
    BY <1>4, NearBoth
  <2> QED
    BY <1>1, <1>4, <2>1, <2>2 DEF Clusters
<1>5. ASSUME NEW S \in SUBSET (1..n), ClosedTo(hashed, max, S)
      PROVE  \A i \in S, j \in 1..n : root[i] = root[j] => j \in S
  BY <1>1, <1>3, <1>5 DEF Clusters, Whole
<1>6. Roots(hashed, max, n, root)
  BY <1>3, <1>4, <1>5 DEF Roots
<1> QED
  BY <1>2, <1>6

\* Connected in terms of sets of indexes: images are the records of a list, each
\* of them once.
Gap(r, s) == hamming_distance(r.hash, s.hash)
ClosedIn(images, max, S) == \A r \in S, s \in images : Gap(r, s) <= max => s \in S
Parts(images, max) ==
    {S \in SUBSET images : /\ Cardinality(S) >= 2 /\ ClosedIn(images, max, S)
                           /\ \A T \in (SUBSET S) \ {{}, S} : ~ClosedIn(images, max, T)}
Shared(S) == [paths |-> {s.path : s \in S}, max_distance |-> Max({Gap(s, t) : s, t \in S})]
Records(hashed, m) == {hashed[i] : i \in m}
ClassOf(root, n, r) == {i \in 1..n : root[i] = r}
Large(root, n) == {m \in {ClassOf(root, n, r) : r \in 1..n} : Cardinality(m) >= 2}
Once(hashed, n) == /\ DOMAIN hashed = 1..n
                   /\ \A i, j \in 1..n : hashed[i] = hashed[j] => i = j

LEMMA ConnectedParts ==
  ASSUME NEW images, NEW max
  PROVE  Connected(images, max) = {Shared(S) : S \in Parts(images, max)}
BY DEF Connected, Shared, Parts, ClosedIn, Gap

LEMMA RecordsSize ==
  ASSUME NEW hashed, NEW n \in Nat, Once(hashed, n), NEW m \in SUBSET (1..n)
  PROVE  /\ Cardinality(m) \in Nat /\ IsFiniteSet(m)
         /\ Cardinality(Records(hashed, m)) = Cardinality(m)
<1> DEFINE f == [i \in m |-> hashed[i]]
<1>1. IsFiniteSet(m)
  <2>1. IsFiniteSet(1..n)
    BY FS_Interval
  <2> QED
    BY <2>1, FS_Subset
<1>2. f \in Bijection(m, Records(hashed, m))
  <2>1. f \in [m -> Records(hashed, m)]
    BY DEF Records
  <2>2. \A i, j \in m : f[i] = f[j] => i = j
    BY DEF Once
  <2>3. \A r \in Records(hashed, m) : \E i \in m : f[i] = r
    BY DEF Records
  <2> HIDE DEF f
  <2> QED
    BY <2>1, <2>2, <2>3 DEF Bijection, Injection, Surjection, IsInjective
<1>3. ExistsBijection(m, Records(hashed, m))
  BY <1>2 DEF ExistsBijection
<1> QED
  BY <1>1, <1>3, FS_Bijection, FS_CardinalityType

LEMMA ClosedRecords ==
  ASSUME NEW hashed, NEW max, NEW n \in Nat, Once(hashed, n), NEW S \in SUBSET (1..n)
  PROVE  ClosedTo(hashed, max, S) <=> ClosedIn(Records(hashed, 1..n), max, Records(hashed, S))
<1>1. \A i, j : Gap(hashed[i], hashed[j]) <= max <=> Near(hashed, max, i, j)
  BY DEF Gap, Near, Distance
<1>2. ASSUME ClosedTo(hashed, max, S), NEW r \in Records(hashed, S), NEW s \in Records(hashed, 1..n),
             Gap(r, s) <= max
      PROVE  s \in Records(hashed, S)
  <2>1. PICK a \in S, b \in 1..n : r = hashed[a] /\ s = hashed[b]
    BY DEF Records
  <2>2. b \in S
    BY <1>1, <1>2, <2>1 DEF ClosedTo, Once
  <2> QED
    BY <2>1, <2>2 DEF Records
<1>3. ASSUME ClosedIn(Records(hashed, 1..n), max, Records(hashed, S)),
             NEW a \in S, NEW b \in 1..n, Near(hashed, max, a, b)
      PROVE  b \in S
  <2>1. hashed[a] \in Records(hashed, S) /\ hashed[b] \in Records(hashed, 1..n)
    BY DEF Records
  <2>2. hashed[b] \in Records(hashed, S)
    BY <1>1, <1>3, <2>1 DEF ClosedIn
  <2>3. PICK c \in S : hashed[b] = hashed[c]
    BY <2>2 DEF Records
  <2> QED
    BY <2>3 DEF Once
<1> QED
  BY <1>2, <1>3 DEF ClosedIn, ClosedTo, Once

LEMMA RecordsBack ==
  ASSUME NEW hashed, NEW n \in Nat, Once(hashed, n), NEW T \in SUBSET Records(hashed, 1..n)
  PROVE  \E S \in SUBSET (1..n) : T = Records(hashed, S)
<1> DEFINE S == {i \in 1..n : hashed[i] \in T}
<1>1. T = Records(hashed, S)
  BY DEF Records
<1> QED
  BY <1>1

LEMMA RecordsWithin ==
  ASSUME NEW hashed, NEW n \in Nat, Once(hashed, n), NEW S \in SUBSET (1..n), NEW m \in SUBSET (1..n)
  PROVE  Records(hashed, S) \subseteq Records(hashed, m) <=> S \subseteq m
<1>1. ASSUME Records(hashed, S) \subseteq Records(hashed, m), NEW i \in S PROVE i \in m
  <2>1. hashed[i] \in Records(hashed, m)
    BY <1>1 DEF Records
  <2>2. PICK j \in m : hashed[i] = hashed[j]
    BY <2>1 DEF Records
  <2> QED
    BY <2>2 DEF Once
<1> QED
  BY <1>1 DEF Records

\* The sets of images with the same root are the connected parts.
LEMMA PartsExact ==
  ASSUME NEW hashed, NEW max, NEW n \in Nat, Once(hashed, n), NEW root, Roots(hashed, max, n, root)
  PROVE  Parts(Records(hashed, 1..n), max) = {Records(hashed, m) : m \in Large(root, n)}
<1> DEFINE Class(r) == ClassOf(root, n, r)
           images == Records(hashed, 1..n)
<1>1. ASSUME NEW r \in 1..n PROVE ClosedTo(hashed, max, Class(r))
  BY DEF ClosedTo, Once, Roots, ClassOf
<1>2. ASSUME NEW r \in 1..n, NEW S \in SUBSET Class(r), S # {}, ClosedTo(hashed, max, S)
      PROVE  S = Class(r)
  <2>1. PICK i \in S : TRUE
    BY <1>2
  <2>2. S \in SUBSET (1..n) /\ i \in 1..n /\ root[i] = r
    BY DEF ClassOf
  <2>3. \A j \in 1..n : root[i] = root[j] => j \in S
    BY <1>2, <2>2 DEF Roots
  <2> QED
    BY <2>2, <2>3 DEF ClassOf
<1>3. ASSUME NEW r \in 1..n, Cardinality(Class(r)) >= 2
      PROVE  Records(hashed, Class(r)) \in Parts(images, max)
  <2> DEFINE m == Class(r)
  <2>1. m \in SUBSET (1..n)
    BY DEF ClassOf
  <2>2. ASSUME NEW T \in SUBSET Records(hashed, m), T # {}, T # Records(hashed, m),
               ClosedIn(images, max, T)
        PROVE  FALSE
    <3>1. PICK S \in SUBSET (1..n) : T = Records(hashed, S)
      <4>1. T \in SUBSET Records(hashed, 1..n)
        BY <2>1 DEF Records
      <4> QED
        BY <4>1, RecordsBack
    <3>2. S \in SUBSET m
      <4>1. Records(hashed, S) \subseteq Records(hashed, m)
        BY <3>1
      <4> HIDE DEF m
      <4> QED
        BY <2>1, <4>1, RecordsWithin
    <3>3. S # {} /\ ClosedTo(hashed, max, S)
      <4>1. S # {}
        BY <2>2, <3>1 DEF Records
      <4>2. ClosedIn(Records(hashed, 1..n), max, Records(hashed, S))
        BY <2>2, <3>1
      <4> QED
        BY <4>1, <4>2, ClosedRecords
    <3>4. S = m
      BY <1>2, <3>2, <3>3
    <3> QED
      BY <2>2, <3>1, <3>4
  <2>3. Cardinality(Records(hashed, m)) >= 2
    BY <1>3, <2>1, RecordsSize
  <2>4. ClosedIn(images, max, Records(hashed, m))
    BY <1>1, <2>1, ClosedRecords
  <2>5. Records(hashed, m) \in SUBSET images
    BY <2>1 DEF Records
  <2> DEFINE P == Records(hashed, m)
  <2>6. P \in SUBSET images /\ Cardinality(P) >= 2 /\ ClosedIn(images, max, P)
    BY <2>3, <2>4, <2>5
  <2>7. \A T \in (SUBSET P) \ {{}, P} : ~ClosedIn(images, max, T)
    <3> HIDE DEF m, images
    <3> QED
      BY <2>2
  <2> HIDE DEF P, images
  <2>8. P \in Parts(images, max)
    BY <2>6, <2>7 DEF Parts
  <2> QED
    BY <2>8 DEF P
<1>4. ASSUME NEW P \in Parts(images, max)
      PROVE  \E r \in 1..n : Cardinality(Class(r)) >= 2 /\ P = Records(hashed, Class(r))
  <2>1. P \in SUBSET images /\ Cardinality(P) >= 2 /\ ClosedIn(images, max, P)
        /\ \A T \in (SUBSET P) \ {{}, P} : ~ClosedIn(images, max, T)
    BY DEF Parts
  <2>2. PICK S \in SUBSET (1..n) : P = Records(hashed, S)
    <3>1. \A T \in SUBSET Records(hashed, 1..n) : \E S \in SUBSET (1..n) : T = Records(hashed, S)
      BY RecordsBack
    <3> QED
      BY <2>1, <3>1
  <2>3. Cardinality(S) >= 2 /\ ClosedTo(hashed, max, S)
    BY <2>1, <2>2, RecordsSize, ClosedRecords
  <2>4. S # {}
    <3>1. Cardinality({}) = 0
      BY FS_EmptySet
    <3>2. ~(0 >= 2)
      OBVIOUS
    <3> QED
      BY ONLY <2>3, <3>1, <3>2, Zenon
  <2>5. PICK a \in S : TRUE
    BY <2>4
  <2>6. a \in 1..n /\ root[a] \in 1..n
    BY DEF Roots
  <2> DEFINE m == Class(root[a])
  <2>7. m \in SUBSET S
    BY <2>3, <2>6 DEF Roots, ClassOf
  <2>8. Records(hashed, m) \in SUBSET P /\ Records(hashed, m) # {}
    BY <2>2, <2>6, <2>7 DEF Records, ClassOf
  <2>9. ClosedIn(images, max, Records(hashed, m))
    <3>1. m \in SUBSET (1..n)
      BY DEF ClassOf
    <3> QED
      BY <1>1, <2>6, <3>1, ClosedRecords
  <2>10. P = Records(hashed, m)
    <3> HIDE DEF m, images
    <3> QED
      BY <2>1, <2>8, <2>9
  <2>11. Cardinality(m) >= 2
    <3>1. m \in SUBSET (1..n)
      BY DEF ClassOf
    <3> QED
      BY <2>1, <2>10, <3>1, RecordsSize
  <2> QED
    BY <2>6, <2>10, <2>11
<1> HIDE DEF images
<1>5. \A m \in Large(root, n) : Records(hashed, m) \in Parts(images, max)
  BY <1>3 DEF Large
<1>6. \A P \in Parts(images, max) : \E m \in Large(root, n) : P = Records(hashed, m)
  BY <1>4 DEF Large
<1>7. Parts(images, max) = {Records(hashed, m) : m \in Large(root, n)}
  BY ONLY <1>5, <1>6
<1> QED
  BY ONLY <1>7 DEF images

\* What cluster returns of the images m.
Together(hashed, m) == [paths |-> {hashed[i].path : i \in m},
                        max_distance |-> Max({Distance(hashed, i, j) : i, j \in m})]

LEMMA SharedTogether ==
  ASSUME NEW hashed, NEW m PROVE Shared(Records(hashed, m)) = Together(hashed, m)
<1> DEFINE left == {Gap(s, t) : s, t \in Records(hashed, m)}
           right == {Distance(hashed, i, j) : i, j \in m}
           paths == {s.path : s \in Records(hashed, m)}
           named == {hashed[i].path : i \in m}
<1>1. \A i, j : Gap(hashed[i], hashed[j]) = Distance(hashed, i, j)
  BY DEF Gap, Distance
<1>2. \A d \in left : d \in right
  BY <1>1 DEF Records
<1>3. ASSUME NEW d \in right PROVE d \in left
  <2>1. PICK i \in m, j \in m : d = Distance(hashed, i, j)
    OBVIOUS
  <2>2. hashed[i] \in Records(hashed, m) /\ hashed[j] \in Records(hashed, m)
    BY DEF Records
  <2> QED
    BY <1>1, <2>1, <2>2
<1>4. paths = named
  BY DEF Records
<1>5. Shared(Records(hashed, m)) = [paths |-> paths, max_distance |-> Max(left)]
  BY DEF Shared
<1>6. Together(hashed, m) = [paths |-> named, max_distance |-> Max(right)]
  BY DEF Together
<1> HIDE DEF left, right, paths, named
<1>7. left = right
  BY ONLY <1>2, <1>3
<1> QED
  BY ONLY <1>4, <1>5, <1>6, <1>7, Zenon

\* Whatever the order of the images, cluster returns the connected parts of them.
LEMMA ClusterExact ==
  ASSUME NEW hashed, NEW max, NEW n \in Nat, Once(hashed, n), Len(hashed) = n
  PROVE  Cluster(hashed, max) = Connected(ToSet(hashed), max)
<1>1. DOMAIN hashed = 1..n /\ ToSet(hashed) = Records(hashed, 1..n)
  BY DEF Once, ToSet, Records
<1>2. PICK root : /\ Roots(hashed, max, n, root)
                  /\ \A i \in 1..n : Find(Joined(hashed, max), i) = root[i]
  BY <1>1, RootsExact
<1> DEFINE parent == Joined(hashed, max)
           members == {{i \in DOMAIN hashed : Find(parent, i) = r} : r \in DOMAIN hashed}
<1>3. Cluster(hashed, max) = {Together(hashed, m) : m \in {k \in members : Cardinality(k) >= 2}}
  BY DEF Cluster, Together
<1>4. {k \in members : Cardinality(k) >= 2} = Large(root, n)
  <2>1. \A r : {i \in DOMAIN hashed : Find(parent, i) = r} = ClassOf(root, n, r)
    BY <1>1, <1>2 DEF ClassOf
  <2>2. members = {ClassOf(root, n, r) : r \in 1..n}
    <3> HIDE DEF parent
    <3>1. members = {{i \in DOMAIN hashed : Find(parent, i) = r} : r \in 1..n}
      BY <1>1
    <3> HIDE DEF members
    <3>2. \A c \in members : c \in {ClassOf(root, n, r) : r \in 1..n}
      BY ONLY <2>1, <3>1
    <3>3. \A c \in {ClassOf(root, n, r) : r \in 1..n} : c \in members
      BY ONLY <2>1, <3>1
    <3> QED
      BY ONLY <3>2, <3>3, SetExtensionality
  <2> HIDE DEF members
  <2> QED
    BY <2>2 DEF Large
<1>5. Connected(ToSet(hashed), max) = {Shared(P) : P \in Parts(Records(hashed, 1..n), max)}
  BY <1>1, ConnectedParts
<1>6. Parts(Records(hashed, 1..n), max) = {Records(hashed, m) : m \in Large(root, n)}
  BY <1>2, PartsExact
<1> HIDE DEF members, parent
<1>7. \A m : Shared(Records(hashed, m)) = Together(hashed, m)
  BY SharedTogether
<1>8. \A c \in Cluster(hashed, max) : c \in Connected(ToSet(hashed), max)
  BY ONLY <1>3, <1>4, <1>5, <1>6, <1>7
<1>9. \A c \in Connected(ToSet(hashed), max) : c \in Cluster(hashed, max)
  BY ONLY <1>3, <1>4, <1>5, <1>6, <1>7
<1> QED
  BY ONLY <1>8, <1>9, SetExtensionality

\* One answer: each photo is listed once.
LEMMA SimilarAnswer == ASSUME Typed, AnswerSimilar
  PROVE state'.similarGroups = Connected(history'.images, MaxDistance)
<1>1. PICK looks \in Looks, order \in Orders :
        LET decoded == {i \in DOMAIN order : HashImage(looks, order[i]) # Unreadable}
            image(n) == order[InOrder(decoded)[n]]
            hashed == [n \in 1..Cardinality(decoded) |->
                         [path |-> image(n), hash |-> HashImage(looks, image(n))]]
        IN  /\ state' = [state EXCEPT !.similarGroups = Cluster(hashed, MaxDistance)]
            /\ history' = [history EXCEPT !.images = ToSet(hashed)]
  BY DEF AnswerSimilar
<1> DEFINE decoded == {i \in DOMAIN order : HashImage(looks, order[i]) # Unreadable}
           image(n) == order[InOrder(decoded)[n]]
           hashed == [n \in 1..Cardinality(decoded) |->
                        [path |-> image(n), hash |-> HashImage(looks, image(n))]]
<1>2. /\ DOMAIN order = 1..Cardinality(Photo) /\ Cardinality(Photo) \in Nat
      /\ \A i, j \in DOMAIN order : order[i] = order[j] => i = j
  BY OrdersAssumption, FS_Subset, FS_CardinalityType
<1>3. decoded \in SUBSET Nat /\ decoded \subseteq DOMAIN order /\ IsFiniteSet(decoded)
  <2>1. decoded \subseteq 1..Cardinality(Photo)
    BY <1>2
  <2>2. IsFiniteSet(1..Cardinality(Photo))
    BY <1>2, FS_Interval
  <2>3. decoded \subseteq DOMAIN order
    OBVIOUS
  <2> HIDE DEF decoded
  <2>4. IsFiniteSet(decoded)
    BY ONLY <2>1, <2>2, FS_Subset
  <2> QED
    BY ONLY <1>2, <2>1, <2>3, <2>4
<1>4. state'.similarGroups = Cluster(hashed, MaxDistance) /\ history'.images = ToSet(hashed)
  <2>1. "similarGroups" \in DOMAIN state /\ "images" \in DOMAIN history
    BY DEF Typed, FreshPage
  <2> HIDE DEF decoded, image, hashed
  <2>2. /\ state' = [state EXCEPT !.similarGroups = Cluster(hashed, MaxDistance)]
        /\ history' = [history EXCEPT !.images = ToSet(hashed)]
    BY <1>1, Zenon DEF decoded, image, hashed
  <2> QED
    BY <2>1, <2>2
<1> HIDE DEF decoded
<1>5. PICK s, n : /\ s = InOrder(decoded) /\ n = Cardinality(decoded) /\ n \in Nat
                  /\ s \in [1..n -> decoded] /\ Increasing(s, n)
  BY <1>3, InOrderFacts
<1>6. \A i, j \in 1..n : s[i] = s[j] => i = j
  <2>1. \A i \in 1..n : s[i] \in Nat
    BY <1>3, <1>5
  <2> QED
    BY <1>5, <2>1 DEF Increasing
<1>7. \A i, j \in 1..n : image(i) = image(j) => i = j
  <2>1. \A i \in 1..n : image(i) = order[s[i]] /\ s[i] \in DOMAIN order
    BY <1>3, <1>5
  <2> HIDE DEF image
  <2> QED
    BY ONLY <1>2, <1>6, <2>1
<1>8. Once(hashed, n) /\ Len(hashed) = n
  <2> HIDE DEF image
  <2>1. DOMAIN hashed = 1..n /\ \A i \in 1..n : hashed[i].path = image(i)
    BY <1>5
  <2>2. Len(hashed) = n
    <3>1. \A f : f \in [1..n -> {f[i] : i \in 1..n}] => f \in Seq({f[i] : i \in 1..n}) /\ Len(f) = n
      BY <1>5
    <3>2. hashed \in [1..n -> {hashed[i] : i \in 1..n}]
      BY <1>5
    <3> HIDE DEF hashed
    <3> QED
      BY <3>1, <3>2
  <2> HIDE DEF hashed
  <2> QED
    BY <1>7, <2>1, <2>2 DEF Once
<1>9. Cluster(hashed, MaxDistance) = Connected(ToSet(hashed), MaxDistance)
  <2> HIDE DEF hashed
  <2> QED
    BY <1>5, <1>8, ClusterExact
<1> HIDE DEF hashed
<1> QED
  BY <1>4, <1>9

\* Everything else leaves the groups on the page, or clears them.
LEMMA SimilarElse ==
  ASSUME Typed, [Next]_vars, ~AnswerSimilar
  PROVE  state'.similarGroups \in {state.similarGroups, {}}
<1>1. DOMAIN state = DOMAIN FreshPage
  BY DEF Typed
<1>2. CASE UNCHANGED vars
  BY <1>2 DEF vars
<1>3. CASE User
  <2>1. CASE StartScan
    BY <2>1, <1>1 DEF StartScan, Cleared, FreshPage
  <2>2. CASE ToggleKeepNewest
    BY <2>2, <1>1 DEF ToggleKeepNewest, FreshPage
  <2>3. ASSUME NEW category, ToggleType(category) PROVE state'.similarGroups = state.similarGroups
    BY <2>3, <1>1 DEF ToggleType, FreshPage
  <2>4. ASSUME NEW refs, TypeProtected(refs) PROVE state'.similarGroups = state.similarGroups
    BY <2>4, <1>1 DEF TypeProtected, FreshPage
  <2>5. ASSUME NEW k, Display(k) PROVE state'.similarGroups = state.similarGroups
    BY <2>5, <1>1 DEF Display, FreshPage
  <2>6. ASSUME NEW k, ChooseKeep(k) PROVE state'.similarGroups = state.similarGroups
    BY <2>6, <1>1 DEF ChooseKeep, FreshPage
  <2>7. ASSUME NEW k, ApplyAction(k) PROVE state' = state
    BY <2>7 DEF ApplyAction
  <2>8. ASSUME NEW name, NEW preset, ChangeProfile(name, preset) PROVE state' = state
    BY <2>8 DEF ChangeProfile
  <2> QED
    BY <1>3, <2>1, <2>2, <2>3, <2>4, <2>5, <2>6, <2>7, <2>8 DEF User
<1>4. CASE ScanThread
  BY <1>4 DEF ScanThread, OpenRoot, EmitGroup, EmitError, EmitFinished
<1>5. CASE HandleEvent
  <2>1. Head(events).type \in {"duplicate_group", "error", "finished"}
    BY <1>5, EventsTail DEF HandleEvent, EventOK
  <2>2. CASE Head(events).type = "duplicate_group"
    BY <1>1, <1>5, <2>2 DEF HandleEvent, FreshPage
  <2>3. CASE Head(events).type = "error"
    BY <1>5, <2>3 DEF HandleEvent
  <2>4. CASE Head(events).type = "finished"
    BY <1>1, <1>5, <2>4 DEF HandleEvent, Finished, FreshPage
  <2> QED
    BY <2>1, <2>2, <2>3, <2>4
<1>6. CASE Application
  <2>1. ASSUME NEW ok, AnswerStart(ok) PROVE state'.similarGroups = state.similarGroups
    BY <2>1, <1>1 DEF AnswerStart, FreshPage
  <2>2. ASSUME NEW ok, AnswerFolders(ok) PROVE state'.similarGroups = state.similarGroups
    BY <2>2, <1>1 DEF AnswerFolders, FreshPage
  <2>3. CASE AnswerChooseKeep
    BY <2>3, <1>1 DEF AnswerChooseKeep, FreshPage
  <2>4. CASE AnswerRunAction
    BY <2>4 DEF AnswerRunAction
  <2>5. CASE SimilarFails
    BY <2>5 DEF SimilarFails
  <2>6. CASE AnswerList
    BY <2>6, <1>1 DEF AnswerList, FreshPage
  <2>7. CASE AnswerProfile
    <3>1. state' = state \/ state' = [state EXCEPT !.scanProfiles = io.app.list]
      BY <2>7 DEF AnswerProfile
    <3> QED
      BY <3>1, <1>1 DEF FreshPage
  <2> QED
    BY <1>6, <2>1, <2>2, <2>3, <2>4, <2>5, <2>6, <2>7 DEF Application
<1>7. CASE OtherInstance
  BY <1>7 DEF OtherInstance
<1>8. CASE Restart
  BY <1>8 DEF Restart, FreshPage
<1> QED
  BY <1>2, <1>3, <1>4, <1>5, <1>6, <1>7, <1>8 DEF Next

\* What the page shows as similar images are the connected parts of the images that
\* were there, in whatever order the traversal has found them and whatever else
\* arrives meanwhile (cluster, find_similar_images, ADR-0030).
THEOREM SimilarTrue == Spec => SimilarExact
<1>1. ASSUME Typed, [Next]_vars, state'.similarGroups # state.similarGroups
      PROVE  state'.similarGroups \in {{}, Connected(history'.images, MaxDistance)}
  BY <1>1, SimilarAnswer, SimilarElse
<1> QED
  BY <1>1, AlwaysTyped, PTL DEF Spec, SimilarExact
=============================================================================
