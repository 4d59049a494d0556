-------------------------- MODULE WalkIndexProofs --------------------------
(***************************************************************************)
(* Theorems about WalkIndex, for every tree of directories and links, all  *)
(* options, any number of walks and any read that may fail: a usable       *)
(* record is current, a walk that uses records finds what there is, but    *)
(* for what could not be read, and a rescan mends what was rewritten in    *)
(* place.                                                                  *)
(***************************************************************************)
EXTENDS WalkIndex, FiniteSetTheorems, TLAPS

Children(d) == {e \in Dir \ {Root} : Parent[e] = d}
NamesOf(sizes) == {n \in Name : sizes[n] # NoFile}
SizeAt(d, n) == IF At(<<d, n>>) = NoFile THEN NoFile ELSE Size[At(<<d, n>>)]
Handled(d) == names[d] \ todo[d]
Waiting == queue \cup batch
Busy(d) == at[d] \in {"listed", "visited"}
Fits(d) == mtime[d] = modified[Real(d)]

\* What the tasks hold while no walk is on.
NoTasks ==
    /\ options = NoOptions /\ found = {} /\ Waiting = {}
    /\ \A d \in Dir : /\ at[d] = "unseen" /\ recorded[d] = NoFile
                      /\ names[d] = {} /\ subdirs[d] = {} /\ todo[d] = {}
                      /\ fresh[d] = NoSizes

\* A directory's task: its listing is of what is in it, it is handled from the
\* files to the subdirectories, and each of these is entered at most once.
TaskOK(d) ==
    /\ subdirs[d] \subseteq Children(d)
    /\ todo[d] \subseteq names[d] \cup subdirs[d]
    /\ at[d] # "listed" => todo[d] = {}
    /\ at[d] \in {"unseen", "entered"} =>
          fresh[d] = NoSizes /\ recorded[d] = NoFile /\ names[d] = {} /\ subdirs[d] = {}
    /\ at[d] # "unseen" /\ d # Root => Busy(Parent[d]) /\ d \notin todo[Parent[d]]
    /\ index[d] # NoFile /\ index[d].subdirs # NoFile => index[d].subdirs \subseteq Children(d)
    /\ recorded[d] # NoFile /\ recorded[d].subdirs # NoFile =>
          recorded[d].subdirs \subseteq Children(d)
    /\ at[d] = "listed" /\ fresh[d] # NoFile => NamesOf(fresh[d]) = Handled(d)
    /\ recorded[d] # NoFile => recorded[d].mtime = mtime[d]

Tasks ==
    /\ \A d \in Dir : TaskOK(d)
    /\ pc = "idle" => NoTasks
    /\ pc # "idle" => at[Root] # "unseen" /\ options \in Setups[setup].options
    /\ pc \in {"finishing", "hashing"} => \A d \in Dir : at[d] \in {"unseen", "visited"}
    /\ pc = "hashing" => Waiting = {}
    /\ Root \in present

\* A record, and the task that has used one, is older than the window.
ClockOK(d) ==
    /\ modified[d] <= now
    /\ index[d] # NoFile => index[d].mtime + Racy <= now
    /\ d \in Waiting \/ recorded[d] # NoFile => mtime[d] + Racy <= now
    /\ at[d] # "unseen" => mtime[d] <= modified[Real(d)]

Clocks == \A d \in Dir : ClockOK(d)

\* Names and subdirectories are d's: all of them, but where something was missed.
Listing(d, listedNames, listedDirs) ==
    /\ listedNames \subseteq NamesIn(d) /\ (d \notin missed => listedNames = NamesIn(d))
    /\ ~options.follow_symlinks =>
          listedDirs \subseteq SubdirsOf(d) /\ (d \notin missed => listedDirs = SubdirsOf(d))

\* A listing that was read when the mtime was what it is now, from a record or
\* from the disk, is current.
ListingTrue(d) ==
    /\ RecordCurrent(d)
    /\ d \in Waiting /\ Fits(d) => Listing(d, NamesOf(fresh[d]), subdirs[d])
    /\ at[d] = "listed" /\ Fits(d) => Listing(d, names[d], subdirs[d])

Listings == late \/ \A d \in Dir : ListingTrue(d)

\* The walk may come to d.
Open(d) ==
    \A e \in PathTo[d] \ {Root} :
       /\ e \notin options.exclude_paths /\ ~OtherFilesystem(e)
       /\ IsLink(e) => options.follow_symlinks
       /\ options.follow_symlinks => Real(e) \notin Ancestors(Parent[e])

\* In a quiet tree the walk is where it may be, and has been wherever it could
\* go from what it has handled.
VisitTrue(d) ==
    /\ at[d] # "unseen" => Open(d) /\ Reachable(d) /\ Fits(d)
    /\ Busy(d) => /\ names[d] \subseteq NamesIn(d) /\ subdirs[d] \subseteq Listed(d)
                  /\ d \notin missed => names[d] = NamesIn(d) /\ subdirs[d] = Listed(d)
                  /\ \A e \in subdirs[d] \ todo[d] :
                        at[e] # "unseen" \/ ~Enters(d, e) \/ e \in missed

\* What it has found of a file it has handled is what it is to find, or nothing
\* when it could not be read.
FoundTrue(d, n) ==
    LET here == {f \in found : f[1] = d /\ f[2] = n}
    IN  /\ here \subseteq Candidates(d, n) /\ (n \notin Handled(d) => here = {})
        /\ n \in Handled(d) /\ d \notin missed => Candidates(d, n) \subseteq here

Quiet == quiet /\ ~late /\ pc # "idle"

Visits == Quiet => /\ \A d \in Dir : VisitTrue(d)
                   /\ \A d \in Dir, n \in Name : FoundTrue(d, n)

\* The sizes on record of a directory that has been healed are exact.
SizesTrue(sizes, d) ==
    \A n \in Name : sizes[n] # NoFile => sizes[n] = SizeAt(d, n)

HealedTrue(d) ==
    /\ index[d] # NoFile /\ index[d].mtime = modified[Real(d)] => SizesTrue(index[d].sizes, d)
    /\ recorded[d] # NoFile /\ Fits(d) => SizesTrue(recorded[d].sizes, d)
    /\ at[d] = "listed" \/ d \in Waiting =>
          (fresh[d] # NoFile /\ Fits(d) => SizesTrue(fresh[d], d))

Healed == late \/ \A d \in healed : HealedTrue(d)

\* A complete rescan of a quiet tree reads every size it can from the disk, and
\* its records get into the index.
RescanTrue(d) ==
    d \notin missed =>
       /\ Busy(d) => /\ recorded[d] = NoFile /\ fresh[d] # NoFile
                     /\ SizesTrue(fresh[d], d)
       /\ at[d] = "visited" /\ index[d] # NoFile /\ index[d].mtime = modified[Real(d)] =>
             d \in Waiting \/ SizesTrue(index[d].sizes, d)

Rescans ==
    Quiet /\ options.rescan_all =>
       /\ \A d \in Dir : recorded[d] = NoFile
       /\ options.exclude_paths = {} /\ ~lost => \A d \in Dir : RescanTrue(d)
-----------------------------------------------------------------------------
(* The tree.                                                               *)

\* The path of a directory is the path of its parent and itself.
LEMMA PathFacts ==
  ASSUME NEW d \in Dir
  PROVE  /\ PathTo[d] \subseteq Dir /\ d \in PathTo[d] /\ Root \in PathTo[d]
         /\ d # Root => PathTo[d] = {d} \cup PathTo[Parent[d]]
         /\ PathTo[Root] = {Root}
<1> DEFINE Closed(D) == \A x \in D \ {Root} : Parent[x] \in D
<1>0. Root \in Dir /\ \A x \in Dir \ {Root} : Parent[x] \in Dir
  BY TreeAssumption
<1>1. \A x \in Dir : PathTo[x] = {e \in Dir : \A D \in SUBSET Dir : x \in D /\ Closed(D) => e \in D}
  BY DEF PathTo
<1>2. PathTo[d] \subseteq Dir /\ d \in PathTo[d]
  BY ONLY <1>1, d \in Dir
<1>3. ASSUME NEW D \in SUBSET Dir, d \in D, Closed(D) PROVE Root \in D
  <2>1. PICK e \in D : e = Root \/ Parent[e] \notin D
    BY <1>3, TreeAssumption
  <2> QED
    BY <1>3, <2>1
<1>4. Root \in PathTo[d]
  <2> HIDE DEF Closed
  <2> QED
    BY ONLY <1>0, <1>1, <1>3, d \in Dir
<1>5. ASSUME d # Root PROVE PathTo[d] = {d} \cup PathTo[Parent[d]]
  <2>1. Parent[d] \in Dir
    BY <1>0, <1>5
  <2>2. ASSUME NEW e \in PathTo[d], e # d PROVE e \in PathTo[Parent[d]]
    <3>1. e \in Dir
      BY <1>2
    <3>2. ASSUME NEW D \in SUBSET Dir, Parent[d] \in D, Closed(D) PROVE e \in D
      <4>1. D \cup {d} \in SUBSET Dir /\ d \in D \cup {d} /\ Closed(D \cup {d})
        BY ONLY <3>2, d \in Dir
      <4>2. e \in D \cup {d}
        <5> HIDE DEF Closed
        <5> QED
          BY ONLY <1>1, <2>2, <4>1, d \in Dir
      <4> QED
        BY ONLY <2>2, <4>2
    <3> HIDE DEF Closed
    <3> QED
      BY ONLY <1>1, <2>1, <3>1, <3>2
  <2>3. ASSUME NEW e \in PathTo[Parent[d]] PROVE e \in PathTo[d]
    <3>1. e \in Dir
      BY ONLY <1>1, <2>1, <2>3
    <3>2. ASSUME NEW D \in SUBSET Dir, d \in D, Closed(D) PROVE e \in D
      <4>1. Parent[d] \in D
        BY ONLY <1>5, <3>2
      <4> HIDE DEF Closed
      <4> QED
        BY ONLY <1>1, <2>1, <2>3, <3>2, <4>1
    <3> HIDE DEF Closed
    <3> QED
      BY ONLY <1>1, <3>1, <3>2, d \in Dir
  <2> QED
    BY <1>2, <2>2, <2>3
<1>6. PathTo[Root] = {Root}
  <2>1. {Root} \in SUBSET Dir /\ Root \in {Root} /\ Closed({Root})
    BY ONLY <1>0
  <2>2. ASSUME NEW e \in PathTo[Root] PROVE e = Root
    <3> HIDE DEF Closed
    <3> QED
      BY ONLY <1>0, <1>1, <2>1, <2>2
  <2>3. Root \in PathTo[Root]
    BY ONLY <1>0, <1>1
  <2> QED
    BY ONLY <2>2, <2>3
<1> QED
  BY <1>2, <1>4, <1>5, <1>6

\* Paths lead to directories, and the entries of a directory are in the one it is.
LEMMA SetupFacts ==
  ASSUME TypeOK
  PROVE  /\ \A d \in Dir : Real(d) \in Dir /\ Entry(d) \in Dir
         /\ Real(Root) = Root /\ Entry(Root) = Root
         /\ \A d \in Setups[setup].paths \ {Root} : Parent[Entry(d)] = Real(Parent[d])
         /\ \A d \in Dir : Entry(d) \in Setups[setup].paths => d \in Setups[setup].paths
         /\ \A o \in Setups[setup].options :
               /\ DOMAIN o = DOMAIN NoOptions /\ o.min_size \in Nat
               /\ o.rescan_all \in BOOLEAN /\ o.follow_symlinks \in BOOLEAN
               /\ Root \notin o.exclude_paths
         /\ Setups[setup].paths \subseteq Dir /\ Root \in Setups[setup].paths
<1>1. setup \in DOMAIN Setups
  BY DEF TypeOK
<1> QED
  BY <1>1, SetupAssumption DEF Real, Entry
-----------------------------------------------------------------------------
(* Types.                                                                  *)

TreeType ==
    /\ now \in 0..MaxTime /\ modified \in [Dir -> 0..MaxTime]
    /\ setup \in DOMAIN Setups /\ present \subseteq Setups[setup].paths
    /\ file \in [Dir \X Name -> Content \cup {NoFile}]

TaskType ==
    /\ at \in [Dir -> {"unseen", "entered", "listed", "visited"}]
    /\ mtime \in [Dir -> 0..MaxTime]
    /\ recorded \in [Dir -> Record \cup {NoFile}]
    /\ names \in [Dir -> SUBSET Name] /\ subdirs \in [Dir -> SUBSET Dir]
    /\ todo \in [Dir -> SUBSET (Name \cup Dir)]
    /\ fresh \in [Dir -> Sizes \cup {NoFile}] /\ missed \subseteq Dir

ScanType ==
    /\ index \in [Dir -> Record \cup {NoFile}]
    /\ pc \in {"idle", "walking", "finishing", "hashing"}
    /\ options \in Setups[setup].options \cup {NoOptions}
    /\ reported \subseteq SUBSET (Dir \X Name)
    /\ found \subseteq Dir \X Name \X {Size[c] : c \in Content}

HistoryType ==
    /\ {late, quiet, lost} \subseteq BOOLEAN /\ {healed, partial} \subseteq SUBSET Dir
    /\ walks \in 0..MaxWalks /\ env \in 0..EnvSteps

QueueType ==
    /\ queue \subseteq Dir /\ batch \subseteq Dir
    /\ Cardinality(queue) <= QueueLimit
    /\ pc = "idle" => queue \cup batch = {}
    /\ \A d \in queue \cup batch : at[d] = "visited" /\ fresh[d] # NoFile

LEMMA TypeParts ==
  TypeOK <=> TreeType /\ TaskType /\ ScanType /\ HistoryType /\ QueueType
BY DEF TypeOK, TreeType, TaskType, ScanType, HistoryType, QueueType

\* The size of a file is a number, read or recorded.
LEMMA StatTypes ==
  ASSUME TypeOK, NEW d \in Dir, NEW n \in Name
  PROVE  /\ Stat(d, n) \in {Size[c] : c \in Content} \cup {NoFile}
         /\ SizeAt(d, n) \in {Size[c] : c \in Content} \cup {NoFile}
         /\ At(<<d, n>>) \in Content \cup {NoFile}
<1>1. Real(d) \in Dir
  BY SetupFacts
<1>2. At(<<d, n>>) \in Content \cup {NoFile}
  BY <1>1 DEF At, TypeOK
<1>3. recorded[d] # NoFile => recorded[d].sizes[n] \in {Size[c] : c \in Content} \cup {NoFile}
  BY DEF TypeOK, Record, Sizes
<1> QED
  BY <1>2, <1>3 DEF Stat, Reused, SizeAt, Exists

LEMMA SizesAreNumbers ==
  /\ {Size[c] : c \in Content} \subseteq Nat /\ NoFile \notin {Size[c] : c \in Content}
  /\ NoFile \notin Content /\ NoFile \notin Nat
BY TreeAssumption

LEMMA NoSizesType == NoSizes \in Sizes /\ NoSizes # NoFile /\ NamesOf(NoSizes) = {}
<1>1. NoSizes \in Sizes
  BY DEF NoSizes, Sizes
<1> QED
  BY <1>1, RecordAssumption DEF NoSizes, NamesOf

LEMMA TypeInit == Init => TypeOK
<1> SUFFICES ASSUME Init PROVE TypeOK
  OBVIOUS
<1>1. TreeType
  BY BoundAssumption DEF Init, TreeType, ForAllDirs
<1>2. TaskType
  <2>1. NoSizes \in Sizes
    BY NoSizesType
  <2> QED
    BY <2>1, BoundAssumption DEF Init, TaskType, ForAllDirs
<1>3. ScanType
  BY DEF Init, ScanType, ForAllDirs
<1>4. HistoryType
  BY SetupAssumption DEF Init, HistoryType
<1>5. QueueType
  <2>1. Cardinality({}) = 0
    BY FS_EmptySet
  <2> QED
    BY <2>1, BoundAssumption DEF Init, QueueType
<1> QED
  BY <1>1, <1>2, <1>3, <1>4, <1>5, TypeParts

\* The ways to list a directory, and what each of them sees.
LEMMA ListShape ==
  ASSUME TypeOK, NEW d \in Dir, List(d)
  PROVE  /\ at[d] = "entered"
         /\ UNCHANGED <<tree, index, pc, options, mtime, fresh, queue, batch, found, reported,
                        history>>
         /\ missed' \in {missed, missed \cup {d}}
         /\ \/ /\ at' = [at EXCEPT ![d] = "visited"] /\ d \in missed'
               /\ UNCHANGED <<recorded, names, subdirs, todo>>
            \/ \E listedNames \in SUBSET Name, listedDirs \in SUBSET Dir :
                  /\ Lists(d, listedNames, listedDirs)
                  /\ Reusable(Lookup(d)) => /\ listedNames = NamesOf(Lookup(d).sizes)
                                            /\ listedDirs = Lookup(d).subdirs
                                            /\ d \in partial => d \in missed'
                  /\ ~Reusable(Lookup(d)) =>
                        /\ listedNames \subseteq NamesIn(d) /\ listedDirs \subseteq Listed(d)
                        /\ d \notin missed' => listedNames = NamesIn(d) /\ listedDirs = Listed(d)
<1>0. /\ at[d] = "entered"
      /\ UNCHANGED <<tree, index, pc, options, mtime, fresh, queue, batch, found, reported,
                     history>>
  BY ONLY List(d) DEF List
<1>1. CASE ListRecord(d)
  <2>1. NamesOf(Lookup(d).sizes) \in SUBSET Name /\ Lookup(d).subdirs \in SUBSET Dir
    <3>1. Lookup(d) \in Record /\ Lookup(d).subdirs # NoFile
      BY <1>1 DEF ListRecord, Reusable, Lookup, TypeOK
    <3> QED
      BY <3>1 DEF Record, NamesOf
  <2>2. /\ Lists(d, NamesOf(Lookup(d).sizes), Lookup(d).subdirs) /\ Reusable(Lookup(d))
        /\ missed' = missed \cup ({d} \cap partial)
    BY ONLY <1>1 DEF ListRecord, NamesOf
  <2>3. missed' \in {missed, missed \cup {d}} /\ (d \in partial => d \in missed')
    BY <2>2
  <2> HIDE DEF Lists
  <2> QED
    BY ONLY <1>0, <2>1, <2>2, <2>3
<1>2. CASE ListDisk(d)
  <2>1. PICK unread \in SUBSET ({n \in NamesIn(d) : <<d, n>> \in Failing} \cup
                                (Listed(d) \cap Failing)) :
           /\ Lists(d, NamesIn(d) \ unread, Listed(d) \ unread)
           /\ missed' = IF unread = {} THEN missed ELSE missed \cup {d}
    BY ONLY <1>2 DEF ListDisk
  <2>2. ~Reusable(Lookup(d))
    BY <1>2 DEF ListDisk
  <2>3. NamesIn(d) \ unread \in SUBSET Name /\ Listed(d) \ unread \in SUBSET Dir
    BY SetupFacts DEF NamesIn, Listed, EntriesOf, SubdirsOf
  <2>4. /\ missed' \in {missed, missed \cup {d}}
        /\ d \notin missed' => NamesIn(d) \ unread = NamesIn(d) /\ Listed(d) \ unread = Listed(d)
    BY ONLY <2>1
  <2>5. NamesIn(d) \ unread \subseteq NamesIn(d) /\ Listed(d) \ unread \subseteq Listed(d)
    OBVIOUS
  <2> QED
    BY ONLY <1>0, <2>1, <2>2, <2>3, <2>4, <2>5
<1>3. CASE ListFails(d)
  BY ONLY <1>0, <1>3 DEF ListFails
<1> QED
  BY ONLY <1>1, <1>2, <1>3, List(d) DEF List

LEMMA TypeStep == ASSUME TypeOK, Tasks, [Next]_vars PROVE TypeOK'
<1>0. TreeType /\ TaskType /\ ScanType /\ HistoryType /\ QueueType
  BY TypeParts
<1>01. \A d \in Dir : Real(d) \in Dir
  BY SetupFacts
<1> SUFFICES TreeType' /\ TaskType' /\ ScanType' /\ HistoryType' /\ QueueType'
  <2>1. ASSUME TreeType' /\ TaskType' /\ ScanType' /\ HistoryType' /\ QueueType' PROVE TypeOK'
    BY ONLY <2>1, Zenon DEF TypeOK, TreeType, TaskType, ScanType, HistoryType, QueueType
  <2> QED
    BY <2>1
<1> USE DEF tree, task, history
<1>1. CASE Start
  <2>1. TreeType'
    BY <1>0, <1>1 DEF Start, TreeType
  <2>2. TaskType'
    BY <1>0, <1>1, TreeAssumption DEF Start, TaskType, TreeType
  <2>3. ScanType'
    BY <1>0, <1>1 DEF Start, ScanType
  <2>4. HistoryType'
    <3>1. walks' \in 0..MaxWalks /\ partial' \subseteq Dir
      BY <1>0, <1>1, BoundAssumption DEF Start, HistoryType
    <3>2. {late', quiet', lost'} \subseteq BOOLEAN
      BY <1>0, <1>1, Zenon DEF Start, HistoryType
    <3>3. healed' \subseteq Dir /\ env' \in 0..EnvSteps
      BY <1>0, <1>1 DEF Start, HistoryType
    <3> QED
      BY <3>1, <3>2, <3>3 DEF HistoryType
  <2>5. QueueType'
    BY <1>0, <1>1 DEF Start, QueueType
  <2> QED
    BY <2>1, <2>2, <2>3, <2>4, <2>5
<1>2. ASSUME NEW d \in Dir, List(d) PROVE TreeType' /\ TaskType' /\ ScanType' /\ HistoryType' /\ QueueType'
  <2>0. /\ at[d] = "entered" /\ missed' \in {missed, missed \cup {d}}
        /\ UNCHANGED <<tree, index, pc, options, mtime, fresh, queue, batch, found, reported, history>>
    BY <1>2, ListShape
  <2>1. Lookup(d) \in Record \cup {NoFile}
    BY <1>0 DEF Lookup, ScanType
  <2>3. TaskType'
    <3>1. CASE at' = [at EXCEPT ![d] = "visited"] /\ UNCHANGED <<recorded, names, subdirs, todo>>
      BY <1>0, <2>0, <3>1 DEF TaskType
    <3>2. ASSUME NEW listedNames \in SUBSET Name, NEW listedDirs \in SUBSET Dir,
                 Lists(d, listedNames, listedDirs)
          PROVE  TaskType'
      BY <1>0, <2>0, <2>1, <3>2 DEF Lists, TaskType
    <3> QED
      BY <1>2, <3>1, <3>2, ListShape
  <2>4. at[d] = "entered" /\ \A e \in Dir : e # d => at'[e] = at[e]
    BY <1>0, <1>2, <2>0, ListShape DEF Lists, TaskType
  <2>5. QueueType'
    BY <1>0, <2>0, <2>4 DEF QueueType
  <2>6. TreeType' /\ ScanType' /\ HistoryType'
    BY <1>0, <2>0 DEF TreeType, ScanType, HistoryType
  <2> QED
    BY <2>3, <2>5, <2>6
<1>3. ASSUME NEW d \in Dir, NEW n \in Name, StatFile(d, n)
      PROVE  TreeType' /\ TaskType' /\ ScanType' /\ HistoryType' /\ QueueType'
  <2>0. /\ at[d] = "listed" /\ todo' = [todo EXCEPT ![d] = @ \ {n}]
        /\ fresh' = [fresh EXCEPT ![d] = Collect(d, n)]
        /\ found' = found \cup Candidates(d, n)
        /\ UNCHANGED <<tree, index, pc, options, at, mtime, recorded, names,
                       subdirs, missed, queue, batch, reported, history>>
    BY ONLY <1>3 DEF StatFile
  <2>1. Collect(d, n) \in Sizes \cup {NoFile}
    <3>1. fresh[d] \in Sizes \cup {NoFile}
      BY <1>0 DEF TaskType
    <3> QED
      BY <3>1, StatTypes DEF Collect, Sizes
  <2>2. Candidates(d, n) \subseteq Dir \X Name \X {Size[c] : c \in Content}
    BY StatTypes DEF Candidates
  <2>3. TaskType'
    BY <1>0, <2>0, <2>1 DEF TaskType
  <2>4. ScanType'
    BY <1>0, <2>0, <2>2 DEF ScanType
  <2>5. QueueType'
    <3>1. d \notin queue \cup batch
      BY <1>0, <2>0 DEF QueueType
    <3>2. \A e \in Dir : e # d => fresh'[e] = fresh[e]
      BY <1>0, <2>0 DEF TaskType
    <3> QED
      BY <1>0, <2>0, <3>1, <3>2 DEF QueueType
  <2>6. TreeType' /\ HistoryType'
    BY <1>0, <2>0 DEF TreeType, HistoryType
  <2> QED
    BY <2>3, <2>4, <2>5, <2>6
<1>4. ASSUME NEW d \in Dir, NEW e \in Dir, Enter(d, e)
      PROVE  TreeType' /\ TaskType' /\ ScanType' /\ HistoryType' /\ QueueType'
  <2>0. /\ at[d] = "listed" /\ e \in todo[d] /\ todo[d] \cap Name = {}
        /\ todo' = [todo EXCEPT ![d] = @ \ {e}]
        /\ \/ UNCHANGED <<at, mtime>>
           \/ /\ at' = [at EXCEPT ![e] = "entered"]
              /\ mtime' = [mtime EXCEPT ![e] = modified[Real(e)]]
        /\ UNCHANGED <<tree, index, pc, options, recorded, names, subdirs,
                       fresh, missed, queue, batch, found, reported, history>>
    BY ONLY <1>4 DEF Enter
  <2>1. at[e] = "unseen"
    <3>1. e \in Children(d)
      BY <2>0 DEF Tasks, TaskOK, Children, TypeOK
    <3> QED
      BY <2>0, <3>1 DEF Tasks, TaskOK, Children, TypeOK
  <2>2. modified[Real(e)] \in 0..MaxTime
    BY <1>0, <1>01 DEF TreeType
  <2>3. TaskType'
    BY <1>0, <2>0, <2>2 DEF TaskType
  <2>4. QueueType'
    BY <1>0, <2>0, <2>1 DEF QueueType, TaskType
  <2>5. TreeType' /\ ScanType' /\ HistoryType'
    BY <1>0, <2>0 DEF TreeType, ScanType, HistoryType
  <2> QED
    BY <2>3, <2>4, <2>5
<1>5. ASSUME NEW d \in Dir, FinishVisit(d)
      PROVE  TreeType' /\ TaskType' /\ ScanType' /\ HistoryType' /\ QueueType'
  <2>0. /\ at[d] = "listed" /\ at' = [at EXCEPT ![d] = "visited"]
        /\ \/ UNCHANGED queue
           \/ /\ Recordable(d) /\ Cardinality(queue) < QueueLimit
              /\ queue' = queue \cup {d}
        /\ UNCHANGED <<tree, index, pc, options, mtime, recorded, names,
                       subdirs, todo, fresh, missed, batch, found, reported, history>>
    BY ONLY <1>5 DEF FinishVisit
  <2>1. Cardinality(queue') <= QueueLimit
    <3>1. IsFiniteSet(queue)
      BY <1>0, FS_Subset, TreeAssumption DEF QueueType
    <3>2. Cardinality(queue) \in Nat /\ Cardinality(queue \cup {d}) <= Cardinality(queue) + 1
      BY <3>1, FS_CardinalityType, FS_AddElement
    <3>3. IsFiniteSet(queue \cup {d})
      BY <3>1, FS_AddElement
    <3>4. Cardinality(queue \cup {d}) \in Nat
      BY <3>3, FS_CardinalityType
    <3> QED
      BY <1>0, <2>0, <3>2, <3>4, BoundAssumption DEF QueueType
  <2>2. pc # "idle"
    BY <2>0 DEF Tasks, NoTasks
  <2>3. queue' \subseteq Dir
    BY <1>0, <2>0 DEF QueueType
  <2>4. at'[d] = "visited" /\ \A e \in Dir : at[e] = "visited" => at'[e] = "visited"
    BY <1>0, <2>0 DEF TaskType
  <2>5. \A e \in queue' \cup batch' : at'[e] = "visited" /\ fresh'[e] # NoFile
    BY <1>0, <2>0, <2>4 DEF QueueType, Recordable
  <2>6. QueueType'
    BY <1>0, <2>0, <2>1, <2>2, <2>3, <2>5 DEF QueueType
  <2>7. TaskType'
    BY <1>0, <2>0 DEF TaskType
  <2>8. TreeType' /\ ScanType' /\ HistoryType'
    BY <1>0, <2>0 DEF TreeType, ScanType, HistoryType
  <2> QED
    BY <2>6, <2>7, <2>8
<1>6. ASSUME NEW d \in Dir, Receive(d)
      PROVE  TreeType' /\ TaskType' /\ ScanType' /\ HistoryType' /\ QueueType'
  <2>0. /\ d \in queue /\ queue' = queue \ {d} /\ batch' = batch \cup {d}
        /\ UNCHANGED <<tree, index, pc, options, task, found, reported, history>>
    BY ONLY <1>6 DEF Receive
  <2>1. Cardinality(queue') <= QueueLimit
    <3>1. IsFiniteSet(queue)
      BY <1>0, FS_Subset, TreeAssumption DEF QueueType
    <3>2. Cardinality(queue \ {d}) <= Cardinality(queue) /\ Cardinality(queue) \in Nat
          /\ Cardinality(queue \ {d}) \in Nat
      <4>1. queue \ {d} \subseteq queue
        OBVIOUS
      <4> QED
        BY <3>1, <4>1, FS_Subset, FS_CardinalityType
    <3> QED
      BY <1>0, <2>0, <3>2, BoundAssumption DEF QueueType
  <2>2. QueueType'
    BY <1>0, <2>0, <2>1 DEF QueueType
  <2>3. TreeType' /\ TaskType' /\ ScanType' /\ HistoryType'
    BY <1>0, <2>0 DEF TreeType, TaskType, ScanType, HistoryType
  <2> QED
    BY <2>2, <2>3
<1>7. CASE Commit
  <2>0. /\ index' \in {Committed, index} /\ lost' \in BOOLEAN /\ batch' = {}
        /\ partial' \in {Partial, partial}
        /\ UNCHANGED <<tree, pc, options, task, queue, found, reported, late,
                       quiet, healed, walks, env>>
    BY <1>0, <1>7 DEF Commit, HistoryType
  <2>1. \A d \in batch : NewRecord(d) \in Record
    <3> SUFFICES ASSUME NEW d \in batch PROVE NewRecord(d) \in Record
      OBVIOUS
    <3>1. mtime[d] \in 0..MaxTime /\ fresh[d] \in Sizes /\ subdirs[d] \in SUBSET Dir
      BY <1>0 DEF QueueType, TaskType
    <3> QED
      BY <3>1 DEF NewRecord, Record
  <2>2. Committed \in [Dir -> Record \cup {NoFile}]
    BY <1>0, <2>1 DEF Committed, ScanType
  <2>3. ScanType'
    BY <1>0, <2>0, <2>2 DEF ScanType
  <2>4. QueueType' /\ HistoryType'
    BY <1>0, <2>0 DEF QueueType, HistoryType, TaskType, Partial
  <2>5. TreeType' /\ TaskType'
    BY <1>0, <2>0 DEF TreeType, TaskType
  <2> QED
    BY <2>3, <2>4, <2>5
<1>8. CASE FinishWalk \/ JoinWriter
  <2>1. TreeType' /\ TaskType'
    BY <1>0, <1>8 DEF FinishWalk, JoinWriter, TreeType, TaskType
  <2>2. ScanType' /\ QueueType'
    BY <1>0, <1>8 DEF FinishWalk, JoinWriter, ScanType, QueueType
  <2>3. HistoryType'
    BY <1>0, <1>8 DEF FinishWalk, JoinWriter, HistoryType
  <2> QED
    BY <2>1, <2>2, <2>3
<1>9. CASE Hash \/ Kill
  <2>0. DropTasks /\ UNCHANGED <<tree, index, history>> /\ pc' = "idle"
    BY <1>9 DEF Hash, Kill
  <2>1. queue' = {} /\ batch' = {}
    <3>1. CASE Kill
      BY <3>1 DEF Kill
    <3>2. CASE Hash
      BY <3>2 DEF Hash, Tasks, Waiting
    <3> QED
      BY <1>9, <3>1, <3>2
  <2>2. TaskType'
    <3>1. NoSizes \in Sizes /\ 0 \in 0..MaxTime
      BY NoSizesType, BoundAssumption
    <3> QED
      BY <2>0, <3>1 DEF DropTasks, TaskType, ForAllDirs
  <2>3. reported' \subseteq SUBSET (Dir \X Name)
    <3>1. CASE Kill
      BY <3>1 DEF Kill
    <3>2. CASE Hash
      <4>1. \A z : OfSize(z) \subseteq Dir \X Name
        BY <1>0 DEF OfSize, ScanType
      <4>2. \A z : UNION GroupsOfSize(z) \subseteq Dir \X Name
        BY <4>1 DEF GroupsOfSize
      <4> QED
        BY <3>2, <4>2 DEF Hash
    <3> QED
      BY <1>9, <3>1, <3>2
  <2>4. ScanType'
    BY <1>0, <2>0, <2>3 DEF ScanType, DropTasks
  <2>5. QueueType'
    <3>1. Cardinality({}) = 0
      BY FS_EmptySet
    <3> QED
      BY <2>0, <2>1, <3>1, BoundAssumption DEF QueueType
  <2>6. TreeType' /\ HistoryType'
    BY <1>0, <2>0 DEF TreeType, HistoryType
  <2> QED
    BY <2>2, <2>4, <2>5, <2>6
<1>10. CASE Tick
  <2>1. TreeType'
    BY <1>0, <1>10, BoundAssumption DEF Tick, TreeType
  <2>2. TaskType' /\ ScanType' /\ HistoryType' /\ QueueType'
    BY <1>0, <1>10 DEF Tick, TaskType, ScanType, HistoryType, QueueType
  <2> QED
    BY <2>1, <2>2
<1>11. CASE Environment
  <2>0. /\ env' \in 0..EnvSteps /\ quiet' = FALSE
        /\ UNCHANGED <<now, setup, index, pc, options, task, queue, batch, found,
                       reported, lost, partial, walks>>
    BY <1>0, <1>11, BoundAssumption DEF Environment, Outside, HistoryType
  <2>1. /\ modified' \in [Dir -> 0..MaxTime] /\ present' \subseteq Setups[setup].paths
        /\ file' \in [Dir \X Name -> Content \cup {NoFile}]
        /\ late' \in BOOLEAN /\ healed' \subseteq Dir
    <3>1. \A d \in Dir : Touched(d) => modified' \in [Dir -> 0..MaxTime] /\ late' \in BOOLEAN
      BY <1>0 DEF Touched, TreeType, HistoryType
    <3>2. ASSUME NEW d \in Dir, MoveDir(d)
          PROVE  /\ modified' \in [Dir -> 0..MaxTime] /\ present' \subseteq Setups[setup].paths
                 /\ file' = file /\ late' \in BOOLEAN /\ healed' = healed
      <4>1. Parent[d] \in Dir
        BY <3>2, TreeAssumption DEF MoveDir
      <4> QED
        BY <1>0, <3>1, <3>2, <4>1 DEF MoveDir, TreeType
    <3>3. ASSUME NEW d \in Dir, NEW n \in Name, CreateOrRemove(d, n)
          PROVE  /\ modified' \in [Dir -> 0..MaxTime] /\ present' = present
                 /\ file' \in [Dir \X Name -> Content \cup {NoFile}]
                 /\ late' \in BOOLEAN /\ healed' = healed
      BY <1>0, <3>1, <3>3 DEF CreateOrRemove, TreeType
    <3>4. ASSUME NEW d \in Dir, NEW n \in Name, Rewrite(d, n)
          PROVE  /\ modified' = modified /\ present' = present
                 /\ file' \in [Dir \X Name -> Content \cup {NoFile}]
                 /\ late' = late /\ healed' \subseteq healed
      BY <1>0, <3>4 DEF Rewrite, TreeType
    <3> QED
      BY <1>0, <1>11, <3>2, <3>3, <3>4 DEF Environment, TreeType, HistoryType
  <2>2. TreeType' /\ HistoryType'
    BY <1>0, <2>0, <2>1 DEF TreeType, HistoryType
  <2>3. TaskType' /\ ScanType' /\ QueueType'
    BY <1>0, <2>0 DEF TaskType, ScanType, QueueType
  <2> QED
    BY <2>2, <2>3
<1>12. CASE UNCHANGED vars
  BY <1>0, <1>12 DEF vars, TreeType, TaskType, ScanType, HistoryType, QueueType
<1>13. ASSUME NEW d \in Dir, NEW n \in Name, StatFails(d, n)
       PROVE  TreeType' /\ TaskType' /\ ScanType' /\ HistoryType' /\ QueueType'
  <2>0. /\ at[d] = "listed" /\ todo' = [todo EXCEPT ![d] = @ \ {n}]
        /\ fresh' = [fresh EXCEPT ![d] = NoFile] /\ missed' = missed \cup {d}
        /\ UNCHANGED <<tree, index, pc, options, at, mtime, recorded, names,
                       subdirs, queue, batch, found, reported, history>>
    BY ONLY <1>13 DEF StatFails
  <2>1. TaskType'
    BY <1>0, <2>0 DEF TaskType
  <2>2. d \notin queue \cup batch /\ \A e \in Dir : e # d => fresh'[e] = fresh[e]
    BY <1>0, <2>0 DEF QueueType, TaskType
  <2>3. QueueType'
    BY <1>0, <2>0, <2>2 DEF QueueType
  <2>4. TreeType' /\ ScanType' /\ HistoryType'
    BY <1>0, <2>0 DEF TreeType, ScanType, HistoryType
  <2> QED
    BY <2>1, <2>3, <2>4
<1>14. ASSUME NEW d \in Dir, NEW e \in Dir, EnterFails(d, e)
       PROVE  TreeType' /\ TaskType' /\ ScanType' /\ HistoryType' /\ QueueType'
  BY <1>0, <1>14 DEF EnterFails, TreeType, TaskType, ScanType, HistoryType, QueueType
<1> QED
  BY <1>1, <1>2, <1>3, <1>4, <1>5, <1>6, <1>7, <1>8, <1>9, <1>10, <1>11, <1>12, <1>13, <1>14
     DEF Next, Walk, Writer, Visit
-----------------------------------------------------------------------------
(* The tasks.                                                              *)

LEMMA ListedChildren ==
  ASSUME TypeOK, NEW d \in Dir PROVE Listed(d) \subseteq Children(d) /\ SubdirsOf(d) \subseteq Children(d)
BY SetupFacts DEF Listed, SubdirsOf, EntriesOf, Children

\* What is in no task's hands.
LEMMA BlankTask ==
  ASSUME NEW d \in Dir,
         at[d] \in {"unseen", "entered"}, d # Root => at[d] = "unseen",
         recorded[d] = NoFile, names[d] = {}, subdirs[d] = {}, todo[d] = {}, fresh[d] = NoSizes,
         index[d] # NoFile /\ index[d].subdirs # NoFile => index[d].subdirs \subseteq Children(d)
  PROVE  TaskOK(d)
BY NoSizesType DEF TaskOK, Handled

LEMMA TasksInit == Init => Tasks
<1> SUFFICES ASSUME Init PROVE Tasks
  OBVIOUS
<1>1. NoTasks
  BY DEF Init, NoTasks, Waiting, ForAllDirs
<1>2. ASSUME NEW d \in Dir PROVE TaskOK(d)
  <2>1. index[d] = NoFile
    BY DEF Init, ForAllDirs
  <2> QED
    BY <1>1, <2>1, BlankTask DEF NoTasks
<1>3. Root \in present
  BY TypeInit, SetupFacts DEF Init, Entry
<1> QED
  BY <1>1, <1>2, <1>3 DEF Tasks, Init

LEMMA TasksStep == ASSUME TypeOK, TypeOK', Tasks, [Next]_vars PROVE Tasks'
<1>0. /\ \A d \in Dir : TaskOK(d)
      /\ Root \in Dir /\ \A d \in Dir \ {Root} : Parent[d] \in Dir
  BY TreeAssumption DEF Tasks
<1>01. TaskType /\ ScanType
  BY TypeParts
<1> USE DEF tree, task, history
<1>1. CASE Start
  <2>1. NoTasks
    BY <1>1 DEF Start, Tasks
  <2>2. /\ at'[Root] = "entered" /\ \A d \in Dir \ {Root} : at'[d] = "unseen"
        /\ UNCHANGED <<index, recorded, names, subdirs, todo, fresh, present, setup>>
        /\ pc' = "walking" /\ options' \in Setups[setup].options
    BY <1>0, <1>01, <1>1, <2>1 DEF Start, NoTasks, TaskType
  <2>3. ASSUME NEW d \in Dir PROVE TaskOK(d)'
    <3>1. index[d] # NoFile /\ index[d].subdirs # NoFile => index[d].subdirs \subseteq Children(d)
      BY <1>0 DEF TaskOK
    <3>2. /\ at'[d] \in {"unseen", "entered"} /\ (d # Root => at'[d] = "unseen")
          /\ recorded'[d] = NoFile /\ names'[d] = {} /\ subdirs'[d] = {} /\ todo'[d] = {}
          /\ fresh'[d] = NoSizes /\ index'[d] = index[d]
      BY <2>1, <2>2 DEF NoTasks
    <3> QED
      BY <3>1, <3>2, NoSizesType DEF TaskOK, Handled
  <2> QED
    BY <2>2, <2>3 DEF Tasks
<1>2. ASSUME NEW d \in Dir, List(d) PROVE Tasks'
  <2>0. /\ at[d] = "entered"
        /\ UNCHANGED <<tree, index, pc, options, mtime, fresh, queue, batch, found, reported,
                       history>>
    BY <1>2, ListShape
  <2>1. Lookup(d) # NoFile =>
          /\ Lookup(d).mtime = mtime[d]
          /\ Lookup(d).subdirs # NoFile => Lookup(d).subdirs \subseteq Children(d)
    BY <1>0 DEF TaskOK, Lookup
  <2>2. \/ /\ at' = [at EXCEPT ![d] = "visited"]
           /\ UNCHANGED <<recorded, names, subdirs, todo>>
        \/ \E listedNames \in SUBSET Name, listedDirs \in SUBSET Children(d) :
              Lists(d, listedNames, listedDirs)
    <3>1. Reusable(Lookup(d)) => Lookup(d).subdirs \subseteq Children(d)
      BY <2>1 DEF Reusable
    <3>2. Listed(d) \subseteq Children(d)
      BY ListedChildren
    <3> QED
      BY <1>2, <3>1, <3>2, ListShape
  <2>3. /\ at'[d] \in {"listed", "visited"}
        /\ \A e \in Dir \ {d} :
             /\ at'[e] = at[e] /\ recorded'[e] = recorded[e] /\ names'[e] = names[e]
             /\ subdirs'[e] = subdirs[e] /\ todo'[e] = todo[e]
    BY <1>01, <2>2 DEF Lists, TaskType
  <2>4. ASSUME NEW e \in Dir \ {d} PROVE TaskOK(e)'
    <3>1. TaskOK(e) /\ (e # Root => Parent[e] \in Dir)
      BY <1>0
    <3>2. at[e] # "unseen" /\ e # Root => Parent[e] # d
      BY <2>0, <3>1 DEF TaskOK, Busy
    <3>3. at[e] # "unseen" /\ e # Root => at'[Parent[e]] = at[Parent[e]] /\ todo'[Parent[e]] = todo[Parent[e]]
      BY <2>3, <3>1, <3>2
    <3> QED
      BY <2>0, <2>3, <3>1, <3>3 DEF TaskOK, Busy, Handled
  <2>5. TaskOK(d)'
    <3>0. TaskOK(d) /\ (d # Root => Parent[d] \in Dir)
      BY <1>0
    <3>1. d # Root => Busy(Parent[d])' /\ d \notin todo'[Parent[d]]
      <4>1. d # Root => Busy(Parent[d]) /\ d \notin todo[Parent[d]] /\ Parent[d] # d
        BY <2>0, <3>0 DEF TaskOK, Busy
      <4> QED
        BY <2>3, <3>0, <4>1 DEF Busy
    <3>2. /\ fresh'[d] = NoSizes /\ recorded[d] = NoFile /\ names[d] = {} /\ subdirs[d] = {}
          /\ todo[d] = {}
      BY <2>0, <3>0 DEF TaskOK
    <3>3. index'[d] # NoFile /\ index'[d].subdirs # NoFile => index'[d].subdirs \subseteq Children(d)
      BY <2>0, <3>0 DEF TaskOK
    <3>4. CASE at' = [at EXCEPT ![d] = "visited"] /\ UNCHANGED <<recorded, names, subdirs, todo>>
      <4>1. at'[d] = "visited"
        BY <1>01, <3>4 DEF TaskType
      <4> QED
        BY <3>1, <3>2, <3>3, <3>4, <4>1, NoSizesType DEF TaskOK, Handled
    <3>5. ASSUME NEW listedNames \in SUBSET Name, NEW listedDirs \in SUBSET Children(d),
                 Lists(d, listedNames, listedDirs)
          PROVE  TaskOK(d)'
      <4>1. /\ at'[d] = "listed" /\ recorded'[d] = Lookup(d) /\ names'[d] = listedNames
            /\ subdirs'[d] = listedDirs /\ todo'[d] = listedNames \cup listedDirs
            /\ mtime'[d] = mtime[d]
        BY <1>01, <2>0, <3>5 DEF Lists, TaskType
      <4> QED
        BY <2>1, <3>1, <3>2, <3>3, <4>1, NoSizesType DEF TaskOK, Handled
    <3> QED
      BY <2>2, <3>4, <3>5
  <2>6. pc = "walking"
    BY <2>0, <1>01 DEF Tasks, NoTasks, ScanType
  <2>7. at'[Root] # "unseen"
    BY <1>0, <2>3, <2>6 DEF Tasks
  <2> QED
    BY <2>0, <2>4, <2>5, <2>6, <2>7 DEF Tasks
<1>3. ASSUME NEW d \in Dir, NEW n \in Name, StatFile(d, n) PROVE Tasks'
  <2>0. /\ at[d] = "listed" /\ n \in todo[d] /\ todo' = [todo EXCEPT ![d] = @ \ {n}]
        /\ fresh' = [fresh EXCEPT ![d] = Collect(d, n)]
        /\ UNCHANGED <<tree, index, pc, options, at, mtime, recorded, names,
                       subdirs, queue, batch, reported, history>>
    BY ONLY <1>3 DEF StatFile
  <2>1. /\ todo'[d] = todo[d] \ {n} /\ fresh'[d] = Collect(d, n)
        /\ \A e \in Dir \ {d} : todo'[e] = todo[e] /\ fresh'[e] = fresh[e]
    BY <1>01, <2>0 DEF TaskType
  <2>2. \A e \in Dir : todo'[e] \subseteq todo[e]
    BY <2>1
  <2>3. ASSUME NEW e \in Dir \ {d} PROVE TaskOK(e)'
    <3>1. TaskOK(e) /\ (e # Root => Parent[e] \in Dir)
      BY <1>0
    <3> QED
      BY <2>0, <2>1, <2>2, <3>1 DEF TaskOK, Busy, Handled
  <2>4. fresh'[d] # NoFile => NamesOf(fresh'[d]) = names[d] \ todo'[d]
    <3>1. TaskOK(d)
      BY <1>0
    <3>2. n \in names[d]
      BY <2>0, <3>1, TreeAssumption DEF TaskOK, Children
    <3>3. CASE fresh'[d] # NoFile
      <4>1. /\ fresh[d] # NoFile /\ Stat(d, n) # NoFile
            /\ fresh'[d] = [fresh[d] EXCEPT ![n] = Stat(d, n)]
        BY <2>1, <3>3 DEF Collect
      <4>2. DOMAIN fresh[d] = Name
        BY <1>01, <4>1 DEF TaskType, Sizes
      <4>3. NamesOf(fresh'[d]) = NamesOf(fresh[d]) \cup {n}
        BY <4>1, <4>2 DEF NamesOf
      <4>4. NamesOf(fresh[d]) = names[d] \ todo[d]
        BY <2>0, <3>1, <4>1 DEF TaskOK, Handled
      <4> QED
        BY <2>1, <3>2, <4>3, <4>4
    <3> QED
      BY <3>3
  <2>5. TaskOK(d)'
    <3>1. TaskOK(d) /\ (d # Root => Parent[d] \in Dir)
      BY <1>0
    <3> QED
      BY <2>0, <2>1, <2>2, <2>4, <3>1 DEF TaskOK, Busy, Handled
  <2>6. pc = "walking"
    BY <2>0, <1>01 DEF Tasks, NoTasks, ScanType
  <2> QED
    BY <2>0, <2>3, <2>5, <2>6 DEF Tasks
<1>4. ASSUME NEW d \in Dir, NEW e \in Dir, Enter(d, e) PROVE Tasks'
  <2>0. /\ at[d] = "listed" /\ e \in todo[d]
        /\ todo' = [todo EXCEPT ![d] = @ \ {e}]
        /\ \/ UNCHANGED <<at, mtime>>
           \/ /\ at' = [at EXCEPT ![e] = "entered"]
              /\ mtime' = [mtime EXCEPT ![e] = modified[Real(e)]]
        /\ UNCHANGED <<tree, index, pc, options, recorded, names, subdirs,
                       fresh, missed, queue, batch, found, reported, history>>
    BY ONLY <1>4 DEF Enter
  <2>1. e \in Children(d) /\ at[e] = "unseen" /\ e \notin Name
    <3>1. TaskOK(d) /\ TaskOK(e)
      BY <1>0
    <3>2. e \notin Name
      BY TreeAssumption
    <3>3. names[d] \subseteq Name
      BY <1>01 DEF TaskType
    <3>4. e \in Children(d)
      BY <2>0, <3>1, <3>2, <3>3 DEF TaskOK
    <3> QED
      BY <2>0, <3>1, <3>2, <3>4 DEF TaskOK, Children
  <2>2. /\ todo'[d] = todo[d] \ {e} /\ \A x \in Dir \ {d} : todo'[x] = todo[x]
        /\ at'[e] \in {"unseen", "entered"} /\ \A x \in Dir \ {e} : at'[x] = at[x] /\ mtime'[x] = mtime[x]
    BY <1>01, <2>0, <2>1 DEF TaskType
  <2>3. ASSUME NEW x \in Dir PROVE TaskOK(x)'
    <3>1. TaskOK(x) /\ (x # Root => Parent[x] \in Dir) /\ TaskOK(e) /\ TaskOK(d)
      BY <1>0
    <3>2. Handled(x)' = Handled(x)
      <4>1. names[x] \subseteq Name
        BY <1>01 DEF TaskType
      <4> QED
        BY <2>0, <2>1, <2>2, <4>1 DEF Handled
    <3>3. todo'[x] \subseteq todo[x]
      BY <2>2
    <3>4. x # e /\ x # Root /\ at[x] # "unseen" => Parent[x] # e
      BY <2>1, <3>1 DEF TaskOK, Busy
    <3>5. at'[x] # "unseen" /\ x # Root => Busy(Parent[x])' /\ x \notin todo'[Parent[x]]
      <4>1. CASE x = e
        BY <2>0, <2>1, <2>2, <4>1 DEF Children, Busy
      <4>2. CASE x # e
        BY <2>2, <3>1, <3>4, <4>2 DEF TaskOK, Busy
      <4> QED
        BY <4>1, <4>2
    <3>6. CASE x = e
      BY <2>0, <2>1, <2>2, <3>1, <3>2, <3>3, <3>5, <3>6 DEF TaskOK
    <3>7. CASE x # e
      BY <2>0, <2>2, <3>1, <3>2, <3>3, <3>5, <3>7 DEF TaskOK
    <3> QED
      BY <3>6, <3>7
  <2>6. pc = "walking"
    BY <2>0, <1>01 DEF Tasks, NoTasks, ScanType
  <2>7. at'[Root] # "unseen"
    BY <1>0, <2>1, <2>2, <2>6 DEF Tasks
  <2> QED
    BY <2>0, <2>3, <2>6, <2>7 DEF Tasks
<1>5. ASSUME NEW d \in Dir, FinishVisit(d) PROVE Tasks'
  <2>0. /\ at[d] = "listed" /\ todo[d] = {} /\ at' = [at EXCEPT ![d] = "visited"]
        /\ UNCHANGED <<tree, index, pc, options, mtime, recorded, names,
                       subdirs, todo, fresh, missed, batch, found, reported, history>>
    BY ONLY <1>5 DEF FinishVisit
  <2>1. at'[d] = "visited" /\ \A x \in Dir \ {d} : at'[x] = at[x]
    BY <1>01, <2>0 DEF TaskType
  <2>2. \A x \in Dir : Busy(x)' = Busy(x)
    BY <2>0, <2>1 DEF Busy
  <2>3. ASSUME NEW x \in Dir PROVE TaskOK(x)'
    <3>1. TaskOK(x) /\ (x # Root => Parent[x] \in Dir)
      BY <1>0
    <3> QED
      BY <2>0, <2>1, <2>2, <3>1 DEF TaskOK, Handled
  <2>6. pc = "walking"
    BY <2>0, <1>01 DEF Tasks, NoTasks, ScanType
  <2>7. at'[Root] # "unseen"
    BY <1>0, <2>1, <2>6 DEF Tasks
  <2> QED
    BY <2>0, <2>3, <2>6, <2>7 DEF Tasks
<1>6. ASSUME UNCHANGED <<setup, index, options, task, found>>, pc' = pc, Waiting' = Waiting,
             Root \in present'
      PROVE  Tasks'
  <2>1. \A d \in Dir : TaskOK(d)'
    BY <1>0, <1>6 DEF TaskOK, Busy, Handled
  <2> QED
    BY <1>6, <2>1 DEF Tasks, NoTasks
<1>7. ASSUME NEW d \in Dir, Receive(d) PROVE Tasks'
  BY <1>6, <1>7 DEF Receive, Waiting, Tasks
<1>8. CASE Commit
  <2>0. /\ index' \in {Committed, index} /\ batch' = {} /\ batch # {}
        /\ UNCHANGED <<tree, pc, options, task, queue, found>>
    BY <1>8 DEF Commit
  <2>1. ASSUME NEW d \in Dir PROVE TaskOK(d)'
    <3>1. TaskOK(d)
      BY <1>0
    <3>2. index'[d] # NoFile /\ index'[d].subdirs # NoFile => index'[d].subdirs \subseteq Children(d)
      BY <2>0, <3>1 DEF Committed, NewRecord, TaskOK
    <3> QED
      BY <2>0, <3>1, <3>2 DEF TaskOK, Busy, Handled
  <2>2. Waiting' \subseteq Waiting
    BY <2>0 DEF Waiting
  <2> QED
    BY <2>0, <2>1, <2>2 DEF Tasks, NoTasks
<1>9. CASE FinishWalk \/ JoinWriter
  <2>1. UNCHANGED <<tree, index, options, task, queue, batch, found>>
    BY <1>9 DEF FinishWalk, JoinWriter
  <2>2. \A d \in Dir : TaskOK(d)'
    BY <1>0, <2>1 DEF TaskOK, Busy, Handled
  <2>3. pc # "idle" /\ \A d \in Dir : at[d] \in {"unseen", "visited"}
    BY <1>9 DEF FinishWalk, JoinWriter, Tasks
  <2>4. pc' = "finishing" \/ (pc' = "hashing" /\ Waiting' = {})
    BY <1>9 DEF FinishWalk, JoinWriter, Waiting
  <2> QED
    BY <2>1, <2>2, <2>3, <2>4 DEF Tasks
<1>10. CASE Hash \/ Kill
  <2>0. DropTasks /\ UNCHANGED <<tree, index>> /\ pc' = "idle"
    BY <1>10 DEF Hash, Kill
  <2>1. Waiting' = {}
    <3>1. CASE Kill
      BY <3>1 DEF Kill, Waiting
    <3>2. CASE Hash
      BY <3>2 DEF Hash, Waiting, Tasks
    <3> QED
      BY <1>10, <3>1, <3>2
  <2>2. NoTasks'
    BY <2>0, <2>1 DEF DropTasks, NoTasks, ForAllDirs
  <2>3. ASSUME NEW d \in Dir PROVE TaskOK(d)'
    <3>1. index'[d] # NoFile /\ index'[d].subdirs # NoFile => index'[d].subdirs \subseteq Children(d)
      BY <1>0, <2>0 DEF TaskOK
    <3> QED
      BY <2>2, <3>1, NoSizesType DEF TaskOK, NoTasks, Handled
  <2> QED
    BY <2>0, <2>2, <2>3 DEF Tasks
<1>11. CASE Tick \/ UNCHANGED vars
  BY <1>6, <1>11 DEF Tick, vars, Waiting, Tasks
<1>12. CASE Environment
  <2>1. UNCHANGED <<setup, index, pc, options, task, queue, batch, found>>
    BY <1>12 DEF Environment, Outside
  <2>2. Root \in present'
    <3>1. \A d \in Dir : MoveDir(d) => Root \in present'
      BY DEF MoveDir, Tasks
    <3>2. \A d \in Dir, n \in Name : CreateOrRemove(d, n) \/ Rewrite(d, n) => present' = present
      BY DEF CreateOrRemove, Rewrite
    <3> QED
      BY <1>12, <3>1, <3>2 DEF Environment, Tasks
  <2> QED
    BY <1>6, <2>1, <2>2 DEF Waiting
<1>13. ASSUME NEW d \in Dir, todo[d] # {},
              NEW v \in Name \cup Dir, v \in Dir => todo[d] \cap Name = {},
              todo' = [todo EXCEPT ![d] = @ \ {v}], fresh' \in {fresh, [fresh EXCEPT ![d] = NoFile]},
              v \in Name => fresh'[d] = NoFile,
              UNCHANGED <<tree, index, pc, options, at, mtime, recorded, names, subdirs,
                          queue, batch, found>>
       PROVE  Tasks'
  <2>1. /\ todo'[d] = todo[d] \ {v} /\ fresh'[d] \in {fresh[d], NoFile}
        /\ \A e \in Dir \ {d} : todo'[e] = todo[e] /\ fresh'[e] = fresh[e]
    BY <1>01, <1>13 DEF TaskType
  <2>2. \A e \in Dir : todo'[e] \subseteq todo[e]
    BY <2>1
  <2>3. ASSUME NEW e \in Dir \ {d} PROVE TaskOK(e)'
    <3>1. TaskOK(e) /\ (e # Root => Parent[e] \in Dir)
      BY <1>0
    <3> QED
      BY <1>13, <2>1, <2>2, <3>1 DEF TaskOK, Busy, Handled
  <2>4. TaskOK(d)'
    <3>1. TaskOK(d) /\ (d # Root => Parent[d] \in Dir) /\ at[d] = "listed"
      BY <1>0, <1>13 DEF TaskOK
    <3>2. v \in Dir => Handled(d)' = Handled(d)
      BY <1>01, <1>13, <2>1, TreeAssumption DEF TaskType, Handled
    <3> QED
      BY <1>13, <2>1, <2>2, <3>1, <3>2 DEF TaskOK, Busy
  <2>5. pc = "walking"
    <3>1. at[d] = "listed"
      BY <1>0, <1>13 DEF TaskOK
    <3> QED
      BY <3>1, <1>01 DEF Tasks, NoTasks, ScanType
  <2> QED
    BY <1>13, <2>3, <2>4, <2>5 DEF Tasks
<1>14. ASSUME NEW d \in Dir, NEW n \in Name, StatFails(d, n) PROVE Tasks'
  <2>1. /\ n \in todo[d] /\ todo' = [todo EXCEPT ![d] = @ \ {n}]
        /\ fresh' = [fresh EXCEPT ![d] = NoFile]
        /\ UNCHANGED <<tree, index, pc, options, at, mtime, recorded, names, subdirs, queue,
                       batch, found>>
    BY ONLY <1>14 DEF StatFails
  <2>2. fresh'[d] = NoFile /\ n \notin Dir
    BY <1>01, <2>1, TreeAssumption DEF TaskType
  <2> QED
    BY <1>13, <2>1, <2>2
<1>15. ASSUME NEW d \in Dir, NEW e \in Dir, EnterFails(d, e) PROVE Tasks'
  <2>1. /\ e \in todo[d] /\ todo[d] \cap Name = {} /\ todo' = [todo EXCEPT ![d] = @ \ {e}]
        /\ UNCHANGED <<tree, index, pc, options, at, mtime, recorded, names, subdirs, fresh,
                       queue, batch, found>>
    BY ONLY <1>15 DEF EnterFails
  <2>2. e \notin Name
    BY TreeAssumption
  <2> QED
    BY <1>13, <2>1, <2>2
<1> QED
  BY <1>1, <1>2, <1>3, <1>4, <1>5, <1>7, <1>8, <1>9, <1>10, <1>11, <1>12, <1>14, <1>15
     DEF Next, Walk, Writer, Visit
-----------------------------------------------------------------------------
(* What a step does to each directory.                                     *)

LEMMA ListEffect ==
  ASSUME TypeOK, NEW d \in Dir, List(d)
  PROVE  /\ at[d] = "entered"
         /\ UNCHANGED <<tree, index, pc, options, mtime, fresh, queue, batch, found, reported,
                        history>>
         /\ missed' \in {missed, missed \cup {d}}
         /\ \/ /\ at'[d] = "visited" /\ d \in missed'
               /\ recorded' = recorded /\ names' = names /\ subdirs' = subdirs /\ todo' = todo
            \/ /\ at'[d] = "listed" /\ recorded'[d] = Lookup(d)
               /\ todo'[d] = names'[d] \cup subdirs'[d]
               /\ Reusable(Lookup(d)) => /\ names'[d] = NamesOf(Lookup(d).sizes)
                                         /\ subdirs'[d] = Lookup(d).subdirs
                                         /\ d \in partial => d \in missed'
               /\ ~Reusable(Lookup(d)) =>
                     /\ names'[d] \subseteq NamesIn(d) /\ subdirs'[d] \subseteq Listed(d)
                     /\ d \notin missed' => names'[d] = NamesIn(d) /\ subdirs'[d] = Listed(d)
         /\ \A e \in Dir \ {d} :
               /\ at'[e] = at[e] /\ recorded'[e] = recorded[e] /\ names'[e] = names[e]
               /\ subdirs'[e] = subdirs[e] /\ todo'[e] = todo[e]
<1> DEFINE Done == /\ at' = [at EXCEPT ![d] = "visited"] /\ d \in missed'
                   /\ UNCHANGED <<recorded, names, subdirs, todo>>
           Seen(N, D) ==
              /\ Reusable(Lookup(d)) => /\ N = NamesOf(Lookup(d).sizes) /\ D = Lookup(d).subdirs
                                        /\ d \in partial => d \in missed'
              /\ ~Reusable(Lookup(d)) =>
                    /\ N \subseteq NamesIn(d) /\ D \subseteq Listed(d)
                    /\ d \notin missed' => N = NamesIn(d) /\ D = Listed(d)
           Same == \A e \in Dir \ {d} :
                      /\ at'[e] = at[e] /\ recorded'[e] = recorded[e] /\ names'[e] = names[e]
                      /\ subdirs'[e] = subdirs[e] /\ todo'[e] = todo[e]
<1>0. TaskType
  BY TypeParts
<1>1. /\ at[d] = "entered"
      /\ UNCHANGED <<tree, index, pc, options, mtime, fresh, queue, batch, found, reported,
                     history>>
      /\ missed' \in {missed, missed \cup {d}}
      /\ Done \/ \E N \in SUBSET Name, D \in SUBSET Dir : Lists(d, N, D) /\ Seen(N, D)
  BY ListShape, Zenon
<1>2. ASSUME Done PROVE at'[d] = "visited" /\ Same
  BY <1>0, <1>2 DEF TaskType
<1>3. ASSUME NEW N \in SUBSET Name, NEW D \in SUBSET Dir, Lists(d, N, D)
      PROVE  /\ at'[d] = "listed" /\ recorded'[d] = Lookup(d) /\ names'[d] = N
             /\ subdirs'[d] = D /\ todo'[d] = N \cup D /\ Same
  BY <1>0, <1>3 DEF TaskType, Lists
<1>4. CASE Done
  BY ONLY <1>1, <1>2, <1>4
<1>5. ASSUME NEW N \in SUBSET Name, NEW D \in SUBSET Dir, Lists(d, N, D), Seen(N, D)
      PROVE  /\ at'[d] = "listed" /\ recorded'[d] = Lookup(d)
             /\ todo'[d] = names'[d] \cup subdirs'[d] /\ Seen(names'[d], subdirs'[d]) /\ Same
  <2>1. /\ at'[d] = "listed" /\ recorded'[d] = Lookup(d) /\ names'[d] = N
        /\ subdirs'[d] = D /\ todo'[d] = N \cup D /\ Same
    BY <1>3, <1>5
  <2> HIDE DEF Same
  <2> QED
    BY ONLY <1>5, <2>1
<1>6. CASE \E N \in SUBSET Name, D \in SUBSET Dir : Lists(d, N, D) /\ Seen(N, D)
  <2>1. /\ at'[d] = "listed" /\ recorded'[d] = Lookup(d)
        /\ todo'[d] = names'[d] \cup subdirs'[d] /\ Seen(names'[d], subdirs'[d]) /\ Same
    <3> HIDE DEF Same, Seen
    <3> QED
      BY ONLY <1>5, <1>6
  <2> QED
    BY ONLY <1>1, <2>1
<1> HIDE DEF Done, Seen, Same
<1> QED
  BY ONLY <1>1, <1>4, <1>6

LEMMA StatEffect ==
  ASSUME TypeOK, NEW d \in Dir, NEW n \in Name, StatFile(d, n)
  PROVE  /\ at[d] = "listed" /\ n \in todo[d]
         /\ todo'[d] = todo[d] \ {n} /\ fresh'[d] = Collect(d, n)
         /\ \A e \in Dir \ {d} : todo'[e] = todo[e] /\ fresh'[e] = fresh[e]
         /\ found' = found \cup Candidates(d, n)
         /\ UNCHANGED <<tree, index, pc, options, at, mtime, recorded, names, subdirs, queue,
                        missed, batch, reported, history>>
<1>0. TaskType
  BY TypeParts
<1>1. /\ at[d] = "listed" /\ n \in todo[d]
      /\ todo' = [todo EXCEPT ![d] = @ \ {n}] /\ fresh' = [fresh EXCEPT ![d] = Collect(d, n)]
      /\ found' = found \cup Candidates(d, n)
      /\ UNCHANGED <<tree, index, pc, options, at, mtime, recorded, names,
                     subdirs, missed, queue, batch, reported, history>>
  BY ONLY StatFile(d, n) DEF StatFile
<1> QED
  BY <1>0, <1>1 DEF TaskType

LEMMA StatFailsEffect ==
  ASSUME TypeOK, NEW d \in Dir, NEW n \in Name, StatFails(d, n)
  PROVE  /\ at[d] = "listed" /\ n \in todo[d]
         /\ todo'[d] = todo[d] \ {n} /\ fresh'[d] = NoFile /\ missed' = missed \cup {d}
         /\ \A e \in Dir \ {d} : todo'[e] = todo[e] /\ fresh'[e] = fresh[e]
         /\ UNCHANGED <<tree, index, pc, options, at, mtime, recorded, names, subdirs, queue,
                        batch, found, reported, history>>
<1>0. TaskType
  BY TypeParts
<1>1. /\ at[d] = "listed" /\ n \in todo[d]
      /\ todo' = [todo EXCEPT ![d] = @ \ {n}] /\ fresh' = [fresh EXCEPT ![d] = NoFile]
      /\ missed' = missed \cup {d}
      /\ UNCHANGED <<tree, index, pc, options, at, mtime, recorded, names,
                     subdirs, queue, batch, found, reported, history>>
  BY ONLY StatFails(d, n) DEF StatFails
<1> QED
  BY <1>0, <1>1 DEF TaskType

LEMMA EnterFailsEffect ==
  ASSUME TypeOK, NEW d \in Dir, NEW e \in Dir, EnterFails(d, e)
  PROVE  /\ at[d] = "listed" /\ e \in todo[d] /\ missed' = missed \cup {e}
         /\ todo'[d] = todo[d] \ {e} /\ \A x \in Dir \ {d} : todo'[x] = todo[x]
         /\ UNCHANGED <<tree, index, pc, options, at, mtime, recorded, names, subdirs, fresh,
                        queue, batch, found, reported, history>>
<1>0. TaskType
  BY TypeParts
<1>1. /\ at[d] = "listed" /\ e \in todo[d] /\ missed' = missed \cup {e}
      /\ todo' = [todo EXCEPT ![d] = @ \ {e}]
      /\ UNCHANGED <<tree, index, pc, options, at, mtime, recorded, names, subdirs, fresh,
                     queue, batch, found, reported, history>>
  BY ONLY EnterFails(d, e) DEF EnterFails
<1> QED
  BY <1>0, <1>1 DEF TaskType

LEMMA EnterEffect ==
  ASSUME TypeOK, Tasks, NEW d \in Dir, NEW e \in Dir, Enter(d, e)
  PROVE  /\ at[d] = "listed" /\ e \in todo[d] /\ e \in subdirs[d] /\ todo[d] \cap Name = {}
         /\ e \in Children(d) /\ at[e] = "unseen"
         /\ todo'[d] = todo[d] \ {e} /\ \A x \in Dir \ {d} : todo'[x] = todo[x]
         /\ \A x \in Dir \ {e} : at'[x] = at[x] /\ mtime'[x] = mtime[x]
         /\ \/ Enters(d, e) /\ at'[e] = "entered" /\ mtime'[e] = modified[Real(e)]
            \/ ~Enters(d, e) /\ at' = at /\ mtime' = mtime
         /\ UNCHANGED <<tree, index, pc, options, recorded, names, subdirs, fresh, missed,
                        queue, batch, found, reported, history>>
<1>0. TaskType
  BY TypeParts
<1>1. /\ at[d] = "listed" /\ e \in todo[d] /\ todo[d] \cap Name = {}
      /\ todo' = [todo EXCEPT ![d] = @ \ {e}]
      /\ \/ /\ Enters(d, e) /\ at' = [at EXCEPT ![e] = "entered"]
            /\ mtime' = [mtime EXCEPT ![e] = modified[Real(e)]]
         \/ ~Enters(d, e) /\ at' = at /\ mtime' = mtime
      /\ UNCHANGED <<tree, index, pc, options, recorded, names, subdirs, fresh, missed,
                     queue, batch, found, reported, history>>
  BY ONLY Enter(d, e) DEF Enter
<1>2. e \in subdirs[d] /\ e \in Children(d) /\ at[e] = "unseen"
  <2>1. TaskOK(d) /\ TaskOK(e)
    BY DEF Tasks
  <2>2. e \notin names[d]
    BY <1>0, TreeAssumption DEF TaskType
  <2>3. e \in subdirs[d] /\ e \in Children(d)
    BY <1>1, <2>1, <2>2 DEF TaskOK
  <2> QED
    BY <1>1, <2>1, <2>3 DEF TaskOK, Children
<1>3. /\ todo'[d] = todo[d] \ {e} /\ \A x \in Dir \ {d} : todo'[x] = todo[x]
      /\ \A x \in Dir \ {e} : at'[x] = at[x] /\ mtime'[x] = mtime[x]
      /\ \/ Enters(d, e) /\ at'[e] = "entered" /\ mtime'[e] = modified[Real(e)]
         \/ ~Enters(d, e) /\ at' = at /\ mtime' = mtime
  BY <1>0, <1>1 DEF TaskType
<1> QED
  BY <1>1, <1>2, <1>3

LEMMA FinishEffect ==
  ASSUME TypeOK, NEW d \in Dir, FinishVisit(d)
  PROVE  /\ at[d] = "listed" /\ todo[d] = {} /\ d \notin Waiting
         /\ at'[d] = "visited" /\ \A x \in Dir \ {d} : at'[x] = at[x]
         /\ \/ Recordable(d) /\ Waiting' = Waiting \cup {d}
            \/ ~Recordable(d) /\ Waiting' = Waiting
         /\ UNCHANGED <<tree, index, pc, options, mtime, recorded, names, subdirs, todo, fresh,
                        missed, batch, found, reported, history>>
<1>0. TaskType /\ QueueType
  BY TypeParts
<1>1. /\ at[d] = "listed" /\ todo[d] = {} /\ at' = [at EXCEPT ![d] = "visited"]
      /\ \/ Recordable(d) /\ queue' = queue \cup {d}
         \/ ~Recordable(d) /\ queue' = queue
      /\ UNCHANGED <<tree, index, pc, options, mtime, recorded, names, subdirs, todo, fresh,
                     missed, batch, found, reported, history>>
  BY ONLY FinishVisit(d) DEF FinishVisit
<1>2. d \notin Waiting
  BY <1>0, <1>1 DEF QueueType, Waiting
<1>3. at'[d] = "visited" /\ \A x \in Dir \ {d} : at'[x] = at[x]
  BY <1>0, <1>1 DEF TaskType
<1>4. \/ Recordable(d) /\ Waiting' = Waiting \cup {d}
      \/ ~Recordable(d) /\ Waiting' = Waiting
  BY <1>1 DEF Waiting
<1> QED
  BY <1>1, <1>2, <1>3, <1>4

LEMMA ReceiveEffect ==
  ASSUME NEW d \in Dir, Receive(d)
  PROVE  /\ Waiting' = Waiting
         /\ UNCHANGED <<tree, index, pc, options, task, found, reported, history>>
BY DEF Receive, Waiting

LEMMA CommitEffect ==
  ASSUME TypeOK, Commit
  PROVE  /\ batch \subseteq Waiting /\ Waiting' \subseteq Waiting
         /\ Waiting \ batch \subseteq Waiting'
         /\ \/ /\ \A d \in batch : index'[d] = NewRecord(d)
               /\ \A d \in Dir \ batch : index'[d] = index[d]
               /\ lost' = lost /\ partial' = Partial
            \/ index' = index /\ lost' = TRUE /\ partial' = partial
         /\ UNCHANGED <<tree, pc, options, task, queue, found, reported, late, quiet, healed,
                        walks, env>>
<1>1. batch \subseteq Dir /\ lost \in BOOLEAN
  BY DEF TypeOK
<1>2. \/ index' = Committed /\ lost' = lost /\ partial' = Partial
      \/ index' = index /\ lost' = TRUE /\ partial' = partial
  BY <1>1 DEF Commit
<1>3. index' = Committed => /\ \A d \in batch : index'[d] = NewRecord(d)
                            /\ \A d \in Dir \ batch : index'[d] = index[d]
  BY <1>1 DEF Committed
<1>4. /\ batch' = {}
      /\ UNCHANGED <<tree, pc, options, task, queue, found, reported, late, quiet, healed,
                     walks, env>>
  BY DEF Commit
<1>5. batch \subseteq Waiting /\ Waiting' \subseteq Waiting /\ Waiting \ batch \subseteq Waiting'
  BY <1>4 DEF Waiting
<1> QED
  BY <1>2, <1>3, <1>4, <1>5

LEMMA DropEffect ==
  ASSUME Tasks, Hash \/ Kill
  PROVE  /\ pc' = "idle" /\ Waiting' = {} /\ found' = {} /\ options' = NoOptions
         /\ \A d \in Dir : /\ at'[d] = "unseen" /\ recorded'[d] = NoFile /\ mtime'[d] = 0
                           /\ names'[d] = {} /\ subdirs'[d] = {} /\ todo'[d] = {}
                           /\ fresh'[d] = NoSizes
         /\ UNCHANGED <<tree, index, history>>
<1>0. DropTasks /\ UNCHANGED <<tree, index, history>> /\ pc' = "idle"
  BY DEF Hash, Kill
<1>1. Waiting' = {}
  <2>1. CASE Kill
    BY <2>1 DEF Kill, Waiting
  <2>2. CASE Hash
    BY <2>2 DEF Hash, Waiting, Tasks
  <2> QED
    BY <2>1, <2>2
<1> QED
  BY <1>0, <1>1 DEF DropTasks, ForAllDirs

LEMMA StartEffect ==
  ASSUME TypeOK, Tasks, Start
  PROVE  /\ NoTasks /\ pc' = "walking" /\ options' \in Setups[setup].options
         /\ at'[Root] = "entered" /\ mtime'[Root] = modified[Root]
         /\ \A d \in Dir \ {Root} : at'[d] = "unseen"
         /\ Waiting' = {} /\ quiet' = TRUE /\ lost' = FALSE
         /\ UNCHANGED <<tree, index, recorded, names, subdirs, todo, fresh, missed, found, late,
                        healed, partial>>
<1>1. NoTasks
  BY DEF Start, Tasks
<1>2. Root \in Dir
  BY TreeAssumption
<1> QED
  BY <1>1, <1>2 DEF Start, NoTasks, TypeOK, Waiting

\* Whoever changes what a directory lists touches it, through whatever path.
LEMMA OutsideEffect ==
  ASSUME TypeOK, Environment
  PROVE  /\ UNCHANGED <<now, setup, index, pc, options, task, queue, batch, found, reported,
                        lost, partial, walks>>
         /\ quiet' = FALSE /\ late \in BOOLEAN /\ (late => late') /\ healed' \subseteq healed
         /\ \A d \in Dir :
               \/ /\ modified'[d] = now
                  /\ late' \/ \A e \in Dir : Real(e) = d => at[e] # "listed"
               \/ /\ modified'[d] = modified[d]
                  /\ \A e \in Dir : Real(e) = d =>
                        /\ NamesIn(e)' = NamesIn(e) /\ SubdirsOf(e)' = SubdirsOf(e)
                        /\ e \in healed' => \A n \in Name : SizeAt(e, n)' = SizeAt(e, n)
<1>0. TreeType /\ HistoryType /\ late \in BOOLEAN
  BY TypeParts DEF HistoryType
<1>01. \A e \in Dir : Real(e) \in Dir
  BY SetupFacts
<1>1. /\ UNCHANGED <<now, setup, index, pc, options, task, queue, batch, found, reported,
                     lost, partial, walks>>
      /\ quiet' = FALSE
  BY DEF Environment, Outside
<1> DEFINE Safe(d) ==
      \/ /\ modified'[d] = now
         /\ late' \/ \A e \in Dir : Real(e) = d => at[e] # "listed"
      \/ /\ modified'[d] = modified[d]
         /\ \A e \in Dir : Real(e) = d =>
               /\ NamesIn(e)' = NamesIn(e) /\ SubdirsOf(e)' = SubdirsOf(e)
               /\ e \in healed' => \A n \in Name : SizeAt(e, n)' = SizeAt(e, n)
    Result == /\ (late => late') /\ healed' \subseteq healed
              /\ \A d \in Dir : Safe(d)
<1>2. ASSUME NEW t \in Dir, Touched(t)
      PROVE  /\ (late => late') /\ modified'[t] = now
             /\ late' \/ \A e \in Dir : Real(e) = t => at[e] # "listed"
             /\ \A d \in Dir \ {t} : modified'[d] = modified[d]
  BY <1>0, <1>2 DEF Touched, TreeType
<1>3. ASSUME NEW x \in Dir, MoveDir(x) PROVE Result
  <2>1. /\ x \in Setups[setup].paths \ {Root} /\ Entry(x) = x /\ Touched(Parent[x])
        /\ UNCHANGED <<file, healed>>
        /\ \A z : z # x => (z \in present' <=> z \in present)
    BY <1>3 DEF MoveDir
  <2>2. Parent[x] \in Dir
    BY <2>1, TreeAssumption
  <2>3. ASSUME NEW d \in Dir, d # Parent[x], NEW e \in Dir, Real(e) = d
        PROVE  /\ NamesIn(e)' = NamesIn(e) /\ SubdirsOf(e)' = SubdirsOf(e)
               /\ \A n \in Name : SizeAt(e, n)' = SizeAt(e, n)
    <3>1. NamesIn(e)' = NamesIn(e) /\ \A n \in Name : SizeAt(e, n)' = SizeAt(e, n)
      BY <1>1, <2>1 DEF NamesIn, SizeAt, At, Real
    <3>2. ASSUME NEW z \in Setups[setup].paths \ {Root}, Parent[z] = e PROVE Entry(z) # x
      <4>1. Parent[Entry(z)] = Real(Parent[z])
        BY SetupFacts
      <4> QED
        BY <2>3, <3>2, <4>1
    <3>3. EntriesOf(e)' = EntriesOf(e)
      BY <1>1, <2>1, <3>2 DEF EntriesOf, Entry
    <3>4. SubdirsOf(e)' = SubdirsOf(e)
      BY <1>1, <3>3 DEF SubdirsOf, IsLink, Real, Entry
    <3> QED
      BY <3>1, <3>4
  <2>4. ASSUME NEW d \in Dir PROVE Safe(d)
    <3>1. CASE d = Parent[x]
      BY <1>2, <2>1, <2>2, <3>1
    <3>2. CASE d # Parent[x]
      BY <1>2, <2>1, <2>2, <2>3, <3>2
    <3> QED
      BY <3>1, <3>2
  <2>5. (late => late') /\ healed' \subseteq healed
    BY <1>2, <2>1, <2>2
  <2> QED
    BY <2>4, <2>5
<1>4. ASSUME NEW x \in Dir, NEW n \in Name, CreateOrRemove(x, n) PROVE Result
  <2>1. /\ Touched(x) /\ present' = present /\ healed' = healed
        /\ \A f \in Dir \X Name : f[1] # x => file'[f] = file[f]
    BY <1>0, <1>4 DEF CreateOrRemove, TreeType
  <2>2. ASSUME NEW d \in Dir, d # x, NEW e \in Dir, Real(e) = d
        PROVE  /\ NamesIn(e)' = NamesIn(e) /\ SubdirsOf(e)' = SubdirsOf(e)
               /\ \A z \in Name : SizeAt(e, z)' = SizeAt(e, z)
    <3>1. Real(e)' = Real(e)
      BY <1>1 DEF Real
    <3>2. \A z \in Name : At(<<e, z>>)' = At(<<e, z>>)
      BY <2>1, <2>2, <3>1 DEF At
    <3>3. NamesIn(e)' = NamesIn(e) /\ \A z \in Name : SizeAt(e, z)' = SizeAt(e, z)
      BY <3>2 DEF NamesIn, SizeAt
    <3>4. SubdirsOf(e)' = SubdirsOf(e)
      BY <1>1, <2>1 DEF SubdirsOf, EntriesOf, IsLink, Real, Entry
    <3> QED
      BY <3>3, <3>4
  <2>3. ASSUME NEW d \in Dir PROVE Safe(d)
    <3>1. CASE d = x
      BY <1>2, <2>1, <3>1
    <3>2. CASE d # x
      BY <1>2, <2>1, <2>2, <3>2
    <3> QED
      BY <3>1, <3>2
  <2> QED
    BY <1>2, <2>1, <2>3
<1>5. ASSUME NEW x \in Dir, NEW n \in Name, Rewrite(x, n) PROVE Result
  <2>1. PICK c \in Content \ {file[<<x, n>>]} : file' = [file EXCEPT ![<<x, n>>] = c]
    BY <1>5 DEF Rewrite
  <2>2. /\ UNCHANGED <<modified, present, late>> /\ healed' = {e \in healed : Real(e) # x}
        /\ Real(x) = x /\ At(<<x, n>>) # NoFile
    BY <1>5 DEF Rewrite, Exists
  <2>3. /\ \A f \in Dir \X Name : f[1] # x => file'[f] = file[f]
        /\ \A z \in Name : file'[<<x, z>>] = NoFile <=> file[<<x, z>>] = NoFile
    BY <1>0, <2>1, <2>2, SizesAreNumbers DEF TreeType, At
  <2>4. ASSUME NEW e \in Dir
        PROVE  /\ NamesIn(e)' = NamesIn(e) /\ SubdirsOf(e)' = SubdirsOf(e)
               /\ Real(e) # x => \A z \in Name : SizeAt(e, z)' = SizeAt(e, z)
    <3>1. Real(e)' = Real(e) /\ Real(e) \in Dir
      BY <1>1, <1>01 DEF Real
    <3>2. \A z \in Name : At(<<e, z>>)' = NoFile <=> At(<<e, z>>) = NoFile
      BY <2>3, <3>1 DEF At
    <3>3. NamesIn(e)' = NamesIn(e)
      BY <3>2 DEF NamesIn
    <3>4. ASSUME Real(e) # x PROVE \A z \in Name : SizeAt(e, z)' = SizeAt(e, z)
      BY <2>3, <3>1, <3>4 DEF SizeAt, At
    <3>5. SubdirsOf(e)' = SubdirsOf(e)
      BY <1>1, <2>2 DEF SubdirsOf, EntriesOf, IsLink, Real, Entry
    <3> QED
      BY <3>3, <3>4, <3>5
  <2> QED
    BY <2>2, <2>4
<1>6. Result
  BY <1>3, <1>4, <1>5 DEF Environment
<1> QED
  BY <1>0, <1>1, <1>6
-----------------------------------------------------------------------------
(* Usable records are current.                                             *)

LEMMA ClockTypes ==
  ASSUME TypeOK
  PROVE  /\ now \in Nat /\ Racy \in Nat \ {0}
         /\ \A d \in Dir : /\ modified[d] \in Nat /\ mtime[d] \in Nat /\ Real(d) \in Dir
                           /\ index[d] # NoFile => index[d] \in Record /\ index[d].mtime \in Nat
BY SetupFacts, BoundAssumption DEF TypeOK, Record

LEMMA ClocksInit == Init => Clocks
<1> SUFFICES ASSUME Init, NEW d \in Dir PROVE ClockOK(d)
  BY DEF Clocks
<1>1. modified[d] = 0 /\ now = 0 /\ index[d] = NoFile /\ Waiting = {}
      /\ recorded[d] = NoFile /\ at[d] = "unseen"
  BY DEF Init, ForAllDirs, Waiting
<1> QED
  BY <1>1 DEF ClockOK

LEMMA ClocksStep == ASSUME TypeOK, Tasks, Clocks, [Next]_vars PROVE Clocks'
<1>0. \A d \in Dir : ClockOK(d)
  BY DEF Clocks
<1>01. /\ now \in Nat /\ Racy \in Nat \ {0}
       /\ \A d \in Dir : /\ modified[d] \in Nat /\ mtime[d] \in Nat /\ Real(d) \in Dir
                         /\ index[d] # NoFile => index[d].mtime \in Nat
  BY ClockTypes
<1>02. \A d \in Dir : TaskOK(d)
  BY DEF Tasks
<1> USE DEF tree, task, history
<1>1. CASE Start
  <2>1. /\ NoTasks /\ at'[Root] = "entered" /\ mtime'[Root] = modified[Root]
        /\ \A d \in Dir \ {Root} : at'[d] = "unseen"
        /\ Waiting' = {} /\ UNCHANGED <<tree, index, recorded>>
    BY <1>1, StartEffect
  <2>2. Real(Root) = Root
    BY SetupFacts
  <2>3. \A d \in Dir : d \notin Waiting' /\ recorded'[d] = NoFile /\ Real(d)' = Real(d)
    BY <2>1 DEF NoTasks, Real
  <2>4. ASSUME NEW d \in Dir PROVE ClockOK(d)'
    <3>1. at'[d] # "unseen" => mtime'[d] <= modified'[Real(d)']
      BY <1>01, <2>1, <2>2, <2>3
    <3> QED
      BY <1>0, <2>1, <2>3, <3>1 DEF ClockOK
  <2> QED
    BY <2>4 DEF Clocks
<1>2. ASSUME NEW d \in Dir, List(d) PROVE Clocks'
  <2>1. /\ at[d] = "entered"
        /\ UNCHANGED <<tree, index, pc, options, mtime, fresh, queue, batch, found, reported,
                       history>>
        /\ recorded'[d] \in {recorded[d], Lookup(d)}
        /\ \A e \in Dir \ {d} : at'[e] = at[e] /\ recorded'[e] = recorded[e]
    BY <1>2, ListEffect
  <2>2. Lookup(d) # NoFile => index[d] # NoFile /\ index[d].mtime = mtime[d]
    BY DEF Lookup
  <2>3. \A e \in Dir : Real(e)' = Real(e)
    BY <2>1 DEF Real
  <2>4. Waiting' = Waiting
    BY <2>1 DEF Waiting
  <2>5. ASSUME NEW e \in Dir PROVE ClockOK(e)'
    <3>1. CASE e = d
      BY <1>0, <2>1, <2>2, <2>3, <2>4, <3>1 DEF ClockOK
    <3>2. CASE e # d
      BY <1>0, <2>1, <2>3, <2>4, <3>2 DEF ClockOK
    <3> QED
      BY <3>1, <3>2
  <2> QED
    BY <2>5 DEF Clocks
<1>3. ASSUME UNCHANGED <<tree, index, mtime, recorded>>, Waiting' = Waiting, at' = at
      PROVE  Clocks'
  <2>1. \A e \in Dir : Real(e)' = Real(e)
    BY <1>3 DEF Real
  <2> QED
    BY <1>0, <1>3, <2>1 DEF Clocks, ClockOK
<1>4. ASSUME NEW d \in Dir, NEW e \in Dir, Enter(d, e) PROVE Clocks'
  <2>1. /\ at[e] = "unseen" /\ \A x \in Dir \ {e} : at'[x] = at[x] /\ mtime'[x] = mtime[x]
        /\ \/ at'[e] = "entered" /\ mtime'[e] = modified[Real(e)]
           \/ at' = at /\ mtime' = mtime
        /\ UNCHANGED <<tree, index, recorded, queue, batch>>
    BY <1>4, EnterEffect
  <2>2. e \notin Waiting /\ recorded[e] = NoFile
    BY <1>02, <2>1 DEF TypeOK, Waiting, TaskOK
  <2>3. \A x \in Dir : Real(x)' = Real(x)
    BY <2>1 DEF Real
  <2>4. Waiting' = Waiting
    BY <2>1 DEF Waiting
  <2>5. ASSUME NEW x \in Dir PROVE ClockOK(x)'
    <3>1. CASE x = e
      BY <1>0, <1>01, <2>1, <2>2, <2>3, <2>4, <3>1 DEF ClockOK
    <3>2. CASE x # e
      BY <1>0, <2>1, <2>3, <2>4, <3>2 DEF ClockOK
    <3> QED
      BY <3>1, <3>2
  <2> QED
    BY <2>5 DEF Clocks
<1>5. ASSUME NEW d \in Dir, FinishVisit(d) PROVE Clocks'
  <2>1. /\ at[d] = "listed" /\ at'[d] = "visited" /\ \A x \in Dir \ {d} : at'[x] = at[x]
        /\ \/ Recordable(d) /\ Waiting' = Waiting \cup {d}
           \/ Waiting' = Waiting
        /\ UNCHANGED <<tree, index, mtime, recorded>>
    BY <1>5, FinishEffect
  <2>2. Recordable(d) => mtime[d] + Racy <= now
    BY <1>01 DEF Recordable
  <2>3. \A x \in Dir : Real(x)' = Real(x)
    BY <2>1 DEF Real
  <2>4. ASSUME NEW x \in Dir PROVE ClockOK(x)'
    BY <1>0, <2>1, <2>2, <2>3 DEF ClockOK
  <2> QED
    BY <2>4 DEF Clocks
<1>6. CASE Commit
  <2>1. /\ batch \subseteq Waiting /\ Waiting' \subseteq Waiting
        /\ \A d \in Dir : index'[d] = index[d] \/ (d \in batch /\ index'[d] = NewRecord(d))
        /\ UNCHANGED <<tree, task>>
    BY <1>6, CommitEffect
  <2>2. \A d \in Dir : NewRecord(d).mtime = mtime[d]
    BY DEF NewRecord
  <2>3. \A x \in Dir : Real(x)' = Real(x)
    BY <2>1 DEF Real
  <2>4. ASSUME NEW d \in Dir PROVE ClockOK(d)'
    <3>1. index'[d] # NoFile => index'[d].mtime + Racy <= now
      BY <1>0, <2>1, <2>2 DEF ClockOK
    <3> QED
      BY <1>0, <2>1, <2>3, <3>1 DEF ClockOK
  <2> QED
    BY <2>4 DEF Clocks
<1>7. CASE Hash \/ Kill
  <2>1. /\ Waiting' = {} /\ \A d \in Dir : at'[d] = "unseen" /\ recorded'[d] = NoFile
        /\ UNCHANGED <<tree, index>>
    BY <1>7, DropEffect
  <2> QED
    BY <1>0, <2>1 DEF Clocks, ClockOK
<1>8. CASE Tick
  <2>1. now' = now + 1 /\ UNCHANGED <<modified, setup, index, task, queue, batch>>
    BY <1>8 DEF Tick
  <2>2. Waiting' = Waiting /\ \A x \in Dir : Real(x)' = Real(x)
    BY <2>1 DEF Waiting, Real
  <2>3. ASSUME NEW d \in Dir PROVE ClockOK(d)'
    BY <1>0, <1>01, <2>1, <2>2 DEF ClockOK
  <2> QED
    BY <2>3 DEF Clocks
<1>9. CASE Environment
  <2>1. /\ UNCHANGED <<now, setup, index, task, queue, batch>>
        /\ \A d \in Dir : modified'[d] \in {now, modified[d]}
    BY <1>9, OutsideEffect
  <2>2. Waiting' = Waiting /\ \A x \in Dir : Real(x)' = Real(x)
    BY <2>1 DEF Waiting, Real
  <2>3. ASSUME NEW d \in Dir PROVE ClockOK(d)'
    <3>1. /\ modified'[d] <= now /\ modified[Real(d)] <= modified'[Real(d)]
          /\ modified'[Real(d)] \in Nat
      BY <1>0, <1>01, <2>1 DEF ClockOK
    <3>2. at[d] # "unseen" => mtime[d] <= modified'[Real(d)]
      BY <1>0, <1>01, <3>1 DEF ClockOK
    <3> QED
      BY <1>0, <2>1, <2>2, <3>1, <3>2 DEF ClockOK
  <2> QED
    BY <2>3 DEF Clocks
<1>10. ASSUME NEW d \in Dir, NEW n \in Name, StatFile(d, n) PROVE Clocks'
  <2>1. UNCHANGED <<tree, index, mtime, recorded, at, queue, batch>>
    BY <1>10, StatEffect
  <2> QED
    BY <1>3, <2>1 DEF Waiting
<1>11. ASSUME NEW d \in Dir, Receive(d) PROVE Clocks'
  BY <1>3, <1>11, ReceiveEffect
<1>12. CASE FinishWalk \/ JoinWriter \/ UNCHANGED vars
  BY <1>3, <1>12 DEF FinishWalk, JoinWriter, vars, Waiting
<1>13. ASSUME NEW d \in Dir, \/ \E n \in Name : StatFails(d, n)
                             \/ \E e \in Dir : EnterFails(d, e)
       PROVE  Clocks'
  <2>1. UNCHANGED <<tree, index, mtime, recorded, at, queue, batch>>
    BY <1>13, StatFailsEffect, EnterFailsEffect
  <2> QED
    BY <1>3, <2>1 DEF Waiting
<1> QED
  BY <1>1, <1>2, <1>4, <1>5, <1>6, <1>7, <1>8, <1>9, <1>10, <1>11, <1>12, <1>13
     DEF Next, Walk, Writer, Visit

LEMMA ListingsInit == Init => Listings
<1> SUFFICES ASSUME Init, NEW d \in Dir PROVE ListingTrue(d)
  BY DEF Listings
<1>1. index[d] = NoFile /\ Waiting = {} /\ at[d] = "unseen"
  BY DEF Init, ForAllDirs, Waiting
<1> QED
  BY <1>1 DEF ListingTrue, RecordCurrent, Usable

\* Nothing else changes what a record or a listing is compared with.
LEMMA SameTree ==
  ASSUME UNCHANGED <<setup, present, file>>, NEW d \in Dir
  PROVE  NamesIn(d)' = NamesIn(d) /\ SubdirsOf(d)' = SubdirsOf(d) /\ Real(d)' = Real(d)
BY DEF NamesIn, SubdirsOf, EntriesOf, IsLink, Entry, Real, At

LEMMA SameRecord ==
  ASSUME UNCHANGED <<setup, present, file, modified, partial>>, NEW d \in Dir,
         index'[d] = index[d], RecordCurrent(d)
  PROVE  RecordCurrent(d)'
<1>1. NamesIn(d)' = NamesIn(d) /\ SubdirsOf(d)' = SubdirsOf(d) /\ Real(d)' = Real(d)
  BY SameTree
<1>2. Usable(d)' = Usable(d) /\ (Usable(d) => NamesRecorded(d)' = NamesRecorded(d))
  BY <1>1 DEF Usable, NamesRecorded
<1> QED
  BY <1>1, <1>2 DEF RecordCurrent

\* Only other programs make a visit late.
LEMMA LateSteps == ASSUME [Next]_vars PROVE late' = late \/ Environment
<1> USE DEF history
<1>1. ASSUME NEW d \in Dir, Visit(d) PROVE late' = late
  <2>1. CASE List(d) \/ FinishVisit(d)
    BY <2>1 DEF List, FinishVisit
  <2>2. CASE \E n \in Name : StatFile(d, n) \/ StatFails(d, n)
    BY <2>2 DEF StatFile, StatFails
  <2>3. CASE \E e \in Dir : Enter(d, e) \/ EnterFails(d, e)
    BY <2>3 DEF Enter, EnterFails
  <2> QED
    BY <1>1, <2>1, <2>2, <2>3 DEF Visit
<1>2. Walk => late' = late
  BY <1>1 DEF Walk, FinishWalk, JoinWriter, Hash
<1>3. Start \/ Writer \/ Kill \/ Tick \/ UNCHANGED vars => late' = late
  BY DEF Start, Writer, Commit, Receive, Kill, Tick, vars
<1> QED
  BY <1>2, <1>3 DEF Next

LEMMA ListingsStep ==
  ASSUME TypeOK, Tasks, Clocks, Listings, [Next]_vars PROVE Listings'
<1>0. SUFFICES ASSUME ~late' PROVE \A d \in Dir : ListingTrue(d)'
  BY DEF Listings
<1> USE DEF tree, task, history
<1>01. late' = late \/ Environment
  BY LateSteps
<1>02. /\ ~late /\ \A d \in Dir : ListingTrue(d)
       /\ \A d \in Dir : TaskOK(d) /\ ClockOK(d)
  <2>1. late' = late => ~late
    BY <1>0
  <2>2. Environment => ~late
    BY <1>0, OutsideEffect, Zenon
  <2> QED
    BY <1>01, <2>1, <2>2 DEF Listings, Tasks, Clocks
<1>03. ASSUME NEW d \in Dir, UNCHANGED <<setup, present, file, modified, index, partial>>,
              mtime'[d] = mtime[d], d \in missed => d \in missed',
              d \in Waiting' => /\ d \in Waiting /\ options' = options
                                /\ fresh'[d] = fresh[d] /\ subdirs'[d] = subdirs[d],
              at'[d] = "listed" => /\ at[d] = "listed" /\ options' = options
                                   /\ names'[d] = names[d] /\ subdirs'[d] = subdirs[d]
       PROVE  ListingTrue(d)'
  <2>1. NamesIn(d)' = NamesIn(d) /\ SubdirsOf(d)' = SubdirsOf(d) /\ Real(d)' = Real(d)
    BY <1>03, SameTree
  <2>2. ListingTrue(d)
    BY <1>02
  <2>3. RecordCurrent(d)'
    BY <1>03, <2>2, SameRecord DEF ListingTrue
  <2> QED
    BY <1>03, <2>1, <2>2, <2>3 DEF ListingTrue, Listing, Fits
<1>1. CASE Start
  <2>1. \A d \in Dir : /\ d \notin Waiting' /\ at'[d] # "listed"
                       /\ UNCHANGED <<tree, index, partial>>
    BY <1>1, StartEffect
  <2>2. ASSUME NEW d \in Dir PROVE ListingTrue(d)'
    <3>1. RecordCurrent(d)'
      BY <1>02, <2>1, SameRecord DEF ListingTrue
    <3> QED
      BY <2>1, <3>1 DEF ListingTrue
  <2> QED
    BY <2>2
<1>2. ASSUME NEW d \in Dir, List(d), NEW e \in Dir PROVE ListingTrue(e)'
  <2>0. /\ at[d] = "entered" /\ missed' \in {missed, missed \cup {d}}
        /\ UNCHANGED <<tree, index, options, mtime, fresh, queue, batch, partial>>
        /\ at'[d] = "listed" =>
              /\ Reusable(Lookup(d)) => /\ names'[d] = NamesOf(Lookup(d).sizes)
                                        /\ subdirs'[d] = Lookup(d).subdirs
                                        /\ d \in partial => d \in missed'
              /\ ~Reusable(Lookup(d)) =>
                    /\ names'[d] \subseteq NamesIn(d) /\ subdirs'[d] \subseteq Listed(d)
                    /\ d \notin missed' => names'[d] = NamesIn(d) /\ subdirs'[d] = Listed(d)
        /\ \A x \in Dir \ {d} :
              at'[x] = at[x] /\ names'[x] = names[x] /\ subdirs'[x] = subdirs[x]
    BY <1>2, ListEffect
  <2>01. Waiting' = Waiting /\ d \notin Waiting
    BY <2>0 DEF Waiting, TypeOK
  <2>1. CASE e # d
    BY <1>03, <2>0, <2>01, <2>1
  <2>2. CASE e = d
    <3>1. NamesIn(d)' = NamesIn(d) /\ SubdirsOf(d)' = SubdirsOf(d) /\ Real(d)' = Real(d)
      BY <2>0, SameTree
    <3>2. RecordCurrent(d)
      BY <1>02 DEF ListingTrue
    <3>3. RecordCurrent(d)'
      BY <2>0, <3>2, SameRecord
    <3>4. ASSUME at'[d] = "listed", Fits(d)
          PROVE  /\ names'[d] \subseteq NamesIn(d) /\ (d \notin missed' => names'[d] = NamesIn(d))
                 /\ ~options.follow_symlinks =>
                       /\ subdirs'[d] \subseteq SubdirsOf(d)
                       /\ d \notin missed' => subdirs'[d] = SubdirsOf(d)
      <4>1. CASE Reusable(Lookup(d))
        <5>1. /\ Lookup(d) = index[d] /\ Usable(d) /\ index[d].subdirs # NoFile
          BY <3>4, <4>1 DEF Reusable, Lookup, Fits, Usable
        <5>2. names'[d] = NamesRecorded(d) /\ subdirs'[d] = index[d].subdirs
          BY <2>0, <3>4, <4>1, <5>1 DEF NamesOf, NamesRecorded
        <5> QED
          BY <2>0, <3>2, <3>4, <4>1, <5>1, <5>2 DEF RecordCurrent
      <4>2. CASE ~Reusable(Lookup(d))
        BY <2>0, <3>4, <4>2 DEF Listed
      <4> QED
        BY <4>1, <4>2
    <3> QED
      BY <2>0, <2>01, <2>2, <3>1, <3>3, <3>4 DEF ListingTrue, Listing, Fits
  <2> QED
    BY <2>1, <2>2
<1>3. ASSUME NEW d \in Dir, NEW n \in Name, StatFile(d, n) \/ StatFails(d, n), NEW e \in Dir
      PROVE  ListingTrue(e)'
  <2>0. /\ at[d] = "listed" /\ \A x \in Dir \ {d} : fresh'[x] = fresh[x]
        /\ missed \subseteq missed'
        /\ UNCHANGED <<tree, index, options, at, mtime, names, subdirs, queue, batch, partial>>
    BY <1>3, StatEffect, StatFailsEffect
  <2>1. Waiting' = Waiting /\ d \notin Waiting
    BY <2>0 DEF Waiting, TypeOK
  <2> QED
    BY <1>03, <2>0, <2>1
<1>4. ASSUME NEW d \in Dir, NEW x \in Dir, Enter(d, x), NEW e \in Dir PROVE ListingTrue(e)'
  <2>0. /\ at[x] = "unseen" /\ at'[x] \in {"entered", "unseen"}
        /\ \A z \in Dir \ {x} : at'[z] = at[z] /\ mtime'[z] = mtime[z]
        /\ UNCHANGED <<tree, index, options, names, subdirs, fresh, missed, queue, batch, partial>>
    BY <1>4, EnterEffect
  <2>1. Waiting' = Waiting /\ x \notin Waiting
    BY <2>0 DEF Waiting, TypeOK
  <2>2. CASE e # x
    BY <1>03, <2>0, <2>1, <2>2
  <2>3. CASE e = x
    <3>1. RecordCurrent(x)'
      BY <1>02, <2>0, SameRecord DEF ListingTrue
    <3> QED
      BY <2>0, <2>1, <2>3, <3>1 DEF ListingTrue
  <2> QED
    BY <2>2, <2>3
<1>04. ASSUME NEW d \in Dir, NEW x \in Dir, EnterFails(d, x), NEW e \in Dir PROVE ListingTrue(e)'
  <2>0. /\ missed \subseteq missed'
        /\ UNCHANGED <<tree, index, options, at, mtime, names, subdirs, fresh, queue, batch,
                       partial>>
    BY <1>04, EnterFailsEffect
  <2> QED
    BY <1>03, <2>0 DEF Waiting
<1>5. ASSUME NEW d \in Dir, FinishVisit(d), NEW e \in Dir PROVE ListingTrue(e)'
  <2>0. /\ at[d] = "listed" /\ todo[d] = {} /\ at'[d] = "visited" /\ d \notin Waiting
        /\ \A z \in Dir \ {d} : at'[z] = at[z]
        /\ \/ Recordable(d) /\ Waiting' = Waiting \cup {d}
           \/ Waiting' = Waiting
        /\ UNCHANGED <<tree, index, options, names, subdirs, fresh, mtime, missed, partial>>
    BY <1>5, FinishEffect
  <2>1. CASE e # d \/ d \notin Waiting'
    BY <1>03, <2>0, <2>1
  <2>2. CASE e = d /\ d \in Waiting'
    <3>1. NamesIn(d)' = NamesIn(d) /\ SubdirsOf(d)' = SubdirsOf(d) /\ Real(d)' = Real(d)
      BY <2>0, SameTree
    <3>2. fresh[d] # NoFile
      BY <2>0, <2>2 DEF Recordable
    <3>3. NamesOf(fresh[d]) = names[d]
      BY <1>02, <2>0, <3>2 DEF TaskOK, Handled
    <3>4. RecordCurrent(d)'
      BY <1>02, <2>0, SameRecord DEF ListingTrue
    <3>5. ListingTrue(d)
      BY <1>02
    <3> QED
      BY <2>0, <2>2, <3>1, <3>3, <3>4, <3>5 DEF ListingTrue, Listing, Fits
  <2> QED
    BY <2>1, <2>2
<1>6. ASSUME NEW d \in Dir, Receive(d), NEW e \in Dir PROVE ListingTrue(e)'
  BY <1>03, <1>6, ReceiveEffect
<1>7. ASSUME Commit, NEW d \in Dir PROVE ListingTrue(d)'
  <2>0. /\ batch \subseteq Waiting /\ Waiting' \subseteq Waiting
        /\ \/ index'[d] = index[d] /\ (d \in partial' <=> d \in partial)
           \/ /\ d \in batch /\ index'[d] = NewRecord(d)
              /\ d \in partial' <=> d \in missed
        /\ UNCHANGED <<tree, task, options>>
    BY <1>7, CommitEffect DEF Partial
  <2>1. NamesIn(d)' = NamesIn(d) /\ SubdirsOf(d)' = SubdirsOf(d) /\ Real(d)' = Real(d)
    BY <2>0, SameTree
  <2>2. ListingTrue(d)
    BY <1>02
  <2>3. RecordCurrent(d)'
    <3>1. CASE index'[d] = index[d] /\ (d \in partial' <=> d \in partial)
      <4>1. Usable(d)' = Usable(d) /\ (Usable(d) => NamesRecorded(d)' = NamesRecorded(d))
        BY <2>0, <2>1, <3>1 DEF Usable, NamesRecorded
      <4> QED
        BY <2>1, <2>2, <3>1, <4>1 DEF ListingTrue, RecordCurrent
    <3>2. CASE d \in batch /\ index'[d] = NewRecord(d) /\ (d \in partial' <=> d \in missed)
      <4>1. /\ NewRecord(d).mtime = mtime[d] /\ NewRecord(d).sizes = fresh[d]
            /\ NewRecord(d).subdirs \in {subdirs[d], NoFile}
            /\ options.follow_symlinks => NewRecord(d).subdirs = NoFile
        BY DEF NewRecord
      <4>2. /\ NamesRecorded(d)' = NamesOf(fresh[d])
            /\ Usable(d)' => Fits(d)
        BY <2>0, <2>1, <3>2, <4>1 DEF NamesRecorded, NamesOf, Usable, Fits
      <4>3. Fits(d) => Listing(d, NamesOf(fresh[d]), subdirs[d])
        BY <2>0, <2>2, <3>2 DEF ListingTrue
      <4> QED
        BY <2>1, <3>2, <4>1, <4>2, <4>3 DEF Listing, RecordCurrent
    <3> QED
      BY <2>0, <3>1, <3>2
  <2> QED
    BY <2>0, <2>1, <2>2, <2>3 DEF ListingTrue, Listing, Fits
<1>8. ASSUME FinishWalk \/ JoinWriter \/ Tick \/ UNCHANGED vars, NEW d \in Dir
      PROVE  ListingTrue(d)'
  <2>1. UNCHANGED <<modified, setup, present, file, index, task, options, queue, batch, partial>>
    BY <1>8 DEF FinishWalk, JoinWriter, Tick, vars
  <2> QED
    BY <1>03, <2>1 DEF Waiting
<1>9. ASSUME Hash \/ Kill, NEW d \in Dir PROVE ListingTrue(d)'
  <2>0. Waiting' = {} /\ at'[d] = "unseen" /\ UNCHANGED <<tree, index, partial>>
    BY <1>9, DropEffect
  <2>1. RecordCurrent(d)'
    BY <1>02, <2>0, SameRecord DEF ListingTrue
  <2> QED
    BY <2>0, <2>1 DEF ListingTrue
<1>11. ASSUME Environment, NEW d \in Dir PROVE ListingTrue(d)'
  <2>0. /\ UNCHANGED <<setup, index, options, task, queue, batch, partial>>
        /\ \A x \in Dir :
              \/ modified'[x] = now /\ \A e \in Dir : Real(e) = x => at[e] # "listed"
              \/ /\ modified'[x] = modified[x]
                 /\ \A e \in Dir : Real(e) = x =>
                       NamesIn(e)' = NamesIn(e) /\ SubdirsOf(e)' = SubdirsOf(e)
    BY <1>0, <1>11, OutsideEffect
  <2>1. Real(d) \in Dir /\ Real(d)' = Real(d) /\ Waiting' = Waiting
    BY <2>0, SetupFacts DEF Real, Waiting
  <2>2. CASE modified'[Real(d)] = now /\ at[d] # "listed"
    <3>1. /\ now \in Nat /\ Racy \in Nat \ {0} /\ mtime[d] \in Nat
          /\ index[d] # NoFile => index[d].mtime \in Nat
      BY ClockTypes
    <3>2. ClockOK(d)
      BY <1>02
    <3>3. index[d] # NoFile => index[d].mtime # now
      BY <3>1, <3>2 DEF ClockOK
    <3>4. d \in Waiting => mtime[d] # now
      BY <3>1, <3>2 DEF ClockOK
    <3>5. ~Usable(d)'
      BY <2>0, <2>1, <2>2, <3>3 DEF Usable
    <3> QED
      BY <2>0, <2>1, <2>2, <3>4, <3>5 DEF ListingTrue, RecordCurrent, Fits
  <2>3. CASE /\ modified'[Real(d)] = modified[Real(d)]
             /\ NamesIn(d)' = NamesIn(d) /\ SubdirsOf(d)' = SubdirsOf(d)
    <3>1. Usable(d)' = Usable(d) /\ NamesRecorded(d)' = NamesRecorded(d)
      BY <2>0, <2>1, <2>3 DEF Usable, NamesRecorded
    <3>2. ListingTrue(d)
      BY <1>02
    <3> QED
      BY <2>0, <2>1, <2>3, <3>1, <3>2 DEF ListingTrue, Listing, RecordCurrent, Fits
  <2> QED
    BY <2>0, <2>1, <2>2, <2>3
<1> QED
  BY <1>1, <1>2, <1>3, <1>4, <1>04, <1>5, <1>6, <1>7, <1>8, <1>9, <1>11
     DEF Next, Walk, Writer, Visit
-----------------------------------------------------------------------------
(* A walk that uses records finds what there is.                           *)

\* All that a walk looks at but the tasks.
LEMMA SameScan ==
  ASSUME UNCHANGED <<setup, present, file, options>>, NEW d \in Dir
  PROVE  /\ NamesIn(d)' = NamesIn(d) /\ Listed(d)' = Listed(d) /\ Real(d)' = Real(d)
         /\ Reachable(d)' = Reachable(d) /\ Open(d)' = Open(d)
         /\ \A e \in Dir : Enters(d, e)' = Enters(d, e)
         /\ \A n \in Name : At(<<d, n>>)' = At(<<d, n>>) /\ SizeAt(d, n)' = SizeAt(d, n)
         /\ recorded'[d] = recorded[d] =>
               \A n \in Name : Stat(d, n)' = Stat(d, n) /\ Candidates(d, n)' = Candidates(d, n)
<1>1. \A e : Reachable(e)' = Reachable(e) /\ Real(e)' = Real(e) /\ Entry(e)' = Entry(e)
  BY DEF Reachable, Real, Entry
<1>2. \A e : EntriesOf(e)' = EntriesOf(e) /\ IsLink(e)' = IsLink(e)
  BY <1>1 DEF EntriesOf, IsLink
<1>3. NamesIn(d)' = NamesIn(d) /\ \A n \in Name : At(<<d, n>>)' = At(<<d, n>>)
  BY DEF NamesIn, At, Real
<1>4. Listed(d)' = Listed(d)
  BY <1>1, <1>2 DEF Listed, SubdirsOf
<1>5. \A e : Ancestors(e)' = Ancestors(e) /\ OtherFilesystem(e)' = OtherFilesystem(e)
  BY <1>1 DEF Ancestors, OtherFilesystem
<1>6. Open(d)' = Open(d) /\ \A e \in Dir : Enters(d, e)' = Enters(d, e)
  BY <1>1, <1>2, <1>5 DEF Open, Enters
<1>7. \A n \in Name : SizeAt(d, n)' = SizeAt(d, n) /\ Exists(<<d, n>>)' = Exists(<<d, n>>)
  BY <1>1, <1>3 DEF SizeAt, Exists
<1>8. ASSUME recorded'[d] = recorded[d], NEW n \in Name
      PROVE  Stat(d, n)' = Stat(d, n) /\ Candidates(d, n)' = Candidates(d, n)
  <2>1. Stat(d, n)' = Stat(d, n)
    BY <1>3, <1>7, <1>8 DEF Stat, Reused
  <2> QED
    BY <2>1 DEF Candidates, size_allowed, extension_allowed
<1> QED
  BY <1>1, <1>3, <1>4, <1>6, <1>7, <1>8

LEMMA VisitsInit == Init => Visits
BY DEF Init, Visits, Quiet

LEMMA VisitsStep ==
  ASSUME TypeOK, Tasks, Listings, Visits, [Next]_vars PROVE Visits'
<1>0. SUFFICES ASSUME Quiet'
               PROVE  /\ \A d \in Dir : VisitTrue(d)'
                      /\ \A d \in Dir, n \in Name : FoundTrue(d, n)'
  BY DEF Visits
<1> USE DEF tree, task, history
<1>01. \A d \in Dir : TaskOK(d)
  BY DEF Tasks
<1>02. Quiet => /\ \A d \in Dir : VisitTrue(d)
                /\ \A d \in Dir, n \in Name : FoundTrue(d, n)
  BY DEF Visits
<1>03. TaskType
  BY TypeParts
<1>04. ASSUME NEW d \in Dir, Quiet, UNCHANGED <<setup, present, file, modified, options>>,
              Busy(d)' = Busy(d), mtime'[d] = mtime[d], names'[d] = names[d],
              subdirs'[d] = subdirs[d], todo'[d] = todo[d],
              at[d] = "unseen" => at'[d] = "unseen", missed \subseteq missed',
              \A e \in Dir : at[e] # "unseen" => at'[e] # "unseen"
       PROVE  VisitTrue(d)'
  <2>1. /\ NamesIn(d)' = NamesIn(d) /\ Listed(d)' = Listed(d) /\ Real(d)' = Real(d)
        /\ Reachable(d)' = Reachable(d) /\ Open(d)' = Open(d)
        /\ \A e \in Dir : Enters(d, e)' = Enters(d, e)
    BY <1>04, SameScan
  <2>2. subdirs[d] \subseteq Dir
    BY <1>03 DEF TaskType
  <2>3. VisitTrue(d)
    BY <1>02, <1>04
  <2> QED
    BY <1>04, <2>1, <2>2, <2>3 DEF VisitTrue, Fits
<1>05. ASSUME NEW d \in Dir, NEW n \in Name, Quiet, UNCHANGED <<setup, present, file, options>>,
              found' = found, n \in Handled(d)' <=> n \in Handled(d),
              n \in Handled(d) => recorded'[d] = recorded[d], d \in missed => d \in missed'
       PROVE  FoundTrue(d, n)'
  <2>1. recorded'[d] = recorded[d] => Candidates(d, n)' = Candidates(d, n)
    BY <1>05, SameScan
  <2>2. FoundTrue(d, n)
    BY <1>02, <1>05
  <2> QED
    BY <1>05, <2>1, <2>2 DEF FoundTrue
<1>06. ASSUME Quiet, UNCHANGED <<tree, options, task, found>>
       PROVE  /\ \A d \in Dir : VisitTrue(d)'
              /\ \A d \in Dir, n \in Name : FoundTrue(d, n)'
  <2>1. \A d \in Dir : VisitTrue(d)'
    BY <1>04, <1>06 DEF Busy
  <2>2. \A d \in Dir, n \in Name : FoundTrue(d, n)'
    BY <1>05, <1>06 DEF Handled
  <2> QED
    BY <2>1, <2>2
<1>1. CASE Start
  <2>1. /\ NoTasks /\ at'[Root] = "entered" /\ mtime'[Root] = modified[Root]
        /\ \A d \in Dir \ {Root} : at'[d] = "unseen"
        /\ UNCHANGED <<tree, names, subdirs, todo, found>>
    BY <1>1, StartEffect
  <2>2. Real(Root) = Root /\ Entry(Root) = Root /\ Root \in Dir /\ PathTo[Root] = {Root}
        /\ Root \in present
    BY SetupFacts, PathFacts, TreeAssumption DEF Tasks
  <2>3. /\ Real(Root)' = Root /\ Entry(Root)' = Root
    BY <2>1, <2>2 DEF Real, Entry
  <2>4. Open(Root)' /\ Reachable(Root)'
    BY <2>1, <2>2, <2>3 DEF Open, Reachable
  <2>5. ASSUME NEW d \in Dir PROVE VisitTrue(d)'
    BY <2>1, <2>2, <2>3, <2>4 DEF VisitTrue, Busy, Fits
  <2>6. ASSUME NEW d \in Dir, NEW n \in Name PROVE FoundTrue(d, n)'
    BY <2>1 DEF FoundTrue, NoTasks, Handled
  <2> QED
    BY <2>5, <2>6
<1>2. ASSUME NEW d \in Dir, List(d)
      PROVE  /\ \A x \in Dir : VisitTrue(x)'
             /\ \A x \in Dir, n \in Name : FoundTrue(x, n)'
  <2>0. /\ at[d] = "entered" /\ missed \subseteq missed'
        /\ UNCHANGED <<tree, index, pc, options, mtime, fresh, queue, batch, found, reported,
                       history>>
        /\ \/ /\ at'[d] = "visited" /\ d \in missed'
              /\ recorded' = recorded /\ names' = names /\ subdirs' = subdirs /\ todo' = todo
           \/ /\ at'[d] = "listed"
              /\ Reusable(Lookup(d)) => /\ names'[d] = NamesOf(Lookup(d).sizes)
                                        /\ subdirs'[d] = Lookup(d).subdirs
                                        /\ d \in partial => d \in missed'
              /\ ~Reusable(Lookup(d)) =>
                    /\ names'[d] \subseteq NamesIn(d) /\ subdirs'[d] \subseteq Listed(d)
                    /\ d \notin missed' => names'[d] = NamesIn(d) /\ subdirs'[d] = Listed(d)
              /\ todo'[d] = names'[d] \cup subdirs'[d]
        /\ \A e \in Dir \ {d} :
              /\ at'[e] = at[e] /\ recorded'[e] = recorded[e] /\ names'[e] = names[e]
              /\ subdirs'[e] = subdirs[e] /\ todo'[e] = todo[e]
    BY <1>2, ListEffect
  <2>1. Quiet
    BY <1>0, <2>0 DEF Quiet
  <2>2. VisitTrue(d) /\ TaskOK(d)
    BY <1>01, <1>02, <2>1
  <2>3. /\ at'[d] # "unseen" /\ names'[d] \subseteq NamesIn(d) /\ subdirs'[d] \subseteq Listed(d)
        /\ d \notin missed' => names'[d] = NamesIn(d) /\ subdirs'[d] = Listed(d)
        /\ names'[d] \cap Handled(d)' = {} /\ subdirs'[d] \subseteq todo'[d]
    <3>1. Reachable(d) /\ Fits(d)
      BY <2>0, <2>2 DEF VisitTrue
    <3>2. CASE at'[d] = "listed" /\ Reusable(Lookup(d))
      <4>1. /\ Lookup(d) = index[d] /\ Usable(d)
            /\ index[d].subdirs # NoFile /\ ~options.follow_symlinks
        BY <3>1, <3>2 DEF Reusable, Lookup, Fits, Usable
      <4>2. RecordCurrent(d)
        BY <2>1 DEF Listings, ListingTrue, Quiet
      <4>3. /\ names'[d] = NamesRecorded(d) /\ subdirs'[d] = index[d].subdirs
            /\ d \in partial => d \in missed'
            /\ todo'[d] = names'[d] \cup subdirs'[d]
        BY <2>0, <3>2, <4>1 DEF NamesOf, NamesRecorded
      <4>4. Listed(d) = SubdirsOf(d)
        BY <4>1 DEF Listed
      <4> QED
        BY <3>2, <4>1, <4>2, <4>3, <4>4 DEF RecordCurrent, Handled
    <3>3. CASE at'[d] = "listed" /\ ~Reusable(Lookup(d))
      BY <2>0, <3>1, <3>3 DEF Handled
    <3>4. CASE at'[d] = "visited" /\ d \in missed' /\ names' = names /\ subdirs' = subdirs
      BY <2>0, <2>2, <3>4 DEF TaskOK, Handled
    <3> QED
      BY <2>0, <3>2, <3>3, <3>4
  <2>4. ASSUME NEW x \in Dir PROVE VisitTrue(x)'
    <3>1. CASE x # d
      BY <1>04, <2>0, <2>1, <2>3, <3>1 DEF Busy
    <3>2. CASE x = d
      <4>1. /\ NamesIn(d)' = NamesIn(d) /\ Listed(d)' = Listed(d) /\ Real(d)' = Real(d)
            /\ Reachable(d)' = Reachable(d) /\ Open(d)' = Open(d)
        BY <2>0, SameScan
      <4> QED
        BY <2>0, <2>2, <2>3, <3>2, <4>1 DEF VisitTrue, Fits
    <3> QED
      BY <3>1, <3>2
  <2>5. ASSUME NEW x \in Dir, NEW n \in Name PROVE FoundTrue(x, n)'
    <3>1. CASE x # d
      BY <1>05, <2>0, <2>1, <3>1 DEF Handled
    <3>2. CASE x = d
      <4>1. n \notin Handled(d) /\ n \notin Handled(d)'
        BY <2>0, <2>2, <2>3 DEF TaskOK, Handled
      <4> QED
        BY <1>05, <2>0, <2>1, <3>2, <4>1
    <3> QED
      BY <3>1, <3>2
  <2> QED
    BY <2>4, <2>5
<1>3. ASSUME NEW d \in Dir, NEW n \in Name, StatFile(d, n)
      PROVE  /\ \A x \in Dir : VisitTrue(x)'
             /\ \A x \in Dir, m \in Name : FoundTrue(x, m)'
  <2>0. /\ at[d] = "listed" /\ n \in todo[d] /\ todo'[d] = todo[d] \ {n}
        /\ \A e \in Dir \ {d} : todo'[e] = todo[e]
        /\ found' = found \cup Candidates(d, n)
        /\ UNCHANGED <<tree, index, pc, options, at, mtime, recorded, names, subdirs, missed,
                       queue, batch, reported, history>>
    BY <1>3, StatEffect
  <2>1. Quiet
    BY <1>0, <2>0 DEF Quiet
  <2>2. /\ VisitTrue(d) /\ TaskOK(d) /\ n \notin Dir /\ subdirs[d] \subseteq Dir
    BY <1>01, <1>02, <1>03, <2>1, TreeAssumption DEF TaskType
  <2>3. n \in names[d]
    BY <2>0, <2>2 DEF TaskOK
  <2>4. ASSUME NEW x \in Dir PROVE VisitTrue(x)'
    <3>1. CASE x # d
      BY <1>04, <2>0, <2>1, <3>1 DEF Busy
    <3>2. CASE x = d
      <4>1. /\ NamesIn(d)' = NamesIn(d) /\ Listed(d)' = Listed(d) /\ Real(d)' = Real(d)
            /\ Reachable(d)' = Reachable(d) /\ Open(d)' = Open(d)
            /\ \A e \in Dir : Enters(d, e)' = Enters(d, e)
        BY <2>0, SameScan
      <4>2. subdirs[d] \ todo'[d] = subdirs[d] \ todo[d]
        BY <2>0, <2>2
      <4> QED
        BY <2>0, <2>2, <3>2, <4>1, <4>2 DEF VisitTrue, Fits, Busy
    <3> QED
      BY <3>1, <3>2
  <2>5. \A f \in Candidates(d, n) : f[1] = d /\ f[2] = n
    BY DEF Candidates
  <2>6. ASSUME NEW x \in Dir, NEW m \in Name PROVE FoundTrue(x, m)'
    <3>1. Candidates(x, m)' = Candidates(x, m)
      BY <2>0, SameScan
    <3>2. FoundTrue(x, m)
      BY <1>02, <2>1
    <3>3. CASE x = d /\ m = n
      <4>1. n \notin Handled(d) /\ n \in Handled(d)'
        BY <2>0, <2>3 DEF Handled
      <4> QED
        BY <2>0, <2>5, <3>1, <3>2, <3>3, <4>1 DEF FoundTrue
    <3>4. CASE ~(x = d /\ m = n)
      <4>1. m \in Handled(x)' <=> m \in Handled(x)
        BY <2>0, <3>4 DEF Handled
      <4>2. {f \in found' : f[1] = x /\ f[2] = m} = {f \in found : f[1] = x /\ f[2] = m}
        BY <2>0, <2>5, <3>4
      <4> QED
        BY <2>0, <3>1, <3>2, <4>1, <4>2 DEF FoundTrue
    <3> QED
      BY <3>3, <3>4
  <2> QED
    BY <2>4, <2>6
<1>4. ASSUME NEW d \in Dir, NEW e \in Dir, Enter(d, e)
      PROVE  /\ \A x \in Dir : VisitTrue(x)'
             /\ \A x \in Dir, n \in Name : FoundTrue(x, n)'
  <2>0. /\ at[d] = "listed" /\ e \in todo[d] /\ e \in subdirs[d]
        /\ e \in Children(d) /\ at[e] = "unseen"
        /\ todo'[d] = todo[d] \ {e} /\ \A x \in Dir \ {d} : todo'[x] = todo[x]
        /\ \A x \in Dir \ {e} : at'[x] = at[x] /\ mtime'[x] = mtime[x]
        /\ \/ Enters(d, e) /\ at'[e] = "entered" /\ mtime'[e] = modified[Real(e)]
           \/ ~Enters(d, e) /\ at' = at /\ mtime' = mtime
        /\ UNCHANGED <<tree, index, pc, options, recorded, names, subdirs, fresh, missed, queue,
                       batch, found, reported, history>>
    BY <1>4, EnterEffect
  <2>1. Quiet
    BY <1>0, <2>0 DEF Quiet
  <2>2. /\ VisitTrue(d) /\ VisitTrue(e) /\ TaskOK(e) /\ d # e
    BY <1>01, <1>02, <2>0, <2>1
  <2>3. \A x \in Dir : at[x] # "unseen" => at'[x] # "unseen"
    BY <2>0
  <2>4. ASSUME NEW x \in Dir PROVE VisitTrue(x)'
    <3>1. CASE x # d /\ x # e
      BY <1>04, <2>0, <2>1, <2>3, <3>1 DEF Busy
    <3>2. CASE x = d
      <4>1. /\ NamesIn(d)' = NamesIn(d) /\ Listed(d)' = Listed(d) /\ Real(d)' = Real(d)
            /\ Reachable(d)' = Reachable(d) /\ Open(d)' = Open(d)
            /\ \A z \in Dir : Enters(d, z)' = Enters(d, z)
        BY <2>0, SameScan
      <4>2. subdirs[d] \subseteq Dir
        BY <1>03 DEF TaskType
      <4>3. \A z \in subdirs[d] \ todo'[d] :
               at'[z] # "unseen" \/ ~Enters(d, z) \/ z \in missed'
        <5>1. \A z \in subdirs[d] \ todo[d] :
                 at[z] # "unseen" \/ ~Enters(d, z) \/ z \in missed
          BY <2>0, <2>2 DEF VisitTrue, Busy
        <5> QED
          BY <2>0, <2>3, <4>2, <5>1
      <4> QED
        BY <2>0, <2>2, <3>2, <4>1, <4>2, <4>3 DEF VisitTrue, Fits, Busy
    <3>3. CASE x = e
      <4>1. CASE at' = at /\ mtime' = mtime
        BY <2>0, <3>3, <4>1 DEF VisitTrue, Busy
      <4>2. CASE Enters(d, e) /\ at'[e] = "entered" /\ mtime'[e] = modified[Real(e)]
        <5>1. /\ Reachable(e)' = Reachable(e) /\ Open(e)' = Open(e) /\ Real(e)' = Real(e)
          BY <2>0, SameScan
        <5>2. Open(e)
          <6>1. Open(d) /\ subdirs[d] \subseteq Listed(d)
            BY <2>0, <2>2 DEF VisitTrue, Busy
          <6>2. IsLink(e) => options.follow_symlinks
            BY <2>0, <6>1 DEF Listed, SubdirsOf
          <6>3. PathTo[e] = {e} \cup PathTo[d] /\ Parent[e] = d
            BY <2>0, PathFacts DEF Children
          <6> QED
            BY <4>2, <6>1, <6>2, <6>3 DEF Open, Enters
        <5>3. Reachable(e)
          BY <4>2 DEF Enters
        <5> QED
          BY <2>0, <3>3, <4>2, <5>1, <5>2, <5>3 DEF VisitTrue, Fits, Busy
      <4> QED
        BY <2>0, <4>1, <4>2
    <3> QED
      BY <3>1, <3>2, <3>3
  <2>5. ASSUME NEW x \in Dir, NEW n \in Name PROVE FoundTrue(x, n)'
    <3>1. n # e
      BY TreeAssumption
    <3>2. n \in Handled(x)' <=> n \in Handled(x)
      BY <2>0, <3>1 DEF Handled
    <3> QED
      BY <1>05, <2>0, <2>1, <3>2
  <2> QED
    BY <2>4, <2>5
<1>5. ASSUME NEW d \in Dir, FinishVisit(d)
      PROVE  /\ \A x \in Dir : VisitTrue(x)'
             /\ \A x \in Dir, n \in Name : FoundTrue(x, n)'
  <2>0. /\ at[d] = "listed" /\ at'[d] = "visited" /\ \A x \in Dir \ {d} : at'[x] = at[x]
        /\ UNCHANGED <<tree, index, pc, options, mtime, recorded, names, subdirs, todo, fresh,
                       missed, batch, found, reported, history>>
    BY <1>5, FinishEffect
  <2>1. Quiet
    BY <1>0, <2>0 DEF Quiet
  <2>2. ASSUME NEW x \in Dir PROVE VisitTrue(x)'
    <3>1. Busy(x)' = Busy(x) /\ (at[x] = "unseen" => at'[x] = "unseen")
      BY <2>0 DEF Busy
    <3>2. \A e \in Dir : at[e] # "unseen" => at'[e] # "unseen"
      BY <2>0
    <3> QED
      BY <1>04, <2>0, <2>1, <3>1, <3>2
  <2>3. ASSUME NEW x \in Dir, NEW n \in Name PROVE FoundTrue(x, n)'
    BY <1>05, <2>0, <2>1 DEF Handled
  <2> QED
    BY <2>2, <2>3
<1>6. ASSUME Commit \/ \E d \in Dir : Receive(d)
      PROVE  /\ \A x \in Dir : VisitTrue(x)'
             /\ \A x \in Dir, n \in Name : FoundTrue(x, n)'
  <2>1. UNCHANGED <<tree, pc, options, task, found, late, quiet>>
    BY <1>6, CommitEffect, ReceiveEffect
  <2>2. Quiet
    BY <1>0, <2>1 DEF Quiet
  <2> QED
    BY <1>06, <2>1, <2>2
<1>7. CASE FinishWalk \/ JoinWriter
  <2>1. UNCHANGED <<tree, options, task, found, late, quiet>> /\ pc # "idle"
    BY <1>7 DEF FinishWalk, JoinWriter
  <2>2. Quiet
    BY <1>0, <2>1 DEF Quiet
  <2> QED
    BY <1>06, <2>1, <2>2
<1>8. CASE Tick \/ UNCHANGED vars
  <2>1. UNCHANGED <<modified, setup, present, file, pc, options, task, found, late, quiet>>
    BY <1>8 DEF Tick, vars
  <2>2. Quiet
    BY <1>0, <2>1 DEF Quiet
  <2>3. ASSUME NEW x \in Dir PROVE VisitTrue(x)'
    BY <1>04, <2>1, <2>2 DEF Busy
  <2>4. ASSUME NEW x \in Dir, NEW n \in Name PROVE FoundTrue(x, n)'
    BY <1>05, <2>1, <2>2 DEF Handled
  <2> QED
    BY <2>3, <2>4
<1>9. ~(Hash \/ Kill \/ Environment)
  <2>1. pc' # "idle" /\ quiet'
    BY <1>0 DEF Quiet
  <2>2. ~Environment
    BY <2>1 DEF Environment, Outside
  <2>3. ~(Hash \/ Kill)
    BY <2>1 DEF Hash, Kill
  <2> QED
    BY <2>2, <2>3
<1>10. ASSUME NEW d \in Dir, NEW n \in Name, StatFails(d, n)
       PROVE  /\ \A x \in Dir : VisitTrue(x)'
              /\ \A x \in Dir, m \in Name : FoundTrue(x, m)'
  <2>0. /\ at[d] = "listed" /\ n \in todo[d] /\ todo'[d] = todo[d] \ {n}
        /\ missed' = missed \cup {d}
        /\ \A e \in Dir \ {d} : todo'[e] = todo[e]
        /\ UNCHANGED <<tree, index, pc, options, at, mtime, recorded, names, subdirs, queue,
                       batch, found, reported, history>>
    BY <1>10, StatFailsEffect
  <2>1. Quiet
    BY <1>0, <2>0 DEF Quiet
  <2>2. /\ VisitTrue(d) /\ n \notin Dir /\ subdirs[d] \subseteq Dir
    BY <1>02, <1>03, <2>1, TreeAssumption DEF TaskType
  <2>4. ASSUME NEW x \in Dir PROVE VisitTrue(x)'
    <3>1. CASE x # d
      BY <1>04, <2>0, <2>1, <3>1 DEF Busy
    <3>2. CASE x = d
      <4>1. /\ NamesIn(d)' = NamesIn(d) /\ Listed(d)' = Listed(d) /\ Real(d)' = Real(d)
            /\ Reachable(d)' = Reachable(d) /\ Open(d)' = Open(d)
            /\ \A e \in Dir : Enters(d, e)' = Enters(d, e)
        BY <2>0, SameScan
      <4>2. subdirs[d] \ todo'[d] = subdirs[d] \ todo[d]
        BY <2>0, <2>2
      <4> QED
        BY <2>0, <2>2, <3>2, <4>1, <4>2 DEF VisitTrue, Fits, Busy
    <3> QED
      BY <3>1, <3>2
  <2>6. ASSUME NEW x \in Dir, NEW m \in Name PROVE FoundTrue(x, m)'
    <3>1. CASE x # d
      BY <1>05, <2>0, <2>1, <3>1 DEF Handled
    <3>2. CASE x = d
      <4>1. Candidates(d, m)' = Candidates(d, m) /\ FoundTrue(d, m)
        BY <1>02, <2>0, <2>1, SameScan
      <4>2. m \in Handled(d) => m \in Handled(d)'
        BY <2>0 DEF Handled
      <4> QED
        BY <2>0, <3>2, <4>1, <4>2 DEF FoundTrue
    <3> QED
      BY <3>1, <3>2
  <2> QED
    BY <2>4, <2>6
<1>11. ASSUME NEW d \in Dir, NEW e \in Dir, EnterFails(d, e)
       PROVE  /\ \A x \in Dir : VisitTrue(x)'
              /\ \A x \in Dir, n \in Name : FoundTrue(x, n)'
  <2>0. /\ at[d] = "listed" /\ e \in todo[d] /\ missed' = missed \cup {e}
        /\ todo'[d] = todo[d] \ {e} /\ \A x \in Dir \ {d} : todo'[x] = todo[x]
        /\ UNCHANGED <<tree, index, pc, options, at, mtime, recorded, names, subdirs, fresh,
                       queue, batch, found, reported, history>>
    BY <1>11, EnterFailsEffect
  <2>1. Quiet
    BY <1>0, <2>0 DEF Quiet
  <2>2. ASSUME NEW x \in Dir PROVE VisitTrue(x)'
    <3>1. CASE x # d
      BY <1>04, <2>0, <2>1, <3>1 DEF Busy
    <3>2. CASE x = d
      <4>1. /\ NamesIn(d)' = NamesIn(d) /\ Listed(d)' = Listed(d) /\ Real(d)' = Real(d)
            /\ Reachable(d)' = Reachable(d) /\ Open(d)' = Open(d)
            /\ \A z \in Dir : Enters(d, z)' = Enters(d, z)
        BY <2>0, SameScan
      <4>2. VisitTrue(d) /\ subdirs[d] \subseteq Dir
        BY <1>02, <1>03, <2>1 DEF TaskType
      <4> QED
        BY <2>0, <3>2, <4>1, <4>2 DEF VisitTrue, Fits, Busy
    <3> QED
      BY <3>1, <3>2
  <2>3. ASSUME NEW x \in Dir, NEW n \in Name PROVE FoundTrue(x, n)'
    <3>1. n # e
      BY TreeAssumption
    <3>2. n \in Handled(x)' <=> n \in Handled(x)
      BY <2>0, <3>1 DEF Handled
    <3> QED
      BY <1>05, <2>0, <2>1, <3>2
  <2> QED
    BY <2>2, <2>3
<1> QED
  BY <1>1, <1>2, <1>3, <1>4, <1>5, <1>6, <1>7, <1>8, <1>9, <1>10, <1>11
     DEF Next, Walk, Writer, Visit
-----------------------------------------------------------------------------
(* A rescan mends what was rewritten in place.                             *)

LEMMA NewRecordType ==
  ASSUME TypeOK, NEW d \in Dir, fresh[d] # NoFile
  PROVE  NewRecord(d) \in Record /\ NewRecord(d) # NoFile
<1>1. mtime[d] \in 0..MaxTime /\ fresh[d] \in Sizes /\ subdirs[d] \in SUBSET Dir
  BY DEF TypeOK
<1>2. NewRecord(d) \in Record
  BY <1>1 DEF NewRecord, Record
<1> QED
  BY <1>2, RecordAssumption

LEMMA RescansInit == Init => Rescans
BY DEF Init, Rescans, Quiet

LEMMA RescansStep ==
  ASSUME TypeOK, Tasks, Clocks, Visits, Rescans, [Next]_vars PROVE Rescans'
<1> DEFINE Blank == \A d \in Dir : recorded[d] = NoFile
           Complete == options.exclude_paths = {} /\ ~lost
<1>0. SUFFICES ASSUME Quiet', options'.rescan_all
               PROVE  Blank' /\ (Complete' => \A d \in Dir : RescanTrue(d)')
  BY DEF Rescans
<1> USE DEF tree, task, history
<1>01. \A d \in Dir : TaskOK(d) /\ ClockOK(d)
  BY DEF Tasks, Clocks
<1>02. Quiet /\ options.rescan_all => Blank /\ (Complete => \A d \in Dir : RescanTrue(d))
  BY DEF Rescans
<1>03. Quiet => \A d \in Dir : VisitTrue(d)
  BY DEF Visits
<1>04. ASSUME NEW d \in Dir, RescanTrue(d), UNCHANGED <<setup, present, file, modified>>,
              index'[d] = index[d], recorded'[d] = recorded[d], fresh'[d] = fresh[d],
              at'[d] = at[d], d \in Waiting <=> d \in Waiting', d \in missed => d \in missed'
       PROVE  RescanTrue(d)'
  <2>1. Real(d)' = Real(d) /\ \A n \in Name : SizeAt(d, n)' = SizeAt(d, n)
    BY <1>04 DEF Real, SizeAt, At
  <2> QED
    BY <1>04, <2>1 DEF RescanTrue, Busy, SizesTrue
<1>1. CASE Start
  <2>1. /\ NoTasks /\ \A d \in Dir : at'[d] \in {"entered", "unseen"}
        /\ UNCHANGED recorded
    BY <1>1, StartEffect
  <2> QED
    BY <2>1 DEF NoTasks, RescanTrue, Busy
<1>2. ASSUME NEW d \in Dir, List(d)
      PROVE  Blank' /\ (Complete' => \A x \in Dir : RescanTrue(x)')
  <2>0. /\ at[d] = "entered" /\ missed \subseteq missed'
        /\ UNCHANGED <<tree, index, pc, options, mtime, fresh, queue, batch, history>>
        /\ \/ d \in missed' /\ recorded' = recorded
           \/ at'[d] = "listed" /\ recorded'[d] = Lookup(d)
        /\ \A e \in Dir \ {d} : at'[e] = at[e] /\ recorded'[e] = recorded[e]
    BY <1>2, ListEffect
  <2>1. Quiet /\ options.rescan_all /\ Complete' = Complete
    BY <1>0, <2>0 DEF Quiet
  <2>2. recorded'[d] = NoFile /\ (d \notin missed' => at'[d] = "listed")
    BY <1>02, <2>0, <2>1 DEF Lookup
  <2>3. Blank'
    BY <1>02, <2>0, <2>1, <2>2
  <2>4. RescanTrue(d)'
    <3>1. fresh'[d] = NoSizes
      BY <1>01, <2>0 DEF TaskOK
    <3> QED
      BY <2>2, <3>1, NoSizesType DEF RescanTrue, SizesTrue, NoSizes
  <2>5. ASSUME Complete', NEW x \in Dir, x # d PROVE RescanTrue(x)'
    BY <1>02, <1>04, <2>0, <2>1, <2>5 DEF Waiting
  <2> QED
    BY <2>3, <2>4, <2>5
<1>3. ASSUME NEW d \in Dir, NEW n \in Name, StatFile(d, n)
      PROVE  Blank' /\ (Complete' => \A x \in Dir : RescanTrue(x)')
  <2>0. /\ at[d] = "listed" /\ n \in todo[d] /\ fresh'[d] = Collect(d, n)
        /\ \A e \in Dir \ {d} : fresh'[e] = fresh[e]
        /\ UNCHANGED <<tree, index, pc, options, at, recorded, missed, queue, batch, history>>
    BY <1>3, StatEffect
  <2>1. Quiet /\ options.rescan_all /\ Complete' = Complete
    BY <1>0, <2>0 DEF Quiet
  <2>2. Blank'
    BY <1>02, <2>0, <2>1
  <2>3. ASSUME Complete PROVE RescanTrue(d)'
    <3> SUFFICES ASSUME d \notin missed PROVE RescanTrue(d)'
      BY <2>0 DEF RescanTrue
    <3>1. VisitTrue(d) /\ RescanTrue(d) /\ TaskOK(d) /\ recorded[d] = NoFile
      BY <1>01, <1>02, <1>03, <2>1, <2>3
    <3>2. n \in names[d]
      BY <2>0, <3>1, TreeAssumption DEF TaskOK, Children
    <3>3. At(<<d, n>>) # NoFile /\ Reachable(d)
      BY <2>0, <3>1, <3>2 DEF VisitTrue, Busy, NamesIn
    <3>4. Stat(d, n) = SizeAt(d, n) /\ Stat(d, n) # NoFile
      BY <3>1, <3>3, StatTypes, SizesAreNumbers DEF Stat, Reused, SizeAt, Exists
    <3>5. fresh[d] # NoFile /\ SizesTrue(fresh[d], d)
      BY <2>0, <3>1 DEF RescanTrue, Busy
    <3>6. fresh'[d] = [fresh[d] EXCEPT ![n] = SizeAt(d, n)]
      BY <2>0, <2>3, <3>4, <3>5 DEF Collect
    <3>7. fresh[d] \in Sizes /\ SizeAt(d, n) \in {Size[c] : c \in Content} \cup {NoFile}
      BY <3>5, StatTypes DEF TypeOK
    <3>8. fresh'[d] # NoFile
      BY <3>6, <3>7, RecordAssumption DEF Sizes
    <3>9. Real(d)' = Real(d) /\ \A z \in Name : SizeAt(d, z)' = SizeAt(d, z)
      BY <2>0 DEF Real, SizeAt, At
    <3>10. SizesTrue(fresh[d], d)'
      BY <3>5, <3>6, <3>7, <3>9 DEF SizesTrue, Sizes
    <3> QED
      BY <2>0, <3>1, <3>8, <3>10 DEF RescanTrue
  <2>4. ASSUME Complete, NEW x \in Dir, x # d PROVE RescanTrue(x)'
    BY <1>02, <1>04, <2>0, <2>1, <2>4 DEF Waiting
  <2> QED
    BY <2>1, <2>2, <2>3, <2>4
<1>4. ASSUME NEW d \in Dir, NEW e \in Dir, Enter(d, e)
      PROVE  Blank' /\ (Complete' => \A x \in Dir : RescanTrue(x)')
  <2>0. /\ at'[e] \in {"unseen", "entered"} /\ \A x \in Dir \ {e} : at'[x] = at[x]
        /\ UNCHANGED <<tree, index, pc, options, recorded, fresh, missed, queue, batch, history>>
    BY <1>4, EnterEffect
  <2>1. Quiet /\ options.rescan_all /\ Complete' = Complete
    BY <1>0, <2>0 DEF Quiet
  <2>2. ASSUME Complete', NEW x \in Dir PROVE RescanTrue(x)'
    <3>1. CASE x = e
      BY <2>0, <3>1 DEF RescanTrue, Busy
    <3>2. CASE x # e
      BY <1>02, <1>04, <2>0, <2>1, <2>2, <3>2 DEF Waiting
    <3> QED
      BY <3>1, <3>2
  <2> QED
    BY <1>02, <2>0, <2>1, <2>2
<1>5. ASSUME NEW d \in Dir, FinishVisit(d)
      PROVE  Blank' /\ (Complete' => \A x \in Dir : RescanTrue(x)')
  <2>0. /\ at[d] = "listed" /\ todo[d] = {} /\ d \notin Waiting
        /\ at'[d] = "visited" /\ \A x \in Dir \ {d} : at'[x] = at[x]
        /\ \/ Recordable(d) /\ Waiting' = Waiting \cup {d}
           \/ ~Recordable(d) /\ Waiting' = Waiting
        /\ UNCHANGED <<tree, index, pc, options, mtime, recorded, fresh, missed, history>>
    BY <1>5, FinishEffect
  <2>1. Quiet /\ options.rescan_all /\ Complete' = Complete
    BY <1>0, <2>0 DEF Quiet
  <2>2. ASSUME Complete', NEW x \in Dir, x # d PROVE RescanTrue(x)'
    BY <1>02, <1>04, <2>0, <2>1, <2>2
  <2>3. ASSUME Complete' PROVE RescanTrue(d)'
    <3> SUFFICES ASSUME d \notin missed PROVE RescanTrue(d)'
      BY <2>0 DEF RescanTrue
    <3>1. RescanTrue(d) /\ VisitTrue(d) /\ ClockOK(d)
      BY <1>01, <1>02, <1>03, <2>1, <2>3
    <3>2. recorded[d] = NoFile /\ fresh[d] # NoFile /\ SizesTrue(fresh[d], d) /\ Fits(d)
      BY <2>0, <3>1 DEF RescanTrue, VisitTrue, Busy
    <3>3. Real(d)' = Real(d) /\ \A z \in Name : SizeAt(d, z)' = SizeAt(d, z)
      BY <2>0 DEF Real, SizeAt, At
    <3>4. SizesTrue(fresh[d], d)'
      BY <2>0, <3>2, <3>3 DEF SizesTrue
    <3>5. ASSUME index[d] # NoFile, index[d].mtime = modified[Real(d)] PROVE Recordable(d)
      <4>1. /\ now \in Nat /\ Racy \in Nat \ {0} /\ mtime[d] \in Nat
            /\ index[d].mtime = mtime[d] /\ index[d].mtime + Racy <= now
        BY <3>1, <3>2, <3>5, ClockTypes DEF ClockOK, Fits
      <4>2. recorded[d] # NewRecord(d)
        BY <3>2, NewRecordType
      <4> QED
        BY <3>2, <4>1, <4>2 DEF Recordable
    <3> QED
      BY <2>0, <3>2, <3>3, <3>4, <3>5 DEF RescanTrue
  <2> QED
    BY <1>02, <2>0, <2>1, <2>2, <2>3
<1>6. ASSUME NEW d \in Dir, Receive(d)
      PROVE  Blank' /\ (Complete' => \A x \in Dir : RescanTrue(x)')
  <2>1. /\ Waiting' = Waiting
        /\ UNCHANGED <<tree, index, pc, options, task, history>>
    BY <1>6, ReceiveEffect
  <2>2. Quiet /\ options.rescan_all /\ Complete' = Complete
    BY <1>0, <2>1 DEF Quiet
  <2>3. ASSUME Complete', NEW x \in Dir PROVE RescanTrue(x)'
    BY <1>02, <1>04, <2>1, <2>2, <2>3
  <2> QED
    BY <1>02, <2>1, <2>2, <2>3
<1>7. CASE Commit
  <2>0. /\ batch \subseteq Waiting /\ Waiting' \subseteq Waiting
        /\ Waiting \ batch \subseteq Waiting'
        /\ \/ /\ \A d \in batch : index'[d] = NewRecord(d)
              /\ \A d \in Dir \ batch : index'[d] = index[d]
              /\ lost' = lost
           \/ lost' = TRUE
        /\ UNCHANGED <<tree, pc, options, task, late, quiet>>
    BY <1>7, CommitEffect
  <2>1. Quiet /\ options.rescan_all
    BY <1>0, <2>0 DEF Quiet
  <2>2. ASSUME Complete' PROVE /\ \A d \in batch : index'[d] = NewRecord(d)
                               /\ \A d \in Dir \ batch : index'[d] = index[d]
                               /\ Complete
    BY <2>0, <2>2
  <2>3. ASSUME Complete', NEW d \in Dir PROVE RescanTrue(d)'
    <3>1. RescanTrue(d)
      BY <1>02, <2>1, <2>2, <2>3
    <3>2. CASE d \notin batch
      BY <1>04, <2>0, <2>2, <2>3, <3>1, <3>2
    <3>3. CASE d \in batch /\ d \notin missed
      <4>1. at[d] = "visited" /\ NewRecord(d).sizes = fresh[d]
        BY <3>3 DEF TypeOK, NewRecord
      <4>2. recorded[d] = NoFile /\ fresh[d] # NoFile /\ SizesTrue(fresh[d], d)
        BY <3>1, <3>3, <4>1 DEF RescanTrue, Busy
      <4>3. Real(d)' = Real(d) /\ \A z \in Name : SizeAt(d, z)' = SizeAt(d, z)
        BY <2>0 DEF Real, SizeAt, At
      <4>4. SizesTrue(fresh[d], d)' /\ SizesTrue(index[d].sizes, d)'
        BY <2>0, <2>2, <2>3, <3>3, <4>1, <4>2, <4>3 DEF SizesTrue
      <4> QED
        BY <2>0, <4>2, <4>4 DEF RescanTrue
    <3>4. CASE d \in missed
      BY <2>0, <3>4 DEF RescanTrue
    <3> QED
      BY <3>2, <3>3, <3>4
  <2> QED
    BY <1>02, <2>0, <2>1, <2>3
<1>8. CASE FinishWalk \/ JoinWriter
  <2>1. UNCHANGED <<tree, index, options, task, queue, batch, late, quiet, lost>> /\ pc # "idle"
    BY <1>8 DEF FinishWalk, JoinWriter
  <2>2. Quiet /\ options.rescan_all /\ Complete' = Complete
    BY <1>0, <2>1 DEF Quiet
  <2>3. ASSUME Complete', NEW x \in Dir PROVE RescanTrue(x)'
    BY <1>02, <1>04, <2>1, <2>2, <2>3 DEF Waiting
  <2> QED
    BY <1>02, <2>1, <2>2, <2>3
<1>9. CASE Tick \/ UNCHANGED vars
  <2>1. UNCHANGED <<modified, setup, present, file, index, pc, options, task, queue, batch,
                    late, quiet, lost>>
    BY <1>9 DEF Tick, vars
  <2>2. Quiet /\ options.rescan_all /\ Complete' = Complete
    BY <1>0, <2>1 DEF Quiet
  <2>3. ASSUME Complete', NEW x \in Dir PROVE RescanTrue(x)'
    BY <1>02, <1>04, <2>1, <2>2, <2>3 DEF Waiting
  <2> QED
    BY <1>02, <2>1, <2>2, <2>3
<1>10. ~(Hash \/ Kill \/ Environment)
  <2>1. pc' # "idle" /\ quiet'
    BY <1>0 DEF Quiet
  <2>2. ~Environment
    BY <2>1 DEF Environment, Outside
  <2>3. ~(Hash \/ Kill)
    BY <2>1 DEF Hash, Kill
  <2> QED
    BY <2>2, <2>3
<1>11. ASSUME NEW d \in Dir, NEW n \in Name, StatFails(d, n)
       PROVE  Blank' /\ (Complete' => \A x \in Dir : RescanTrue(x)')
  <2>0. /\ missed' = missed \cup {d} /\ \A e \in Dir \ {d} : fresh'[e] = fresh[e]
        /\ UNCHANGED <<tree, index, pc, options, at, recorded, queue, batch, history>>
    BY <1>11, StatFailsEffect
  <2>1. Quiet /\ options.rescan_all /\ Complete' = Complete
    BY <1>0, <2>0 DEF Quiet
  <2>2. ASSUME Complete', NEW x \in Dir PROVE RescanTrue(x)'
    <3>1. CASE x = d
      BY <2>0, <3>1 DEF RescanTrue
    <3>2. CASE x # d
      BY <1>02, <1>04, <2>0, <2>1, <2>2, <3>2 DEF Waiting
    <3> QED
      BY <3>1, <3>2
  <2> QED
    BY <1>02, <2>0, <2>1, <2>2
<1>12. ASSUME NEW d \in Dir, NEW e \in Dir, EnterFails(d, e)
       PROVE  Blank' /\ (Complete' => \A x \in Dir : RescanTrue(x)')
  <2>0. /\ missed' = missed \cup {e}
        /\ UNCHANGED <<tree, index, pc, options, at, recorded, fresh, queue, batch, history>>
    BY <1>12, EnterFailsEffect
  <2>1. Quiet /\ options.rescan_all /\ Complete' = Complete
    BY <1>0, <2>0 DEF Quiet
  <2>2. ASSUME Complete', NEW x \in Dir PROVE RescanTrue(x)'
    BY <1>02, <1>04, <2>0, <2>1, <2>2 DEF Waiting
  <2> QED
    BY <1>02, <2>0, <2>1, <2>2
<1> QED
  BY <1>1, <1>2, <1>3, <1>4, <1>5, <1>6, <1>7, <1>8, <1>9, <1>10, <1>11, <1>12
     DEF Next, Walk, Writer, Visit

LEMMA HealedInit == Init => Healed
BY DEF Init, Healed

LEMMA HealedStep ==
  ASSUME TypeOK, Tasks, Clocks, Rescans, Healed, [Next]_vars PROVE Healed'
<1>0. SUFFICES ASSUME ~late' PROVE \A d \in healed' : HealedTrue(d)'
  BY DEF Healed
<1> USE DEF tree, task, history
<1>01. late' = late \/ Environment
  BY LateSteps
<1>02. /\ ~late /\ \A d \in healed : HealedTrue(d)
       /\ healed \subseteq Dir
       /\ \A d \in Dir : TaskOK(d) /\ ClockOK(d)
  <2>1. late' = late => ~late
    BY <1>0
  <2>2. Environment => ~late
    BY <1>0, OutsideEffect, Zenon
  <2> QED
    BY <1>01, <2>1, <2>2 DEF Healed, Tasks, Clocks, TypeOK
<1>03. ASSUME UNCHANGED <<setup, present, file>>, NEW d \in Dir
       PROVE  /\ Real(d)' = Real(d)
              /\ \A sizes : SizesTrue(sizes, d) => \A n \in Name : sizes[n] # NoFile => sizes[n] = SizeAt(d, n)'
  BY <1>03 DEF Real, SizesTrue, SizeAt, At
<1>04. ASSUME NEW d \in healed, UNCHANGED <<setup, present, file, modified>>,
              index'[d] = index[d], mtime'[d] = mtime[d], fresh'[d] = fresh[d],
              recorded'[d] \in {recorded[d], NoFile},
              at'[d] = "listed" \/ d \in Waiting' => at[d] = "listed" \/ d \in Waiting
       PROVE  HealedTrue(d)'
  <2>1. HealedTrue(d) /\ d \in Dir
    BY <1>02
  <2> QED
    BY <1>03, <1>04, <2>1 DEF HealedTrue, Fits, SizesTrue
<1>1. CASE Start
  <2>1. /\ \A d \in Dir : at'[d] # "listed" /\ recorded'[d] = NoFile
        /\ Waiting' = {} /\ UNCHANGED <<tree, index, healed>>
    BY <1>1, StartEffect DEF NoTasks
  <2>2. ASSUME NEW d \in healed PROVE HealedTrue(d)'
    <3>1. HealedTrue(d) /\ d \in Dir
      BY <1>02
    <3> QED
      BY <1>03, <2>1, <3>1 DEF HealedTrue, SizesTrue
  <2> QED
    BY <2>1, <2>2
<1>2. ASSUME NEW d \in Dir, List(d), NEW x \in healed' PROVE HealedTrue(x)'
  <2>0. /\ at[d] = "entered"
        /\ UNCHANGED <<tree, index, mtime, fresh, queue, batch, healed>>
        /\ recorded'[d] \in {recorded[d], Lookup(d)}
        /\ \A e \in Dir \ {d} : at'[e] = at[e] /\ recorded'[e] = recorded[e]
    BY <1>2, ListEffect
  <2>1. CASE x # d
    BY <1>02, <1>04, <2>0, <2>1 DEF Waiting
  <2>2. CASE x = d
    <3>1. HealedTrue(d) /\ TaskOK(d)
      BY <1>02, <2>0, <2>2
    <3>2. fresh[d] = NoSizes /\ recorded[d] = NoFile
      BY <2>0, <3>1 DEF TaskOK
    <3>3. SizesTrue(fresh[d], d)'
      BY <2>0, <3>2 DEF SizesTrue, NoSizes
    <3>4. recorded'[d] # NoFile => recorded'[d] = index[d] /\ index[d].mtime = mtime[d]
      BY <2>0, <3>2 DEF Lookup
    <3> QED
      BY <1>03, <2>0, <2>2, <3>1, <3>3, <3>4 DEF HealedTrue, Fits, SizesTrue
  <2> QED
    BY <2>1, <2>2
<1>3. ASSUME NEW d \in Dir, NEW n \in Name, StatFile(d, n), NEW x \in healed' PROVE HealedTrue(x)'
  <2>0. /\ at[d] = "listed" /\ fresh'[d] = Collect(d, n)
        /\ \A e \in Dir \ {d} : fresh'[e] = fresh[e]
        /\ UNCHANGED <<tree, index, at, mtime, recorded, queue, batch, healed>>
    BY <1>3, StatEffect
  <2>1. CASE x # d
    BY <1>02, <1>04, <2>0, <2>1 DEF Waiting
  <2>2. CASE x = d
    <3>1. HealedTrue(d)
      BY <1>02, <2>0, <2>2
    <3>2. ASSUME fresh'[d] # NoFile, Fits(d) PROVE SizesTrue(fresh'[d], d)
      <4>1. /\ fresh[d] # NoFile /\ Stat(d, n) # NoFile
            /\ fresh'[d] = [fresh[d] EXCEPT ![n] = Stat(d, n)]
        BY <2>0, <3>2 DEF Collect
      <4>2. SizesTrue(fresh[d], d) /\ (recorded[d] # NoFile => SizesTrue(recorded[d].sizes, d))
        BY <2>0, <3>1, <3>2, <4>1 DEF HealedTrue
      <4>3. Stat(d, n) = SizeAt(d, n)
        BY <4>1, <4>2 DEF Stat, Reused, SizesTrue, SizeAt, Exists
      <4>4. fresh[d] \in Sizes
        BY <4>1 DEF TypeOK
      <4> QED
        BY <4>1, <4>2, <4>3, <4>4 DEF SizesTrue, Sizes
    <3> QED
      BY <1>03, <2>0, <2>2, <3>1, <3>2 DEF HealedTrue, Fits, SizesTrue
  <2> QED
    BY <2>1, <2>2
<1>4. ASSUME NEW d \in Dir, NEW e \in Dir, Enter(d, e), NEW x \in healed' PROVE HealedTrue(x)'
  <2>0. /\ at[e] = "unseen" /\ at'[e] \in {"unseen", "entered"}
        /\ \A z \in Dir \ {e} : at'[z] = at[z] /\ mtime'[z] = mtime[z]
        /\ UNCHANGED <<tree, index, recorded, fresh, queue, batch, healed>>
    BY <1>4, EnterEffect
  <2>1. CASE x # e
    BY <1>02, <1>04, <2>0, <2>1 DEF Waiting
  <2>2. CASE x = e
    <3>1. HealedTrue(e) /\ recorded[e] = NoFile /\ e \notin Waiting /\ Waiting' = Waiting
      BY <1>02, <2>0, <2>2 DEF TaskOK, TypeOK, Waiting
    <3> QED
      BY <1>03, <2>0, <2>2, <3>1 DEF HealedTrue, SizesTrue
  <2> QED
    BY <2>1, <2>2
<1>5. ASSUME NEW d \in Dir, FinishVisit(d), NEW x \in healed' PROVE HealedTrue(x)'
  <2>0. /\ at[d] = "listed" /\ at'[d] = "visited" /\ \A z \in Dir \ {d} : at'[z] = at[z]
        /\ Waiting' \subseteq Waiting \cup {d}
        /\ UNCHANGED <<tree, index, mtime, recorded, fresh, healed>>
    BY <1>5, FinishEffect
  <2> QED
    BY <1>02, <1>04, <2>0
<1>6. ASSUME NEW d \in Dir, Receive(d), NEW x \in healed' PROVE HealedTrue(x)'
  <2>0. Waiting' = Waiting /\ UNCHANGED <<tree, index, task, healed>>
    BY <1>6, ReceiveEffect
  <2> QED
    BY <1>04, <2>0
<1>7. ASSUME Commit, NEW x \in healed' PROVE HealedTrue(x)'
  <2>0. /\ batch \subseteq Waiting /\ Waiting' \subseteq Waiting
        /\ \A d \in Dir : index'[d] = index[d] \/ (d \in batch /\ index'[d] = NewRecord(d))
        /\ UNCHANGED <<tree, task, healed>>
    BY <1>7, CommitEffect
  <2>1. x \in healed /\ x \in Dir /\ HealedTrue(x)
    BY <1>02, <2>0
  <2>2. CASE index'[x] = index[x]
    BY <1>04, <2>0, <2>1, <2>2
  <2>3. CASE x \in batch /\ index'[x] = NewRecord(x)
    <3>1. NewRecord(x).sizes = fresh[x] /\ NewRecord(x).mtime = mtime[x] /\ fresh[x] # NoFile
      BY <2>3 DEF NewRecord, TypeOK
    <3> QED
      BY <1>03, <2>0, <2>1, <2>3, <3>1 DEF HealedTrue, Fits, SizesTrue
  <2> QED
    BY <2>0, <2>1, <2>2, <2>3
<1>8. ASSUME FinishWalk \/ Tick \/ UNCHANGED vars, NEW x \in healed' PROVE HealedTrue(x)'
  <2>0. UNCHANGED <<setup, present, file, modified, index, task, queue, batch, healed>>
    BY <1>8 DEF FinishWalk, Tick, vars
  <2> QED
    BY <1>04, <2>0 DEF Waiting
<1>9. ASSUME JoinWriter, NEW x \in healed' PROVE HealedTrue(x)'
  <2>0. /\ pc = "finishing" /\ Waiting = {} /\ Waiting' = {}
        /\ UNCHANGED <<tree, index, task>>
    BY <1>9 DEF JoinWriter, Waiting
  <2>1. \/ x \in healed
        \/ /\ options.rescan_all /\ ~lost /\ quiet /\ options.exclude_paths = {}
           /\ x \in Dir /\ at[x] = "visited" /\ x \notin missed
    BY <1>9 DEF JoinWriter
  <2>2. CASE x \in healed
    BY <1>04, <2>0, <2>2
  <2>3. CASE /\ options.rescan_all /\ ~lost /\ quiet /\ options.exclude_paths = {}
             /\ x \in Dir /\ at[x] = "visited" /\ x \notin missed
    <3>1. RescanTrue(x)
      BY <1>02, <2>0, <2>3 DEF Rescans, Quiet
    <3>2. /\ recorded[x] = NoFile
          /\ index[x] # NoFile /\ index[x].mtime = modified[Real(x)] => SizesTrue(index[x].sizes, x)
      BY <2>0, <2>3, <3>1 DEF RescanTrue, Busy
    <3> QED
      BY <1>03, <2>0, <2>3, <3>2 DEF HealedTrue, SizesTrue
  <2> QED
    BY <2>1, <2>2, <2>3
<1>10. ASSUME Hash \/ Kill, NEW x \in healed' PROVE HealedTrue(x)'
  <2>0. /\ Waiting' = {} /\ \A d \in Dir : at'[d] = "unseen" /\ recorded'[d] = NoFile
        /\ UNCHANGED <<tree, index, healed>>
    BY <1>10, DropEffect
  <2>1. HealedTrue(x) /\ x \in Dir
    BY <1>02, <2>0
  <2> QED
    BY <1>03, <2>0, <2>1 DEF HealedTrue, SizesTrue
<1>11. ASSUME Environment, NEW x \in healed' PROVE HealedTrue(x)'
  <2>0. /\ UNCHANGED <<setup, index, task, queue, batch>> /\ healed' \subseteq healed
        /\ \A d \in Dir :
              \/ modified'[d] = now /\ \A e \in Dir : Real(e) = d => at[e] # "listed"
              \/ /\ modified'[d] = modified[d]
                 /\ \A e \in Dir : Real(e) = d /\ e \in healed' =>
                       \A n \in Name : SizeAt(e, n)' = SizeAt(e, n)
    BY <1>0, <1>11, OutsideEffect
  <2>1. x \in Dir /\ HealedTrue(x) /\ ClockOK(x)
    BY <1>02, <1>11, <2>0
  <2>2. Real(x) \in Dir /\ Real(x)' = Real(x) /\ Waiting' = Waiting
    BY <2>0, <2>1, SetupFacts DEF Real, Waiting
  <2>3. CASE modified'[Real(x)] = now /\ at[x] # "listed"
    <3>1. /\ now \in Nat /\ Racy \in Nat \ {0} /\ mtime[x] \in Nat
          /\ index[x] # NoFile => index[x].mtime \in Nat
      BY <2>1, ClockTypes
    <3>2. /\ index[x] # NoFile => index[x].mtime # now
          /\ x \in Waiting \/ recorded[x] # NoFile => mtime[x] # now
      BY <2>1, <3>1 DEF ClockOK
    <3> QED
      BY <2>0, <2>2, <2>3, <3>2 DEF HealedTrue, Fits
  <2>4. CASE /\ modified'[Real(x)] = modified[Real(x)]
             /\ \A n \in Name : SizeAt(x, n)' = SizeAt(x, n)
    BY <2>0, <2>1, <2>2, <2>4 DEF HealedTrue, Fits, SizesTrue
  <2> QED
    BY <1>11, <2>0, <2>1, <2>2, <2>3, <2>4
<1>12. ASSUME NEW d \in Dir, \/ \E n \in Name : StatFails(d, n)
                             \/ \E e \in Dir : EnterFails(d, e), NEW x \in healed'
       PROVE  HealedTrue(x)'
  <2>0. /\ fresh'[x] \in {fresh[x], NoFile}
        /\ UNCHANGED <<tree, index, at, mtime, recorded, queue, batch, healed>>
    BY <1>02, <1>12, StatFailsEffect, EnterFailsEffect
  <2>1. HealedTrue(x) /\ x \in Dir
    BY <1>02, <2>0
  <2> QED
    BY <1>03, <2>0, <2>1 DEF HealedTrue, Fits, SizesTrue, Waiting
<1> QED
  BY <1>1, <1>2, <1>3, <1>4, <1>5, <1>6, <1>7, <1>8, <1>9, <1>10, <1>11, <1>12
     DEF Next, Walk, Writer, Visit
-----------------------------------------------------------------------------
(* What the walk found, and what is reported of it.                        *)

\* A path goes over all that the paths on it go over.
LEMMA PathClosed ==
  ASSUME NEW d \in Dir, NEW x \in PathTo[d]
  PROVE  /\ x \in Dir /\ PathTo[x] \subseteq PathTo[d]
         /\ x # Root => Parent[x] \in PathTo[d]
<1> DEFINE Closed(D) == \A z \in D \ {Root} : Parent[z] \in D
<1>0. x \in Dir
  BY PathFacts
<1>1. \A z \in Dir : PathTo[z] = {e \in Dir : \A D \in SUBSET Dir : z \in D /\ Closed(D) => e \in D}
  BY DEF PathTo
<1>2. PathTo[x] \subseteq PathTo[d]
  <2> HIDE DEF Closed
  <2> QED
    BY ONLY <1>0, <1>1, d \in Dir, x \in PathTo[d]
<1>3. ASSUME x # Root PROVE Parent[x] \in PathTo[d]
  <2>1. Parent[x] \in Dir
    BY <1>0, <1>3, TreeAssumption
  <2>2. PathTo[x] = {x} \cup PathTo[Parent[x]] /\ Parent[x] \in PathTo[Parent[x]]
    BY <1>0, <1>3, <2>1, PathFacts
  <2> QED
    BY <1>2, <2>2
<1> QED
  BY <1>0, <1>2, <1>3

\* InScan says of every directory on the path what the walk asks of it.
LEMMA InScanOpen ==
  ASSUME NEW d \in Dir, NEW n \in Name
  PROVE  InScan(<<d, n>>) <=>
            /\ Exists(<<d, n>>) /\ <<d, n>> \notin options.exclude_paths
            /\ extension_allowed(n) /\ Open(d)
BY DEF InScan, Open

LEMMA VisitedAll ==
  ASSUME TypeOK, Tasks, Visits, pc = "hashing", quiet, ~late,
         NEW d \in Dir, Open(d), Reachable(d), PathTo[d] \cap missed = {}
  PROVE  at[d] = "visited"
<1>0. /\ \A x \in Dir : TaskOK(x) /\ VisitTrue(x)
      /\ \A x \in Dir : at[x] \in {"unseen", "visited"}
      /\ at[Root] # "unseen"
  BY DEF Tasks, Visits, Quiet
<1> DEFINE S == {x \in PathTo[d] : at[x] = "unseen"}
<1>1. SUFFICES ASSUME at[d] = "unseen" PROVE FALSE
  BY <1>0
<1>2. S \in SUBSET Dir /\ d \in S
  BY <1>1, PathFacts
<1>3. PICK x \in S : x = Root \/ Parent[x] \notin S
  BY <1>2, TreeAssumption
<1>4. /\ x \in Dir /\ x # Root /\ x \in PathTo[d] /\ at[x] = "unseen"
  BY <1>0, <1>2, <1>3
<1>5. /\ PathTo[x] \subseteq PathTo[d] /\ Parent[x] \in PathTo[d] /\ Parent[x] \in Dir
  BY <1>4, PathClosed, TreeAssumption
<1>6. at[Parent[x]] = "visited" /\ todo[Parent[x]] = {}
  BY <1>0, <1>3, <1>5 DEF TaskOK
<1>7. Reachable(x) /\ Entry(x) \in present
  <2>1. \A e \in PathTo[d] : {Entry(e)} \cup PathTo[Real(e)] \subseteq present
    BY DEF Reachable
  <2> QED
    BY <1>4, <1>5, <2>1 DEF Reachable
<1>8. x \in Setups[setup].paths
  BY <1>4, <1>7, SetupFacts DEF TypeOK
<1>9. /\ x \notin options.exclude_paths /\ ~OtherFilesystem(x)
      /\ IsLink(x) => options.follow_symlinks
      /\ options.follow_symlinks => Real(x) \notin Ancestors(Parent[x])
  BY <1>4 DEF Open
<1>10. x \in Listed(Parent[x])
  BY <1>4, <1>7, <1>8, <1>9 DEF Listed, SubdirsOf, EntriesOf
<1>11. Enters(Parent[x], x)
  BY <1>7, <1>9 DEF Enters
<1>12. at[x] # "unseen" \/ ~Enters(Parent[x], x)
  <2>1. VisitTrue(Parent[x]) /\ Parent[x] \notin missed /\ x \notin missed
    BY <1>0, <1>4, <1>5
  <2> QED
    BY <1>6, <1>10, <2>1 DEF VisitTrue, Busy
<1> QED
  BY <1>4, <1>11, <1>12

\* The candidates are files of the scan, each once, with the size the walk has
\* for it, and are all of those on whose path nothing was missed.
LEMMA FoundExact ==
  ASSUME TypeOK, Tasks, Visits, pc = "hashing", quiet, ~late
  PROVE  /\ \A g \in found : \E d \in Dir, n \in Name :
               g = <<d, n, Stat(d, n)>> /\ InScan(<<d, n>>) /\ size_allowed(Stat(d, n))
         /\ \A d \in Dir, n \in Name : InScan(<<d, n>>) /\ PathTo[d] \cap missed = {} =>
               /\ at[d] = "visited" /\ Fits(d) /\ Stat(d, n) \in Nat /\ At(<<d, n>>) \in Content
               /\ size_allowed(Stat(d, n)) => <<d, n, Stat(d, n)>> \in found
<1>0. /\ \A d \in Dir : TaskOK(d) /\ VisitTrue(d) /\ at[d] \in {"unseen", "visited"}
      /\ \A d \in Dir, n \in Name : FoundTrue(d, n)
  BY DEF Tasks, Visits, Quiet
<1>1. ASSUME NEW g \in found
      PROVE  \E d \in Dir, n \in Name :
                g = <<d, n, Stat(d, n)>> /\ InScan(<<d, n>>) /\ size_allowed(Stat(d, n))
  <2>1. PICK d \in Dir, n \in Name : g[1] = d /\ g[2] = n
    BY DEF TypeOK
  <2>2. g \in Candidates(d, n) /\ n \in Handled(d)
    BY <1>0, <2>1 DEF FoundTrue
  <2>3. g = <<d, n, Stat(d, n)>> /\ size_allowed(Stat(d, n)) /\ extension_allowed(n)
        /\ <<d, n>> \notin options.exclude_paths
    BY <2>2 DEF Candidates
  <2>4. TaskOK(d) /\ VisitTrue(d) /\ at[d] \in {"unseen", "visited"}
    BY <1>0
  <2>5. at[d] = "visited"
    BY <2>2, <2>4 DEF TaskOK, Handled
  <2>6. Open(d) /\ Reachable(d) /\ n \in NamesIn(d)
    BY <2>2, <2>4, <2>5 DEF VisitTrue, Busy, Handled
  <2>7. InScan(<<d, n>>)
    BY <2>3, <2>6, InScanOpen DEF Exists, NamesIn
  <2> QED
    BY <2>3, <2>7
<1>2. ASSUME NEW d \in Dir, NEW n \in Name, InScan(<<d, n>>), PathTo[d] \cap missed = {}
      PROVE  /\ at[d] = "visited" /\ Fits(d) /\ Stat(d, n) \in Nat /\ At(<<d, n>>) \in Content
             /\ size_allowed(Stat(d, n)) => <<d, n, Stat(d, n)>> \in found
  <2>1. /\ Reachable(d) /\ At(<<d, n>>) # NoFile /\ Exists(<<d, n>>)
        /\ <<d, n>> \notin options.exclude_paths /\ extension_allowed(n) /\ Open(d)
    BY <1>2, InScanOpen DEF Exists
  <2>2. at[d] = "visited"
    BY <1>2, <2>1, VisitedAll
  <2>3. VisitTrue(d) /\ TaskOK(d) /\ d \notin missed
    BY <1>0, <1>2, PathFacts
  <2>4. n \in Handled(d) /\ Fits(d)
    BY <2>1, <2>2, <2>3 DEF VisitTrue, TaskOK, Busy, Handled, NamesIn
  <2>5. At(<<d, n>>) \in Content
    BY <2>1, StatTypes
  <2>6. Stat(d, n) \in Nat
    <3>1. Stat(d, n) # NoFile
      BY <2>1, <2>5, SizesAreNumbers DEF Stat, Reused
    <3> QED
      BY <3>1, StatTypes, SizesAreNumbers
  <2>7. ASSUME size_allowed(Stat(d, n)) PROVE <<d, n, Stat(d, n)>> \in found
    <3>1. <<d, n, Stat(d, n)>> \in Candidates(d, n)
      BY <2>1, <2>6, <2>7, SizesAreNumbers DEF Candidates
    <3>2. Candidates(d, n) \subseteq {f \in found : f[1] = d /\ f[2] = n}
      BY <1>0, <2>3, <2>4 DEF FoundTrue
    <3> QED
      BY <3>1, <3>2
  <2> QED
    BY <2>2, <2>4, <2>5, <2>6, <2>7
<1> QED
  BY <1>1, <1>2

LEMMA Complete == ASSUME TypeOK, Tasks, Visits PROVE FoundComplete
<1> SUFFICES ASSUME pc = "hashing", quiet, ~late, options.min_size = 0
             PROVE  LET paths == {<<f[1], f[2]>> : f \in found}
                        scan == {f \in Dir \X Name : InScan(f)}
                    IN  /\ paths \subseteq scan
                        /\ {f \in scan : PathTo[f[1]] \cap missed = {}} \subseteq paths
  BY DEF FoundComplete
<1>1. ASSUME NEW g \in found PROVE <<g[1], g[2]>> \in {f \in Dir \X Name : InScan(f)}
  <2>1. PICK d \in Dir, n \in Name : g = <<d, n, Stat(d, n)>> /\ InScan(<<d, n>>)
    BY FoundExact
  <2> QED
    BY <2>1
<1>2. ASSUME NEW f \in Dir \X Name, InScan(f), PathTo[f[1]] \cap missed = {}
      PROVE  f \in {<<g[1], g[2]>> : g \in found}
  <2>1. PICK d \in Dir, n \in Name : f = <<d, n>>
    OBVIOUS
  <2>2. Stat(d, n) \in Nat /\ (size_allowed(Stat(d, n)) => <<d, n, Stat(d, n)>> \in found)
    BY <1>2, <2>1, FoundExact
  <2>3. <<d, n, Stat(d, n)>> \in found
    BY <2>2 DEF size_allowed
  <2> QED
    BY <2>1, <2>3
<1> QED
  BY <1>1, <1>2

\* With exact sizes the groups of the scan are the duplicates of the tree.
LEMMA HashExact ==
  ASSUME TypeOK, Tasks, Visits, Rescans, Healed, Hash, quiet, ~late, missed = {},
         options.rescan_all \/ {d \in Dir : at[d] = "visited"} \subseteq healed
  PROVE  reported' = Duplicates
<1>0. pc = "hashing" /\ options \in Setups[setup].options
  BY DEF Hash, Tasks
<1>01. options.min_size \in Nat /\ \A c \in Content : Size[c] \in Nat
  BY <1>0, SetupFacts, TreeAssumption
<1>1. ASSUME NEW d \in Dir, NEW n \in Name, InScan(<<d, n>>)
      PROVE  Stat(d, n) = Size[At(<<d, n>>)] /\ At(<<d, n>>) \in Content
  <2>1. /\ at[d] = "visited" /\ Fits(d) /\ At(<<d, n>>) \in Content
    BY <1>0, <1>1, FoundExact
  <2>2. Exists(<<d, n>>) /\ SizeAt(d, n) = Size[At(<<d, n>>)]
    BY <1>1, <2>1, InScanOpen, SizesAreNumbers DEF SizeAt
  <2>3. CASE options.rescan_all
    <3>1. recorded[d] = NoFile
      BY <1>0, <2>3 DEF Rescans, Quiet
    <3> QED
      BY <2>1, <2>2, <3>1 DEF Stat, Reused
  <2>4. CASE {x \in Dir : at[x] = "visited"} \subseteq healed
    <3>1. HealedTrue(d)
      BY <2>1, <2>4 DEF Healed
    <3>2. recorded[d] # NoFile => SizesTrue(recorded[d].sizes, d)
      BY <2>1, <3>1 DEF HealedTrue
    <3> QED
      BY <2>1, <2>2, <3>2 DEF Stat, Reused, SizesTrue
  <2> QED
    BY <2>3, <2>4
<1>2. ASSUME NEW z \in Nat
      PROVE  OfSize(z) = {f \in Dir \X Name : InScan(f) /\ Size[At(f)] = z /\ z >= options.min_size}
  <2>1. ASSUME NEW f \in OfSize(z)
        PROVE  f \in Dir \X Name /\ InScan(f) /\ Size[At(f)] = z /\ z >= options.min_size
    <3>1. PICK g \in found : g[3] = z /\ f = <<g[1], g[2]>>
      BY <2>1 DEF OfSize
    <3>2. PICK d \in Dir, n \in Name :
             g = <<d, n, Stat(d, n)>> /\ InScan(<<d, n>>) /\ size_allowed(Stat(d, n))
      BY <1>0, FoundExact
    <3> QED
      BY <1>1, <3>1, <3>2 DEF size_allowed
  <2>2. ASSUME NEW f \in Dir \X Name, InScan(f), Size[At(f)] = z, z >= options.min_size
        PROVE  f \in OfSize(z)
    <3>1. PICK d \in Dir, n \in Name : f = <<d, n>>
      OBVIOUS
    <3>2. Stat(d, n) = z
      BY <1>1, <2>2, <3>1
    <3>3. <<d, n, z>> \in found
      BY <1>0, <2>2, <3>1, <3>2, FoundExact DEF size_allowed
    <3> QED
      BY <3>1, <3>3 DEF OfSize
  <2> QED
    BY <2>1, <2>2
<1> DEFINE Copies(c) == {f \in Dir \X Name : InScan(f) /\ At(f) = c}
<1>3. \A f \in Dir \X Name : InScan(f) => Exists(f) /\ At(f) \in Content
  <2> SUFFICES ASSUME NEW d \in Dir, NEW n \in Name, InScan(<<d, n>>)
               PROVE  Exists(<<d, n>>) /\ At(<<d, n>>) \in Content
    OBVIOUS
  <2> QED
    BY <1>1, InScanOpen
<1>4. ASSUME NEW c \in Content, Size[c] >= options.min_size
      PROVE  Copies(c) \in UNION {GroupsOfSize(Size[k]) : k \in Content}
  <2>1. CASE Size[c] = 0
    <3>1. \A k \in Content : Size[k] = 0 => k = c
      BY <2>1, TreeAssumption
    <3>2. OfSize(0) = Copies(c)
      BY <1>2, <1>3, <1>4, <2>1, <3>1
    <3> QED
      BY <2>1, <3>2 DEF GroupsOfSize
  <2>2. CASE Size[c] # 0
    <3>1. {f \in OfSize(Size[c]) : Exists(f) /\ At(f) = c} = Copies(c)
      BY <1>01, <1>2, <1>3, <1>4
    <3> QED
      BY <2>2, <3>1 DEF GroupsOfSize
  <2> QED
    BY <2>1, <2>2
<1>5. ASSUME NEW k \in Content, NEW g \in GroupsOfSize(Size[k])
      PROVE  g = {} \/ \E c \in Content : Size[c] >= options.min_size /\ g = Copies(c)
  <2>1. CASE Size[k] = 0
    <3>1. \A c \in Content : Size[c] = 0 => c = k
      BY <2>1, TreeAssumption
    <3>2. g = OfSize(0)
      BY <1>5, <2>1 DEF GroupsOfSize
    <3>3. CASE 0 >= options.min_size
      <4>1. OfSize(0) = Copies(k)
        BY <1>2, <1>3, <2>1, <3>1, <3>3
      <4> QED
        BY <2>1, <3>2, <3>3, <4>1
    <3>4. CASE ~(0 >= options.min_size)
      BY <1>2, <3>2, <3>4
    <3> QED
      BY <3>3, <3>4
  <2>2. CASE Size[k] # 0
    <3>1. PICK c \in Content : g = {f \in OfSize(Size[k]) : Exists(f) /\ At(f) = c}
      BY <1>5, <2>2 DEF GroupsOfSize
    <3>2. OfSize(Size[k]) = {f \in Dir \X Name : /\ InScan(f) /\ Size[At(f)] = Size[k]
                                                 /\ Size[k] >= options.min_size}
      BY <1>01, <1>2
    <3>3. CASE Size[c] = Size[k] /\ Size[k] >= options.min_size
      <4>1. g = Copies(c)
        BY <1>3, <3>1, <3>2, <3>3
      <4> QED
        BY <3>3, <4>1
    <3>4. CASE ~(Size[c] = Size[k] /\ Size[k] >= options.min_size)
      BY <3>1, <3>2, <3>4
    <3> QED
      BY <3>3, <3>4
  <2> QED
    BY <2>1, <2>2
<1>6. ~Several({})
  <2>1. {<<Real(f[1]), f[2]>> : f \in {}} = {} /\ Cardinality({}) = 0
    BY FS_EmptySet
  <2> QED
    BY <2>1 DEF Several
<1>7. reported' = {g \in UNION {GroupsOfSize(Size[k]) : k \in Content} : Several(g)}
  BY DEF Hash
<1>8. Duplicates = {g \in {Copies(c) : c \in {c \in Content : Size[c] >= options.min_size}} :
                      Several(g)}
  BY DEF Duplicates
<1> HIDE DEF Copies
<1>9. ASSUME NEW g, Several(g)
      PROVE  g \in UNION {GroupsOfSize(Size[k]) : k \in Content} <=>
                \E c \in Content : Size[c] >= options.min_size /\ g = Copies(c)
  <2>1. ASSUME NEW c \in Content, Size[c] >= options.min_size, g = Copies(c)
        PROVE  g \in UNION {GroupsOfSize(Size[k]) : k \in Content}
    BY <1>4, <2>1
  <2>2. ASSUME NEW k \in Content, g \in GroupsOfSize(Size[k])
        PROVE  \E c \in Content : Size[c] >= options.min_size /\ g = Copies(c)
    BY <1>5, <1>6, <1>9, <2>2
  <2> QED
    BY <2>1, <2>2
<1> QED
  BY <1>7, <1>8, <1>9
-----------------------------------------------------------------------------
(* The theorems.                                                           *)

Inv == TypeOK /\ Tasks /\ Clocks /\ Listings /\ Visits /\ Rescans /\ Healed

LEMMA InvInit == Init => Inv
BY TypeInit, TasksInit, ClocksInit, ListingsInit, VisitsInit, RescansInit, HealedInit DEF Inv

LEMMA InvStep == Inv /\ [Next]_vars => Inv'
<1> SUFFICES ASSUME Inv, [Next]_vars PROVE Inv'
  OBVIOUS
<1>1. TypeOK /\ Tasks /\ Clocks /\ Listings /\ Visits /\ Rescans /\ Healed
  BY DEF Inv
<1>2. TypeOK'
  BY <1>1, TypeStep
<1>3. Tasks'
  BY <1>1, <1>2, TasksStep
<1>4. Clocks'
  BY <1>1, ClocksStep
<1>5. Listings'
  BY <1>1, ListingsStep
<1>6. Visits'
  BY <1>1, VisitsStep
<1>7. Rescans'
  BY <1>1, RescansStep
<1>8. Healed'
  BY <1>1, HealedStep
<1> QED
  BY <1>2, <1>3, <1>4, <1>5, <1>6, <1>7, <1>8 DEF Inv

\* The types, the limit of the queue, and that only finished directories with
\* complete stats wait for the writer.
THEOREM TypeCorrect == Spec => []TypeOK
<1>1. Inv => TypeOK
  BY DEF Inv
<1> QED
  BY InvInit, InvStep, <1>1, PTL DEF Spec

\* A record that would be used is what the disk has, but for what could not be
\* read when it was made, and a walk that uses records finds the files there are,
\* but for those below a directory it, or the walk that recorded it, could not
\* read in full.
THEOREM IndexSound == Spec => []WalkSound
<1>1. Inv => WalkSound
  <2> SUFFICES ASSUME Inv PROVE WalkSound
    OBVIOUS
  <2>1. TypeOK /\ Tasks /\ Listings /\ Visits
    BY DEF Inv
  <2>2. ListingCurrent
    BY <2>1 DEF Listings, ListingTrue, ListingCurrent
  <2>3. FoundComplete
    BY <2>1, Complete
  <2> QED
    BY <2>1, <2>2, <2>3 DEF WalkSound
<1> QED
  BY InvInit, InvStep, <1>1, PTL DEF Spec

\* A rescan, and every scan after it until a file is rewritten in place, reports
\* exactly the duplicates when it meets no error and no record of one.
THEOREM RescanExact == Spec => ScanExact
<1>1. Inv /\ [Next]_vars =>
        [(/\ Hash /\ quiet /\ ~late /\ missed = {}
          /\ options.rescan_all \/ {d \in Dir : at[d] = "visited"} \subseteq healed)
           => reported' = Duplicates]_vars
  BY HashExact DEF Inv
<1> QED
  BY InvInit, InvStep, <1>1, PTL DEF Spec, ScanExact
=============================================================================
