----------------------------- MODULE WalkIndex -----------------------------
(***************************************************************************)
(* The walk of a scan with its persistent directory index                  *)
(* (rusty_fclone-core: traversal.rs, walk_index.rs).  Every directory is a *)
(* task of its own; a directory whose mtime equals the recorded one is     *)
(* neither listed nor are its files stat-ed.  A writer thread commits      *)
(* finished directories while the walk goes on, and the process can be     *)
(* killed at any point.  What the walk found is then grouped by size and   *)
(* reported.  Other programs change the tree between any two steps.        *)
(*                                                                         *)
(* Time is counted in ticks of the file system's mtime.  A directory is    *)
(* named by its path; symbolic links lead to directories, so that several  *)
(* paths can be one directory with its files and subdirectories.           *)
(***************************************************************************)
EXTENDS Naturals, FiniteSets

CONSTANTS Dir,        \* the paths of directories
          Root,       \* the scanned one
          Parent,     \* the directory each of the others is in
          Mounted,    \* directories on another filesystem
          Name,       \* the names files can have in a directory
          Content,    \* the contents of files
          Size,       \* the size of each content
          Extension,  \* the extension of each name, or NoFile
          NoFile,     \* no file has this name, or no record was kept
          Setups,     \* which paths there are, the ScanOptions given, bounds
          Racy,       \* RACY_WINDOW
          QueueLimit, \* how many directories wait for the writer at most
          MaxTime,    \* bound: ticks of the clock
          MaxWalks,   \* bound: scans
          EnvSteps    \* bound: steps of other programs

\* No options of a scan that is over.
NoOptions == [rescan_all |-> FALSE, exclude_paths |-> {}, follow_symlinks |-> FALSE,
              cross_filesystems |-> FALSE, min_size |-> 0,
              include_extensions |-> {}, exclude_extensions |-> {}]

\* Every directory is below the root, and there is one way to be empty.
ASSUME TreeAssumption ==
    /\ Root \in Dir /\ Mounted \subseteq Dir \ {Root} /\ IsFiniteSet(Dir)
    /\ Parent \in [Dir \ {Root} -> Dir]
    /\ \A D \in SUBSET Dir : D # {} => \E d \in D : d = Root \/ Parent[d] \notin D
    /\ DOMAIN Extension = Name /\ Name \cap Dir = {}
    /\ Size \in [Content -> Nat]
    /\ \A c, d \in Content : Size[c] = 0 /\ Size[d] = 0 => c = d
    /\ NoFile \notin Content \cup Nat

\* real: the directory each path leads to.  entry: the directory entry each path
\* names; there are two paths to an entry when one of them is over a link.
\* failing: the files and directories that cannot always be read.
ASSUME SetupAssumption ==
    \A i \in DOMAIN Setups :
       LET paths == Setups[i].paths
           real == Setups[i].real
           entry == Setups[i].entry
       IN  /\ Root \in paths /\ paths \subseteq Dir
           /\ {real, entry} \subseteq [Dir -> Dir] /\ real[Root] = Root /\ entry[Root] = Root
           /\ \A d \in paths : real[d] \in paths /\ real[real[d]] = real[d]
           /\ \A d \in Dir \ paths : entry[d] \notin paths
           /\ \A d \in paths \ {Root} :
                 /\ entry[d] \in paths \ {Root} /\ real[entry[d]] = real[d]
                 /\ Parent[d] \in paths /\ Parent[entry[d]] = real[Parent[d]]
                 /\ real[Parent[d]] = Parent[d] => entry[d] = d
                 /\ real[d] = d => real[Parent[d]] = Parent[d]
           /\ \A o \in Setups[i].options :
                 /\ DOMAIN o = DOMAIN NoOptions
                 /\ {o.rescan_all, o.follow_symlinks} \subseteq BOOLEAN
                 /\ o.exclude_paths \subseteq ((Dir \X Name) \cup Dir) \ {Root}
                 /\ o.min_size \in Nat
           /\ Setups[i].failing \subseteq (Dir \X Name) \cup Dir
           /\ Setups[i].walks \in 0..MaxWalks /\ Setups[i].env \in 0..EnvSteps
ASSUME BoundAssumption == /\ Racy \in Nat \ {0} /\ QueueLimit \in Nat \ {0}
                          /\ {MaxTime, MaxWalks, EnvSteps} \subseteq Nat

VARIABLES
    now,              \* the clock
    modified,         \* the mtime of each directory
    setup,            \* which of Setups
    present,          \* the entries for directories and links that are there
    file,             \* the content of the file at each directory and name
    index,            \* the committed record of each directory
    pc,               \* where the scan is
    options,          \* the ScanOptions of this scan
    at,               \* how far each directory's task is
    mtime,            \* the mtime its parent read when it entered it
    recorded,         \* the record looked up for it
    names, subdirs,   \* its listing
    todo,             \* what of the listing has not been handled yet
    fresh,            \* the sizes collected for a new record
    missed,           \* history: where this walk did not see all there is
    queue, batch,     \* the directories sent to and held by the writer
    found,            \* the candidates sent: directory, name and size
    reported,         \* the duplicate groups
    late,             \* history: a directory changed while it was visited
    quiet,            \* history: nothing changed since this scan started
    lost,             \* history: this scan failed to commit a batch
    healed,           \* history: unrewritten since a complete rescan
    partial,          \* history: what was not listed in full when recorded
    walks, env        \* what is left of the bounds

tree == <<now, modified, setup, present, file>>
task == <<at, mtime, recorded, names, subdirs, todo, fresh, missed>>
history == <<late, quiet, lost, healed, partial, walks, env>>
vars == <<tree, index, pc, options, task, queue, batch, found, reported,
          history>>

Sizes == [Name -> {Size[c] : c \in Content} \cup {NoFile}]
\* A record of a walk that followed links has no subdirectories.
Record == [mtime : 0..MaxTime, sizes : Sizes, subdirs : (SUBSET Dir) \cup {NoFile}]
ASSUME RecordAssumption == /\ \A record \in Record : record # NoFile
                           /\ \A sizes \in Sizes : sizes # NoFile
                           /\ \A D \in SUBSET Dir : D # NoFile

TypeOK ==
    /\ now \in 0..MaxTime
    /\ modified \in [Dir -> 0..MaxTime]
    /\ setup \in DOMAIN Setups /\ present \subseteq Setups[setup].paths
    /\ file \in [Dir \X Name -> Content \cup {NoFile}]
    /\ index \in [Dir -> Record \cup {NoFile}]
    /\ pc \in {"idle", "walking", "finishing", "hashing"}
    /\ options \in Setups[setup].options \cup {NoOptions}
    /\ at \in [Dir -> {"unseen", "entered", "listed", "visited"}]
    /\ mtime \in [Dir -> 0..MaxTime]
    /\ recorded \in [Dir -> Record \cup {NoFile}]
    /\ names \in [Dir -> SUBSET Name] /\ subdirs \in [Dir -> SUBSET Dir]
    /\ todo \in [Dir -> SUBSET (Name \cup Dir)]
    /\ fresh \in [Dir -> Sizes \cup {NoFile}]
    /\ queue \subseteq Dir /\ batch \subseteq Dir
    /\ found \subseteq Dir \X Name \X {Size[c] : c \in Content}
    /\ reported \subseteq SUBSET (Dir \X Name)
    /\ {late, quiet, lost} \subseteq BOOLEAN
    /\ {healed, missed, partial} \subseteq SUBSET Dir
    /\ walks \in 0..MaxWalks /\ env \in 0..EnvSteps
    /\ Cardinality(queue) <= QueueLimit
    /\ pc = "idle" => queue \cup batch = {}
    /\ \A d \in queue \cup batch : at[d] = "visited" /\ fresh[d] # NoFile

NoSizes == [n \in Name |-> NoFile]

\* The same for every directory.
ForAllDirs(value) == [d \in Dir |-> value]

Init ==
    /\ now = 0 /\ modified = ForAllDirs(0)
    /\ setup \in DOMAIN Setups
    /\ present = {d \in Setups[setup].paths : Setups[setup].entry[d] = d}
    /\ file \in [Dir \X Name -> Content \cup {NoFile}]
    /\ \A d \in Dir, n \in Name :
          d \notin present \/ Setups[setup].real[d] # d => file[<<d, n>>] = NoFile
    /\ index = ForAllDirs(NoFile)
    /\ pc = "idle" /\ options = NoOptions
    /\ at = ForAllDirs("unseen") /\ mtime = ForAllDirs(0)
    /\ recorded = ForAllDirs(NoFile)
    /\ names = ForAllDirs({}) /\ subdirs = ForAllDirs({}) /\ todo = ForAllDirs({})
    /\ fresh = ForAllDirs(NoSizes) /\ missed = {}
    /\ queue = {} /\ batch = {} /\ found = {} /\ reported = {}
    /\ late = FALSE /\ quiet = TRUE /\ lost = FALSE /\ healed = {} /\ partial = {}
    /\ walks = Setups[setup].walks /\ env = Setups[setup].env

\* The directory that the path d leads to, the entry it names, and what is at
\* the path of a file.
Real(d) == Setups[setup].real[d]
Entry(d) == Setups[setup].entry[d]
IsLink(d) == Real(d) # Entry(d)
Failing == Setups[setup].failing
At(f) == file[<<Real(f[1]), f[2]>>]

\* The directories on the path to d, and d: what every set of directories that
\* has d, and the parent of what it has, holds.
PathTo == [d \in Dir |->
    {e \in Dir : \A D \in SUBSET Dir :
        d \in D /\ (\A x \in D \ {Root} : Parent[x] \in D) => e \in D}]

\* The path of d can be resolved, with the links that are on it.
Reachable(d) == \A e \in PathTo[d] : {Entry(e)} \cup PathTo[Real(e)] \subseteq present

\* list: links are left out, or resolved when they are followed.
EntriesOf(d) == {e \in Setups[setup].paths \ {Root} : Parent[e] = d /\ Entry(e) \in present}
SubdirsOf(d) == {e \in EntriesOf(d) : ~IsLink(e)}
Listed(d) == IF options.follow_symlinks THEN {e \in EntriesOf(d) : Reachable(e)}
             ELSE SubdirsOf(d)
NamesIn(d) == {n \in Name : At(<<d, n>>) # NoFile}
Exists(f) == Reachable(f[1]) /\ At(f) # NoFile

\* Ancestor: the directories that the walk came through to d, and d.
Ancestors(d) == {Real(e) : e \in PathTo[d]}

\* is_excluded_by_filesystem_boundary: the root is on no mounted filesystem.
OtherFilesystem(d) == ~options.cross_filesystems /\ Real(d) \in Mounted

size_allowed(size) == size >= options.min_size

\* An empty list of extensions includes everything.
extension_allowed(n) ==
    /\ options.include_extensions = {} \/ Extension[n] \in options.include_extensions
    /\ Extension[n] \notin options.exclude_extensions
-----------------------------------------------------------------------------
(* The walk (traversal.rs).                                                *)

\* walk: the root's mtime is read before its task starts.
Start ==
    /\ pc = "idle" /\ walks > 0
    /\ walks' = walks - 1
    /\ options' \in Setups[setup].options
    /\ pc' = "walking"
    /\ at' = [at EXCEPT ![Root] = "entered"]
    /\ mtime' = [mtime EXCEPT ![Root] = modified[Root]]
    /\ reported' = {}
    /\ quiet' = TRUE /\ lost' = FALSE
    /\ UNCHANGED <<tree, index, recorded, names, subdirs, todo, fresh, missed,
                   queue, batch, found, late, healed, partial, env>>

\* lookup and find.
Lookup(d) ==
    IF ~options.rescan_all /\ index[d] # NoFile /\ index[d].mtime = mtime[d]
    THEN index[d] ELSE NoFile

\* Listing::recorded: whether a record stands for the directory.
Reusable(record) ==
    record # NoFile /\ ~options.follow_symlinks /\ record.subdirs # NoFile

\* visit, first half: d is listed, from its record or from the disk.
Lists(d, listedNames, listedDirs) ==
    /\ at' = [at EXCEPT ![d] = "listed"]
    /\ recorded' = [recorded EXCEPT ![d] = Lookup(d)]
    /\ names' = [names EXCEPT ![d] = listedNames]
    /\ subdirs' = [subdirs EXCEPT ![d] = listedDirs]
    /\ todo' = [todo EXCEPT ![d] = listedNames \cup listedDirs]

ListRecord(d) ==
    /\ Reusable(Lookup(d))
    /\ Lists(d, {n \in Name : Lookup(d).sizes[n] # NoFile}, Lookup(d).subdirs)
    /\ missed' = missed \cup ({d} \cap partial)

\* list: an entry that cannot be read, or of which the type cannot be read, is
\* reported and passed over.
ListDisk(d) ==
    /\ ~Reusable(Lookup(d)) /\ Reachable(d)
    /\ \E unread \in SUBSET ({n \in NamesIn(d) : <<d, n>> \in Failing} \cup
                             (Listed(d) \cap Failing)) :
          /\ Lists(d, NamesIn(d) \ unread, Listed(d) \ unread)
          /\ missed' = IF unread = {} THEN missed ELSE missed \cup {d}

\* The error is reported, and the task is over.
ListFails(d) ==
    /\ ~Reusable(Lookup(d))
    /\ ~Reachable(d) \/ d \in Failing
    /\ at' = [at EXCEPT ![d] = "visited"]
    /\ missed' = missed \cup {d}
    /\ UNCHANGED <<recorded, names, subdirs, todo>>

List(d) ==
    /\ at[d] = "entered"
    /\ ListRecord(d) \/ ListDisk(d) \/ ListFails(d)
    /\ UNCHANGED <<tree, index, pc, options, mtime, fresh, queue, batch,
                   found, reported, history>>

Reused(d, n) == recorded[d] # NoFile /\ recorded[d].sizes[n] # NoFile

\* The stat of file n of d: the recorded one, the current one, or an error.
Stat(d, n) ==
    IF Reused(d, n) THEN recorded[d].sizes[n]
    ELSE IF Exists(<<d, n>>) THEN Size[At(<<d, n>>)]
    ELSE NoFile

\* A record needs the stat of every file: there is none after an exclusion or
\* an error.
Collect(d, n) ==
    IF <<d, n>> \in options.exclude_paths \/ fresh[d] = NoFile \/ Stat(d, n) = NoFile
    THEN NoFile
    ELSE [fresh[d] EXCEPT ![n] = Stat(d, n)]

\* send_file and candidate: what the filters let through.
Candidates(d, n) ==
    {<<d, n, size>> : size \in {size \in {Stat(d, n)} \ {NoFile} :
                                  /\ <<d, n>> \notin options.exclude_paths
                                  /\ size_allowed(size) /\ extension_allowed(n)}}

\* stat_files, one file.
StatFile(d, n) ==
    /\ at[d] = "listed" /\ n \in todo[d]
    /\ todo' = [todo EXCEPT ![d] = @ \ {n}]
    /\ fresh' = [fresh EXCEPT ![d] = Collect(d, n)]
    /\ found' = found \cup Candidates(d, n)
    /\ UNCHANGED <<tree, index, pc, options, at, mtime, recorded, names,
                   subdirs, missed, queue, batch, reported, history>>

\* The file is there, and its stat fails.
StatFails(d, n) ==
    /\ at[d] = "listed" /\ n \in todo[d]
    /\ <<d, n>> \in Failing \ options.exclude_paths
    /\ ~Reused(d, n)
    /\ todo' = [todo EXCEPT ![d] = @ \ {n}]
    /\ fresh' = [fresh EXCEPT ![d] = NoFile]
    /\ missed' = missed \cup {d}
    /\ UNCHANGED <<tree, index, pc, options, at, mtime, recorded, names,
                   subdirs, queue, batch, found, reported, history>>

\* enter: whether subdirectory e of d is descended into: it is still there, on
\* this filesystem and, when links are followed, not one of its own ancestors.
Enters(d, e) ==
    /\ e \notin options.exclude_paths
    /\ Reachable(e)
    /\ ~OtherFilesystem(e)
    /\ options.follow_symlinks => Real(e) \notin Ancestors(d)

\* Subdirectory e of d is stat-ed and its task spawned.  The files of d come
\* first.
Enter(d, e) ==
    /\ at[d] = "listed" /\ e \in todo[d]
    /\ todo[d] \cap Name = {}
    /\ todo' = [todo EXCEPT ![d] = @ \ {e}]
    /\ IF Enters(d, e)
       THEN /\ at' = [at EXCEPT ![e] = "entered"]
            /\ mtime' = [mtime EXCEPT ![e] = modified[Real(e)]]
       ELSE UNCHANGED <<at, mtime>>
    /\ UNCHANGED <<tree, index, pc, options, recorded, names, subdirs,
                   fresh, missed, queue, batch, found, reported, history>>

\* The stat of the subdirectory fails: it stays in the listing of d.
EnterFails(d, e) ==
    /\ at[d] = "listed" /\ e \in todo[d]
    /\ todo[d] \cap Name = {}
    /\ e \in Failing \ options.exclude_paths
    /\ todo' = [todo EXCEPT ![d] = @ \ {e}]
    /\ missed' = missed \cup {e}
    /\ UNCHANGED <<tree, index, pc, options, at, mtime, recorded, names, subdirs,
                   fresh, queue, batch, found, reported, history>>

NewRecord(d) ==
    [mtime |-> mtime[d], sizes |-> fresh[d],
     subdirs |-> IF options.follow_symlinks THEN NoFile ELSE subdirs[d]]

\* Mutant: recently modified directories are recorded like any other.
RecordableAtOnce(d) == fresh[d] # NoFile /\ recorded[d] # NewRecord(d)

\* record's conditions: the stats are complete, differ from what is recorded,
\* and the mtime is old enough now.
Recordable(d) ==
    /\ fresh[d] # NoFile
    /\ recorded[d] # NewRecord(d)
    /\ now >= mtime[d] + Racy

\* visit, last part: the record is sent, which blocks while the queue is full.
FinishVisit(d) ==
    /\ at[d] = "listed" /\ todo[d] = {}
    /\ IF Recordable(d)
       THEN Cardinality(queue) < QueueLimit /\ queue' = queue \cup {d}
       ELSE UNCHANGED queue
    /\ at' = [at EXCEPT ![d] = "visited"]
    /\ UNCHANGED <<tree, index, pc, options, mtime, recorded, names,
                   subdirs, todo, fresh, missed, batch, found, reported, history>>

Visit(d) == \/ List(d) \/ FinishVisit(d)
            \/ \E n \in Name : StatFile(d, n) \/ StatFails(d, n)
            \/ \E e \in Dir : Enter(d, e) \/ EnterFails(d, e)
-----------------------------------------------------------------------------
(* The writer thread (walk_index.rs) and the end of the scan.              *)

Receive(d) ==
    /\ d \in queue
    /\ queue' = queue \ {d}
    /\ batch' = batch \cup {d}
    /\ UNCHANGED <<tree, index, pc, options, task, found, reported, history>>

\* Mutant: an existing record is kept.
MissingOnly == [d \in Dir |-> IF d \in batch /\ index[d] = NoFile
                              THEN NewRecord(d) ELSE index[d]]

Committed == [d \in Dir |-> IF d \in batch THEN NewRecord(d) ELSE index[d]]

\* What of the index comes from a listing that was not in full.
Partial == (partial \ batch) \cup (batch \cap missed)

\* Mutant: the writer commits full batches only.
CommitFull ==
    /\ Cardinality(batch) > 1
    /\ \E written \in BOOLEAN :
          /\ index' = IF written THEN Committed ELSE index
          /\ partial' = IF written THEN Partial ELSE partial
          /\ lost' = (lost \/ ~written)
    /\ batch' = {}
    /\ UNCHANGED <<tree, pc, options, task, queue, found, reported, late,
                   quiet, healed, walks, env>>

\* commit: the batch is full, FLUSH_INTERVAL has passed or the walk is over.  A
\* batch that cannot be written is dropped.
Commit ==
    /\ batch # {}
    /\ \E written \in BOOLEAN :
          /\ index' = IF written THEN Committed ELSE index
          /\ partial' = IF written THEN Partial ELSE partial
          /\ lost' = (lost \/ ~written)
    /\ batch' = {}
    /\ UNCHANGED <<tree, pc, options, task, queue, found, reported, late,
                   quiet, healed, walks, env>>

\* The last task has ended: the writer is asked to finish.
FinishWalk ==
    /\ pc = "walking"
    /\ \A d \in Dir : at[d] \in {"unseen", "visited"}
    /\ pc' = "finishing"
    /\ UNCHANGED <<tree, index, options, task, queue, batch, found,
                   reported, history>>

JoinWriter ==
    /\ pc = "finishing" /\ queue \cup batch = {}
    /\ pc' = "hashing"
    /\ healed' = IF \/ ~options.rescan_all \/ lost \/ ~quiet
                    \/ options.exclude_paths # {} THEN healed
                 ELSE healed \cup ({d \in Dir : at[d] = "visited"} \ missed)
    /\ UNCHANGED <<tree, index, options, task, queue, batch, found,
                   reported, late, quiet, lost, partial, walks, env>>

\* The candidates of one size; the paths found with it.
OfSize(s) == {<<f[1], f[2]>> : f \in {g \in found : g[3] = s}}

\* process_size_group: empty files are duplicates unread, the others are
\* grouped by what is read from them now.
GroupsOfSize(s) ==
    IF s = 0 THEN {OfSize(s)}
    ELSE {{f \in OfSize(s) : Exists(f) /\ At(f) = c} : c \in Content}

\* Paths of one file are its aliases (file_group): a group has several files.
Several(g) == Cardinality({<<Real(f[1]), f[2]>> : f \in g}) > 1

\* What the tasks of the walk held is gone, and what was found.
DropTasks ==
    /\ at' = ForAllDirs("unseen") /\ mtime' = ForAllDirs(0)
    /\ recorded' = ForAllDirs(NoFile)
    /\ names' = ForAllDirs({}) /\ subdirs' = ForAllDirs({}) /\ todo' = ForAllDirs({})
    /\ fresh' = ForAllDirs(NoSizes) /\ missed' = {}
    /\ found' = {} /\ options' = NoOptions

Hash ==
    /\ pc = "hashing"
    /\ reported' = {g \in UNION {GroupsOfSize(Size[c]) : c \in Content} : Several(g)}
    /\ pc' = "idle"
    /\ DropTasks
    /\ UNCHANGED <<tree, index, queue, batch, history>>

\* The process dies: only what was committed is left.
Kill ==
    /\ pc # "idle"
    /\ pc' = "idle"
    /\ DropTasks
    /\ queue' = {} /\ batch' = {} /\ reported' = {}
    /\ UNCHANGED <<tree, index, history>>
-----------------------------------------------------------------------------
(* The clock and other programs.                                           *)

Tick ==
    /\ now < MaxTime
    /\ now' = now + 1
    /\ UNCHANGED <<modified, setup, present, file, index, pc, options, task, queue,
                   batch, found, reported, history>>

Outside ==
    /\ env > 0 /\ env' = env - 1
    /\ quiet' = FALSE
    /\ UNCHANGED <<now, setup, index, pc, options, task, queue, batch, found,
                   reported, lost, partial, walks>>

\* Something appears in d or disappears from it: its mtime is now.
Touched(d) ==
    /\ modified' = [modified EXCEPT ![d] = now]
    /\ late' = (late \/ \E e \in Dir : Real(e) = d /\ at[e] = "listed")

CreateOrRemove(d, n) ==
    /\ Reachable(d) /\ Real(d) = d
    /\ \E c \in Content \cup {NoFile} :
          /\ (c = NoFile) # (file[<<d, n>>] = NoFile)
          /\ file' = [file EXCEPT ![<<d, n>>] = c]
    /\ Touched(d)
    /\ UNCHANGED <<present, healed>>

\* A file is rewritten in place: no directory changes.
Rewrite(d, n) ==
    /\ Exists(<<d, n>>) /\ Real(d) = d
    /\ \E c \in Content \ {file[<<d, n>>]} : file' = [file EXCEPT ![<<d, n>>] = c]
    /\ healed' = {e \in healed : Real(e) # d}
    /\ UNCHANGED <<modified, present, late>>

\* A directory or a link is moved away, with all that is in it, or back again.
MoveDir(d) ==
    /\ d \in Setups[setup].paths \ {Root} /\ Entry(d) = d /\ Reachable(Parent[d])
    /\ present' = IF d \in present THEN present \ {d} ELSE present \cup {d}
    /\ Touched(Parent[d])
    /\ UNCHANGED <<file, healed>>

Environment ==
    /\ Outside
    /\ \E d \in Dir : \/ MoveDir(d)
                      \/ \E n \in Name : CreateOrRemove(d, n) \/ Rewrite(d, n)
-----------------------------------------------------------------------------
Writer == Commit \/ \E d \in Dir : Receive(d)
Walk == FinishWalk \/ JoinWriter \/ Hash \/ \E d \in Dir : Visit(d)

Next == Start \/ Walk \/ Writer \/ Kill \/ Tick \/ Environment

Spec == Init /\ [][Next]_vars

\* The walk's threads and the writer thread are scheduled.
FairSpec == Spec /\ WF_vars(Walk) /\ WF_vars(Writer)
-----------------------------------------------------------------------------
(* Properties.                                                             *)

\* A record that would be used.
Usable(d) == index[d] # NoFile /\ index[d].mtime = modified[Real(d)]
NamesRecorded(d) == {n \in Name : index[d].sizes[n] # NoFile}

\* It names exactly the files and subdirectories of its directory, or some of
\* them when the listing it was made from had errors.
RecordCurrent(d) ==
    Usable(d) =>
       \/ /\ NamesRecorded(d) = NamesIn(d)
          /\ index[d].subdirs \in {SubdirsOf(d), NoFile}
       \/ /\ d \in partial
          /\ NamesRecorded(d) \subseteq NamesIn(d)
          /\ index[d].subdirs \in (SUBSET SubdirsOf(d)) \cup {NoFile}

\* "Its listing is known to be the same" (walk_index.rs): whatever other
\* programs add, remove or rename before, after and during walks that are
\* killed, exclude files, meet errors or lose batches, a usable record is
\* current.  The exceptions are a directory that changes between its listing
\* and its record, and what could not be read when it was listed.
ListingCurrent == late \/ \A d \in Dir : RecordCurrent(d)

\* f is in the scan: it exists, the path to it leads over no link that is not
\* to be followed, never back to a directory it has come through, stays on the
\* filesystem and is not excluded.
InScan(f) ==
    /\ Exists(f) /\ f \notin options.exclude_paths /\ extension_allowed(f[2])
    /\ \A e \in PathTo[f[1]] \ {Root} :
          /\ e \notin options.exclude_paths /\ ~OtherFilesystem(e)
          /\ IsLink(e) => options.follow_symlinks
          /\ options.follow_symlinks => Real(e) \notin Ancestors(Parent[e])

\* With an index that is current, a walk in a quiet tree finds no file that is
\* not there, and every file there is but those below a directory in which this
\* walk, or the one that recorded it, met an error: wherever its listings come
\* from and whatever options the walks before it had.
FoundComplete ==
    pc = "hashing" /\ quiet /\ ~late /\ options.min_size = 0 =>
       LET paths == {<<f[1], f[2]>> : f \in found}
           scan == {f \in Dir \X Name : InScan(f)}
       IN  /\ paths \subseteq scan
           /\ {f \in scan : PathTo[f[1]] \cap missed = {}} \subseteq paths

\* What other programs, kills, exclusions, errors and lost batches must never
\* break: the index can be believed wherever a walk believes it, and a walk that
\* does finds what one that reads every directory finds.
WalkSound == TypeOK /\ ListingCurrent /\ FoundComplete

\* The groups a scan of the tree as it is now should report.
Duplicates ==
    {g \in {{f \in Dir \X Name : InScan(f) /\ At(f) = c} :
               c \in {c \in Content : Size[c] >= options.min_size}} : Several(g)}

\* "Grouped under its old size until a rescan_all walk" (walk_index.rs): a
\* rescan in a quiet tree reports exactly the duplicates, and so do the scans
\* after it that use the index, with the same options or others, until a file
\* is rewritten in place; scans that meet an error, or a record of a walk that
\* met one, apart.
ScanExact ==
    [][(/\ Hash /\ quiet /\ ~late /\ missed = {}
        /\ options.rescan_all \/ {d \in Dir : at[d] = "visited"} \subseteq healed)
         => reported' = Duplicates]_vars

\* Every scan that is not killed ends: the full queue and the writer that
\* commits in batches never keep each other waiting.
ScanEnds == pc # "idle" ~> pc = "idle"
-----------------------------------------------------------------------------
(* Statements of the documentation that do not hold of the code; the README  *)
(* says of each on which instance it fails.                                  *)

\* What the comment on RACY_WINDOW promises: the same without the exception.
RacyWindowSuffices == \A d \in Dir : RecordCurrent(d)

\* The same without the other one: what a usable record names is the listing,
\* as the head of walk_index.rs says and record assumes of what it is given.
ListingSame ==
    late \/ \A d \in Dir : Usable(d) => /\ NamesRecorded(d) = NamesIn(d)
                                       /\ index[d].subdirs \in {SubdirsOf(d), NoFile}

\* "That can hide a duplicate, never invent one" (walk_index.rs).
NeverInvents ==
    [][Hash /\ quiet /\ ~late
         => \A g \in reported' : \A e, f \in g : At(e) = At(f)]_vars
=============================================================================
