---------------------------- MODULE ActionLayer ----------------------------
(***************************************************************************)
(* The action layer on a real directory tree: a scan reports duplicate     *)
(* groups, each group is planned with a keep rule and then applied file by *)
(* file (rusty_fclone-core/src/action.rs).  Replacing a file takes several *)
(* system calls (link or clone to a temporary sibling, then rename); each  *)
(* is a step of its own, can fail, and the process can die between two.    *)
(* Other programs can change the tree between any two steps, at most       *)
(* EnvSteps times; the run is started at most MaxRuns times.               *)
(***************************************************************************)
EXTENDS ActionOps, FiniteSets

CONSTANTS TmpName,   \* the paths tmp_sibling can produce
          Content,   \* contents a file can have
          Stub,      \* content of a file whose writing has not finished
          Kinds,     \* the ActionKinds the user may ask for
          KeepRules, \* the keep rules the user may ask for
          MaxRuns,   \* bound: runs of the program
          EnvSteps   \* bound: steps of other programs

ASSUME TmpAssumption == TmpName \subseteq Path \ Protected
ASSUME ContentAssumption == Stub \notin Content
                            /\ NoFile \notin Content \cup {Stub}
ASSUME KindAssumption ==
    /\ Kinds \subseteq {"delete", "trash", "hardlink", "reflink", "move", "copy"}
    /\ KeepRules \subseteq Rules
ASSUME BoundAssumption == MaxRuns \in Nat /\ EnvSteps \in Nat

VARIABLES
    fs,         \* directory entries of the tree: the inode at each path
    archive,    \* the file at archived_path(p) in the archive directory
    trash,      \* the inodes in the operating system's trash
    data,       \* the content of each inode
    mtime,      \* the modification time of each inode
    pc,         \* where the program is
    kind, rule, \* --action and --keep-rule of this run
    groups,     \* reported groups that have not been acted on yet
    kept, todo, \* the plan being applied: the kept path, the paths left
    tmp,        \* the temporary sibling in use
    succeeded,  \* ApplyReport.succeeded of the plan being applied
    reclaimed,  \* ApplyReport.bytes_reclaimed, in units of the group's size
    before,     \* history: the inodes of the tree when apply started
    clean,      \* history: no action has failed, no run has died
    runs, env   \* what is left of the two bounds

disk == <<fs, archive, trash, data, mtime>>
planning == <<kind, rule, groups, kept, todo>>
report == <<succeeded, reclaimed, before>>
vars == <<disk, pc, planning, tmp, report, clean, runs, env>>

TypeOK ==
    /\ fs \in [Path -> Inode \cup {NoFile}]
    /\ archive \in [Path -> Inode \cup {NoFile}]
    /\ trash \subseteq Inode
    /\ data \in [Inode -> Content \cup {Stub}]
    /\ mtime \in [Inode -> Nat]
    /\ pc \in {"idle", "scanned", "apply", "cloning", "rename", "moving",
               "copying", "filling"}
    /\ kind \in Kinds \cup {NoFile} /\ rule \in KeepRules \cup {NoFile}
    /\ groups \subseteq SUBSET Path
    /\ kept \in Path \cup {NoFile}
    /\ todo \subseteq Path
    /\ tmp \in TmpName \cup {NoFile}
    /\ succeeded \subseteq Path
    /\ reclaimed \in Nat
    /\ before \subseteq Inode
    /\ clean \in BOOLEAN
    /\ runs \in 0..MaxRuns
    /\ env \in 0..EnvSteps
    /\ tmp # NoFile <=> pc \in {"cloning", "rename"}
    /\ pc = "idle" => kept = NoFile
    /\ pc \in {"idle", "scanned"} => todo = {}
    /\ pc \notin {"idle", "scanned"} => kept \in Path
    /\ kept \notin todo

Linked == {i \in Inode : \E p \in Path : fs[p] = i}
Fresh == {i \in Inode \ trash : \A p \in Path : fs[p] # i /\ archive[p] # i}

\* The content found at path p, NoFile if there is none.
ContentAt(p) == IF fs[p] = NoFile THEN NoFile ELSE data[fs[p]]

Init ==
    /\ fs \in [Path -> Inode \cup {NoFile}]
    /\ \A t \in TmpName : fs[t] = NoFile
    /\ archive = [p \in Path |-> NoFile]
    /\ trash = {}
    /\ data \in [Inode -> Content \cup {Stub}]
    /\ \A i \in Inode : data[i] = Stub <=> i \in Fresh
    /\ mtime \in [Inode -> 0..1]
    /\ \A i \in Fresh : mtime[i] = 0
    /\ pc = "idle"
    /\ kind = NoFile /\ rule = NoFile
    /\ groups = {}
    /\ kept = NoFile /\ todo = {} /\ tmp = NoFile
    /\ succeeded = {} /\ reclaimed = 0 /\ before = {}
    /\ clean = TRUE
    /\ runs = MaxRuns
    /\ env = EnvSteps
-----------------------------------------------------------------------------
(* A run: the scan, then one plan after the other.                         *)

\* What a correct scan of the tree reports: for every content, all the paths
\* that hold it, when they are at least two distinct files.
Duplicates ==
    {g \in {{p \in Path : ContentAt(p) = c} : c \in Content \cup {Stub}} :
        \E p, q \in g : fs[p] # fs[q]}

Scan ==
    /\ pc = "idle" /\ runs > 0
    /\ groups' = Duplicates
    /\ kind' \in Kinds /\ rule' \in KeepRules
    /\ pc' = "scanned"
    /\ runs' = runs - 1
    /\ UNCHANGED <<disk, kept, todo, tmp, report, clean, env>>

\* handle_group and run_action: choose a keep, plan, and start to apply.
PlanGroup ==
    /\ pc = "scanned"
    /\ \E g \in groups, proposed \in Path, k \in Path :
          /\ proposed \in ChooseKeep(rule, g, fs, mtime)
          /\ k \in EffectiveKeep(g, proposed)
          /\ kept' = k
          /\ todo' = Planned(fs, g, k)
          /\ groups' = groups \ {g}
    /\ succeeded' = {} /\ reclaimed' = 0 /\ before' = Linked
    /\ pc' = "apply"
    /\ UNCHANGED <<disk, kind, rule, tmp, clean, runs, env>>

FinishGroup ==
    /\ pc = "apply" /\ todo = {}
    /\ pc' = "scanned"
    /\ UNCHANGED <<disk, planning, tmp, report, clean, runs, env>>

FinishRun ==
    /\ pc = "scanned" /\ groups = {}
    /\ pc' = "idle"
    /\ kind' = NoFile /\ rule' = NoFile /\ kept' = NoFile
    /\ succeeded' = {} /\ reclaimed' = 0 /\ before' = {}
    /\ UNCHANGED <<disk, groups, todo, tmp, clean, runs, env>>
-----------------------------------------------------------------------------
(* apply: one action after the other, in the order of the plan.            *)

Succeed(p) ==
    /\ succeeded' = succeeded \cup {p}
    /\ reclaimed' = IF kind = "copy" THEN reclaimed ELSE reclaimed + 1
    /\ todo' = todo \ {p}
    /\ tmp' = NoFile
    /\ pc' = "apply"
    /\ UNCHANGED <<kind, rule, groups, kept, before, clean, runs, env>>

\* Mutant: the temporary sibling of a failed action is not forgotten.
FailWithTmp(p) ==
    /\ clean' = FALSE
    /\ todo' = todo \ {p}
    /\ pc' = "apply"
    /\ UNCHANGED <<kind, rule, groups, kept, tmp, report, runs, env>>

\* Mutant: a failed action is tried again.
FailAndRetry(p) ==
    /\ clean' = FALSE
    /\ tmp' = NoFile
    /\ pc' = "apply"
    /\ UNCHANGED <<kind, rule, groups, kept, todo, report, runs, env>>

Fail(p) ==
    /\ clean' = FALSE
    /\ todo' = todo \ {p}
    /\ tmp' = NoFile
    /\ pc' = "apply"
    /\ UNCHANGED <<kind, rule, groups, kept, report, runs, env>>

\* The action goes on with its next system call.
Continue(next) ==
    /\ pc' = next
    /\ UNCHANGED <<planning, report, clean, runs, env>>

At(p, where) == pc = where /\ p \in First(todo)

\* The first system call of the action fails: the path or the kept file has
\* vanished, permission is denied, the archive destination exists, ...
ActionFails(p) ==
    /\ At(p, "apply")
    /\ Fail(p)
    /\ UNCHANGED disk

Delete(p) ==
    /\ At(p, "apply") /\ kind = "delete"
    /\ fs[p] # NoFile
    /\ fs' = [fs EXCEPT ![p] = NoFile]
    /\ Succeed(p)
    /\ UNCHANGED <<archive, trash, data, mtime>>

Trash(p) ==
    /\ At(p, "apply") /\ kind = "trash"
    /\ fs[p] # NoFile
    /\ trash' = trash \cup {fs[p]}
    /\ fs' = [fs EXCEPT ![p] = NoFile]
    /\ Succeed(p)
    /\ UNCHANGED <<archive, data, mtime>>

\* rename(2): when both names already are links to one inode it does nothing
\* and reports success, so the source name stays.
Renamed(from, to) ==
    IF fs[from] = fs[to] THEN fs
    ELSE [fs EXCEPT ![to] = fs[from], ![from] = NoFile]

\* Mutant: the redundant path is removed to make room for the link.
RemoveThenLink(p) ==
    /\ At(p, "apply") /\ kind = "hardlink"
    /\ fs[kept] # NoFile
    /\ \E t \in TmpName :
          /\ fs[t] = NoFile
          /\ fs' = [fs EXCEPT ![t] = fs[kept], ![p] = NoFile]
          /\ tmp' = t
    /\ Continue("rename")
    /\ UNCHANGED <<archive, trash, data, mtime>>

\* hardlink_over, first half.
LinkTmp(p) ==
    /\ At(p, "apply") /\ kind = "hardlink"
    /\ fs[kept] # NoFile
    /\ \E t \in TmpName :
          /\ fs[t] = NoFile
          /\ fs' = [fs EXCEPT ![t] = fs[kept]]
          /\ tmp' = t
    /\ Continue("rename")
    /\ UNCHANGED <<archive, trash, data, mtime>>

\* reflink_over: the clone is created empty, then filled.
CloneTmp(p) ==
    /\ At(p, "apply") /\ kind = "reflink"
    /\ fs[kept] # NoFile
    /\ \E t \in TmpName, i \in Fresh :
          /\ fs[t] = NoFile
          /\ fs' = [fs EXCEPT ![t] = i]
          /\ data' = [data EXCEPT ![i] = Stub]
          /\ mtime' = [mtime EXCEPT ![i] = 2]
          /\ tmp' = t
    /\ Continue("cloning")
    /\ UNCHANGED <<archive, trash>>

FillClone(p) ==
    /\ At(p, "cloning")
    /\ fs[tmp] # NoFile /\ fs[kept] # NoFile
    /\ data' = [data EXCEPT ![fs[tmp]] = data[fs[kept]]]
    /\ Continue("rename")
    /\ UNCHANGED <<fs, archive, trash, mtime, tmp>>

\* The clone failed: its stub is removed, if that succeeds.
CloneFails(p) ==
    /\ At(p, "cloning")
    /\ fs' \in {fs, [fs EXCEPT ![tmp] = NoFile]}
    /\ Fail(p)
    /\ UNCHANGED <<archive, trash, data, mtime>>

\* Mutant: the arguments are swapped and the kept file is renamed over.
RenameOverKept(p) ==
    /\ At(p, "rename")
    /\ fs[tmp] # NoFile
    /\ fs' = Renamed(tmp, kept)
    /\ Succeed(p)
    /\ UNCHANGED <<archive, trash, data, mtime>>

RenameTmp(p) ==
    /\ At(p, "rename")
    /\ fs[tmp] # NoFile
    /\ fs' = Renamed(tmp, p)
    /\ Succeed(p)
    /\ UNCHANGED <<archive, trash, data, mtime>>

\* Mutant: the error of the rename is dropped and the path counts as done.
RenameErrorIgnored(p) ==
    /\ At(p, "rename")
    /\ Succeed(p)
    /\ UNCHANGED disk

\* A failed rename leaves the temporary sibling where it is.
RenameFails(p) ==
    /\ At(p, "rename")
    /\ Fail(p)
    /\ UNCHANGED disk

\* Mutant: whatever is at the destination is replaced.
AnyDestination(p) ==
    /\ At(p, "apply") /\ kind \in {"move", "copy"}
    /\ Continue(IF kind = "move" THEN "moving" ELSE "copying")
    /\ UNCHANGED <<disk, tmp>>

\* ensure_fresh_destination; move_into and copy_into act on its answer later.
FreshDestination(p) ==
    /\ At(p, "apply") /\ kind \in {"move", "copy"}
    /\ archive[p] = NoFile
    /\ Continue(IF kind = "move" THEN "moving" ELSE "copying")
    /\ UNCHANGED <<disk, tmp>>

MoveToArchive(p) ==
    /\ At(p, "moving")
    /\ fs[p] # NoFile
    /\ archive' = [archive EXCEPT ![p] = fs[p]]
    /\ fs' = [fs EXCEPT ![p] = NoFile]
    /\ Succeed(p)
    /\ UNCHANGED <<trash, data, mtime>>

\* fs::copy creates (or truncates) the destination, then fills it.
CreateCopy(p) ==
    /\ At(p, "copying")
    /\ fs[p] # NoFile
    /\ \E i \in IF archive[p] = NoFile THEN Fresh ELSE {archive[p]} :
          /\ archive' = [archive EXCEPT ![p] = i]
          /\ data' = [data EXCEPT ![i] = Stub]
    /\ Continue("filling")
    /\ UNCHANGED <<fs, trash, mtime, tmp>>

FillCopy(p) ==
    /\ At(p, "filling")
    /\ fs[p] # NoFile
    /\ data' = [data EXCEPT ![archive[p]] = data[fs[p]]]
    /\ Succeed(p)
    /\ UNCHANGED <<fs, archive, trash, mtime>>

\* A copy or a move that fails half-way leaves what it has written.
ArchiveFails(p) ==
    /\ pc \in {"moving", "copying", "filling"} /\ p \in First(todo)
    /\ Fail(p)
    /\ UNCHANGED disk

Apply(p) ==
    \/ ActionFails(p) \/ Delete(p) \/ Trash(p)
    \/ LinkTmp(p) \/ CloneTmp(p) \/ FillClone(p) \/ CloneFails(p)
    \/ RenameTmp(p) \/ RenameFails(p)
    \/ FreshDestination(p) \/ MoveToArchive(p)
    \/ CreateCopy(p) \/ FillCopy(p) \/ ArchiveFails(p)

\* The process dies: nothing on disk changes, everything in memory is lost.
Crash ==
    /\ pc # "idle"
    /\ pc' = "idle"
    /\ kind' = NoFile /\ rule' = NoFile
    /\ groups' = {} /\ kept' = NoFile /\ todo' = {} /\ tmp' = NoFile
    /\ succeeded' = {} /\ reclaimed' = 0 /\ before' = {}
    /\ clean' = FALSE
    /\ UNCHANGED <<disk, runs, env>>
-----------------------------------------------------------------------------
(* Other programs.                                                         *)

Outside ==
    /\ env > 0 /\ env' = env - 1
    /\ UNCHANGED <<trash, pc, planning, tmp, report, clean, runs>>

Removed(p) ==
    /\ fs[p] # NoFile
    /\ fs' = [fs EXCEPT ![p] = NoFile]
    /\ UNCHANGED <<archive, data, mtime>>

Rewritten(p) ==
    /\ fs[p] # NoFile
    /\ \E c \in Content : data' = [data EXCEPT ![fs[p]] = c]
    /\ mtime' = [mtime EXCEPT ![fs[p]] = 2]
    /\ UNCHANGED <<fs, archive>>

\* Another program (a second instance, say) puts a file into the archive.
Archived(p) ==
    /\ archive[p] = NoFile
    /\ \E i \in Fresh, c \in Content :
          /\ archive' = [archive EXCEPT ![p] = i]
          /\ data' = [data EXCEPT ![i] = c]
    /\ UNCHANGED <<fs, mtime>>

Environment ==
    /\ Outside
    /\ \E p \in Path \ TmpName : Removed(p) \/ Rewritten(p) \/ Archived(p)
-----------------------------------------------------------------------------
Program == Scan \/ PlanGroup \/ FinishGroup \/ FinishRun
           \/ \E p \in Path : Apply(p)

Next == Program \/ Crash \/ Environment

Spec == Init /\ [][Next]_vars

\* A started run is carried on until it ends or the process dies.
FairSpec == Spec /\ WF_vars(Program /\ pc # "idle")
-----------------------------------------------------------------------------
(* Properties.                                                             *)

\* No other program has touched the tree so far.
Undisturbed == env = EnvSteps

\* While nobody else touches the tree, a run, several runs after each other and
\* runs that die at any point keep the contract: a copy goes away only while
\* another path of the tree still holds its content, reference folders never
\* change, and only temporary siblings appear (plan_with_keep and apply).
Contract == INSTANCE DedupContract
              WITH None <- NoFile, tree <- [p \in Path |-> ContentAt(p)]
KeepsContract == Contract!Spec

\* The rename of hardlink_over and reflink_over consumes the temporary sibling:
\* when nothing has failed or died, no run leaves one behind.  It takes the
\* alias filter of plan_with_keep, since renaming one link over another link to
\* the same inode does nothing.
NoLitter == (pc = "idle" /\ clean) => \A t \in TmpName : fs[t] = NoFile

\* What ActionKind promises of a path it has succeeded on.
Effect(p) ==
    CASE kind \in {"delete", "trash"} -> fs[p] = NoFile
      [] kind = "hardlink" -> fs[p] = fs[kept]
      [] kind = "reflink" -> fs[p] # fs[kept] /\ ContentAt(p) = ContentAt(kept)
      [] kind = "move" -> fs[p] = NoFile /\ data[archive[p]] = ContentAt(kept)
      [] kind = "copy" -> data[archive[p]] = ContentAt(p)

\* Every path an ApplyReport lists as succeeded is, until the plan ends, in the
\* state its action promises, next to a kept file that is still there.
ReportedEffects ==
    Undisturbed =>
      \A p \in succeeded : fs[kept] # NoFile /\ Effect(p)

\* What is in the archive directory stays what it is: a later move or copy onto
\* the same place is a failure (ensure_fresh_destination).
ArchiveNeverOverwritten ==
    [][env' = env =>
         \A p \in Path : archive[p] # NoFile =>
            /\ archive'[p] = archive[p]
            /\ data[archive[p]] # Stub => data'[archive[p]] = data[archive[p]]]_vars

\* Whatever other programs do meanwhile, no step of the program removes,
\* replaces or rewrites a file under a reference folder (ADR-0025).
ReferenceStep ==
    env' = env =>
      \A p \in Protected :
         /\ fs'[p] = fs[p]
         /\ fs[p] # NoFile => data'[fs[p]] = data[fs[p]]
ReferenceUntouched == [][ReferenceStep]_vars

\* Whatever other programs do meanwhile, applying a plan leaves the file it
\* keeps untouched (FCLONE-ACTION-001 FR-003, FR-012, FR-018).
KeptUntouched ==
    [][env' = env /\ kept # NoFile =>
         /\ fs'[kept] = fs[kept]
         /\ fs[kept] # NoFile => data'[fs[kept]] = data[fs[kept]]]_vars

\* Linking, cloning and copying never leave a path of the tree without a file
\* or with half of one, not even for one step (hardlink_over's promise).
NeverMissing ==
    [][env' = env /\ kind \in {"hardlink", "reflink", "copy"} =>
         \A p \in Path \ TmpName : fs[p] # NoFile =>
            /\ fs'[p] # NoFile
            /\ ContentAt(p)' = Stub => ContentAt(p) = Stub]_vars

\* Every run that is started ends, whatever fails in it.
RunEnds == pc # "idle" ~> pc = "idle"

-----------------------------------------------------------------------------
(* Statements of the documentation that do not hold of the code; the README  *)
(* says of each on which instance it fails.                                  *)

\* ApplyReport.bytes_reclaimed is what its comment says, the bytes actually
\* freed: the files of the tree that no longer have a name in it.
BytesActuallyFreed ==
    (Undisturbed /\ clean /\ pc = "apply" /\ todo = {}) =>
       reclaimed = Cardinality(before \ Linked)
=============================================================================
