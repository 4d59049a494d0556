----------------------------- MODULE FolderPass -----------------------------
(***************************************************************************)
(* Folder-level deduplication end to end: the scan's groups, the finder's  *)
(* walk over the fully duplicated directories (folder_dedup.rs), planning  *)
(* and applying an action for a folder pair (folder_action.rs), and the    *)
(* two clients that drive it.  The CLI acts on every match and then on the *)
(* groups no match covers (main.rs); in the GUI the user picks matches and *)
(* groups one at a time, all from the one scan (commands.rs).              *)
(* One file's action is one step here; ActionLayer has its system calls.   *)
(* All contents are of one size, so a size check never tells files apart.  *)
(***************************************************************************)
EXTENDS FolderOps

CONSTANTS Content,    \* contents a file can have
          Excluded,   \* paths the scan's filters leave out
          Unreadable, \* paths that a traversal can fail to read
          MTime,      \* modification time of each inode
          Clients,    \* the clients considered: "cli", "gui"
          Kinds,      \* the ActionKinds the user may ask for
          KeepRule,   \* the CLI's --keep-rule
          MaxActions, \* bound: actions of a GUI user
          EnvSteps    \* bound: steps of other programs

ASSUME ClientAssumption ==
    /\ Clients \subseteq {"cli", "gui"}
    /\ Kinds \subseteq {"delete", "trash", "move", "hardlink", "reflink", "copy"}
    /\ KeepRule \in Rules \ {"Manual"}
    /\ Excluded \subseteq Path /\ Unreadable \subseteq Path
    /\ MTime \in [Inode -> Nat]
    /\ {MaxActions, EnvSteps} \subseteq Nat

VARIABLES
    client,    \* who drives this run
    kind,      \* --action, or the action chosen in the GUI
    fs, data,  \* the inode at each path, the content of each inode
    dirs,      \* the directories that exist
    litter,    \* the directories in which a temporary sibling was left
    pc,
    groups,    \* the groups the scan reported
    listing,   \* the files the finder's traversal saw
    pending,   \* directories the finder has still to examine
    claimed,   \* directories it has claimed
    found,     \* the matches, in the order they were found
    batch,     \* folder pairs of the match being acted on
    rest,      \* groups that can be acted on as groups
    plan,      \* the folder plan being applied
    todo,      \* pairs <<path, kept>> still to be acted on
    budget, env,
    changed    \* history: groups of which others have changed a member

options == <<client, kind>>
disk == <<fs, data, dirs, litter>>
finder == <<groups, listing, pending, claimed, found>>
vars == <<disk, pc, finder, batch, rest, plan, todo, budget, env, changed, options>>

Existing == {p \in Path : fs[p] # NoFile}
Scanned == Existing \ Excluded
ContentsOf(S) == {data[fs[p]] : p \in S}
Unlinked == {i \in Inode : \A p \in Path : fs[p] # i}
\* What a traversal of the files S can see of them: an entry that cannot be
\* read is reported at most, and passed over.
Listings(S) == {S \ missed : missed \in SUBSET Unreadable}

\* A folder plan: what apply_folder needs of it, and four history components:
\* the files in the folder that the planning did not see; whether every partner
\* was there when it was made, and seen if it is in the folder itself; whether
\* nobody else has touched the tree since; the contents the tree had, unseen
\* files apart.
NoPlan == [removed |-> <<>>, skipped |-> FALSE, failed |-> FALSE,
           unseen |-> {}, live |-> FALSE, quiet |-> TRUE, had |-> {}]

TypeOK ==
    /\ client \in Clients /\ kind \in Kinds
    /\ fs \in [Path -> Inode \cup {NoFile}]
    /\ data \in [Inode -> Content]
    /\ dirs \subseteq Dirs /\ litter \subseteq dirs
    /\ \A p \in Existing : Parent(p) \in dirs
    /\ pc \in {"idle", "scanned", "finding", "acting", "folder", "group", "done"}
    /\ groups \subseteq SUBSET Path /\ rest \subseteq groups
    /\ listing \subseteq Path
    /\ pending \subseteq Dirs /\ claimed \subseteq Dirs
    /\ ToSet(found) \subseteq Matches
    /\ batch \subseteq [removed : Dirs, kept : Dirs]
    /\ plan \in [removed : Dirs, skipped : BOOLEAN, failed : BOOLEAN,
                 unseen : SUBSET Path, live : BOOLEAN, quiet : BOOLEAN,
                 had : SUBSET Content]
    /\ todo \subseteq Path \X Path
    /\ todo # {} => pc \in {"folder", "group"}
    /\ budget \in 0..MaxActions /\ env \in 0..EnvSteps
    /\ changed \subseteq groups

Init ==
    /\ client \in Clients /\ kind \in Kinds
    /\ fs \in [Path -> Inode \cup {NoFile}]
    /\ data \in [Inode -> Content]
    /\ \E empty \in Dirs :  \* bound: one branch of directories without files
          dirs = {d \in Dirs : \/ \E p \in Existing : IsPrefix(d, Parts[p])
                              \/ IsPrefix(d, empty)}
    /\ litter = {}
    /\ pc = "idle"
    /\ groups = {} /\ listing = {} /\ pending = {} /\ claimed = {}
    /\ found = <<>>
    /\ batch = {} /\ rest = {} /\ plan = NoPlan /\ todo = {}
    /\ budget = MaxActions /\ env = EnvSteps /\ changed = {}
-----------------------------------------------------------------------------
(* Scan and finder.                                                        *)

Scan ==
    /\ pc = "idle"
    /\ \E seen \in Listings(Scanned) :
          groups' = {g \in {{p \in seen : data[fs[p]] = c} : c \in Content} :
                       \E p, q \in g : fs[p] # fs[q]}
    /\ pc' = "scanned"
    /\ UNCHANGED <<disk, listing, pending, claimed, found, batch, rest, plan,
                   todo, budget, env, changed, options>>

\* build_tree and compute_all_signatures.
ListTree ==
    /\ pc = "scanned"
    /\ listing' \in Listings(Scanned)
    /\ pending' = {d \in Dirs : FullyDuplicated(listing', groups, d)}
    /\ pc' = "finding"
    /\ UNCHANGED <<disk, groups, claimed, found, batch, rest, plan, todo,
                   budget, env, changed, options>>

SignatureOf(d) == Signature(listing, groups, d)

\* Directories of the same signature.  (The code also remembers the signatures
\* it has handled; once handled, a cluster has at most one unclaimed member.)
Cluster(d) ==
    {e \in Dirs : FullyDuplicated(listing, groups, e) /\ SignatureOf(e) = SignatureOf(d)}

\* Mutant: members of a cluster are taken without looking at the claims.
ClaimAllMembers(d) == {e \in Cluster(d) : TRUE}
Members(d) == {e \in Cluster(d) : ~Claimed(e, claimed)}

\* What examining one directory adds to the matches.
Verdict(d) ==
    CASE Claimed(d, claimed) -> <<>>
      [] ~Claimed(d, claimed) /\ Cluster(d) # {d} ->
            IF Members(d) # {d} THEN <<Exact(Members(d))>> ELSE <<>>
      [] OTHER ->
            LET bases == DirsInOrder(Supersets(d, SignatureOf(d)))
            IN  [i \in DOMAIN bases |-> Contained(d, bases[i])]

\* Directories are examined from the shallowest on, in no particular order at
\* one depth (the order of a HashMap).
Examine(d) ==
    /\ pc = "finding"
    /\ d \in pending
    /\ \A e \in pending : Len(d) <= Len(e)
    /\ pending' = pending \ {d}
    /\ found' = found \o Verdict(d)
    /\ claimed' = claimed \cup
         UNION {IF m.type = "exact" THEN m.folders ELSE {m.subset} :
                  m \in ToSet(Verdict(d))}
    /\ UNCHANGED <<disk, pc, groups, listing, batch, rest, plan, todo, budget, env, changed, options>>

\* The CLI leaves the groups that matches cover entirely to the folder pass.
StartActing ==
    /\ pc = "finding" /\ pending = {}
    /\ rest' = IF client = "gui" THEN groups
               ELSE {g \in groups : ~FullyCovered(g, Roots(ToSet(found)))}
    /\ pc' = "acting"
    /\ UNCHANGED <<disk, finder, batch, plan, todo, budget, env, changed, options>>
-----------------------------------------------------------------------------
(* Folder actions.                                                         *)

NextMatch ==
    /\ pc = "acting" /\ client = "cli" /\ batch = {} /\ found # <<>>
    /\ batch' = MatchPairs(Head(found))
    /\ found' = Tail(found)
    /\ UNCHANGED <<disk, pc, groups, listing, pending, claimed, rest, plan, todo,
                   budget, env, changed, options>>

\* The GUI lists every match until the next scan, and lets the user choose
\* which folder of an exact match to keep.
PickMatch ==
    /\ pc = "acting" /\ client = "gui" /\ batch = {} /\ budget > 0
    /\ \E m \in ToSet(found) :
          \E k \in IF m.type = "exact" THEN m.folders ELSE {m.superset} :
             batch' = PairsKeeping(m, k)
    /\ budget' = budget - 1
    /\ UNCHANGED <<disk, pc, finder, rest, plan, todo, env, changed, options>>

\* Mutant: a file without a confirmed partner is left out of the plan.
SkipUnconfirmed(p, partners) == TRUE

\* A group of the scan holds the file and its expected partner.
Confirmed(p, partners) == \E g \in groups : p \in g /\ partners \cap g # {}

\* plan_folder walks the folder again.
CanPlan(pair, seen) ==
    /\ pair.removed \in dirs
    /\ \A p \in seen \ Protected :
          Confirmed(p, Partner(p, pair.removed, pair.kept))

Planning(pair, seen) ==
    /\ pc = "acting"
    /\ pair \in batch
    /\ seen \in Listings(Files(Scanned, pair.removed))

\* A file that the walk has missed is neither paired nor counted as skipped.
PlanFolder(pair, seen) ==
    /\ Planning(pair, seen) /\ CanPlan(pair, seen)
    /\ LET pairs == UNION {{p} \X Partner(p, pair.removed, pair.kept) :
                              p \in seen \ Protected}
           unseen == Files(Existing, pair.removed) \ seen
       IN  /\ todo' = pairs
           /\ plan' = [removed |-> pair.removed,
                       skipped |-> seen \cap Protected # {},
                       failed |-> FALSE, unseen |-> unseen,
                       live |-> \A e \in pairs : /\ e[2] \in Existing \ unseen
                                                 /\ data[fs[e[2]]] = data[fs[e[1]]],
                       quiet |-> TRUE, had |-> ContentsOf(Existing \ unseen)]
    /\ batch' = batch \ {pair}
    /\ pc' = "folder"
    /\ UNCHANGED <<disk, finder, rest, budget, env, changed, options>>

\* plan_folder fails: the CLI goes on with the next pair, the GUI stops.
PlanRefused(pair, seen) ==
    /\ Planning(pair, seen) /\ ~CanPlan(pair, seen)
    /\ batch' = IF client = "cli" THEN batch \ {pair} ELSE {}
    /\ UNCHANGED <<disk, pc, finder, rest, plan, todo, budget, env, changed, options>>

Removing == kind \in {"delete", "trash", "move"}

\* Mutant: files that were skipped as protected do not keep the directory.
PrunesProtected == Removing /\ ~plan.failed
Prunes == Removing /\ ~plan.failed /\ ~plan.skipped

FinishFolder ==
    /\ pc = "folder" /\ todo = {}
    /\ pc' = "acting" /\ plan' = NoPlan
    /\ UNCHANGED <<finder, batch, rest, todo, budget, env, changed, options>>

\* remove_dir_all deletes whatever is in the directory by now; it can fail
\* half-way.
Prune ==
    /\ FinishFolder /\ Prunes
    /\ \/ /\ fs' = [p \in Path |-> IF p \in Files(Path, plan.removed)
                                   THEN NoFile ELSE fs[p]]
          /\ dirs' = {d \in dirs : ~IsPrefix(plan.removed, d)}
          /\ litter' = litter \cap dirs'
       \/ /\ \E gone \in SUBSET Files(Existing, plan.removed) :
                fs' = [p \in Path |-> IF p \in gone THEN NoFile ELSE fs[p]]
          /\ UNCHANGED <<dirs, litter>>
    /\ UNCHANGED data

KeepDirectory ==
    /\ FinishFolder /\ ~Prunes
    /\ UNCHANGED disk
-----------------------------------------------------------------------------
(* Group actions.                                                          *)

\* The groups whose turn it can be, and the keeps that can be proposed for one.
Ready ==
    \/ client = "cli" /\ found = <<>>
    \/ client = "gui" /\ budget > 0
Proposals(g) == ChooseKeep(IF client = "cli" THEN KeepRule ELSE "Manual", g, fs, MTime)

PlanGroup ==
    /\ pc = "acting" /\ batch = {} /\ Ready
    /\ \E g \in rest : \E proposed \in Proposals(g) :
          \E k \in EffectiveKeep(g, proposed) :
             /\ todo' = Planned(fs, g, k) \X {k}
             /\ rest' = IF client = "cli" THEN rest \ {g} ELSE rest
    /\ budget' = IF client = "gui" THEN budget - 1 ELSE budget
    /\ pc' = "group"
    /\ UNCHANGED <<disk, finder, batch, plan, env, changed, options>>

FinishGroup ==
    /\ pc = "group" /\ todo = {}
    /\ pc' = "acting"
    /\ UNCHANGED <<disk, finder, batch, rest, plan, todo, budget, env, changed, options>>

Finish ==
    /\ pc = "acting" /\ batch = {}
    /\ client = "cli" => found = <<>> /\ rest = {}
    /\ pc' = "done"
    /\ UNCHANGED <<disk, finder, batch, rest, plan, todo, budget, env, changed, options>>
-----------------------------------------------------------------------------
(* apply on one file, against the file kept for it.                        *)

Now(entry) ==
    /\ pc \in {"folder", "group"}
    /\ entry \in todo
    /\ pc = "group" => entry[1] \in First({e[1] : e \in todo})
    /\ todo' = todo \ {entry}
    /\ UNCHANGED <<pc, finder, batch, rest, budget, env, changed, options>>

ActionFails(entry) ==
    /\ Now(entry)
    /\ plan' = [plan EXCEPT !.failed = pc = "folder"]
    /\ UNCHANGED disk

RemoveFile(p, k) ==
    /\ Removing
    /\ fs[p] # NoFile
    /\ fs' = [fs EXCEPT ![p] = NoFile]
    /\ UNCHANGED <<data, dirs, litter>>

\* Mutant: the path is cleared even when there is nothing to link to.
LinkFileBlindly(p, k) ==
    /\ kind = "hardlink"
    /\ Parent(p) \in dirs
    /\ fs' = [fs EXCEPT ![p] = fs[k]]
    /\ UNCHANGED <<data, dirs, litter>>

\* Renaming over an alias of the kept file leaves the temporary sibling.
LinkFile(p, k) ==
    /\ kind = "hardlink"
    /\ fs[k] # NoFile /\ Parent(p) \in dirs
    /\ fs' = [fs EXCEPT ![p] = fs[k]]
    /\ litter' = IF fs[p] = fs[k] THEN litter \cup {Parent(p)} ELSE litter
    /\ UNCHANGED <<data, dirs>>

CloneFile(p, k) ==
    /\ kind = "reflink"
    /\ fs[k] # NoFile /\ Parent(p) \in dirs
    /\ \E i \in Unlinked :
          /\ fs' = [fs EXCEPT ![p] = i]
          /\ data' = [data EXCEPT ![i] = data[fs[k]]]
    /\ UNCHANGED <<dirs, litter>>

\* A copy into the archive changes nothing in the tree.
CopyFile(p, k) ==
    /\ kind = "copy"
    /\ fs[p] # NoFile
    /\ UNCHANGED disk

Act(entry) ==
    \/ ActionFails(entry)
    \/ /\ Now(entry) /\ UNCHANGED plan
       /\ \/ RemoveFile(entry[1], entry[2]) \/ LinkFile(entry[1], entry[2])
          \/ CloneFile(entry[1], entry[2]) \/ CopyFile(entry[1], entry[2])
-----------------------------------------------------------------------------
(* Other programs.                                                         *)

\* A file is created, or renamed over the one that is there.
Arrives(p) ==
    /\ Parent(p) \in dirs
    /\ \E i \in Unlinked, c \in Content :
          /\ fs' = [fs EXCEPT ![p] = i]
          /\ data' = [data EXCEPT ![i] = c]

Vanishes(p) ==
    /\ fs[p] # NoFile
    /\ fs' = [fs EXCEPT ![p] = NoFile]
    /\ UNCHANGED data

\* A file is written in place, under all its names.
Rewritten(p) ==
    /\ fs[p] # NoFile
    /\ \E c \in Content \ {data[fs[p]]} : data' = [data EXCEPT ![fs[p]] = c]
    /\ UNCHANGED fs

\* The path holds another file or content after the step.
HoldsOther(p) ==
    fs'[p] # NoFile /\ (fs'[p] # fs[p] \/ data'[fs'[p]] # data[fs[p]])

Environment ==
    /\ env > 0 /\ env' = env - 1
    /\ \E p \in Path : Arrives(p) \/ Vanishes(p) \/ Rewritten(p)
    /\ plan' = [plan EXCEPT !.quiet = pc # "folder"]
    /\ changed' = changed \cup {g \in groups : \E p \in g : HoldsOther(p)}
    /\ UNCHANGED <<dirs, litter, pc, finder, batch, rest, todo, budget, options>>
-----------------------------------------------------------------------------
FolderStep ==
    \/ NextMatch \/ PickMatch
    \/ \E pair \in batch : \E seen \in Listings(Files(Scanned, pair.removed)) :
          PlanFolder(pair, seen) \/ PlanRefused(pair, seen)
    \/ Prune \/ KeepDirectory

Next ==
    \/ Scan \/ ListTree \/ StartActing
    \/ \E d \in pending : Examine(d)
    \/ FolderStep
    \/ PlanGroup \/ FinishGroup \/ Finish
    \/ \E entry \in todo : Act(entry)
    \/ Environment

Spec == Init /\ [][Next]_vars
-----------------------------------------------------------------------------
(* Properties.                                                             *)

Undisturbed == env = EnvSteps

Claims(m) == IF m.type = "exact" THEN m.folders ELSE {m.subset}

\* The files of S in a directory, with what is in them.
Tree(S, d) == {<<Relative(p, d), data[fs[p]]>> : p \in Files(S, d)}

\* A match is what FolderMatch says it is, by the contents on disk and not by
\* the groups, as far as the finder has seen the files: the folders of an exact
\* match hold the same files with nothing extra on either side, a contained
\* folder has all its files in the other.
MatchesTrue ==
    (pc = "finding" /\ Undisturbed) =>
      \A m \in ToSet(found) :
         IF m.type = "exact" THEN \A d, e \in m.folders : Tree(listing, d) = Tree(listing, e)
         ELSE Tree(listing, m.subset) \subseteq Tree(Scanned, m.superset)

\* Once a directory is claimed by a match, no later match claims it again or
\* claims anything below it; only the one subset of several supersets is
\* repeated (find_folder_duplicates, FCLONE-DETECTION-001 FR-012).
NestedMatchesOmitted ==
    \A i, j \in DOMAIN found :
       i < j => \/ \A d \in Claims(found[j]) : ~Claimed(d, Claims(found[i]))
                \/ Claims(found[i]) = Claims(found[j]) /\ found[j].type = "contained"

\* The matches that are shown and acted on: each says the truth about the disk,
\* and none repeats or overlaps another, in whatever order directories of one
\* depth are examined.
MatchesSound == TypeOK /\ MatchesTrue /\ NestedMatchesOmitted

\* Acting on folders and on the groups they leave over never changes a file
\* under a reference folder (ADR-0025), also when the file has appeared between
\* the scan and the plan.  Only what the walk of plan_folder has missed itself
\* can go with the directory.
ReferenceUntouched ==
    [][env' = env /\ plan.quiet => \A p \in Protected \ plan.unseen : fs'[p] = fs[p]]_vars

\* A folder plan whose partners were all there when it was made loses no content
\* of the tree but what only unseen files had, whatever fails while it is
\* applied and however much of the directory the pruning gets.
LivePlanLosesNothing ==
    [][(plan.live /\ plan.quiet /\ env' = env) => plan.had \subseteq ContentsOf(Existing)']_vars

\* The files whose group, if they have one, is as it was scanned.
Unchanged == Existing \ UNION changed

\* Linking, cloning and copying lose no content, whatever the matches overlap,
\* in whatever order stale matches are acted on: what other programs do to a
\* member of a group can only harm that group.
ContentPreserved ==
    [][(env' = env /\ ~Removing) =>
         ContentsOf(Unchanged) \subseteq ContentsOf(Existing)']_vars

-----------------------------------------------------------------------------
(* Statements of the documentation that do not hold of the code; the README  *)
(* says of each on which instance it fails.                                  *)

\* What FCLONE-ACTION-001 FR-009 says of a folder plan: every file in it has a
\* partner that is there.
PartnersLive ==
    [][(pc = "acting" /\ pc' = "folder") =>
         \A entry \in todo' : fs[entry[2]] # NoFile]_vars

\* What FCLONE-DETECTION-001 FR-010 says of the finder: a directory whose files
\* all are in another directory as well is reported, by itself or by a match
\* of a directory above it.
DuplicateDirectoriesFound ==
    (pc = "finding" /\ pending = {} /\ Undisturbed) =>
      \A d, e \in Dirs :
         (/\ d # e /\ FullyDuplicated(listing, groups, d)
          /\ Tree(Scanned, d) \subseteq Tree(Scanned, e))
            => Claimed(d, claimed)

\* What apply_folder says of the pruning, and plan_folder of a file it cannot
\* read: when nobody else touches the tree, the directory that is pruned is
\* file-less, files that the filters hide apart.
PrunesFileless ==
    [][(plan.quiet /\ dirs' # dirs) => Files(Scanned, plan.removed) = {}]_vars

\* What FolderMatch says of an exact match: nothing extra on either side.
MatchesExact ==
    (pc = "finding" /\ Undisturbed) =>
      \A m \in ToSet(found) :
         m.type = "exact" => \A d, e \in m.folders : Tree(Scanned, d) = Tree(Scanned, e)

\* What FCLONE-ACTION-001 says of every ActionPlan: none of its paths is an
\* alias of the kept file when the plan is made.
NoAliasPlanned ==
    [][(todo = {} /\ todo' # {}) =>
         \A entry \in todo' : ~SameFile(fs, entry[1], entry[2])]_vars

\* What the CLI says of the groups it handles after the folder pass: they get
\* the behaviour of a run without it, which keeps a copy of every group.
OneCopyKept ==
    (pc = "done" /\ Undisturbed) => \A g \in groups : g \cap Existing # {}
=============================================================================
