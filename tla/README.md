# A formal model of rusty_fclone

`rusty_fclone` finds duplicate files (and duplicate folders) and, on request,
deletes, trashes, hardlinks, reflinks, moves or copies the redundant ones. This
directory holds TLA+ modules translated from its source, TLC configurations that
check them on small trees, and proofs checked by TLAPS.

Paths below are relative to `crates/` of the repository (`core` is
`rusty_fclone-core/src`, `cli` is `rusty_fclone-cli/src`, `gui` is
`rusty_fclone-gui`). `PROJECT.json` maps every definition to its lines.

## 1. Inventory

### Components, their state and operations

| component | state it keeps | operations | what makes it correct |
|---|---|---|---|
| Action layer (`core/action.rs`, `core/select.rs`) | the plan (kept path, actions), the report; temporary siblings and archive files on disk | `choose_keep`, `plan_with_keep`, `apply` with `hardlink_over`, `reflink_over`, `move_into`, `copy_into` | no content is lost, reference folders and the kept file are untouched, no path is ever missing while it is replaced, the report is truthful, no litter |
| Folder pass (`core/folder_dedup.rs`, `core/folder_action.rs`) | directory tree, signatures, claimed directories, folder plans | `find_folder_duplicates`, `plan_folder`, `apply_folder` | matches are true and do not overlap, a folder plan loses nothing, pruning removes only what was planned |
| Traversal and walk index (`core/traversal.rs`, `core/walk_index.rs`) | one task per directory, a table of directory records, a bounded queue, the writer's batch | `visit`, `lookup`, `record`, `write_loop`, `commit`, `finish` | an indexed walk finds what a full one finds; killed walks leave a usable index; the walk ends |
| Detection pipeline (`core/pipeline.rs`, `core/hash.rs`) | size groups, sampled and hashed members | `run_scan`, `process_size_group`, `verify_representatives` | equal files are reported together, different ones never |
| Hash cache (`core/cache.rs`) | hash of each path with size and mtime | `get`, `put_batch` | an entry that is used is the hash of the file as it is |
| I/O pool (`core/io_pool.rs`) | bounded queue, threads | `read_ranges`, `hash_full_file`, `files_equal` | every read and every comparison is answered |
| Candidate sorter (`core/candidate_sort.rs`) | buffer, spilled runs, the heap of the merge | `push`, `spill`, `finish`, `Merge::next` | a permutation of what was pushed, in order; errors end it; the size groups are complete |
| fclones import (`core/fclones_import.rs`) | read-only foreign database | `lookup_full_hash` | an imported hash is the file's |
| Similar images (`core/perceptual.rs`) | union-find | `find_similar_images`, `cluster` | clusters do not depend on the order of the traversal |
| Plan files (`cli/plan_file.rs`) | plan file, append-only journal | `stamp_plan`, `apply_plan`, `read_journal`, `undo` | a stale group is skipped, what was done can be undone |
| Command line (`cli/main.rs`) | totals, collected groups, matched folders, history rows, plan, exit code of one run | `run`, `handle_group`, `report_folder_matches`, `run_plan_*` | nothing without consent; totals, output, rows and exit code tell what was done |
| Scan history (`cli/history.rs`) | SQLite tables | `record_scan`, `list_scans`, `stats` | a scan is recorded as it was or not at all; lists and sums over many runs are right |
| GUI backend (`gui/src/commands.rs`, `payload.rs`) | scan threads | `start_scan`, `run_action`, `run_folder_action`, `choose_keep`, lookups | every started scan ends; acting on old results loses nothing |
| GUI frontend (`gui/ui/app.js`) | groups, matches, filters, keep choices of one scan | the event listener, `startScan`, `onScanFinished`, `applyAction` | results of two scans never mix; a choice is for the group it was made for |
| Scan profiles (`gui/src/profiles.rs`) | one JSON file | `list`, `upsert`, `remove` | what was saved is there, also with two instances |
| Device detection, payloads, previews, benches, scripts | none | | |

### How they interact

A scan walks the tree (one rayon task per directory), feeds candidates through a
bounded channel into the sorter, then works on all size groups in parallel; reads
block on the I/O pool's bounded queue. Results are events on a channel. The CLI
consumes them, plans and applies actions group by group, then runs the folder pass
over the recorded groups and handles what is left over. A plan file stands between
two runs of the CLI. The GUI forwards events to its frontend, whose user acts on
groups and matches in any order, long after the scan. Shared state is on disk: the
tree itself, the redb database of hash cache and walk index, plan and journal files,
profiles.

### What is hard

- Other programs change the tree between any two steps: between stat and hash, hash
  and plan, plan and apply, check and rename, listing and pruning.
- The process dies between two system calls, two commits or two journal lines.
- Single files fail while the rest goes on.
- Data outlives what it describes: cache and index records, plans, groups, matches.
- Bounded queues with blocking producers.

Every hazard is listed in `PROJECT.json` at its line, with the properties aimed at
it.

## 2. Modules

```
DedupContract            what the tool promises about the tree (abstract)
ActionOps                keep rules and planning (pure operators)
  ActionLayer            a run: scan, plan, apply as system calls    -> refines DedupContract
    ActionLayerProofs    theorems
    MCActionLayer        TLC instances
  FolderOps              signatures, containment, matches (pure operators)
    FolderPass           finder, folder plans, CLI and GUI client    (MCFolderPass)
      FolderPassProofs   theorems
  PlanJournal            plan files, journal, undo                   (MCPlanJournal)
    PlanJournalProofs    theorems
WalkIndex                walk tasks, index, writer thread            (MCWalkIndex)
  WalkIndexProofs        theorems
SortedStream             what the pipeline expects of the sorter (abstract)
  CandidateSort          spills, merge, size groups, progress        -> refines SortedStream
    CandidateSortProofs  theorems
    MCCandidateSort      TLC instance
ScanPipeline             detection stages, hash cache, import, pool  (MCScanPipeline)
  ScanPipelineProofs     theorems
CommandLine              invocations, output, history                (MCCommandLine)
  CommandLineProofs      theorems
Perceptual               clusters of similar images (pure operators)
  GuiSession             page, commands, scan threads, profiles      (MCGuiSession)
    GuiSessionProofs     theorems
```

**ActionLayer.** State: directory entries (`fs`, path to inode), the archive, the
trash, inode contents and mtimes, and the plan and report of `apply`. A run is `Scan`,
then `PlanGroup` (`choose_keep` and `plan_with_keep`, alias filter and reference
filter included) and the steps of `apply`. `hardlink_over` is `LinkTmp` and
`RenameTmp`; `reflink_over` is `CloneTmp`, `FillClone`, `RenameTmp` with `CloneFails`,
whose stub is removed unless that fails too; `move_into` and `copy_into` are
`FreshDestination` followed by the rename or by `CreateCopy` and `FillCopy`. A rename
over another link to the same inode does nothing and leaves the source, as POSIX says.
`Crash` can follow any step, `Environment` removes, rewrites or archives a file.

**FolderPass.** `ListTree` is `build_tree` and `compute_all_signatures`, `Examine`
one turn of `find_folder_duplicates`, `PlanFolder`/`PlanRefused` are `plan_folder`,
`Act`, `Prune` and `KeepDirectory` are `apply_folder`. The order in which
directories of one depth are examined is that of a `HashMap`, hence free. The client
(`Clients`) is the CLI (`report_folder_matches`, then the left-over groups) or a GUI
user who picks any match or group, in any order, from one scan. The scan, the finder
and the planning traverse the tree one after the other, and each can miss any file
that is `Unreadable` (`Listings`): a traversal passes over what it cannot read, and
neither `build_tree` nor `plan_folder` looks at its errors. What the planning has not
seen, hidden files included, is `plan.unseen`. Other programs add, rename over,
rewrite or remove a file (`Environment`).

**WalkIndex.** Each directory's task looks up its record, lists, stats its files one
at a time, enters subdirectories and queues a new record; the writer collects a batch
and commits it (or fails to). Files and directories that are `Failing` may or may not
be read at each attempt: an entry that readdir or `file_type` fails on is left out of
a listing that is recorded all the same (`ListDisk`), a directory may not open
(`ListFails`), a stat may fail (`StatFails`, `EnterFails`). `missed` remembers where a
walk met an error, `partial` which records come from such a listing. Time is counted
in ticks of the mtime, `Racy` is `RACY_WINDOW`. Directories are named by path; `Real`
tells which directory a path leads to and `Entry` which directory entry it names, so
that a walk that follows links visits a directory once per path to it, `Reachable`
resolves a path over the links on it, and `Enters` refuses one that leads back. `Hash`
stands for the rest of the scan, without the hash cache.

**PlanJournal.** A command is a scan with `--plan-out`, `plan apply` or `plan undo`,
in any order and with the same two files. `Scan`, `StampGroup` (keep rule,
`plan_with_keep` and the mtimes, one group at a time) and `WritePlan` make the plan
file: `plan`, and `whole` when it can be parsed; its reader may delete groups from
it. `FreshGroup` is `staleness`, `Act` an action, `AppendEntries` and `AppendStops`
the write of a group's lines, whole or cut anywhere; `Written` glues it to a line
without its newline. `CheckOrigin` and `Restore` are `restore`.

**CandidateSort.** `Candidate` is what the walk finds, in any order; a full buffer
is sorted and written as a run (`WriteRecord`: cells with their widths in bytes), or
the spill fails. `PopRecord` takes the least head and reads the next record
(`ReadRecord`), which may fail (`PopFails`). `stream` is what the merge has
returned, `groups` the size groups cut out of it after `file_group` has collapsed
names of one file; `reporter` is the thread of `report_hash_progress`, which the
scan waits for at its end.

**ScanPipeline.** Each size is a group with its own stage; `Send`, `Take`, `Answer`
and `Fail` are the life of a read job, `SendComparison`, `AnswerEqual`, `Drop` and
`GiveUp` that of a byte comparison with the first file of the group, whose pieces go
through the same queue. A file that changes while it is read yields its old content,
its new one or a mixture that equals nothing else. `Lookup` is `stat` and `get`, and
`lookup_full_hash` of the fclones database where the cache has nothing; `EndChunk`
is the commit of a chunk, whose length is bounded in files and in bytes. `Kill`
leaves only the tree and the cache.

**CommandLine.** One step is the handling of one event, one folder pair, one group,
or one thing done at the end (summary, history, plan file, exit code). What an
action does to the tree is only its result: the files that succeed are any that
earlier results permit. The next invocation of a session starts on the tree and the
database the last one has left, within the same second or later.

**GuiSession.** Clicks append to `calls`, the commands the page has invoked; the
application answers them one by one (Tauri commands that are not `async`), while
scan threads append to `events`, which the page handles one by one. `run_action`
keeps `paths[0]`, with `plan_with_keep`'s guardrail. `profiles.rs` is two reads and
writes of one file, interleaved with those of a second instance. `Perceptual` has
the two loops of `cluster` as recursive functions (`Joined`, `JoinLater`), `find` as
one along the parents, and the connected parts as its reference.

## 3. What is checked

All programs here may stop for good (all runs used up), so the configurations switch
deadlock checking off; that they do not stop early is what the liveness properties
are for.

| run | instance | what it shows |
|---|---|---|
| `action_tree` | paths 1 to 4, two of them protected, and a temporary name that sorts before them; 4 inodes, 2 contents; six kinds, two keep rules, 2 runs, failures and deaths at any step | `KeepsContract` (refinement of `DedupContract`), `ReportedEffects`, `NoLitter`, `ArchiveNeverOverwritten` |
| `action_env` | paths 1 to 3, two protected, a temporary name that sorts after them; any keep; 1 foreign step | `ReferenceUntouched`, `KeptUntouched`, `NeverMissing`; every run ends (`RunEnds`) |
| `folder_pass` | 4 paths: a folder with a folder in it, next to one with two files; 1 path protected, 2 that any traversal can miss, the protected one among them; CLI, or a GUI user with 2 actions; delete, hardlink, reflink, copy; 1 foreign step | `MatchesSound` (`MatchesTrue`, `NestedMatchesOmitted`), `ReferenceUntouched`, `LivePlanLosesNothing`, `ContentPreserved` |
| `folder_partner` | 5 paths in nested folders | violates `PartnersLive`, see below |
| `walk_index` | root and subdirectory, one name in each, empty and non-empty files; 3 walks with `rescan_all`, exclusions, filters or a filesystem boundary, 2 with a link to the subdirectory, 1 with a link to the root or to the subdirectory when its own path is excluded, 1 with a directory that has a second path over a link, 2 with a file and a directory that cannot always be read; a queue of one directory, 1 foreign step (none where all options, links or errors meet over several walks), 1 tick | `WalkSound` (`ListingCurrent`, `FoundComplete`), `ScanExact`; every scan ends (`ScanEnds`) |
| `walk_empty` | one directory with two files | violates `NeverInvents`, see below |
| `plan_journal` | 4 paths, two protected; delete, hardlink, move and copy; up to 4 commands for moves, 2 for copies, 3 for the others; 1 foreign step | `NothingLost`, `ReferenceUntouched`, `UndoRestores`, `UndoNeverOverwrites` |
| `scan_pipeline` | 3 files; chunks of 2 files or 4 bytes, 1 thread, 1 place in the queue; 1 foreign step, lost commits, a kill. Three setups: 2 scans over one cache, two contents with one sample; 1 scan with an fclones database over empty, small and large files; 1 scan with the byte comparison, two contents with one hash and renames | `CacheSound`, `ReportedEqual`, `ScanComplete`, `ScanEnds` |
| `candidate_sort` | 6 candidates, ids of all kinds, aliases, a file measured twice; a buffer of 2, progress every 3 | `ImplementsSortedStream` (refinement of `SortedStream`), `GroupsExact` (`GroupsComplete`, `CutShort`), `LastProgressExact`, `ScanFinishes` |
| `command_line` | 2 groups, 1 protected file, 3 folders with an exact and a containment match; every accepted line of options by itself, and seven pairs of lines after each other | `OnlyWithConsent`, `OutputTrue` (`CountedOnce`, `OutputAddsUp`, `EveryGroupShown`), `HistoryTrue` (`RowsTrue`, `StatsTrue`, `ListsLatest`), `ExitTruthful` |
| `gui_session` | 6 files in two groups and two more photos; seven kinds of session, with up to 2 scans, 3 clicks, 2 saves, 1 restart and 2 saves of a second instance | `PageTrue` (`ListsOfThisScan`, `MatchesSettle`, `ChoicesStay`), `LossNeedsStrangeKeep`, `SimilarExact`, `ProfilesTrue`, `ScanEnds` |
| `gui_keep` | the session with one scan and two clicks | violates `KeepFromGroup`, see below |

In brackets are the parts of an invariant that is a conjunction. Each module's type
invariant is checked by its first run: as `TypeOK` itself by `action_tree`,
`plan_journal` and `scan_pipeline`, as one more part of `MatchesSound`, `WalkSound`,
`GroupsExact`, `OutputTrue` and `PageTrue` by the others.

**Bounds.** Three or four paths hold two groups, or one group with an alias, a
reference copy and a redundant copy, which is all the code distinguishes; two contents
make a group and an outsider, and in the pipeline a third one a sample that agrees
while the hash does not. Two runs are enough for what one run leaves to the next
(litter, archive, cache, index, journal); four commands for a plan that is applied,
undone and applied again, or scanned again in between, three for the sequence rescan,
index, index. One foreign step can fall into every gap between two steps. Initial
states are all trees over the paths, with every pattern of hardlinks, not one example;
in `scan_pipeline` those that differ only in the names of the files, or of two
contents nothing distinguishes, count as one. In the folder pass one branch of
directories without files may exist as well; a folder that is pruned may then receive
files, protected ones included, before its plan is made. Temporary names sort before
or after the tree's own paths, since the order of paths decides which file is kept.
Six candidates through a buffer of two make up to three runs, or fewer and a rest
where a spill fails, with a record of one size in several of them. The pairs of
`command_line` are those where the first run leaves something for the second: nothing
(a preview), missing files, archived copies, links, pruned folders. A session of
`gui_session` spends its budget on scans and clicks or on profiles, which share only
the order of the answers; one (`Both`) does both. Symmetry is over inodes and
contents, none of which the modules tell apart; `walk_index`, and every run that
checks a liveness property, use none; paths, whose order matters, are never symmetric.

**Fairness.** `ActionLayer`: weak fairness of the program's own steps: a started run
goes on. `WalkIndex`: of the walk's and of the writer's threads, separately.
`ScanPipeline`: of the pipeline and the pool together: if any of their threads can
run, one of them does; that this suffices says that no thread waits for one that
cannot run. `CandidateSort`: of the scan and of the last report of the progress
thread. `GuiSession`: of a scan's thread and of the page's event loop. It is what an
operating system that schedules all threads provides; failing, dying, other
programs, the user, and starting another run are never assumed to happen.

**Mutants.** Modules keep, next to a definition, the form it would have with a
plausible mistake (marked "Mutant"). Each property of each passing run is violated
by one of them.

## 4. Where code and documentation differ

Three runs find a counterexample to what the documentation says; `PROJECT.json`
quotes the text each of them contradicts.

- `folder_partner`: a folder plan counts on partners that an earlier match of the
  same pass has removed.
- `walk_empty`: a file that was empty when indexed is reported as an empty one,
  unread, after it has been written in place.
- `gui_keep`: what to keep is remembered by the place of a group in a filtered list:
  once the filter has changed, a group is acted on with a path of another one to
  keep, and loses all its copies when the kind is delete.

Further statements do not hold. They are not among the runs, but the modules define
them and the constants in the last column, put into the named configuration, produce
the counterexample.

| property | what happens | in | with |
|---|---|---|---|
| `BytesActuallyFreed` | a file with several names counts once per name, though it is freed once, by the last one | `MCActionLayer_tree` | one run of delete, nothing protected |
| `ArchiveNeverOverwritten` | an archive destination that appears after the check is replaced | `MCActionLayer_tree` | move, `EnvSteps = 1` |
| `DuplicateDirectoriesFound` | a directory whose only twin lies under a claimed directory is not reported | `MCFolderPass_partner` | as it is |
| `PrunesFileless` | `plan_folder` drops the errors of its traversal: a file it could not read is neither paired nor counted as skipped, and goes with the directory ("it can't slip through as if it were confirmed", `folder_action.rs:125`; "the now file-less `removed` directory tree is pruned", `:191`) | `MCFolderPass_partner` | `Unreadable = {1}` |
| `ListingSame` | an entry that could not be read is left out of a listing that is recorded all the same (`traversal.rs:217`): later walks of the unchanged directory miss the file, or all that is below the subdirectory, without an error ("its listing is known to be the same", `walk_index.rs:10`) | `MCWalkIndex_empty` | `Setups <- FailingSetups` |
| `PrunesFileless` without `plan.quiet` | files that appear after the plan go with the pruned directory | `MCFolderPass_pass` | `Unreadable = {}` |
| `ReferenceUntouched` without `plan.unseen` | so do protected files that the walk of the plan could not read, or that a filter hides from it | `MCFolderPass_pass` | as it is, or `Excluded = {1}`, `Unreadable = {}` |
| `ContentPreserved` of all files, not only of `Unchanged` | only the size of a file is compared again before it is linked: one written, or put in its place, since the scan is replaced, and its content lost | `MCFolderPass_pass` | `Unreadable = {}` |
| `MatchesExact` | a file that the finder could not read is extra on one side of an exact match | `MCFolderPass_pass` | as it is |
| `NoAliasPlanned` | folder pairs are not checked for being one file | `MCFolderPass_pass` | hardlink |
| `OneCopyKept` | groups covered by matches in part are handled as if nothing had been acted on, and can lose every copy | `MCFolderPass_partner` | `Parts <- FlatParts`, 5 inodes |
| `RacyWindowSuffices` | the age of a directory is judged after its files were stat-ed, not when it was listed | `MCWalkIndex_scan` | as it is |
| `FinishedGroupsUndoable` | one torn line makes the whole journal unusable for undo ("a crash loses at most the group in flight", `plan_file.rs:331`) | `MCPlanJournal_plan` | `Kinds = {"move"}`, 2 commands, `EnvSteps = 0` |
| `CacheSound` | the fclones database is matched by mtime in milliseconds, and what it says is stored under the exact mtime: a write within the millisecond is made permanent | `MCScanPipeline_scan` | `PerMilli = 2` |
| `CacheSound` without its condition | a rename that keeps size and mtime is served another file's hash | `MCScanPipeline_scan` | as it is |
| `ScanComplete` without its condition | when the first file of a group cannot be read at the byte comparison, the whole group is dropped | `MCScanPipeline_scan` | as it is |

Not stated as formulas, but met while translating:

- A scan whose root cannot be opened sends one error and no `Finished`
  (`commands.rs:40`, whose comment promises a last one): the page stays in
  `scanning` and its button disabled. `ScanEnds` of `GuiSession` is about scans that
  were opened.
- Folder matches and similar images of one scan that are answered after the next has
  been started are shown beside its groups: until the lookups of that scan are
  answered, and for good if one of them fails or the scan has found no groups and so
  looks up no folders (`app.js:1991`). `PageTrue` allows both.
- The folder lookup takes root and options from the page when it is invoked, not
  those the scan was started with (`commands.rs:139`).
- Of two concurrent saves of profiles one is lost; a profiles file that is empty or
  torn counts as no profiles, and the next save replaces it. `ProfilesTrue` excludes
  both.
- Acting twice on a stale group with another keep removes its last copy: the reason
  for the exception in `LossNeedsStrangeKeep`.
- "Every pair in `paths`" is within the distance (`perceptual.rs:58`) is untrue of a
  chain; `SimilarExact` says what holds.
- A preview of `copy` reports bytes, though a copy reclaims none; `history stats`
  adds the bytes of previews to those of applied runs (`history.rs:179`); the report
  of a folder counts the bytes of its plan also when files of it failed; a hardlink
  can be replaced by a second one, and is counted twice. In a folder match a file
  that already is its partner is linked to it again and recorded, and a second link
  can give a file its inode back: recorded paths of `hardlink` can be more than the
  files that have changed (`RowsTrue`).
- A group that matched folders cover, but whose match was refused or is an exact
  cluster within which it is not paired, is not acted on at all (`main.rs:1296`).
- `history list` sorts by the start times: a clock that is set back reorders it.
- Every mtime before 1970 is stored as 0 in the hash cache (`cache.rs:144`): two
  states of a file with such mtimes and one size are one to it. `CacheSound` is about
  mtimes that are stored as they are.
- `normalize_path_input` is applied to some of the paths the page sends and not to
  those of groups, and paths that are not UTF-8 do not survive `display()`.

## 5. What is proved

Every theorem is proved for all values of the constants that the modules' own
assumptions allow (paths are numbers in sorted order, the "no file" value is neither
an inode nor a content, names lead below no file, every directory is below the root
and the root is not excluded, a matched folder's files have partners, a traversal
lists a photo once), so for any tree, any keep rule,
any number of runs, clicks, deaths and foreign steps. A theorem that needs more says
so in its `ASSUME`, listed below. The properties are those of the runs, so TLC has
checked each of them on an instance too.

| module | theorem | property | needs |
|---|---|---|---|
| `ActionLayerProofs` | `TypeCorrect` | `TypeOK` | |
| | `ReferenceSafe` | `ReferenceUntouched` | |
| | `KeptSafe` | `KeptUntouched` | |
| | `MissingNever` | `NeverMissing` | |
| | `NoLitterEver` | `NoLitter` | |
| | `ReportTrue` | `ReportedEffects` | |
| | `ContractKept` | `KeepsContract` | `EnvSteps = 0` |
| | `ArchiveSafe` | `ArchiveNeverOverwritten` | `EnvSteps = 0` |
| `PlanJournalProofs` | `TypeCorrect` | `TypeOK` | |
| | `ReferenceSafe` | `ReferenceUntouched` | |
| | `UndoSafe` | `UndoNeverOverwrites` | |
| | `MovesUndone` | `UndoRestores` | |
| | `ContentsKept` | `NothingLost` | |
| `FolderPassProofs` | `MatchesSafe` | `MatchesSound` | |
| | `ReferenceSafe` | `ReferenceUntouched` | |
| | `ContentKept` | `ContentPreserved` | |
| | `LivePlanSafe` | `LivePlanLosesNothing` | |
| `ScanPipelineProofs` | `TypeCorrect` | `TypeOK` | |
| | `CacheTrue` | `CacheSound` | milliseconds tell mtimes apart, or no import |
| | `ReportsTrue` | `ReportedEqual` | `verify_matches`, or hashes and mtimes tell |
| | `DuplicatesFound` | `ScanComplete` | without `verify_matches`: mtimes tell |
| `WalkIndexProofs` | `IndexSound` | `WalkSound`, with `TypeOK` | |
| | `RescanExact` | `ScanExact` | |
| `CandidateSortProofs` | `SorterImplementsStream` | `ImplementsSortedStream` | |
| | `GroupsAlwaysExact` | `GroupsExact`, with `TypeOK` | |
| | `LastProgressAlwaysExact` | `LastProgressExact` | |
| `CommandLineProofs` | `ConsentNeeded` | `OnlyWithConsent` | |
| | `SuccessTrue` | `ExitTruthful` | |
| | `HistoryAlwaysTrue` | `HistoryTrue` | |
| | `OutputAlwaysTrue` | `OutputTrue`, with `TypeOK` | |
| `GuiSessionProofs` | `LossExplained` | `LossNeedsStrangeKeep` | |
| | `ProfilesSafe` | `ProfilesTrue` | |
| | `PageSafe` | `PageTrue` | |
| | `SimilarTrue` | `SimilarExact` | |

**What is needed, and why.** Each condition in the last column is one the code has.
A foreign program can put a file into the archive between `ensure_fresh_destination`
and the rename, and the refinement of the contract is about a tree nobody else
writes. fclones knows mtimes in milliseconds only, and a rename that keeps size
and mtime deceives the cache; both are in the table of section 4.
`MCScanPipeline_scan` satisfies these, the ones of `ReportsTrue` and
`DuplicatesFound` in each of their setups. What the code does not protect is part of
the properties themselves, as history variables: `plan.unseen` and `plan.quiet`
(files the walk of a folder plan has missed, and changes after it), `changed` (groups
of which other programs have changed a member since the scan), `missed` and `partial`
(directories listed with an error) and `late` (directories changed between listing
and record). Each has its counterexample in section 4.

**Action layer.** `IInv` is `Safe` (`TypeOK`; `Guarded`: no protected path is ever in
a plan; `Private`: an unfinished clone or copy has no second name) and, as long as
nobody else has touched the tree, `GroupsOK` and `PlanOK` (waiting groups, the kept
path and the rest of the plan hold one content). `KeepsContract` is not inductive
without them: that a path may be deleted follows from what the scan saw several
steps ago, that a rename is a mere `Drop` of the temporary name from what was linked
to it. `Robust` is what survives interference: `Safe`, `Apart` (kept path, plan,
sibling and waiting groups are disjoint), `Distinct` (no path to act on leads to the
file that replaces it, the alias filter's merit), `Tidy`, `Whole` (half-written
files have temporary names only), `KindOK`. `KeptSafe`, `MissingNever` and
`NoLitterEver` follow from it. `Exact` adds what reports need: a place in the archive
is free until it is written (`ArchiveOK`), a sibling is what its kind says, and what
has succeeded is disjoint from what is still to come (`EffectsOK`). In the refinement
each action is one lemma: a `Drop`, `Stage`, `Settle` or stutter of `DedupContract`.

**Plan files and journal.** In `TypeCorrect` the journal takes the work:
`WrittenLines` and `StoppedLines` say that whatever a write leaves behind, glued to
half a line or not, is made of paths and unreadable lines. `Guarded` follows a path
from stamped groups to the plan file, the action, the journal and the undo list:
`plan apply` and `plan undo` are not told of reference folders, and only what the
plan was made with protects them. `Recoverable` locates every moved file: in exactly
one of its two places and in a readable journal once its group is finished
(`MovedOK`), in the archive before (`DoneOK`), back once undo has passed it
(`UndoingOK`). For `NothingLost`, `Traced` relates mtimes to contents: no mtime and
no stamp is of the future, so that a group that passes `staleness` is one of copies,
however long ago it was stamped.

**Folder pass.** `Typed` includes that a file's directory exists and that paths of a
plan come from a listing. `MatchesSafe` shows that a candidate's signature describes
the disk (`Snapshot`) and that `claimed` covers the folders of all matches, so a later
match cannot overlap one: by cases over which of the two is exact or contained. It
rests on lemmas on prefixes of sequences, on the order of directories, and on sorted
lists, proved by least counterexample. `Shielded`: the plan lists no protected file,
and pruning will find none but what `plan.unseen` has. `Grouped`: what is linked was
reported in one group, and groups stay alike until another program changes a member;
links and clones keep them so. `Held`, for `LivePlanSafe`: every content that was seen
has a holder that is neither waiting to be removed nor below the directory to be pruned.
The reason is `PartnersLeave`: a set of files of a folder cannot be closed under
taking the partner at the same relative path of another folder: of two folders of one
depth the partner is not in the first, and otherwise every step to the partner makes
the name longer (or every one shorter), while a finite set has a longest name.

**Pipeline.** `Staged` says where each file's job can be at each stage of its group,
for all groups, workers and queue places at once (`StagesOrdered`). On top of it,
`Ordered` (nobody knows an mtime that a file will only have later) and `Current`
(whoever knows the mtime a file has knows its content or hash) give `CacheTrue`: every
gap between `stat`, read, `put_batch` and commit is covered, since a write in between
makes the mtime that was taken stale. `Unchanged` carries samples, hashes and results
of comparisons of files that have not changed since they were opened, for
`ReportsTrue`. `Together` follows two equal files through all stages: they are in one
group, sample and hash alike, and neither is dropped alone.

**Walk index.** Seven invariants, each on the ones before it. `Tasks` says how far the
task of each directory can be: a directory is entered once, by the task of its parent,
and a new record has exactly the files that have been stat-ed. `Clocks` is what the
window is for: a record, committed or waiting, and a task that has used one are at
least `Racy` older than now, so that every change from now on gives the directory
another mtime. With it `Listings` carries a listing from the disk into a task, the
queue, the index and the next walk's task: the whole of it, or a part of it for the
directories that `missed` and `partial` name (`Listing`), which a later complete
listing takes out again. It is undone by one thing only, which `late` remembers: a
change between listing and record (`OutsideEffect`: whoever changes what a directory
lists touches that directory, by whatever path it is reached). `Visits` is about quiet
walks: a task is on a path the walk may take (`Open`, `Reachable`), from what it has
handled every subdirectory that could be entered has been or is in `missed`, and what
it found of each file is true (`FoundTrue`). That nothing else is missed follows at
the end (`VisitedAll`): of the directories on the way to a file of the scan that were
not visited, take one whose parent was; there is one because the tree is well-founded,
which is stated with sets of paths (`PathTo`) since a recursive function could not be
reasoned about. `Rescans` says that a complete rescan holds only sizes read from the
disk, and that a directory without errors whose record it does not replace has none
that would be used: the record that is left out as too recent is newer than any in the
index. `Healed` keeps such sizes until a file is rewritten in place, and `HashExact`
compares the groups of the candidates with the duplicates of the tree, empty files
apart.

**Candidate sorter.** Each source of the merge, a run or the rest of the buffer, is
seen as a line of records with its head in front (`Line`), and each action is one
lemma on lines before anything is said of cells and heads: a run decodes to the
records it was written from (`Records`, `Shape`), taking a head moves one record from
a line to the stream. `LinesOK`: every candidate that was found is in one line or has
come out, never both, and lines are in order. With it the least head is the least of
all that is left, which keeps the stream in order (`StreamOK`), and each step is one of
`SortedStream` or a stutter: a spill or a read of a run changes no line. `GroupsOK`
follows the sizes: what is collected has the size that was reached (`Reached`), and all
groups of smaller sizes are there, so that an error cuts the last one short at most.
Names of one file are next to each other in the order, hence collapsed to one.
`CountsOK` has the counters, and what the last report has read.

**Command line.** `ConsentOK`: the tree is the one before the run until the prompt has
been answered, and for good where consent is missing. `FlawsOK` and `ExitOK`
relate the flags that the exit code is computed from to the printed events, folder
pass and left-over groups together, and the collected plan to the groups shown.
For history and output, `RunOK` adds: what a variable holds (`StateOK`); the database
is the one before the run with at most the run's own record behind it (`HistoryOK`);
totals are those of the files touched since (`DoneOK`), and the rows are those files
(`RowsOK`); and over all runs before, the recorded sums are what is gone from the tree
or has come into the archive (`PastOK`), as long as each of them was recorded and none
linked. `OutputOK` adds that the printed lines sum up to the totals (`AddsUp`), at the
moment of the summary to those it shows (`SummaryOK`), and that a group is in exactly
one place: still to come, collected, under a match, or printed (`ShownOK`). Sums are
sizes of disjoint unions, and lists in order are given by rank, so that lemmas on
cardinality take the place of an induction.

**GUI session.** `OneScan`: of a start waiting in `calls`, a thread and a `finished`
event in `events`, at most one exists while the button is disabled, and none
otherwise; the queues carry no scan number, so this alone keeps two scans apart.
`SentOnce` says the groups of a scan are disjoint across what is sent and what is
shown, `Lookup` that the folder matches are this scan's or their lookup is the last
one of its kind in the queue, `ChoicesOK` that a choice belongs to the group displayed
at its key until the filter moves, which needs the displayed list to be stable when
groups are appended: lemmas on lists in order. `ProfilesOK` says what an instance is
about to write.

**Similar images.** `Forest`: the parents have a root for every image and a depth that
falls on the way to it, so `find` ends there (`FindRoot`), and a join leaves a forest
in which two clusters have become one (`JoinForest`). `Fits` is the invariant of the
two loops: images that are close and have been compared are in one cluster, and every
set closed under closeness holds a cluster whole; that it holds after every turn is
shown by the least turn after which it would not (`UpTo`). At the end all pairs have
been compared (`RootsExact`), so the clusters of two or more are the minimal closed
sets, whatever the order of the images (`ClusterExact`). The answer lists each photo
once, since a traversal does.

**Only model-checked** are the liveness properties: `RunEnds` of `ActionLayer`,
`ScanEnds` of `WalkIndex`, `ScanPipeline` and `GuiSession`, and `ScanFinishes` of
`CandidateSort`. Fairness and `ENABLED` are out of the prover's reach. Induction over
data is as well (the prover's induction theorems take an operator): where an argument
needs one it is made by a least counterexample, in the order of the numbers or of the
sizes of finite sets. Every invariant, every action property and both refinements that
the passing runs check are proved, some of them under the conditions of the table.

## 6. What is abstracted or left out

- Contents, names and sizes are small sets; a hash is a function of the content that
  may collide where a run says so. All files of a plan file or a folder pass have
  one size, which leaves checks to mtime and content.
- `FolderPass` and `PlanJournal` take one file's action as one step; its system
  calls are `ActionLayer`'s.
- In `FolderPass` a traversal misses single files; that a directory cannot be opened
  is that all files below it are missed. `remove_dir_all` is one step, whole or in part.
- In `WalkIndex` and `ScanPipeline` a file has one name; hardlink aliases are
  collapsed by `file_group` before anything is read. Links to files, `max_size` and
  a root that is a file are left out of `WalkIndex`.
- A write gives a file a new mtime in `PlanJournal` and `ScanPipeline`: the
  granularity of the clock is only modelled in `WalkIndex`.
- `CandidateSort` takes the length and the bytes of a path as one cell. That a run
  reads back shorter than it was written is left out: the file is anonymous, so nobody
  else can cut it. (`read_record` would take a cut within the eight bytes of a size for
  the end of the run, without an error, and one behind them for a failed read.)
- `CommandLine` leaves what happens on disk to `ActionLayer`, `FolderPass` and
  `PlanJournal`, and takes the events of a scan and the folder matches as given; the
  SQL of the schema and the conversions of columns are left out.
- `GuiSession` answers a command in one step, since the backend answers them in
  order and the page sees only the answer; folder actions from the page are in
  `FolderPass`. Rendering, browsing, previews and exports are left out: no state the
  properties depend on.
- Walking, filtering and decoding images is a choice of which images have which
  hash; the decoding of the sled database of fclones is left out.
- The shutdown of the pool, which nobody waits on, is left out.
- Option parsing, the wording of the output, logs and device detection: no state the
  properties depend on.

## 7. Plan

Done, in this order because what can lose data comes first: the action layer, the
folder pass, the walk index, plan files, the pipeline with the import, the candidate
sorter, the command line with its history, the GUI session with similar images and
profiles; then the theorems of section 5.

Next modules:

1. `Scan`: `WalkIndex`, `CandidateSort` and `ScanPipeline` composed by an abstract
   `DuplicateScan` that they are shown to implement.
2. Links to files in `WalkIndex`.

Next theorems: that `Scan` implements `DuplicateScan`, from the invariants of its
three parts.
