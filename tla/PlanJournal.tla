---------------------------- MODULE PlanJournal ----------------------------
(***************************************************************************)
(* Reviewable plans (rusty_fclone-cli/src/plan_file.rs): a scan is written *)
(* to a plan file, with the mtime of every file it names; plan apply       *)
(* executes the groups that have not changed since and journals what it    *)
(* did; plan undo moves the files a journal names back.  Other programs    *)
(* change the tree between any two steps, writing the plan and appending   *)
(* to the journal can stop half-way, and each command can die at any       *)
(* point.  All of them can be run again, with the same two files.          *)
(*                                                                         *)
(* The files all have one size, so that staleness has only the mtimes to   *)
(* go by.  What one action of a plan does to the disk is a single step     *)
(* here; its parts are those of ActionLayer.                               *)
(***************************************************************************)
EXTENDS ActionOps, Sequences

CONSTANTS Content,  \* contents a file can have
          Kinds,    \* the actions a plan may be made for
          KeepRule, \* --keep-rule
          Torn,     \* a line of the journal that cannot be parsed
          MaxRuns,  \* bound: commands that are run, by the kind of the plan
          EnvSteps  \* bound: steps of other programs

ASSUME KindAssumption == /\ Kinds \subseteq {"delete", "hardlink", "move", "copy"}
                         /\ KeepRule \in Rules
ASSUME ContentAssumption == NoFile \notin Content /\ Torn \notin Path
ASSUME BoundAssumption == MaxRuns \in [Kinds -> Nat] /\ EnvSteps \in Nat

VARIABLES
    fs,         \* directory entries of the tree: the inode at each path
    archive,    \* the file at archived_path(p) in the archive directory
    data,       \* the content of each inode
    mtime,      \* the modification time of each inode
    pc,         \* where the running command is
    kind,       \* the action of the plan
    scanned,    \* groups the scan has reported and that are not stamped yet
    stamped,    \* the groups that will be written to the plan file
    plan,       \* the groups of the plan file: kept path and mtimes
    whole,      \* the plan file is there and can be parsed
    left,       \* the groups this plan apply has not come to
    kept, todo, \* the group being applied: the kept path, the paths left
    succeeded,  \* what has succeeded of it, in order
    journal,    \* the lines of the journal: a path per completed action
    ended,      \* the last of them ends with a newline
    undo,       \* the entries this plan undo has not come to
    moved,      \* history: what finished groups have moved, by path
    steady,     \* history: nothing changed since the check last made
    asScanned,  \* history: nothing changed from the scan of plan to the stamps
    refused,    \* history: a restore of this undo failed by itself
    runs, env   \* what is left of the bounds

disk == <<fs, archive, data, mtime>>
planning == <<scanned, stamped>>
group == <<kept, todo, succeeded>>
file == <<plan, whole, journal, ended>>
history == <<moved, steady, asScanned, refused>>
vars == <<disk, pc, kind, planning, file, left, group, undo, history, runs, env>>

\* A PlanGroup: the mtimes of the kept file and of the targets.
Stamped(g) == DOMAIN g.stamps

Fresh == {i \in Inode : \A p \in Path : fs[p] # i /\ archive[p] # i}

TypeOK ==
    /\ fs \in [Path -> Inode \cup {NoFile}]
    /\ archive \in [Path -> Inode \cup {NoFile}]
    /\ data \in [Inode -> Content \cup {NoFile}] /\ mtime \in [Inode -> Nat]
    /\ \A i \in Inode \ Fresh : data[i] # NoFile
    /\ pc \in {"idle", "stamp", "apply", "act", "append", "undo", "restore"}
    /\ kind \in Kinds
    /\ scanned \subseteq SUBSET Path
    /\ left \subseteq plan
    /\ \A g \in plan \cup stamped :
          /\ g.kept \in Stamped(g) /\ Stamped(g) \subseteq Path
          /\ \A p \in Stamped(g) : g.stamps[p] \in Nat
    /\ whole \in BOOLEAN /\ (~whole => plan = {})
    /\ kept \in Path \cup {NoFile} /\ todo \subseteq Path
    /\ succeeded \in Seq(Path)
    /\ journal \in Seq(Path \cup {Torn}) /\ ended \in BOOLEAN
    /\ undo \in Seq(Path)
    /\ moved \in [Path -> Inode \cup {NoFile}]
    /\ {steady, asScanned, refused} \subseteq BOOLEAN
    /\ runs \in 0..MaxRuns[kind] /\ env \in 0..EnvSteps
    /\ kept # NoFile <=> pc \in {"act", "append"}
    /\ pc # "act" => todo = {}
    /\ pc # "stamp" => scanned = {} /\ stamped = {}
    /\ pc \notin {"apply", "act", "append"} => left = {}
    /\ pc \notin {"undo", "restore"} => undo = << >>
    /\ pc = "restore" => undo # << >>

ContentAt(p) == IF fs[p] = NoFile THEN NoFile ELSE data[fs[p]]

Init ==
    /\ fs \in [Path -> Inode \cup {NoFile}]
    /\ archive = [p \in Path |-> NoFile]
    /\ \E contents \in [Inode -> Content] :
          data = [i \in Inode |-> IF i \in Fresh THEN NoFile ELSE contents[i]]
    /\ mtime = [i \in Inode |-> 0]
    /\ pc = "idle" /\ kind \in Kinds
    /\ scanned = {} /\ stamped = {} /\ plan = {} /\ whole = FALSE /\ left = {}
    /\ kept = NoFile /\ todo = {} /\ succeeded = << >>
    /\ journal = << >> /\ ended = TRUE /\ undo = << >>
    /\ moved = [p \in Path |-> NoFile]
    /\ steady = TRUE /\ asScanned = TRUE /\ refused = FALSE
    /\ runs = MaxRuns[kind] /\ env = EnvSteps
-----------------------------------------------------------------------------
(* --plan-out: the preview of a scan, group by group.                      *)

Duplicates ==
    {g \in {{p \in Path : ContentAt(p) = c} : c \in Content} :
        \E p, q \in g : fs[p] # fs[q]}

Scan ==
    /\ pc = "idle" /\ runs > 0
    /\ runs' = runs - 1
    /\ scanned' = Duplicates
    /\ pc' = "stamp"
    /\ steady' = TRUE
    /\ UNCHANGED <<disk, kind, stamped, file, left, group, undo, moved, asScanned, refused,
                   env>>

\* Mutant: the plan file lists every member of the group.
StampedMembers(g, k) == g

\* The paths a plan file lists for a group: the kept one and plan_with_keep's.
PlanPaths(g, k) == {k} \cup Planned(fs, g, k)

\* handle_group and stamp_plan: a group with a path that cannot be stamped is
\* left out.
StampGroup(g, proposed, k) ==
    /\ pc = "stamp" /\ g \in scanned
    /\ proposed \in ChooseKeep(KeepRule, g, fs, mtime)
    /\ k \in EffectiveKeep(g, proposed)
    /\ scanned' = scanned \ {g}
    /\ LET paths == PlanPaths(g, k)
       IN  stamped' = IF \E p \in paths : fs[p] = NoFile THEN stamped
                      ELSE stamped \cup {[kept |-> k,
                                          stamps |-> [p \in paths |-> mtime[fs[p]]]]}
    /\ UNCHANGED <<disk, pc, kind, file, left, group, undo, history, runs, env>>

\* write: the new plan replaces what was there, and its reader deletes any
\* groups from it.  If writing stops half-way there is no plan any more.
WritePlan ==
    /\ pc = "stamp" /\ scanned = {}
    /\ pc' = "idle"
    /\ stamped' = {}
    /\ \/ plan' \in SUBSET stamped /\ whole' = TRUE
       \/ plan' = {} /\ whole' = FALSE
    /\ asScanned' = steady
    /\ UNCHANGED <<disk, kind, scanned, left, group, journal, ended, undo, moved,
                   steady, refused, runs, env>>
-----------------------------------------------------------------------------
(* plan apply.                                                             *)

\* read: a plan file that is missing or cannot be parsed is an error.
PlanReadable == whole

StartApply ==
    /\ pc = "idle" /\ runs > 0
    /\ PlanReadable
    /\ runs' = runs - 1
    /\ left' = plan
    /\ pc' = "apply"
    /\ UNCHANGED <<disk, kind, planning, file, group, undo, history, env>>

\* Mutant: only the targets are checked.
FreshTargets(g) ==
    \A p \in Stamped(g) \ {g.kept} : fs[p] # NoFile /\ mtime[fs[p]] = g.stamps[p]

\* staleness finds nothing.
FreshGroup(g) ==
    \A p \in Stamped(g) : fs[p] # NoFile /\ mtime[fs[p]] = g.stamps[p]

SkipStale(g) ==
    /\ pc = "apply" /\ g \in left
    /\ ~FreshGroup(g)
    /\ left' = left \ {g}
    /\ UNCHANGED <<disk, pc, kind, planning, file, group, undo, history, runs, env>>

\* to_action_plan: plan_with_keep over the paths of the file, no references.
StartGroup(g) ==
    /\ pc = "apply" /\ g \in left
    /\ FreshGroup(g)
    /\ left' = left \ {g}
    /\ kept' = g.kept
    /\ todo' = {p \in Stamped(g) \ {g.kept} : ~SameFile(fs, p, g.kept)}
    /\ succeeded' = << >>
    /\ pc' = "act"
    /\ steady' = TRUE
    /\ UNCHANGED <<disk, kind, planning, file, undo, moved, asScanned, refused, runs,
                   env>>

Done(p) ==
    /\ todo' = todo \ {p}
    /\ succeeded' = Append(succeeded, p)
    /\ UNCHANGED <<pc, kind, planning, file, left, kept, undo, history, runs, env>>

At(p) == pc = "act" /\ p \in First(todo)

ActionFails(p) ==
    /\ At(p)
    /\ todo' = todo \ {p}
    /\ UNCHANGED <<disk, pc, kind, planning, file, left, kept, succeeded, undo, history,
                   runs, env>>

Delete(p) ==
    /\ At(p) /\ kind = "delete" /\ fs[p] # NoFile
    /\ fs' = [fs EXCEPT ![p] = NoFile]
    /\ Done(p)
    /\ UNCHANGED <<archive, data, mtime>>

Hardlink(p) ==
    /\ At(p) /\ kind = "hardlink" /\ fs[kept] # NoFile
    /\ fs' = [fs EXCEPT ![p] = fs[kept]]
    /\ Done(p)
    /\ UNCHANGED <<archive, data, mtime>>

Move(p) ==
    /\ At(p) /\ kind = "move" /\ fs[p] # NoFile /\ archive[p] = NoFile
    /\ archive' = [archive EXCEPT ![p] = fs[p]]
    /\ fs' = [fs EXCEPT ![p] = NoFile]
    /\ Done(p)
    /\ UNCHANGED <<data, mtime>>

Copy(p) ==
    /\ At(p) /\ kind = "copy" /\ fs[p] # NoFile /\ archive[p] = NoFile
    /\ \E i \in Fresh :
          /\ archive' = [archive EXCEPT ![p] = i]
          /\ data' = [data EXCEPT ![i] = data[fs[p]]]
    /\ Done(p)
    /\ UNCHANGED <<fs, mtime>>

Act(p) == ActionFails(p) \/ Delete(p) \/ Hardlink(p) \/ Move(p) \/ Copy(p)

\* Mutant: the journal is written as soon as something has succeeded.
EndGroupEarly ==
    /\ pc = "act" /\ (todo = {} \/ succeeded # << >>)
    /\ pc' = "append"
    /\ UNCHANGED <<disk, kind, planning, file, left, group, undo, history, runs, env>>

\* apply has returned its report.
EndGroup ==
    /\ pc = "act" /\ todo = {}
    /\ pc' = "append"
    /\ UNCHANGED <<disk, kind, planning, file, left, group, undo, history, runs, env>>

\* Mutant: the journal is rewritten rather than appended to.
Truncated(lines) == lines

\* The lines of a journal that lines are written to: the first of them ends up
\* behind whatever the last write left without a newline.
Written(lines) ==
    IF ended \/ lines = << >> THEN journal \o lines
    ELSE [journal EXCEPT ![Len(journal)] = Torn] \o Tail(lines)

SucceededMoves ==
    {p \in Path : kind = "move" /\ \E n \in DOMAIN succeeded : succeeded[n] = p}

\* append: all the lines are written and synced, and the group is finished.
AppendEntries ==
    /\ pc = "append"
    /\ journal' = Written(succeeded)
    /\ ended' = (ended \/ succeeded # << >>)
    /\ moved' = [p \in Path |-> IF p \in SucceededMoves THEN archive[p] ELSE moved[p]]
    /\ pc' = "apply"
    /\ kept' = NoFile /\ succeeded' = << >>
    /\ UNCHANGED <<disk, kind, planning, plan, whole, left, todo, undo, steady, asScanned,
                   refused, runs, env>>

\* The write or the sync fails, or the process dies, before append returns: n
\* lines are there, and a part of the next one, or all of it but the newline.
AppendStops(n) ==
    /\ pc = "append"
    /\ \E rest \in {<< >>} \cup IF n = Len(succeeded) THEN {}
                             ELSE {<<Torn>>, <<succeeded[n + 1]>>} :
          /\ journal' = Written(SubSeq(succeeded, 1, n) \o rest)
          /\ ended' = (rest = << >> /\ (ended \/ n > 0))
    /\ pc' = "idle"
    /\ left' = {} /\ kept' = NoFile /\ succeeded' = << >>
    /\ UNCHANGED <<disk, kind, planning, plan, whole, todo, undo, history, runs, env>>

FinishApply ==
    /\ pc = "apply" /\ left = {}
    /\ pc' = "idle"
    /\ UNCHANGED <<disk, kind, planning, file, left, group, undo, history, runs, env>>
-----------------------------------------------------------------------------
(* plan undo.                                                              *)

\* read_journal gives up at a line it cannot parse.
Readable == \A n \in DOMAIN journal : journal[n] # Torn

StartUndo ==
    /\ pc = "idle" /\ runs > 0
    /\ Readable
    /\ runs' = runs - 1
    /\ undo' = journal
    /\ refused' = FALSE
    /\ pc' = "undo"
    /\ UNCHANGED <<disk, kind, planning, file, left, group, moved, steady, asScanned,
                   env>>

Newest == undo[Len(undo)]

DropNewest == undo' = SubSeq(undo, 1, Len(undo) - 1)

\* Only moves are undone; restore fails when the original path is occupied or
\* the archived file gone, or for a reason of its own.
SkipEntry ==
    /\ pc = "undo" /\ undo # << >>
    /\ DropNewest
    /\ refused' = (refused \/ (kind = "move" /\ fs[Newest] = NoFile))
    /\ UNCHANGED <<disk, pc, kind, planning, file, left, group, moved, steady,
                   asScanned, runs, env>>

\* Mutant: what is at the original path is not looked at.
CheckNothing ==
    /\ pc = "undo" /\ undo # << >> /\ kind = "move"
    /\ pc' = "restore"
    /\ steady' = TRUE
    /\ UNCHANGED <<disk, kind, planning, file, left, group, undo, moved, asScanned,
                   refused, runs, env>>

\* restore looks at the original path; the rename comes later.
CheckOrigin ==
    /\ pc = "undo" /\ undo # << >> /\ kind = "move"
    /\ fs[Newest] = NoFile
    /\ pc' = "restore"
    /\ steady' = TRUE
    /\ UNCHANGED <<disk, kind, planning, file, left, group, undo, moved, asScanned,
                   refused, runs, env>>

Restore ==
    /\ pc = "restore"
    /\ IF archive[Newest] = NoFile
       THEN UNCHANGED <<fs, archive>>
       ELSE /\ fs' = [fs EXCEPT ![Newest] = archive[Newest]]
            /\ archive' = [archive EXCEPT ![Newest] = NoFile]
    /\ DropNewest
    /\ pc' = "undo"
    /\ UNCHANGED <<data, mtime, kind, planning, file, left, group, history, runs, env>>

FinishUndo ==
    /\ pc = "undo" /\ undo = << >>
    /\ pc' = "idle"
    /\ UNCHANGED <<disk, kind, planning, file, left, group, undo, history, runs, env>>
-----------------------------------------------------------------------------
\* A command dies where it is not writing the journal.
Crash ==
    /\ pc \in {"stamp", "apply", "act", "undo", "restore"}
    /\ pc' = "idle"
    /\ scanned' = {} /\ stamped' = {}
    /\ left' = {} /\ kept' = NoFile /\ todo' = {} /\ succeeded' = << >> /\ undo' = << >>
    /\ UNCHANGED <<disk, kind, file, history, runs, env>>

Removed(p) ==
    /\ fs[p] # NoFile
    /\ fs' = [fs EXCEPT ![p] = NoFile]
    /\ UNCHANGED <<archive, data, mtime>>

\* A file is written, in place or under a name that was free: no file has had
\* its new mtime before.
Rewritten(p) ==
    /\ \E i \in IF fs[p] = NoFile THEN Fresh ELSE {fs[p]}, c \in Content :
          /\ fs' = [fs EXCEPT ![p] = i]
          /\ data' = [data EXCEPT ![i] = c]
          /\ mtime' = [mtime EXCEPT ![i] = EnvSteps - env + 1]
    /\ UNCHANGED archive

Environment ==
    /\ env > 0 /\ env' = env - 1
    /\ steady' = FALSE
    /\ \E p \in Path : Removed(p) \/ Rewritten(p)
    /\ UNCHANGED <<pc, kind, planning, file, left, group, undo, moved, asScanned, refused,
                   runs>>
-----------------------------------------------------------------------------
PlanOut == Scan \/ WritePlan
           \/ \E g \in scanned, p, k \in Path : StampGroup(g, p, k)
ApplyPlan == \/ StartApply \/ EndGroup \/ AppendEntries \/ FinishApply
             \/ \E g \in left : SkipStale(g) \/ StartGroup(g)
             \/ \E p \in Path : Act(p)
             \/ \E n \in 0..Len(succeeded) : AppendStops(n)
Undo == StartUndo \/ SkipEntry \/ CheckOrigin \/ Restore \/ FinishUndo

Next == PlanOut \/ ApplyPlan \/ Undo \/ Crash \/ Environment

Spec == Init /\ [][Next]_vars
-----------------------------------------------------------------------------
(* Properties.                                                             *)

\* The contents the user still has, in the tree or in the archive.
Contents == {data[i] : i \in Inode \ Fresh}

\* Whatever has changed since the plan was written, whatever fails or dies and
\* however often the plan is applied and undone, no step of plan apply or plan
\* undo loses a content: a group is checked as a whole (staleness).  It takes a
\* plan that is stamped as it was scanned, and nobody changing the group
\* between its check and its actions.
NothingLost ==
    [][env' = env /\ steady /\ asScanned => Contents \subseteq Contents']_vars

\* A plan made with --reference is applied without it: what the plan file says
\* is enough to leave reference folders alone (ADR-0025, ADR-0032).
ReferenceUntouched ==
    [][env' = env =>
         \A p \in Protected :
            /\ fs'[p] = fs[p]
            /\ fs[p] # NoFile => data'[fs[p]] = data[fs[p]]]_vars

\* plan undo puts nothing over a file that is back at its original path.
UndoNeverOverwrites ==
    [][env' = env /\ steady /\ pc \in {"undo", "restore"} =>
         \A p \in Path : fs[p] # NoFile => fs'[p] = fs[p]]_vars

\* An undo that gets to its end has brought back every file a finished group has
\* moved, whatever was applied, undone, crashed or lost before, when no rename
\* of its own has failed and nobody else changed the tree.
UndoRestores ==
    pc = "undo" /\ undo = << >> /\ ~refused /\ env = EnvSteps =>
       \A p \in Path : moved[p] # NoFile => fs[p] = moved[p]

-----------------------------------------------------------------------------
(* Statements of the documentation that do not hold of the code; the README  *)
(* says of each on which instance it fails.                                  *)

\* "A crash loses at most the group in flight" (Journal): the moves of every
\* group that was finished can be undone.
FinishedGroupsUndoable ==
    \A p \in Path : moved[p] # NoFile =>
       Readable /\ \E n \in DOMAIN journal : journal[n] = p
=============================================================================
