---------------------------- MODULE CommandLine ----------------------------
(***************************************************************************)
(* Invocations of the command line tool, one after the other (run in       *)
(* rusty_fclone-cli/src/main.rs) around the parts the other modules have:  *)
(* the events of a scan, the folder pass, the groups it leaves over, the   *)
(* plan file, the output, the scan history (history.rs) and the exit code. *)
(* What each part does to the tree is given by its result here: which file *)
(* actions can succeed depends on what earlier ones did, and any of them   *)
(* can fail.  The process can be killed between any two steps.             *)
(***************************************************************************)
EXTENDS Naturals, FiniteSets, SequencesExt

CONSTANTS Group,      \* the duplicate groups of the tree, sets of files
          Size,       \* the file size of each group
          Reference,  \* the files under a reference folder
          Folder,     \* the folders of folder matches
          FilesIn,    \* the files of each folder
          Matches,    \* what find_folder_duplicates can return
          Sessions,   \* sequences of command lines that are run one after the other
          Gone        \* no file at this path

File == UNION Group

ASSUME GroupAssumption ==
    /\ IsFiniteSet(Group)
    /\ \A g \in Group : IsFiniteSet(g) /\ g \subseteq Nat
    /\ \A g, h \in Group : g = h \/ g \cap h = {}
    /\ Size \in [Group -> Nat] /\ Gone \notin File
ASSUME FolderAssumption == FilesIn \in [Folder -> SUBSET File]
\* A match pairs folders so that each file to be removed has a partner, a file
\* of its group in the other folder.
Partnered(p) == \A f \in FilesIn[p[1]] : \E h \in FilesIn[p[2]] : \E g \in Group : {f, h} \subseteq g
Match == [roots : SUBSET Folder, pairs : Seq({p \in Folder \X Folder : Partnered(p)})]
ASSUME MatchesAssumption == Matches \subseteq Seq(Match)
\* The options that the run depends on.
CommandLines == [kind : {"report", "delete", "trash", "hardlink", "reflink", "move", "copy"},
                 archive : BOOLEAN, apply : BOOLEAN, yes : BOOLEAN, plan_out : BOOLEAN,
                 find_folders : BOOLEAN, similar : BOOLEAN, history : BOOLEAN]

\* plan_out conflicts with apply and with find_duplicate_folders.
Accepted(o) == o.plan_out => ~o.apply /\ ~o.find_folders

ASSUME SessionsAssumption ==
    Sessions \subseteq Seq({o \in CommandLines : Accepted(o)}) \ {<<>>}

VARIABLES
    inode,      \* the file each path names: itself, another's, or Gone
    archived,   \* the files that have a copy in the archive
    coming,     \* the command lines still to be run
    begun,      \* history: how many were run, the current one included
    now,        \* started_at of the current one, in seconds
    before,     \* history: the tree and the database when it was run
    pc, opt,    \* where the invocation is, and its options
    consent,    \* the prompt was answered with yes
    incoming,   \* the groups the scan has not sent yet
    collected,  \* collected_groups
    matches,    \* the folder matches that are still to be reported
    covered,    \* folder_match_roots
    pairs, outcomes,  \* the pairs of the current match left, those done
    total,      \* total_bytes_reclaimed and total_files_acted_on
    rows,       \* history_actions
    plan,       \* the groups of the plan that is collected
    out,        \* the events printed so far
    had_errors, exit,
    history,    \* the scans recorded in the database
    plan_file   \* the plan that was written

tree == <<inode, archived>>
session == <<opt, coming, begun, now, before>>
pass == <<matches, covered, pairs, outcomes>>
report == <<total, rows, out>>
written == <<history, plan_file>>
vars == <<tree, session, pc, consent, incoming, collected, pass, report, plan, had_errors, exit,
          written>>

Acting == opt.kind # "report"
GroupOf(f) == CHOOSE g \in Group : f \in g
SizeOf(f) == Size[GroupOf(f)]
\* The members of S, each at the place that the number of smaller ones gives it.
InOrder(S) == [n \in 1..Cardinality(S) |->
                 CHOOSE f \in S : Cardinality({h \in S : h < f}) = n - 1]
\* A sum is the size of a disjoint union.
Sum(f, S) == Cardinality(UNION {{x} \X (1..f[x]) : x \in S})

TypeOK ==
    /\ inode \in [File -> File \cup {Gone}] /\ archived \subseteq File
    /\ pc \in {"ready", "asking", "opening", "scanning", "finding", "matching",
               "leftover", "similar", "summary", "recording", "writing", "exiting", "ended"}
    /\ opt \in CommandLines /\ consent \in BOOLEAN
    /\ incoming \subseteq SUBSET File /\ collected \in Seq(SUBSET File)
    /\ \A m \in Range(matches) : m.roots \subseteq Folder
    /\ pairs \in Seq(Folder \X Folder)
    /\ total.bytes \in Nat /\ total.files \in Nat
    /\ \A r \in Range(rows) : r.path \in File /\ r.bytes \in Nat /\ r.succeeded \in BOOLEAN
    /\ plan \subseteq SUBSET File /\ plan_file \subseteq SUBSET File
    /\ had_errors \in BOOLEAN /\ exit \in {"none", "SUCCESS", "FAILURE"}
    /\ Len(history) <= begun /\ now <= begun

\* The groups a scan of the tree finds: two files at least, with all their names.
Duplicates(tr) ==
    {g \in {{f \in h : tr.inode[f] # Gone} : h \in Group} :
        Cardinality({tr.inode[f] : f \in g}) > 1}

Init ==
    /\ inode = [f \in File |-> f] /\ archived = {}
    /\ \E s \in Sessions : opt = Head(s) /\ coming = Tail(s)
    /\ begun = 1 /\ now = 1
    /\ before = [inode |-> inode, archived |-> archived, recorded |-> 0]
    /\ pc = "ready" /\ consent = FALSE
    /\ incoming = Duplicates(before) /\ collected = <<>>
    /\ matches = <<>> /\ covered = {} /\ pairs = <<>> /\ outcomes = <<>>
    /\ total = [bytes |-> 0, files |-> 0] /\ rows = <<>> /\ out = <<>>
    /\ plan = {} /\ had_errors = FALSE /\ exit = "none"
    /\ history = <<>> /\ plan_file = {}

\* main: the next command line, on the tree and the database the last one has
\* left, within the same second or later.
Invoke ==
    /\ pc = "ended" /\ coming # <<>>
    /\ opt' = Head(coming) /\ coming' = Tail(coming)
    /\ begun' = begun + 1 /\ now' \in {now, now + 1}
    /\ before' = [inode |-> inode, archived |-> archived, recorded |-> Len(history)]
    /\ pc' = "ready" /\ consent' = FALSE
    /\ incoming' = Duplicates(before') /\ collected' = <<>>
    /\ matches' = <<>> /\ covered' = {} /\ pairs' = <<>> /\ outcomes' = <<>>
    /\ total' = [bytes |-> 0, files |-> 0] /\ rows' = <<>> /\ out' = <<>>
    /\ plan' = {} /\ had_errors' = FALSE /\ exit' = "none"
    /\ UNCHANGED <<tree, written>>

\* The events of a type among the output.
Printed(type) == {i \in DOMAIN out : out[i].type = type}

Exit(code) == pc' = "ended" /\ exit' = code
-----------------------------------------------------------------------------
(* Before the scan.                                                        *)

\* move and copy need an archive, a plan needs an action.
Usable == /\ opt.kind \in {"move", "copy"} => opt.archive
          /\ opt.plan_out => Acting

\* Mutant: the prompt is left out for previews and for whoever passes --apply.
StartUnasked ==
    /\ pc = "ready"
    /\ IF ~Usable THEN Exit("FAILURE")
       ELSE pc' = "opening" /\ UNCHANGED exit
    /\ UNCHANGED <<tree, session, consent, incoming, collected, pass, report, plan, had_errors, written>>

Start ==
    /\ pc = "ready"
    /\ IF ~Usable THEN Exit("FAILURE")
       ELSE /\ pc' = IF Acting /\ opt.apply /\ ~opt.yes THEN "asking" ELSE "opening"
            /\ UNCHANGED exit
    /\ UNCHANGED <<tree, session, consent, incoming, collected, pass, report, plan, had_errors, written>>

\* confirm_apply: anything but yes aborts, which is no failure.
Confirm(yes) ==
    /\ pc = "asking"
    /\ consent' = yes
    /\ IF yes THEN pc' = "opening" /\ UNCHANGED exit ELSE Exit("SUCCESS")
    /\ UNCHANGED <<tree, session, incoming, collected, pass, report, plan, had_errors, written>>

\* scan: the root is a directory, or not.
OpenRoot(ok) ==
    /\ pc = "opening"
    /\ IF ok THEN pc' = "scanning" /\ UNCHANGED exit ELSE Exit("FAILURE")
    /\ UNCHANGED <<tree, session, consent, incoming, collected, pass, report, plan, had_errors, written>>
-----------------------------------------------------------------------------
(* One group: handle_group.                                                *)

\* The kept file for a proposal: a protected member has precedence.
KeptFor(g, proposal) == IF g \cap Reference = {} THEN proposal
                        ELSE InOrder(g \cap Reference)[1]

\* plan_with_keep: everything else that is neither protected nor the same file.
Planned(g, kept) ==
    {f \in g \ (Reference \cup {kept}) : inode[f] = Gone \/ inode[f] # inode[kept]}

\* What can succeed for a file whose partner is kept.
CanSucceed(f, kept) ==
    CASE opt.kind = "hardlink" -> inode[kept] # Gone
      [] opt.kind = "copy" -> inode[f] # Gone /\ f \notin archived
      [] OTHER -> inode[f] # Gone

\* The tree after the action on each of done, kept being its partner.
Act(done, kept) ==
    /\ inode' = [f \in File |->
                   IF f \notin done \/ opt.kind = "copy" THEN inode[f]
                   ELSE IF opt.kind = "hardlink" THEN inode[kept[f]] ELSE Gone]
    /\ archived' = IF opt.kind = "copy" THEN archived \cup done ELSE archived

BytesOf(done) == IF opt.kind = "copy" THEN 0 ELSE Sum([f \in File |-> SizeOf(f)], done)

\* A preview tells the bytes of all planned files, those of a copy too.
PlanBytes(planned) == Sum([f \in File |-> SizeOf(f)], planned)

Count(bytes, n) == total' = [bytes |-> total.bytes + bytes, files |-> total.files + n]

\* Mutant: every planned file is written down as done.
RecordPlanned(planned, done) ==
    rows' = IF opt.apply /\ opt.history
            THEN rows \o [i \in 1..Cardinality(planned) |->
                            [path |-> InOrder(planned)[i],
                             bytes |-> SizeOf(InOrder(planned)[i]), succeeded |-> TRUE]]
            ELSE rows

\* record_action_outcomes: a row for every planned file, with its outcome.
RecordOutcomes(planned, done) ==
    rows' = IF opt.apply /\ opt.history
            THEN rows \o [i \in 1..Cardinality(planned) |->
                            LET f == InOrder(planned)[i]
                            IN  [path |-> f, bytes |-> SizeOf(f), succeeded |-> f \in done]]
            ELSE rows

\* print_group: what was planned, what of it succeeded and failed, the bytes.
PrintGroup(g, planned, done) ==
    out' = Append(out,
             [type |-> "group", group |-> g, planned |-> planned, succeeded |-> done,
              failed |-> IF opt.apply THEN planned \ done ELSE {},
              bytes |-> IF opt.apply THEN BytesOf(done) ELSE PlanBytes(planned)])

\* stamp_plan: a group that cannot be stamped is left out, with an error.
Stamp(g) ==
    \/ opt.plan_out /\ plan' = plan \cup {g} /\ UNCHANGED had_errors
    \/ opt.plan_out /\ had_errors' = TRUE /\ UNCHANGED plan
    \/ ~opt.plan_out /\ UNCHANGED <<plan, had_errors>>

HandleGroup(g) ==
    \E proposal \in g :
       LET kept == KeptFor(g, proposal)
           planned == Planned(g, kept)
       IN  IF ~Acting \/ planned = {}
           THEN /\ PrintGroup(g, {}, {})
                /\ UNCHANGED <<tree, total, rows, plan, had_errors>>
           ELSE IF ~opt.apply
           THEN /\ Stamp(g)
                /\ PrintGroup(g, planned, {})
                /\ Count(PlanBytes(planned), Cardinality(planned))
                /\ UNCHANGED <<tree, rows>>
           ELSE \E done \in SUBSET {f \in planned : CanSucceed(f, kept)} :
                   /\ Act(done, [f \in done |-> kept])
                   /\ PrintGroup(g, planned, done)
                   /\ Count(BytesOf(done), Cardinality(done))
                   /\ RecordOutcomes(planned, done)
                   /\ had_errors' = (had_errors \/ done # planned)
                   /\ UNCHANGED plan
-----------------------------------------------------------------------------
(* The events of the scan.                                                 *)

ReceiveGroup(g) ==
    /\ pc = "scanning" /\ g \in incoming
    /\ incoming' = incoming \ {g}
    /\ IF opt.find_folders
       THEN collected' = Append(collected, g) /\ UNCHANGED <<tree, report, plan, had_errors>>
       ELSE HandleGroup(g) /\ UNCHANGED collected
    /\ UNCHANGED <<pc, session, consent, pass, exit, written>>

\* report_error.
ReportError == out' = Append(out, [type |-> "error"])

\* A file could not be read: groups it belongs to may never come.  One of these
\* events is enough.
ReceiveError ==
    /\ pc = "scanning" /\ Printed("error") = {}
    /\ had_errors' = TRUE
    /\ ReportError
    /\ UNCHANGED <<tree, pc, session, consent, incoming, collected, pass, total, rows, plan, exit, written>>

ReceiveFinished ==
    /\ pc = "scanning" /\ (incoming = {} \/ Printed("error") # {})
    /\ pc' = IF opt.find_folders THEN "finding" ELSE "similar"
    /\ UNCHANGED <<tree, session, consent, incoming, collected, pass, report, plan, had_errors, exit,
                   written>>
-----------------------------------------------------------------------------
(* The folder pass: report_folder_matches.                                 *)

\* find_folder_duplicates: matches of folders that still hold all their files,
\* every one of which is in a collected group.
FindFolders ==
    /\ pc = "finding"
    /\ pc' = "matching"
    /\ \E found \in Matches :
          /\ \A m \in Range(found) : \A d \in m.roots : \A f \in FilesIn[d] :
                inode[f] # Gone /\ \E g \in Range(collected) : f \in g
          /\ matches' = found
          /\ covered' = UNION {m.roots : m \in Range(found)}
          /\ pairs' = IF found = <<>> THEN <<>> ELSE found[1].pairs
    /\ UNCHANGED <<tree, session, consent, incoming, collected, outcomes, report, plan, had_errors, exit,
                   written>>

\* It fails: there are no matches, and every group is handled by itself.
FindFails ==
    /\ pc = "finding"
    /\ pc' = "leftover"
    /\ had_errors' = TRUE /\ out' = Append(out, [type |-> "error"])
    /\ UNCHANGED <<tree, session, consent, incoming, collected, pass, total, rows, plan, exit, written>>

\* The file of the kept folder that stands for f.
PartnerIn(kept, f) == CHOOSE g \in FilesIn[kept] : g \in GroupOf(f)

\* Mutant: the outcome of the last pair decides.
LastPairErrors(failed) == had_errors' = failed

\* had_errors |= ...
PairErrors(failed) == had_errors' = (had_errors \/ failed)

\* plan_folder and apply_folder on the next pair.
HandlePair ==
    /\ pc = "matching" /\ pairs # <<>> /\ Acting
    /\ LET removed == Head(pairs)[1]
           kept == Head(pairs)[2]
           planned == {f \in FilesIn[removed] \ Reference : inode[f] # Gone}
           partner == [f \in planned |-> PartnerIn(kept, f)]
           outcome(done, pruned) ==
             [removed |-> removed, file_count |-> Cardinality(planned),
              bytes |-> PlanBytes(planned), applied |-> opt.apply,
              directory_removed |-> pruned,
              failed |-> IF opt.apply THEN Cardinality(planned \ done) ELSE 0]
       IN  IF ~opt.apply
           THEN /\ outcomes' = Append(outcomes, outcome({}, FALSE))
                /\ Count(PlanBytes(planned), Cardinality(planned))
                /\ UNCHANGED <<tree, rows, had_errors>>
           ELSE \E done \in SUBSET {f \in planned : CanSucceed(f, partner[f])} :
                \E pruned \in BOOLEAN :
                   /\ pruned => /\ opt.kind \notin {"hardlink", "copy"} /\ done = planned
                                /\ FilesIn[removed] \cap Reference = {}
                   /\ Act(done, partner)
                   /\ outcomes' = Append(outcomes, outcome(done, pruned))
                   /\ Count(BytesOf(done), Cardinality(done))
                   /\ RecordOutcomes(planned, done)
                   /\ PairErrors(done # planned)
    /\ pairs' = Tail(pairs)
    /\ UNCHANGED <<pc, session, consent, incoming, collected, matches, covered, out, plan, exit, written>>

\* plan_folder refuses: the folder is gone or a file has no partner any more.
RefusePair ==
    /\ pc = "matching" /\ pairs # <<>> /\ Acting
    /\ pairs' = Tail(pairs)
    /\ PairErrors(TRUE)
    /\ out' = Append(out, [type |-> "error"])
    /\ UNCHANGED <<tree, pc, session, consent, incoming, collected, matches, covered, outcomes, total,
                   rows, plan, exit, written>>

\* print_folder_match.
PrintFolderMatch(m) ==
    out' = Append(out, [type |-> "folder", roots |-> m.roots, action |-> outcomes])

\* All pairs of a match are done: it is printed, and the next one begins.
EndMatch ==
    /\ pc = "matching" /\ matches # <<>> /\ (pairs = <<>> \/ ~Acting)
    /\ PrintFolderMatch(Head(matches))
    /\ matches' = Tail(matches)
    /\ pairs' = IF Len(matches) = 1 THEN <<>> ELSE matches[2].pairs
    /\ outcomes' = <<>>
    /\ UNCHANGED <<tree, pc, session, consent, incoming, collected, covered, total, rows, plan,
                   had_errors, exit, written>>

EndMatches ==
    /\ pc = "matching" /\ matches = <<>>
    /\ pc' = "leftover"
    /\ UNCHANGED <<tree, session, consent, incoming, collected, pass, report, plan, had_errors, exit,
                   written>>

\* Mutant: one path under a matched folder is enough.
PartlyCovered(g) == \E d \in covered : g \cap FilesIn[d] # {}

\* group_fully_covered_by.
FullyCovered(g) == g \subseteq UNION {FilesIn[d] : d \in covered}

\* The groups the matches do not cover.
HandleLeftover ==
    /\ pc = "leftover"
    /\ IF collected = <<>>
       THEN /\ pc' = "similar"
            /\ UNCHANGED <<tree, collected, report, plan, had_errors>>
       ELSE /\ collected' = Tail(collected)
            /\ IF FullyCovered(Head(collected))
               THEN UNCHANGED <<tree, report, plan, had_errors>>
               ELSE HandleGroup(Head(collected))
            /\ UNCHANGED pc
    /\ UNCHANGED <<session, consent, incoming, pass, exit, written>>
-----------------------------------------------------------------------------
(* The end of the run.                                                     *)

\* find_similar_images reports, or fails; it never acts.
Similar(ok) ==
    /\ pc = "similar" /\ (opt.similar \/ ok)
    /\ pc' = "summary"
    /\ had_errors' = (had_errors \/ ~ok)
    /\ out' = IF ok THEN out ELSE Append(out, [type |-> "error"])
    /\ UNCHANGED <<tree, session, consent, incoming, collected, pass, total, rows, plan, exit, written>>

\* report_action_summary.
Summarize ==
    /\ pc = "summary"
    /\ pc' = "recording"
    /\ out' = IF Acting THEN Append(out, [type |-> "summary", total |-> total]) ELSE out
    /\ UNCHANGED <<tree, session, consent, incoming, collected, pass, total, rows, plan, had_errors, exit,
                   written>>

\* The row of the scan.
ScanRecord ==
    [started_at |-> now, action_kind |-> opt.kind, applied |-> Acting /\ opt.apply,
     bytes_reclaimed |-> total.bytes, files_acted_on |-> total.files, actions |-> rows]

\* record_scan: the scan and its actions in one transaction; if it fails that
\* is a warning.
Record(ok) ==
    /\ pc = "recording" /\ (opt.history \/ ok)
    /\ pc' = "writing"
    /\ history' = IF opt.history /\ ok THEN Append(history, ScanRecord) ELSE history
    /\ UNCHANGED <<tree, session, consent, incoming, collected, pass, report, plan, had_errors, exit,
                   plan_file>>

\* PlanFile::write; a write that fails leaves the old plan, or nothing that
\* can be read.
WritePlan(ok) ==
    /\ pc = "writing" /\ (opt.plan_out \/ ok)
    /\ pc' = "exiting"
    /\ IF ~ok THEN plan_file' \in {plan_file, {}}
       ELSE plan_file' = IF opt.plan_out THEN plan ELSE plan_file
    /\ had_errors' = (had_errors \/ ~ok)
    /\ UNCHANGED <<tree, session, consent, incoming, collected, pass, report, plan, exit, history>>

EndRun ==
    /\ pc = "exiting"
    /\ Exit(IF had_errors THEN "FAILURE" ELSE "SUCCESS")
    /\ UNCHANGED <<tree, session, consent, incoming, collected, pass, report, plan, had_errors, written>>

Kill ==
    /\ pc \notin {"ready", "ended"}
    /\ pc' = "ended"
    /\ UNCHANGED <<tree, session, consent, incoming, collected, pass, report, plan, had_errors, exit,
                   written>>

-----------------------------------------------------------------------------
(* history stats and history list read the database and nothing else.      *)

Totals(counted) ==
    [scans |-> Cardinality(counted),
     bytes_reclaimed |-> Sum([i \in counted |-> history[i].bytes_reclaimed], counted),
     files_acted_on |-> Sum([i \in counted |-> history[i].files_acted_on], counted)]

Stats(since, until) ==
    Totals({i \in DOMAIN history : since <= history[i].started_at /\ history[i].started_at <= until})

\* ORDER BY started_at DESC, id DESC.
NewestFirst(i, j) ==
    \/ history[i].started_at > history[j].started_at
    \/ history[i].started_at = history[j].started_at /\ i > j

\* As in InOrder, a row's place is given by the number of rows before it.
list_scans(limit) ==
    LET before_it(i) == {j \in DOMAIN history : NewestFirst(j, i)}
    IN  [n \in {m \in DOMAIN history : m <= limit} |->
           history[CHOOSE i \in DOMAIN history : Cardinality(before_it(i)) = n - 1]]
-----------------------------------------------------------------------------
Program ==
    \/ Start \/ ReceiveError \/ ReceiveFinished
    \/ \E g \in incoming : ReceiveGroup(g)
    \/ FindFolders \/ FindFails \/ HandlePair \/ RefusePair \/ EndMatch \/ EndMatches
    \/ HandleLeftover \/ Summarize \/ EndRun
    \/ \E ok \in BOOLEAN : Confirm(ok) \/ OpenRoot(ok) \/ Similar(ok) \/ Record(ok)
                           \/ WritePlan(ok)

Next == Program \/ Invoke \/ Kill

Spec == Init /\ [][Next]_vars

-----------------------------------------------------------------------------
(* Properties.                                                             *)

\* What the current run has changed in the tree.
Touched == (archived \ before.archived) \cup {f \in File : inode[f] # before.inode[f]}

\* Nothing is touched unless --apply was given and --yes too or the prompt was
\* answered with it, whatever the rest of the command line asks for; a plan
\* file in particular is written without touching anything (CLI-UX-001 FR-008,
\* FR-021).
OnlyWithConsent == Touched # {} => opt.apply /\ Acting /\ (opt.yes \/ consent)

\* What is counted was done, and counted once, over the folder pass and the
\* groups it leaves over.  A hardlink may be replaced by a second one: only
\* there a file can count twice.
CountedOnce ==
    opt.apply /\ opt.kind # "hardlink" => total.files = Cardinality(Touched)

\* The database holds a scan as it was, or not at all: its actions name the files
\* that have been touched and its totals are theirs (FR-010, FR-018).  They name
\* no other file, hardlinks apart: a folder's file that already is its partner is
\* linked to it too, and a second link can give a file its inode back.
RowsTrue ==
    \A n \in before.recorded + 1 .. Len(history) :
       LET row == history[n]
           done == {i \in DOMAIN row.actions : row.actions[i].succeeded}
       IN  IF row.applied
           THEN /\ Touched \subseteq {row.actions[i].path : i \in done}
                /\ row.action_kind # "hardlink" =>
                     {row.actions[i].path : i \in done} = Touched
                /\ row.files_acted_on = Cardinality(done)
                /\ row.bytes_reclaimed =
                     IF opt.kind = "copy" THEN 0
                     ELSE Sum([i \in done |-> row.actions[i].bytes], done)
           ELSE row.actions = <<>> /\ Touched = {}

\* However many runs there were, each on what the one before has left: if all of
\* them have applied something other than hardlinks, and all are recorded, the
\* totals of history stats are what has become of the tree (FR-018).
StatsTrue ==
    (/\ pc = "ended" /\ Len(history) = begun
     /\ \A row \in Range(history) : row.applied /\ row.action_kind # "hardlink")
       => LET gone == {f \in File : inode[f] = Gone}
          IN  Stats(1, now) = [scans |-> begun, bytes_reclaimed |-> PlanBytes(gone),
                                 files_acted_on |-> Cardinality(gone) + Cardinality(archived)]

\* history list shows the latest runs, the last one first, also where two have
\* begun within a second; the clock is never set back (FR-018).
ListsLatest ==
    \A limit \in 0..Len(history) : list_scans(limit) = SubSeq(Reverse(history), 1, limit)

\* The history is the truth about all runs so far, row by row, in its totals and
\* in the order it is listed in.
HistoryTrue == RowsTrue /\ StatsTrue /\ ListsLatest

\* The files that the actions on the pairs of a match have dealt with.
Moved(actions) ==
    Sum([k \in DOMAIN actions |-> actions[k].file_count - actions[k].failed], DOMAIN actions)

\* The files of the summary are those of the groups and folders printed before
\* it, and its bytes those of the groups when there was no folder pass.
OutputAddsUp ==
    \A i \in Printed("summary") :
       LET files == [j \in Printed("group") |->
                       Cardinality(IF opt.apply THEN out[j].succeeded ELSE out[j].planned)]
           moved == [j \in Printed("folder") |-> Moved(out[j].action)]
           bytes == [j \in Printed("group") |-> out[j].bytes]
       IN  /\ out[i].total.files = Sum(files, Printed("group")) + Sum(moved, Printed("folder"))
           /\ ~opt.find_folders => out[i].total.bytes = Sum(bytes, Printed("group"))

\* A run that ends has shown every group the scan sent exactly once, on its own
\* or under folder matches that hold all of it (FR-013).
EveryGroupShown ==
    exit # "none" =>
       LET shown == UNION {FilesIn[d] : d \in UNION {out[i].roots : i \in Printed("folder")}}
       IN  \A g \in Duplicates(before) \ incoming :
              Cardinality({i \in Printed("group") : out[i].group = g})
                = IF g \subseteq shown THEN 0 ELSE 1

\* The output tells what was done: its totals are those of the tree and of the
\* lines before them, and no group is left out or shown twice.
OutputTrue == TypeOK /\ CountedOnce /\ OutputAddsUp /\ EveryGroupShown

\* Success means that nothing went wrong anywhere in the run: no error was
\* printed, no file failed, no pair of a folder was refused, and every group
\* with something to do is in the plan that was asked for (FR-021).
ExitTruthful ==
    exit = "SUCCESS" =>
       /\ Printed("error") = {}
       /\ \A i \in Printed("group") : out[i].failed = {}
       /\ \A i \in Printed("folder") : \A o \in Range(out[i].action) : o.failed = 0
       /\ opt.plan_out /\ Usable =>
             plan_file = {out[i].group : i \in {j \in Printed("group") : out[j].planned # {}}}
=============================================================================
