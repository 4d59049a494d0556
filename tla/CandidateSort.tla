--------------------------- MODULE CandidateSort ---------------------------
(***************************************************************************)
(* From the walk to the size groups: the candidates are sorted by size and *)
(* file id in bounded memory (rusty_fclone-core/src/candidate_sort.rs),    *)
(* cut into size groups and counted for the progress display               *)
(* (run_scan, SizeGroups and report_hash_progress in pipeline.rs).  A full *)
(* buffer is sorted and written to a temporary file, a run, and the runs   *)
(* are merged with what is left in the buffer.  Writing or reading a run   *)
(* can fail at any time.                                                   *)
(*                                                                         *)
(* A candidate is a record [size, file_id, path]; a file id is a tuple of  *)
(* the tag of its kind (0 inode, 1 low and 2 high resolution) and its two  *)
(* numbers.  A run is a sequence of cells <<width in bytes, value>>.       *)
(***************************************************************************)
EXTENDS Naturals, Sequences, FiniteSets

CONSTANTS Candidate,         \* what the walk will find
          Limit,             \* candidates in the buffer when it is spilled
          ProgressInterval,  \* PROGRESS_INTERVAL_FILES
          None               \* no record

ASSUME CandidateAssumption ==
    /\ IsFiniteSet(Candidate) /\ None \notin Candidate
    /\ \A c \in Candidate :
          /\ c.size \in Nat /\ c.file_id \in {0, 1, 2} \X Nat \X Nat
          /\ c = [size |-> c.size, file_id |-> c.file_id, path |-> c.path]
ASSUME LimitAssumption == {Limit, ProgressInterval} \subseteq Nat \ {0}

VARIABLES
    pc,        \* where the scan is
    ahead,     \* what the walk has not found yet
    buffer,    \* the buffer, in the order it is in memory
    runs,      \* what is left to read of each run
    heads,     \* the heap: the next record of each source
    taken,     \* the records of the size that is being collected
    groups,    \* the size groups handed to the pipeline
    scanned, checked,  \* files_scanned and files_checked
    shown,     \* the numbers of the last progress event
    reporter,  \* the thread that reports the progress of hashing
    errors,    \* error events about the spilled candidates
    stream     \* history: the records the merge has returned

input == <<ahead, buffer, scanned>>
progress == <<shown, reporter>>
vars == <<pc, input, runs, heads, taken, groups, checked, progress, errors, stream>>

\* The order of the records, a lexicographic one; file ids of one kind are
\* ordered by their numbers.
Key(c) == <<c.size, c.file_id[1], c.file_id[2], c.file_id[3]>>
Less(c, d) == \E i \in 1..4 : /\ Key(c)[i] < Key(d)[i]
                              /\ \A j \in 1..(i - 1) : Key(c)[j] = Key(d)[j]

\* sort, which is not stable: records with one key come out in any order.
Sorted(candidates) ==
    LET places == DOMAIN candidates
    IN  {[i \in places |-> candidates[p[i]]] :
           p \in {p \in [places -> places] :
                    \A i, j \in places :
                       i < j => p[i] # p[j] /\ ~Less(candidates[p[j]], candidates[p[i]])}}
-----------------------------------------------------------------------------
(* Runs.                                                                   *)

WriteFileId(id) ==
    CASE id[1] = 0 -> <<<<1, 0>>, <<8, id[2]>>, <<8, id[3]>>>>
      [] id[1] = 1 -> <<<<1, 1>>, <<4, id[2]>>, <<8, id[3]>>>>
      [] id[1] = 2 -> <<<<1, 2>>, <<8, id[2]>>, <<16, id[3]>>>>

\* write_record; the length of the path and its bytes are one cell.
WriteRecord(c) ==
    LET id == WriteFileId(c.file_id)
    IN  <<<<8, c.size>>, id[1], id[2], id[3], <<4, c.path>>>>

\* write_run: the cells of all records, five each, one after the other.
Run(sorted) ==
    [i \in 1..(5 * Len(sorted)) |-> WriteRecord(sorted[((i - 1) \div 5) + 1])[((i - 1) % 5) + 1]]

\* read_exact: the next cell if it has the width that is asked for.
Read(cells, i, width) == IF cells[i][1] = width THEN cells[i][2] ELSE None

ReadFileId(cells) ==
    LET tag == Read(cells, 2, 1)
    IN  <<tag, Read(cells, 3, IF tag = 1 THEN 4 ELSE 8),
          Read(cells, 4, IF tag = 2 THEN 16 ELSE 8)>>

\* read_record: None at the end of the run.
ReadRecord(cells) ==
    IF cells = <<>> THEN None
    ELSE [size |-> Read(cells, 1, 8), file_id |-> ReadFileId(cells),
          path |-> Read(cells, 5, 4)]

AfterRecord(cells) == SubSeq(cells, 6, Len(cells))
-----------------------------------------------------------------------------
TypeOK ==
    /\ pc \in {"walking", "sorting", "merging", "stopping", "finished"}
    /\ ahead \subseteq Candidate
    /\ buffer \in Seq(Candidate)
    /\ \A r \in DOMAIN runs : runs[r] # <<>> => ReadRecord(runs[r]) \in Candidate
    /\ heads \in Seq(Candidate \cup {None})
    /\ taken \in Seq(Candidate)
    /\ \A group \in groups : group \subseteq SUBSET Candidate
    /\ scanned \in 0..Cardinality(Candidate) /\ checked \in 0..scanned
    /\ reporter \in {"unborn", "running", "gone"}
    /\ errors \in {0, 1}
    /\ pc \in {"walking", "sorting"} => heads = <<>> /\ taken = <<>> /\ groups = {}
    /\ pc = "merging" => Len(heads) = Len(runs) + 1

Init ==
    /\ pc = "walking" /\ ahead = Candidate /\ scanned = 0
    /\ buffer = <<>> /\ runs = <<>> /\ heads = <<>>
    /\ taken = <<>> /\ groups = {}
    /\ checked = 0 /\ shown = <<0, 0>> /\ reporter = "unborn"
    /\ errors = 0 /\ stream = <<>>

\* Mutant: a run that could not be written is taken for one that was.
SpillDropped(full) ==
    \E sorted \in Sorted(full) :
       \/ runs' = Append(runs, Run(sorted)) /\ buffer' = <<>>
       \/ runs' = runs /\ buffer' = <<>>

\* The full buffer is written out; if that fails it stays, and grows.
Spill(full) ==
    \E sorted \in Sorted(full) :
       \/ runs' = Append(runs, Run(sorted)) /\ buffer' = <<>>
       \/ runs' = runs /\ buffer' = sorted

\* The walk finds c: push, and every now and then a Progress event.
Push(c) ==
    /\ pc = "walking" /\ c \in ahead
    /\ ahead' = ahead \ {c}
    /\ scanned' = scanned + 1
    /\ LET full == Append(buffer, c)
       IN  IF Len(full) < Limit THEN buffer' = full /\ UNCHANGED runs ELSE Spill(full)
    /\ shown' = IF scanned' % ProgressInterval = 0 THEN <<scanned', 0>> ELSE shown
    /\ UNCHANGED <<pc, heads, taken, groups, checked, reporter, errors, stream>>

EndWalk ==
    /\ pc = "walking" /\ ahead = {}
    /\ pc' = "sorting"
    /\ buffer' \in Sorted(buffer)
    /\ UNCHANGED <<ahead, scanned, runs, heads, taken, groups, checked, progress, errors,
                   stream>>
-----------------------------------------------------------------------------
(* The merge.  The last source is the buffer, which cannot fail.           *)

Sources == 1..(Len(runs) + 1)

\* Source::next.
NextRecord(s) == IF s <= Len(runs) THEN ReadRecord(runs[s])
                 ELSE IF buffer = <<>> THEN None ELSE Head(buffer)

\* The source has given its next record away.
Advance(s) ==
    IF NextRecord(s) = None THEN UNCHANGED <<runs, buffer>>
    ELSE IF s <= Len(runs)
         THEN runs' = [runs EXCEPT ![s] = AfterRecord(@)] /\ UNCHANGED buffer
         ELSE buffer' = Tail(buffer) /\ UNCHANGED runs

\* Merge::new: every source gives its first record, and the reporter starts.
OpenMerge ==
    /\ pc = "sorting"
    /\ pc' = "merging"
    /\ heads' = [s \in Sources |-> NextRecord(s)]
    /\ runs' = [s \in DOMAIN runs |-> AfterRecord(runs[s])]
    /\ buffer' = IF buffer = <<>> THEN <<>> ELSE Tail(buffer)
    /\ shown' = <<scanned, checked>> /\ reporter' = "running"
    /\ UNCHANGED <<ahead, scanned, taken, groups, checked, errors, stream>>

\* report_spill_error.
ReportSpillError == errors' = errors + 1

\* A run cannot be rewound or read: the scan ends without a group.
OpenFails ==
    /\ pc = "sorting" /\ runs # <<>>
    /\ pc' = "finished"
    /\ ReportSpillError
    /\ UNCHANGED <<input, runs, heads, taken, groups, checked, progress, stream>>

\* The source that holds the least record; the first of several.
LeastSource(s) ==
    /\ heads[s] # None
    /\ \A t \in Sources : heads[t] # None =>
          /\ ~Less(heads[t], heads[s])
          /\ t < s => Less(heads[s], heads[t])
-----------------------------------------------------------------------------
(* The size groups: the records come in order, so aliases are neighbours.  *)

\* The neighbours of record i with its file id (chunk_by, file_group).
Aliases(records, i) ==
    {records[j] : j \in {j \in DOMAIN records :
        \A k \in (i..j) \cup (j..i) : records[k].file_id = records[i].file_id}}

FileGroups(records) == {Aliases(records, i) : i \in DOMAIN records}

\* A size with one distinct file has no duplicates.
GroupsWith(records) ==
    IF Cardinality(FileGroups(records)) > 1 THEN groups \cup {FileGroups(records)}
    ELSE groups

\* next_size: a record of another size ends the group.
Collect(c) ==
    IF taken = <<>> \/ taken[1].size = c.size
    THEN taken' = Append(taken, c) /\ UNCHANGED groups
    ELSE taken' = <<c>> /\ groups' = GroupsWith(taken)

\* Checked::add.
Check == checked' = checked + 1

\* Merge::next: the least record is popped, and its source refilled.
PopRecord(s) ==
    /\ pc = "merging" /\ LeastSource(s)
    /\ heads' = [heads EXCEPT ![s] = NextRecord(s)]
    /\ Advance(s)
    /\ Check
    /\ Collect(heads[s])
    /\ stream' = Append(stream, heads[s])
    /\ UNCHANGED <<pc, ahead, scanned, progress, errors>>

\* The source cannot be refilled: the popped record is lost, the stream is at
\* its end, and what was collected of the size is a group of its own.
PopFails(s) ==
    /\ pc = "merging" /\ LeastSource(s) /\ s <= Len(runs)
    /\ pc' = "stopping"
    /\ ReportSpillError
    /\ groups' = GroupsWith(taken) /\ taken' = <<>>
    /\ UNCHANGED <<input, runs, heads, checked, progress, stream>>

\* Mutant: the group that is open at the end is forgotten.
DrainOpen ==
    /\ pc = "merging" /\ \A s \in Sources : heads[s] = None
    /\ pc' = "stopping"
    /\ taken' = <<>>
    /\ UNCHANGED <<input, runs, heads, groups, checked, progress, errors, stream>>

\* Mutant: stop_progress is kept until the reporter has gone.
DrainAndWait ==
    /\ pc = "merging" /\ \A s \in Sources : heads[s] = None
    /\ reporter = "gone" /\ pc' = "stopping"
    /\ groups' = GroupsWith(taken) /\ taken' = <<>>
    /\ UNCHANGED <<input, runs, heads, checked, progress, errors, stream>>

\* The heap is empty: the last group is handed out and stop_progress dropped.
Drain ==
    /\ pc = "merging" /\ \A s \in Sources : heads[s] = None
    /\ pc' = "stopping"
    /\ groups' = GroupsWith(taken) /\ taken' = <<>>
    /\ UNCHANGED <<input, runs, heads, checked, progress, errors, stream>>

\* report_hash_progress, from time to time.
Report ==
    /\ reporter = "running" /\ pc = "merging"
    /\ shown' = <<scanned, checked>>
    /\ UNCHANGED <<pc, input, runs, heads, taken, groups, checked, reporter, errors,
                   stream>>

\* Mutant: the reporter goes without a last event.
StopWithoutReport ==
    /\ pc = "stopping" /\ reporter = "running"
    /\ reporter' = "gone"
    /\ UNCHANGED <<pc, input, runs, heads, taken, groups, checked, shown, errors, stream>>

\* ... and once more when it sees that stop_progress is gone.
LastReport ==
    /\ pc = "stopping" /\ reporter = "running"
    /\ shown' = <<scanned, checked>>
    /\ reporter' = "gone"
    /\ UNCHANGED <<pc, input, runs, heads, taken, groups, checked, errors, stream>>

\* The scope waits for the reporter; then the scan sends Finished.
Finish ==
    /\ pc = "stopping" /\ reporter = "gone"
    /\ pc' = "finished"
    /\ UNCHANGED <<input, runs, heads, taken, groups, checked, progress, errors, stream>>
-----------------------------------------------------------------------------
Merge == \E s \in Sources : PopRecord(s) \/ PopFails(s)
Scan == \/ \E c \in Candidate : Push(c)
        \/ EndWalk \/ OpenMerge \/ OpenFails \/ Merge \/ Drain \/ Finish
Reporter == Report \/ LastReport

Next == Scan \/ Reporter

Spec == Init /\ [][Next]_vars

\* The scan thread and the reporter are scheduled.
FairSpec == Spec /\ WF_vars(Scan) /\ WF_vars(LastReport)
-----------------------------------------------------------------------------
(* Properties.                                                             *)

\* What the sorter is for its user.
Phase == IF pc = "walking" THEN "open"
         ELSE IF errors > 0 THEN "failed"
         ELSE IF pc \in {"sorting", "merging"} THEN "streaming" ELSE "complete"

\* Whatever part of the candidates was spilled, however often a spill failed
\* and however they were spread over the runs: the merge returns each of them
\* exactly once and in order, or it stops with an error (ADR-0035).
Stream == INSTANCE SortedStream WITH state <- Phase, pushed <- Candidate \ ahead
ImplementsSortedStream == Stream!Spec

\* The groups there are: every size that two distinct files share, with the
\* candidates of one file id together.
SizeGroup(size) ==
    LET same == {c \in Candidate : c.size = size}
    IN  {{d \in same : d.file_id = c.file_id} : c \in same}
SizeGroups == {g \in {SizeGroup(c.size) : c \in Candidate} : Cardinality(g) > 1}

\* A scan that ends without an error has handed out exactly these; aliases of
\* one file are never offered as duplicates of each other, in whichever runs
\* they were.
GroupsComplete == pc = "finished" /\ errors = 0 => groups = SizeGroups

\* After an error only the size that was being read can be cut short, and what
\* is handed out of it are still distinct files of that size: the groups of
\* all smaller sizes are complete, those of larger ones are missing.
Reached == IF stream = <<>> THEN 0 ELSE stream[Len(stream)].size
CutShort ==
    pc = "finished" /\ errors > 0 =>
       /\ \A g \in SizeGroups : \A file \in g : \A c \in file :
             c.size < Reached => g \in groups
       /\ \A g \in groups \ SizeGroups :
             \A file \in g : \A c \in file : c.size = Reached
       /\ \A g \in groups : \A file, other \in g :
             file # other => \A c \in file, d \in other : c.file_id # d.file_id

\* The groups that are handed out, with and without an error of the disk: never
\* a wrong one, and none missing that could still be read.
GroupsExact == TypeOK /\ GroupsComplete /\ CutShort

\* When Finished arrives, the last progress event has told exactly how many
\* candidates were reached, and all of them unless an error was reported.
LastProgressExact ==
    pc = "finished" /\ reporter = "gone" =>
       /\ shown = <<scanned, checked>>
       /\ errors = 0 => checked = Cardinality(Candidate)

\* The scan ends: neither a failing disk nor the reporter can hold it up.
ScanFinishes == <>(pc = "finished")
=============================================================================
