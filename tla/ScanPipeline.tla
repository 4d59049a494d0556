---------------------------- MODULE ScanPipeline ----------------------------
(***************************************************************************)
(* The staged detection of a scan (rusty_fclone-core/src/pipeline.rs) with *)
(* its hash cache (cache.rs), the hashes it takes over from fclones        *)
(* (fclones_import.rs) and its pool of reading threads (io_pool.rs).       *)
(* The files of each size are sampled, hashed in chunks and optionally     *)
(* compared with each other; all sizes and all files of a size are worked  *)
(* on at once, over one bounded queue.  Other programs change files        *)
(* between any two steps and while a file is being read.  The cache        *)
(* outlives the scan, and a scan that is killed keeps what it has          *)
(* committed to it.                                                        *)
(*                                                                         *)
(* The walk is a single step here, taken in WalkIndex's place without an   *)
(* index; a file stands for all its hardlink aliases (FileGroup).          *)
(***************************************************************************)
EXTENDS Naturals, FiniteSets

CONSTANTS File,       \* the paths of the tree
          Content,    \* contents a file can have
          Size,       \* the size of each content
          Sample,     \* the bytes sample_ranges reads of each content
          Hash,       \* the full hash of each content
          NoFile,     \* no file at this path, no entry, no result
          SmallFile,  \* small_file_threshold
          Workers,    \* threads of the pool
          QueueLimit, \* jobs that wait for a thread at most
          ChunkMaxFiles, ChunkMaxBytes,  \* CACHE_CHUNK_MAX_FILES and _BYTES
          PerMilli,   \* steps of an mtime in a millisecond
          Setups,     \* the trees, the options and what other programs do
          EnvSteps    \* bound: steps of other programs

ASSUME FileAssumption == IsFiniteSet(File)
\* There is one way to be empty.
ASSUME ContentAssumption ==
    /\ Size \in [Content -> Nat]
    /\ \A c, d \in Content : Size[c] = 0 /\ Size[d] = 0 => c = d
    /\ DOMAIN Sample = Content /\ DOMAIN Hash = Content
    /\ NoFile \notin File \cup Content \cup Nat
ASSUME OptionAssumption == /\ {SmallFile, EnvSteps} \subseteq Nat
                           /\ {Workers, QueueLimit, PerMilli} \subseteq Nat \ {0}
                           /\ {ChunkMaxFiles, ChunkMaxBytes} \subseteq Nat \ {0}

\* contents: what files are written with; trees: what there is at the start;
\* verify: verify_matches; imports: fclones has hashed the tree; renames: other
\* programs rename files; scans: a bound.
ASSUME SetupAssumption ==
    \A s \in Setups : /\ s.contents \subseteq Content
                      /\ s.trees \subseteq [File -> s.contents \cup {NoFile}]
                      /\ {s.verify, s.imports, s.renames} \subseteq BOOLEAN
                      /\ s.scans \in Nat

VARIABLES
    setup,        \* the one of Setups
    file, mtime,  \* the content and the mtime at each path
    imported,     \* the entry fclones' cache has for the file at each path
    cache,        \* the cache entry of each path
    pc,           \* whether a scan is running
    stage,        \* how far the group of each size is
    members,      \* the files of each size that are still candidates
    chunk,        \* those that are being hashed
    hashed,       \* those that have a full hash
    job,          \* where each file's read job is
    stat,         \* the size and mtime taken before the file is hashed
    seen,         \* the file, or the two files, a reading thread has opened
    result,       \* the sample or the hash of each file
    ref, unread,  \* the reference of a size's verification, the rest of it
    equal,        \* the members found equal to the reference
    reported,     \* the groups sent so far
    errors,       \* history: the files an error was reported for
    changed,      \* history: the files changed since the scan started
    scans, env    \* what is left of the bounds

disk == <<setup, file, mtime, imported>>
group == <<stage, members, chunk, hashed>>
reading == <<job, stat, seen, result>>
verification == <<ref, unread, equal>>
bounds == <<scans, env>>
vars == <<disk, cache, pc, group, reading, verification, reported, errors, changed,
          bounds>>

Sizes == {Size[c] : c \in Content}
SizeAt(f) == Size[file[f]]

\* What reads of changing files give: bytes of no content, different for each.
Garbled(f) == f

Samples == {Sample[c] : c \in Content} \cup File
Hashes == {Hash[c] : c \in Content} \cup File
Opened == (Content \cup {NoFile}) \X (0..EnvSteps)
Entry == [size : Sizes, mtime : 0..EnvSteps, hash : Hashes]

\* to_millis.
Millis(t) == t \div PerMilli

TypeOK ==
    /\ setup \in Setups
    /\ file \in [File -> Content \cup {NoFile}] /\ mtime \in [File -> 0..EnvSteps]
    /\ imported \in [File -> Entry \cup {NoFile}]
    /\ cache \in [File -> Entry \cup {NoFile}]
    /\ pc \in {"idle", "hashing"}
    /\ stage \in [Sizes -> {"partial", "full", "verify", "done"}]
    /\ {members, chunk, hashed, equal, unread} \subseteq [Sizes -> SUBSET File]
    /\ \A s \in Sizes : /\ chunk[s] \subseteq members[s] \ hashed[s]
                        /\ hashed[s] \cup equal[s] \subseteq members[s]
    /\ job \in [File -> {"none", "missed", "queued", "reading", "done", "failed"}]
    /\ stat \in [File -> (Sizes \X (0..EnvSteps)) \cup {NoFile}]
    /\ seen \in [File -> {NoFile} \cup (Opened \X {NoFile}) \cup (Opened \X Opened)]
    /\ result \in [File -> Samples \cup Hashes \cup {NoFile}]
    /\ ref \in [Sizes -> File \cup {NoFile}]
    /\ reported \subseteq SUBSET File
    /\ errors \subseteq File /\ changed \subseteq File
    /\ scans \in 0..setup.scans /\ env \in 0..EnvSteps
    /\ Cardinality({f \in File : job[f] = "queued"}) <= QueueLimit
    /\ Cardinality({f \in File : job[f] = "reading"}) <= Workers

AllSizes(value) == [s \in Sizes |-> value]
AllFiles(value) == [f \in File |-> value]

\* What fclones' own scan has left.
FclonesEntry(f) == [size |-> SizeAt(f), mtime |-> Millis(0), hash |-> Hash[file[f]]]

Init ==
    /\ setup \in Setups
    /\ file \in setup.trees /\ mtime = AllFiles(0)
    /\ imported = [f \in File |-> IF setup.imports /\ file[f] # NoFile
                                  THEN FclonesEntry(f) ELSE NoFile]
    /\ cache = AllFiles(NoFile)
    /\ pc = "idle"
    /\ stage = AllSizes("done") /\ members = AllSizes({})
    /\ chunk = AllSizes({}) /\ hashed = AllSizes({})
    /\ job = AllFiles("none") /\ stat = AllFiles(NoFile)
    /\ seen = AllFiles(NoFile) /\ result = AllFiles(NoFile)
    /\ ref = AllSizes(NoFile) /\ unread = AllSizes({}) /\ equal = AllSizes({})
    /\ reported = {} /\ errors = {} /\ changed = {}
    /\ scans = setup.scans /\ env = EnvSteps
-----------------------------------------------------------------------------
(* The scan and its groups.                                                *)

\* The files the walk finds of one size.
Found(s) == {f \in File : file[f] # NoFile /\ SizeAt(f) = s}

\* scan, the walk and SizeGroups: files of size 0 are reported at once.
StartScan ==
    /\ pc = "idle" /\ scans > 0
    /\ scans' = scans - 1
    /\ pc' = "hashing"
    /\ stage' = [s \in Sizes |-> IF s = 0 \/ Cardinality(Found(s)) < 2 THEN "done"
                                 ELSE IF s <= SmallFile THEN "full" ELSE "partial"]
    /\ members' = [s \in Sizes |-> Found(s)]
    /\ reported' = {Found(s) : s \in {t \in Sizes \cap {0} : Cardinality(Found(t)) > 1}}
    /\ errors' = {} /\ changed' = {}
    /\ UNCHANGED <<disk, cache, chunk, hashed, reading, verification, env>>

\* The stage reads f and has not done so yet.
Wanted(s, f) ==
    \/ stage[s] = "partial" /\ f \in members[s] /\ job[f] = "none"
    \/ stage[s] = "full" /\ f \in chunk[s] /\ job[f] = "missed"

\* All the reads of a set of files have been answered.
Answered(S) == \A f \in S : job[f] \in {"done", "failed"}

\* The files of S with the same result as f.
SameResult(S, f) == {g \in S : result[g] = result[f]}

Forget(S) ==
    /\ job' = [f \in File |-> IF f \in S THEN "none" ELSE job[f]]
    /\ result' = [f \in File |-> IF f \in S THEN NoFile ELSE result[f]]
    /\ stat' = [f \in File |-> IF f \in S THEN NoFile ELSE stat[f]]
    /\ seen' = [f \in File |-> IF f \in S THEN NoFile ELSE seen[f]]

\* by_partial: a file whose sample no other file has drops out.
PrunePartial(s) ==
    /\ stage[s] = "partial" /\ Answered(members[s])
    /\ members' = [members EXCEPT ![s] =
                     {f \in @ : job[f] = "done" /\ Cardinality(SameResult(@, f)) > 1}]
    /\ Forget(members[s])
    /\ stage' = [stage EXCEPT ![s] = "full"]
    /\ UNCHANGED <<disk, cache, pc, chunk, hashed, verification, reported, errors,
                   changed, bounds>>

\* cache_chunk_len: at least one file, however large.
CacheChunkLen(s) ==
    IF s > ChunkMaxBytes THEN 1
    ELSE IF s * ChunkMaxFiles <= ChunkMaxBytes THEN ChunkMaxFiles ELSE ChunkMaxBytes \div s

\* The next chunk of the files to hash, in whatever order they have come.
StartChunk(s) ==
    /\ stage[s] = "full" /\ chunk[s] = {}
    /\ LET rest == members[s] \ hashed[s]
       IN  /\ rest # {}
           /\ \E c \in SUBSET rest :
                 /\ \/ Cardinality(c) = CacheChunkLen(s)
                    \/ c = rest /\ Cardinality(c) < CacheChunkLen(s)
                 /\ chunk' = [chunk EXCEPT ![s] = c]
    /\ UNCHANGED <<disk, cache, pc, stage, members, hashed, reading, verification,
                   reported, errors, changed, bounds>>

\* A valid cache entry of f: same size and mtime as now.
Hit(f) == /\ cache[f] # NoFile
          /\ <<cache[f].size, cache[f].mtime>> = <<SizeAt(f), mtime[f]>>

\* Mutant: an entry of fclones is good for any file of its size.
ImportableBySize(f) == imported[f] # NoFile /\ imported[f].size = SizeAt(f)

\* lookup_full_hash: fclones' mtimes are whole milliseconds.
Importable(f) ==
    /\ imported[f] # NoFile
    /\ <<imported[f].size, imported[f].mtime>> = <<SizeAt(f), Millis(mtime[f])>>

\* stat, get and lookup_full_hash: a hit needs no reading, and what fclones knew
\* is written to the cache like a hash; a file that is gone is read in vain.
Lookup(s, f) ==
    /\ stage[s] = "full" /\ f \in chunk[s] /\ job[f] = "none"
    /\ LET exists == file[f] # NoFile
           hit == exists /\ Hit(f)
           importable == exists /\ ~hit /\ Importable(f)
       IN  /\ job' = [job EXCEPT ![f] = IF hit \/ importable THEN "done" ELSE "missed"]
           /\ result' = [result EXCEPT ![f] = IF hit THEN cache[f].hash
                                              ELSE IF importable THEN imported[f].hash
                                              ELSE NoFile]
           /\ stat' = [stat EXCEPT ![f] = IF exists /\ ~hit THEN <<SizeAt(f), mtime[f]>>
                                          ELSE NoFile]
    /\ UNCHANGED <<disk, cache, pc, group, seen, verification, reported, errors, changed,
                   bounds>>

\* Mutant: the entry gets the size and mtime the file has when it is written.
RestatedEntries(s) ==
    [f \in File |->
       IF f \in chunk[s] /\ job[f] = "done" /\ stat[f] # NoFile /\ file[f] # NoFile
       THEN [size |-> SizeAt(f), mtime |-> mtime[f], hash |-> result[f]]
       ELSE cache[f]]

\* put_batch: an entry for every file that was stat-ed, missed and hashed.
Entries(s) ==
    [f \in File |->
       IF f \in chunk[s] /\ job[f] = "done" /\ stat[f] # NoFile
       THEN [size |-> stat[f][1], mtime |-> stat[f][2], hash |-> result[f]]
       ELSE cache[f]]

\* Mutant: the files the cache has answered for drop out.
MissesOnly(s) == {f \in chunk[s] : job[f] = "done" /\ stat[f] # NoFile}

\* The files of the chunk that have a hash.
Hashed(s) == {f \in chunk[s] : job[f] = "done"}

\* A chunk is done; its entries are committed, or that fails.
EndChunk(s) ==
    /\ stage[s] = "full" /\ chunk[s] # {} /\ Answered(chunk[s])
    /\ \E written \in BOOLEAN : cache' = IF written THEN Entries(s) ELSE cache
    /\ members' = [members EXCEPT ![s] = @ \ (chunk[s] \ Hashed(s))]
    /\ hashed' = [hashed EXCEPT ![s] = @ \cup Hashed(s)]
    /\ chunk' = [chunk EXCEPT ![s] = {}]
    /\ UNCHANGED <<disk, pc, stage, reading, verification, reported, errors, changed,
                   bounds>>

\* by_full: the groups of two and more files with one hash.
SameHash(s) ==
    {g \in {SameResult(hashed[s], f) : f \in hashed[s]} : Cardinality(g) > 1}

\* Every member is hashed.  The groups are reported, or compared first.
GroupFull(s) ==
    /\ stage[s] = "full" /\ chunk[s] = {} /\ hashed[s] = members[s]
    /\ stage' = [stage EXCEPT ![s] = IF setup.verify THEN "verify" ELSE "done"]
    /\ reported' = IF setup.verify THEN reported ELSE reported \cup SameHash(s)
    /\ UNCHANGED <<disk, cache, pc, members, chunk, hashed, reading, verification, errors,
                   changed, bounds>>
-----------------------------------------------------------------------------
(* The pool: every read blocks its caller until a thread has answered.     *)

\* Mutant: the queue has no limit.
EnqueueUnbounded(f) ==
    /\ job' = [job EXCEPT ![f] = "queued"]
    /\ UNCHANGED <<disk, cache, pc, group, stat, seen, result, verification, reported,
                   errors, changed, bounds>>

Enqueue(f) ==
    /\ Cardinality({g \in File : job[g] = "queued"}) < QueueLimit
    /\ job' = [job EXCEPT ![f] = "queued"]
    /\ UNCHANGED <<disk, cache, pc, group, stat, seen, result, verification, reported,
                   errors, changed, bounds>>

\* read_ranges and hash_full_file.
Send(s, f) == Wanted(s, f) /\ Enqueue(f)

\* files_equal: the reference with itself first, then with each other member.
SendComparison(s, f) ==
    /\ stage[s] = "verify" /\ job[f] = "done"
    /\ IF equal[s] = {} THEN f = ref[s] ELSE f \in unread[s]
    /\ Enqueue(f)

\* What is at a path when it is opened.
At(f) == <<file[f], mtime[f]>>

\* A thread takes a job and opens the file, for a comparison the reference too.
Take(s, f) ==
    /\ f \in members[s] /\ job[f] = "queued"
    /\ Cardinality({g \in File : job[g] = "reading"}) < Workers
    /\ job' = [job EXCEPT ![f] = "reading"]
    /\ seen' = [seen EXCEPT ![f] =
                   <<At(f), IF stage[s] = "verify" THEN At(ref[s]) ELSE NoFile>>]
    /\ UNCHANGED <<disk, cache, pc, group, stat, result, verification, reported, errors,
                   changed, bounds>>

\* The contents, or parts of them, that a read can have returned: a file that
\* was replaced or removed is still read, one that was rewritten can be mixed.
Digests(s, f) ==
    LET digest == IF stage[s] = "partial" THEN Sample ELSE Hash
        opened == seen[f][1][1]
    IN  IF seen[f][1] = At(f) THEN {digest[opened]}
        ELSE {digest[opened], Garbled(f)} \cup {digest[c] : c \in {file[f]} \ {NoFile}}

Answer(s, f) ==
    /\ stage[s] # "verify" /\ f \in members[s] /\ job[f] = "reading"
    /\ seen[f][1][1] # NoFile
    /\ \E d \in Digests(s, f) : result' = [result EXCEPT ![f] = d]
    /\ job' = [job EXCEPT ![f] = "done"]
    /\ seen' = [seen EXCEPT ![f] = NoFile]
    /\ UNCHANGED <<disk, cache, pc, group, stat, verification, reported, errors, changed,
                   bounds>>

\* report_error.
ReportError(f) == errors' = errors \cup {f}

\* Mutant: a thread that cannot read a file does not reply.
FailSilently(f) ==
    /\ job[f] = "reading"
    /\ errors' = errors \cup {f}
    /\ UNCHANGED <<disk, cache, pc, group, reading, verification, reported, changed,
                   bounds>>

\* The file cannot be opened or read.
Fail(f) ==
    /\ job[f] = "reading"
    /\ job' = [job EXCEPT ![f] = "failed"]
    /\ seen' = [seen EXCEPT ![f] = NoFile]
    /\ ReportError(f)
    /\ UNCHANGED <<disk, cache, pc, group, stat, result, verification, reported, changed,
                   bounds>>

\* Mutant: files of one length are equal.
VerdictsOnSize(s, f) == {Size[seen[f][1][1]] = Size[seen[f][2][1]]}

\* files_equal: anything can be read from files that are being rewritten.
Verdicts(s, f) == IF seen[f] = <<At(f), At(ref[s])>> THEN {file[f] = file[ref[s]]} ELSE BOOLEAN

AnswerEqual(s, f) ==
    /\ stage[s] = "verify" /\ f \in members[s] /\ job[f] = "reading"
    /\ NoFile \notin {seen[f][1][1], seen[f][2][1]}
    /\ \E verdict \in Verdicts(s, f) :
          equal' = [equal EXCEPT ![s] = IF verdict \/ f = ref[s] THEN @ \cup {f} ELSE @]
    /\ unread' = [unread EXCEPT ![s] = @ \ {f}]
    /\ job' = [job EXCEPT ![f] = "done"]
    /\ seen' = [seen EXCEPT ![f] = NoFile]
    /\ UNCHANGED <<disk, cache, pc, group, stat, result, ref, reported, errors, changed,
                   bounds>>
-----------------------------------------------------------------------------
(* verify_representatives, one group of equal hashes after the other.      *)

\* The group of r is taken up: r becomes its reference.
StartVerify(s, r) ==
    /\ stage[s] = "verify" /\ ref[s] = NoFile /\ r \in hashed[s]
    /\ LET g == SameResult(hashed[s], r)
       IN  /\ Cardinality(g) > 1
           /\ ref' = [ref EXCEPT ![s] = r]
           /\ unread' = [unread EXCEPT ![s] = g \ {r}]
    /\ UNCHANGED <<disk, cache, pc, group, reading, equal, reported, errors, changed,
                   bounds>>

\* The group is done with, whichever of its members were equal.
Drop(s) ==
    /\ hashed' = [hashed EXCEPT ![s] = @ \ SameResult(@, ref[s])]
    /\ ref' = [ref EXCEPT ![s] = NoFile]
    /\ unread' = [unread EXCEPT ![s] = {}]
    /\ equal' = [equal EXCEPT ![s] = {}]
    /\ UNCHANGED <<disk, cache, pc, stage, members, chunk, reading, errors, changed, bounds>>

\* The reference cannot be read: the whole group is given up.
GiveUp(s) ==
    /\ stage[s] = "verify" /\ ref[s] # NoFile /\ job[ref[s]] = "failed"
    /\ Drop(s)
    /\ UNCHANGED reported

\* A member that could not be compared is left out.
EndVerify(s) ==
    /\ stage[s] = "verify" /\ equal[s] # {}
    /\ \A f \in unread[s] : job[f] = "failed"
    /\ reported' = IF Cardinality(equal[s]) > 1 THEN reported \cup {equal[s]}
                   ELSE reported
    /\ Drop(s)

GroupVerified(s) ==
    /\ stage[s] = "verify" /\ ref[s] = NoFile /\ SameHash(s) = {}
    /\ stage' = [stage EXCEPT ![s] = "done"]
    /\ UNCHANGED <<disk, cache, pc, members, chunk, hashed, reading, verification,
                   reported, errors, changed, bounds>>
-----------------------------------------------------------------------------
\* What a scan holds in memory is gone.
DropScan ==
    /\ pc' = "idle"
    /\ stage' = AllSizes("done") /\ members' = AllSizes({})
    /\ chunk' = AllSizes({}) /\ hashed' = AllSizes({})
    /\ Forget(File)
    /\ ref' = AllSizes(NoFile) /\ unread' = AllSizes({}) /\ equal' = AllSizes({})

Finish ==
    /\ pc = "hashing" /\ \A s \in Sizes : stage[s] = "done"
    /\ DropScan
    /\ UNCHANGED <<disk, cache, reported, errors, changed, bounds>>

Kill ==
    /\ pc = "hashing"
    /\ DropScan
    /\ reported' = {}
    /\ UNCHANGED <<disk, cache, errors, changed, bounds>>

\* A file is written: no file has had its new mtime before.
Rewrite(f) ==
    /\ \E c \in setup.contents \ {file[f]} : file' = [file EXCEPT ![f] = c]
    /\ mtime' = [mtime EXCEPT ![f] = EnvSteps - env + 1]
    /\ changed' = changed \cup {f}
    /\ UNCHANGED imported

Remove(f) ==
    /\ file[f] # NoFile
    /\ file' = [file EXCEPT ![f] = NoFile]
    /\ imported' = [imported EXCEPT ![f] = NoFile]
    /\ changed' = changed \cup {f}
    /\ UNCHANGED mtime

\* A file is renamed over another one and keeps its mtime.
Rename(f, g) ==
    /\ f # g /\ file[f] # NoFile
    /\ file' = [file EXCEPT ![g] = file[f], ![f] = NoFile]
    /\ mtime' = [mtime EXCEPT ![g] = mtime[f]]
    /\ imported' = [imported EXCEPT ![g] = imported[f], ![f] = NoFile]
    /\ changed' = changed \cup {f, g}

Environment ==
    /\ env > 0 /\ env' = env - 1
    /\ \E f \in File : \/ Rewrite(f) \/ Remove(f)
                       \/ setup.renames /\ \E g \in File : Rename(f, g)
    /\ UNCHANGED <<setup, cache, pc, group, reading, verification, reported, errors,
                   scans>>
-----------------------------------------------------------------------------
Pool == \E f \in File :
           Fail(f) \/ \E s \in Sizes : Take(s, f) \/ Answer(s, f) \/ AnswerEqual(s, f)
Pipeline ==
    \/ Finish
    \/ \E s \in Sizes :
          \/ PrunePartial(s) \/ StartChunk(s) \/ EndChunk(s) \/ GroupFull(s)
          \/ GiveUp(s) \/ EndVerify(s) \/ GroupVerified(s)
          \/ \E f \in File : Send(s, f) \/ SendComparison(s, f) \/ Lookup(s, f)
                             \/ StartVerify(s, f)

Next == StartScan \/ Pipeline \/ Pool \/ Kill \/ Environment

Spec == Init /\ [][Next]_vars

\* Some thread of the scan or of the pool that can run does.
FairSpec == Spec /\ WF_vars(Pipeline \/ Pool)
-----------------------------------------------------------------------------
(* Properties.                                                             *)

\* An entry that would be used holds the hash of what is in the file now,
\* whatever happened to the file before, while and after it was hashed here or by
\* fclones ("caching SHALL NOT change detection results", FCLONE-DETECTION-001
\* NFR-004), as long as nobody renames a file over another one of its size and
\* mtime.
CacheSound ==
    ~setup.renames =>
       \A f \in File : file[f] # NoFile /\ Hit(f) => cache[f].hash = Hash[file[f]]

\* A reported group of which no member has changed during the scan holds equal
\* files, even when hashes collide (verify_matches).
ReportedEqual ==
    \A g \in reported : g \cap changed = {} => \A e, f \in g : file[e] = file[f]

\* A scan that ends has reported any two equal files that have not changed and
\* could be read in one group, whatever has happened to the other files; cached
\* and imported hashes and chunks make no difference.  With verify_matches a
\* group is given up when its reference cannot be read.
UnchangedFound ==
    \A e, f \in File \ (changed \cup errors) :
       e # f /\ file[e] = file[f] /\ file[e] # NoFile => \E g \in reported : {e, f} \subseteq g
ScanComplete == [][Finish /\ ~setup.verify => UnchangedFound]_vars

\* Every scan that is started ends, with one thread and one place in the queue:
\* a failed read is answered like any other.
ScanEnds == pc = "hashing" ~> pc = "idle"
=============================================================================
