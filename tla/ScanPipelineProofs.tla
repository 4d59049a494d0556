------------------------- MODULE ScanPipelineProofs -------------------------
(***************************************************************************)
(* What a scan reports is true, and so is what it writes to the hash cache *)
(* (ScanPipeline): for every tree, every size, sample and hash of the      *)
(* contents, every pool, queue and chunk, any number of scans and of       *)
(* changes that other programs make meanwhile.                             *)
(***************************************************************************)
EXTENDS ScanPipeline, FiniteSetTheorems, TLAPS

USE FileAssumption, ContentAssumption, OptionAssumption, SetupAssumption

InState(state) == {f \in File : job[f] = state}

\* The candidates of two sizes are different files.
Disjoint == \A s, t \in Sizes : \A f \in members[s] : f \in members[t] => s = t

\* Between scans nothing is in memory.
IdleOK ==
    pc = "idle" =>
       /\ \A f \in File : job[f] = "none" /\ stat[f] = NoFile
       /\ \A s \in Sizes : members[s] = {} /\ hashed[s] = {} /\ chunk[s] = {}
                           /\ stage[s] = "done"

\* What a group has not come to yet is empty, and what it is done with too.
StageOK ==
    \A s \in Sizes :
       /\ stage[s] = "partial" => chunk[s] = {} /\ hashed[s] = {}
       /\ stage[s] # "verify" => ref[s] = NoFile /\ equal[s] = {}
       /\ stage[s] \in {"verify", "done"} => chunk[s] = {}

\* A group that is compared has a reference, and that was compared first.
VerifyOK ==
    \A s \in Sizes :
       /\ ref[s] # NoFile => ref[s] \in hashed[s] /\ ref[s] \notin unread[s]
       /\ unread[s] \subseteq hashed[s]
       /\ ref[s] = NoFile => equal[s] = {}
       /\ equal[s] # {} => ref[s] \in equal[s] /\ job[ref[s]] = "done"

\* Where the read jobs of a group can be at each of its stages.
JobOK(s, f) ==
    /\ stage[s] = "partial" => stat[f] = NoFile
    /\ stage[s] = "full" /\ f \notin chunk[s] \cup hashed[s] => job[f] = "none"
    /\ stage[s] = "full" /\ f \in hashed[s] => job[f] = "done"
    /\ stage[s] = "full" /\ job[f] = "done" => result[f] \in Hashes
    /\ stage[s] = "verify" /\ job[f] \in {"queued", "reading"} =>
          ref[s] # NoFile /\ IF equal[s] = {} THEN f = ref[s] ELSE f \in unread[s]
    /\ stage[s] = "done" => job[f] \notin {"queued", "reading"}

JobsOK == \A s \in Sizes : \A f \in members[s] : JobOK(s, f)

ReadingOK ==
    \A f \in File : job[f] = "reading" =>
       seen[f] \in (Opened \X {NoFile}) \cup (Opened \X Opened)

Staged == Disjoint /\ IdleOK /\ StageOK /\ VerifyOK /\ JobsOK /\ ReadingOK
-----------------------------------------------------------------------------
LEMMA GrowsByOne ==
  ASSUME NEW S, IsFiniteSet(S), NEW x, NEW T, T \subseteq S \cup {x}
  PROVE  /\ Cardinality(S) \in Nat /\ Cardinality(T) \in Nat
         /\ Cardinality(T) <= Cardinality(S) + 1
<1>1. IsFiniteSet(S \cup {x})
      /\ Cardinality(S \cup {x}) = IF x \in S THEN Cardinality(S) ELSE Cardinality(S) + 1
  BY FS_AddElement
<1>2. IsFiniteSet(T) /\ Cardinality(T) <= Cardinality(S \cup {x})
  BY <1>1, FS_Subset
<1>3. Cardinality(S) \in Nat /\ Cardinality(T) \in Nat
  BY <1>2, FS_CardinalityType
<1> QED BY <1>1, <1>2, <1>3

LEMMA Shrinks ==
  ASSUME NEW S, IsFiniteSet(S), NEW T, T \subseteq S
  PROVE  /\ Cardinality(S) \in Nat /\ Cardinality(T) \in Nat
         /\ Cardinality(T) <= Cardinality(S)
BY FS_Subset, FS_CardinalityType

\* A step lets one job more wait or run, or none.
LEMMA JobSteps ==
  ASSUME TypeOK, [Next]_vars
  PROVE  \/ \E f \in File : Enqueue(f)
         \/ \E f \in File, s \in Sizes : Take(s, f)
         \/ \A f \in File : job'[f] = job[f] \/ job'[f] \notin {"queued", "reading"}
<1> USE DEF vars, disk, group, reading, verification, bounds
<1> DEFINE Less == \A f \in File : job'[f] = job[f] \/ job'[f] \notin {"queued", "reading"}
<1>1. ASSUME NEW S, Forget(S) PROVE Less
  BY <1>1 DEF Forget
<1>2. ASSUME Pool, ~ \E f \in File, s \in Sizes : Take(s, f) PROVE Less
  BY <1>2 DEF Pool, Fail, Answer, AnswerEqual, TypeOK
<1>3. ASSUME Pipeline, ~ \E f \in File : Enqueue(f) PROVE Less
  <2>1. CASE \E s \in Sizes, f \in File : Lookup(s, f)
    BY <2>1 DEF Lookup, TypeOK
  <2>2. CASE (\E s \in Sizes : PrunePartial(s)) \/ Finish
    BY <1>1, <2>2 DEF PrunePartial, Finish, DropScan
  <2>3. CASE UNCHANGED job
    BY <2>3
  <2> QED BY <1>3, <2>1, <2>2, <2>3 DEF Pipeline, StartChunk, EndChunk, GroupFull, GiveUp,
       EndVerify, Drop, GroupVerified, Send, SendComparison, StartVerify
<1>4. Kill => Less
  BY <1>1 DEF Kill, DropScan
<1> QED BY <1>2, <1>3, <1>4 DEF Next, StartScan, Environment

\* The pool never has more jobs than it has places, nor its queue.
LEMMA PoolStep ==
  ASSUME TypeOK, [Next]_vars
  PROVE  /\ Cardinality({f \in File : job[f] = "queued"})' <= QueueLimit
         /\ Cardinality({f \in File : job[f] = "reading"})' <= Workers
<1> DEFINE Q == InState("queued")
           R == InState("reading")
<1>1. IsFiniteSet(Q) /\ IsFiniteSet(R)
  BY FS_Subset DEF InState
<1>2. Cardinality(Q) <= QueueLimit /\ Cardinality(R) <= Workers
  BY DEF TypeOK, InState
<1>3. ASSUME NEW f \in File, Enqueue(f)
      PROVE  /\ Q' \subseteq Q \cup {f}
             /\ R' \subseteq R
             /\ Cardinality(Q) < QueueLimit
  BY <1>3 DEF Enqueue, InState, TypeOK
<1>4. ASSUME NEW f \in File, NEW s \in Sizes, Take(s, f)
      PROVE  /\ Q' \subseteq Q
             /\ R' \subseteq R \cup {f}
             /\ Cardinality(R) < Workers
  BY <1>4 DEF Take, InState, TypeOK
<1>5. ASSUME \A f \in File : job'[f] = job[f] \/ job'[f] \notin {"queued", "reading"}
      PROVE  Q' \subseteq Q /\ R' \subseteq R
  BY <1>5 DEF InState
<1> HIDE DEF Q, R
<1>6. /\ Q' \subseteq Q => Cardinality(Q)' <= QueueLimit
      /\ R' \subseteq R => Cardinality(R)' <= Workers
  <2>1. Q' \subseteq Q => Cardinality(Q') <= Cardinality(Q) /\ Cardinality(Q) \in Nat
                          /\ Cardinality(Q') \in Nat
    BY <1>1, Shrinks
  <2>2. R' \subseteq R => Cardinality(R') <= Cardinality(R) /\ Cardinality(R) \in Nat
                          /\ Cardinality(R') \in Nat
    BY <1>1, Shrinks
  <2> QED BY <1>2, <2>1, <2>2
<1>7. ASSUME NEW f, Q' \subseteq Q \cup {f}, Cardinality(Q) < QueueLimit
      PROVE  Cardinality(Q)' <= QueueLimit
  <2>1. Cardinality(Q') <= Cardinality(Q) + 1 /\ Cardinality(Q) \in Nat
        /\ Cardinality(Q') \in Nat
    BY <1>1, <1>7, GrowsByOne
  <2> QED BY <1>7, <2>1
<1>8. ASSUME NEW f, R' \subseteq R \cup {f}, Cardinality(R) < Workers
      PROVE  Cardinality(R)' <= Workers
  <2>1. Cardinality(R') <= Cardinality(R) + 1 /\ Cardinality(R) \in Nat
        /\ Cardinality(R') \in Nat
    BY <1>1, <1>8, GrowsByOne
  <2> QED BY <1>8, <2>1
<1>9. Cardinality(Q)' <= QueueLimit /\ Cardinality(R)' <= Workers
  <2>1. CASE \E f \in File : Enqueue(f)
    BY <1>3, <1>6, <1>7, <2>1
  <2>2. CASE \E f \in File, s \in Sizes : Take(s, f)
    BY <1>4, <1>6, <1>8, <2>2
  <2>3. CASE \A f \in File : job'[f] = job[f] \/ job'[f] \notin {"queued", "reading"}
    BY <1>5, <1>6, <2>3
  <2> QED BY <2>1, <2>2, <2>3, JobSteps
<1> QED BY <1>9 DEF Q, R, InState
-----------------------------------------------------------------------------
(* The type invariant, in the parts that different steps disturb.          *)

StoredType ==
    /\ setup \in Setups
    /\ file \in [File -> Content \cup {NoFile}] /\ mtime \in [File -> 0..EnvSteps]
    /\ imported \in [File -> Entry \cup {NoFile}]
    /\ scans \in 0..setup.scans /\ env \in 0..EnvSteps

CacheType == cache \in [File -> Entry \cup {NoFile}]

GroupType ==
    /\ pc \in {"idle", "hashing"}
    /\ stage \in [Sizes -> {"partial", "full", "verify", "done"}]
    /\ {members, chunk, hashed, equal, unread} \subseteq [Sizes -> SUBSET File]
    /\ \A s \in Sizes : /\ chunk[s] \subseteq members[s] \ hashed[s]
                        /\ hashed[s] \cup equal[s] \subseteq members[s]
    /\ ref \in [Sizes -> File \cup {NoFile}]

ReadType ==
    /\ job \in [File -> {"none", "missed", "queued", "reading", "done", "failed"}]
    /\ stat \in [File -> (Sizes \X (0..EnvSteps)) \cup {NoFile}]
    /\ seen \in [File -> {NoFile} \cup (Opened \X {NoFile}) \cup (Opened \X Opened)]
    /\ result \in [File -> Samples \cup Hashes \cup {NoFile}]

SentType == reported \subseteq SUBSET File /\ errors \subseteq File /\ changed \subseteq File

LEMMA TypeParts ==
  TypeOK <=> /\ StoredType /\ CacheType /\ GroupType /\ ReadType /\ SentType
             /\ Cardinality({f \in File : job[f] = "queued"}) <= QueueLimit
             /\ Cardinality({f \in File : job[f] = "reading"}) <= Workers
BY DEF TypeOK, StoredType, CacheType, GroupType, ReadType, SentType

\* What is in a file has a size, a sample and a hash.
LEMMA ContentTypes ==
  /\ \A c \in Content : Size[c] \in Sizes /\ Sample[c] \in Samples /\ Hash[c] \in Hashes
  /\ \A f \in File : f \in Samples /\ f \in Hashes
  /\ Sizes \subseteq Nat
<1>1. \A c \in Content : Size[c] \in Sizes /\ Sample[c] \in Samples /\ Hash[c] \in Hashes
  BY DEF Sizes, Samples, Hashes
<1>2. \A f \in File : f \in Samples /\ f \in Hashes
  BY DEF Samples, Hashes
<1>3. \A s \in Sizes : s \in Nat
  BY DEF Sizes
<1> QED BY <1>1, <1>2, <1>3

\* Only the environment changes the disk, and only a chunk that ends the cache.
LEMMA QuietSteps ==
  ASSUME [Next]_vars
  PROVE  /\ Environment \/ UNCHANGED disk
         /\ Environment \/ StartScan \/ UNCHANGED bounds
         /\ (\E s \in Sizes : EndChunk(s)) \/ cache' = cache
<1> DEFINE Quiet == UNCHANGED <<disk, cache, bounds>>
<1>1. ASSUME NEW s \in Sizes, PrunePartial(s) \/ StartChunk(s) \/ GroupFull(s) PROVE Quiet
  BY <1>1 DEF PrunePartial, StartChunk, GroupFull
<1>2. ASSUME NEW s \in Sizes, GiveUp(s) \/ EndVerify(s) \/ GroupVerified(s) PROVE Quiet
  BY <1>2 DEF GiveUp, EndVerify, Drop, GroupVerified
<1>3. ASSUME NEW s \in Sizes, EndChunk(s) PROVE UNCHANGED <<disk, bounds>>
  BY <1>3 DEF EndChunk
<1>4. ASSUME NEW s \in Sizes, NEW f \in File,
             Send(s, f) \/ SendComparison(s, f) \/ Lookup(s, f) \/ StartVerify(s, f)
      PROVE  Quiet
  BY <1>4 DEF Send, SendComparison, Enqueue, Lookup, StartVerify
<1>5. ASSUME NEW s \in Sizes, NEW f \in File,
             Fail(f) \/ Take(s, f) \/ Answer(s, f) \/ AnswerEqual(s, f)
      PROVE  Quiet
  BY <1>5 DEF Fail, Take, Answer, AnswerEqual
<1>6. ASSUME NEW f \in File, Fail(f) PROVE Quiet
  BY <1>6 DEF Fail
<1>7. Kill \/ Finish => Quiet
  BY DEF Kill, Finish
<1>8. UNCHANGED vars => Quiet
  BY DEF vars
<1>9. (StartScan => UNCHANGED disk /\ cache' = cache) /\ (Environment => cache' = cache)
  BY DEF StartScan, Environment
<1>10. Quiet => UNCHANGED disk /\ UNCHANGED bounds /\ cache' = cache
  OBVIOUS
<1> HIDE DEF Quiet
<1> QED BY <1>1, <1>2, <1>3, <1>4, <1>5, <1>6, <1>7, <1>8, <1>9, <1>10 DEF Next, Pipeline, Pool

LEMMA StoredStep ==
  ASSUME StoredType, [Next]_vars PROVE StoredType'
<1>1. CASE Environment
  <2>0. env \in Nat /\ EnvSteps \in Nat /\ env > 0 /\ env' = env - 1 /\ setup' = setup
        /\ scans' = scans /\ env <= EnvSteps
    BY <1>1 DEF StoredType, Environment
  <2>1. ASSUME NEW f \in File, Rewrite(f) PROVE StoredType'
    <3>1. EnvSteps - env + 1 \in 0..EnvSteps
      BY <2>0
    <3>2. PICK c \in setup.contents \ {file[f]} : file' = [file EXCEPT ![f] = c]
      BY <2>1 DEF Rewrite
    <3>3. c \in Content
      BY <3>2 DEF StoredType
    <3> QED BY <2>0, <2>1, <3>1, <3>2, <3>3 DEF Rewrite, StoredType
  <2>2. ASSUME NEW f \in File, Remove(f) PROVE StoredType'
    BY <2>0, <2>2 DEF Remove, StoredType
  <2>3. ASSUME NEW f \in File, NEW g \in File, Rename(f, g) PROVE StoredType'
    BY <2>0, <2>3 DEF Rename, StoredType
  <2> QED BY <1>1, <2>1, <2>2, <2>3 DEF Environment
<1>2. CASE StartScan
  <2>1. UNCHANGED <<setup, file, mtime, imported, env>>
    BY <1>2 DEF StartScan, disk
  <2>2. scans' \in 0..setup.scans
    <3>1. setup.scans \in Nat /\ scans \in 0..setup.scans
      BY DEF StoredType
    <3> QED BY <1>2, <3>1 DEF StartScan
  <2> QED BY <2>1, <2>2 DEF StoredType
<1>3. CASE UNCHANGED disk /\ UNCHANGED bounds
  BY <1>3 DEF StoredType, disk, bounds
<1> QED BY <1>1, <1>2, <1>3, QuietSteps

LEMMA CacheStep ==
  ASSUME TypeOK, Staged, [Next]_vars PROVE CacheType'
<1>1. ASSUME NEW s \in Sizes, EndChunk(s) PROVE CacheType'
  <2>1. ASSUME NEW f \in chunk[s], job[f] = "done", stat[f] # NoFile
        PROVE  [size |-> stat[f][1], mtime |-> stat[f][2], hash |-> result[f]] \in Entry
    <3>1. f \in members[s] /\ f \in File
      BY DEF TypeOK
    <3>2. result[f] \in Hashes
      BY <1>1, <2>1, <3>1 DEF Staged, JobsOK, JobOK, EndChunk
    <3>3. stat[f] \in Sizes \X (0..EnvSteps)
      BY <2>1, <3>1 DEF TypeOK
    <3> QED BY <3>2, <3>3 DEF Entry
  <2>2. Entries(s) \in [File -> Entry \cup {NoFile}]
    BY <2>1 DEF Entries, TypeOK
  <2> QED BY <1>1, <2>2 DEF EndChunk, CacheType, TypeOK
<1>2. CASE UNCHANGED cache
  BY <1>2 DEF CacheType, TypeOK
<1> QED BY <1>1, <1>2, QuietSteps

\* Jobs and the disk come and go without the groups' changing.
LEMMA GroupFrame ==
  ASSUME [Next]_vars
  PROVE  \/ UNCHANGED <<pc, group, verification>>
         \/ StartScan \/ Finish \/ Kill
         \/ \E s \in Sizes : \/ PrunePartial(s) \/ StartChunk(s) \/ EndChunk(s)
                             \/ GroupFull(s) \/ GiveUp(s) \/ EndVerify(s)
                             \/ GroupVerified(s)
                             \/ \E f \in File : StartVerify(s, f) \/ AnswerEqual(s, f)
<1> DEFINE Still == UNCHANGED <<pc, group, verification>>
<1>1. ASSUME NEW s \in Sizes, NEW f \in File,
             Send(s, f) \/ SendComparison(s, f) \/ Lookup(s, f)
      PROVE  Still
  BY <1>1 DEF Send, SendComparison, Enqueue, Lookup
<1>2. ASSUME NEW s \in Sizes, NEW f \in File, Take(s, f) \/ Answer(s, f) \/ Fail(f)
      PROVE  Still
  BY <1>2 DEF Take, Answer, Fail, reading
<1>3. ASSUME NEW f \in File, Fail(f) PROVE Still
  BY <1>3 DEF Fail
<1>4. Environment \/ UNCHANGED vars => Still
  BY DEF Environment, vars
<1> HIDE DEF Still
<1>5. Still \/ ~Still
  OBVIOUS
<1> QED BY <1>1, <1>2, <1>3, <1>4 DEF Next, Pipeline, Pool, Still

LEMMA GroupStep ==
  ASSUME TypeOK, Staged, [Next]_vars PROVE GroupType'
<1> USE DEF group, verification
<1>0. GroupType
  BY TypeParts
<1>1. CASE UNCHANGED <<pc, group, verification>>
  BY <1>0, <1>1 DEF GroupType
<1>2. CASE StartScan
  <2>1. /\ UNCHANGED <<chunk, hashed, verification>> /\ pc' = "hashing"
        /\ stage' \in [Sizes -> {"partial", "full", "verify", "done"}]
        /\ members' \in [Sizes -> SUBSET File]
    BY <1>2 DEF StartScan, Found
  <2>2. \A s \in Sizes : chunk[s] = {} /\ hashed[s] = {} /\ equal[s] = {}
    BY <1>2 DEF StartScan, Staged, IdleOK, StageOK
  <2> QED BY <1>0, <2>1, <2>2 DEF GroupType
<1>3. CASE Finish \/ Kill
  <2>1. /\ pc' = "idle" /\ stage' = AllSizes("done") /\ ref' = AllSizes(NoFile)
        /\ members' = AllSizes({}) /\ chunk' = AllSizes({}) /\ hashed' = AllSizes({})
        /\ equal' = AllSizes({}) /\ unread' = AllSizes({})
    BY <1>3 DEF Finish, Kill, DropScan
  <2> QED BY <2>1 DEF AllSizes, GroupType
<1>4. ASSUME NEW s \in Sizes, PrunePartial(s) PROVE GroupType'
  <2>1. /\ members' \in [Sizes -> SUBSET File] /\ members'[s] \subseteq members[s]
        /\ \A t \in Sizes : t # s => members'[t] = members[t]
        /\ stage' \in [Sizes -> {"partial", "full", "verify", "done"}]
        /\ UNCHANGED <<pc, chunk, hashed, verification>>
    BY <1>0, <1>4 DEF PrunePartial, GroupType
  <2>2. chunk[s] = {} /\ hashed[s] = {} /\ equal[s] = {}
    BY <1>4 DEF PrunePartial, Staged, StageOK
  <2> QED BY <1>0, <2>1, <2>2 DEF GroupType
<1>5. ASSUME NEW s \in Sizes, StartChunk(s) PROVE GroupType'
  <2>1. PICK c \in SUBSET (members[s] \ hashed[s]) : chunk' = [chunk EXCEPT ![s] = c]
    BY <1>5 DEF StartChunk
  <2>2. UNCHANGED <<pc, stage, members, hashed, verification>>
    BY <1>5 DEF StartChunk
  <2>3. /\ chunk' \in [Sizes -> SUBSET File] /\ chunk'[s] = c
        /\ \A t \in Sizes : t # s => chunk'[t] = chunk[t]
    BY <1>0, <2>1 DEF GroupType
  <2> QED BY <1>0, <2>2, <2>3 DEF GroupType
<1>6. ASSUME NEW s \in Sizes, EndChunk(s) PROVE GroupType'
  <2>1. /\ members' \in [Sizes -> SUBSET File] /\ members'[s] = members[s] \ (chunk[s] \ Hashed(s))
        /\ chunk' \in [Sizes -> SUBSET File] /\ chunk'[s] = {}
        /\ hashed' \in [Sizes -> SUBSET File] /\ hashed'[s] = hashed[s] \cup Hashed(s)
        /\ \A t \in Sizes : t # s => /\ members'[t] = members[t] /\ chunk'[t] = chunk[t]
                                     /\ hashed'[t] = hashed[t]
        /\ UNCHANGED <<pc, stage, verification>>
    BY <1>0, <1>6 DEF EndChunk, GroupType, Hashed
  <2>2. equal[s] = {}
    BY <1>6 DEF EndChunk, Staged, StageOK
  <2>3. Hashed(s) \subseteq chunk[s]
    BY DEF Hashed
  <2> QED BY <1>0, <2>1, <2>2, <2>3 DEF GroupType
<1>7. ASSUME NEW s \in Sizes, GroupFull(s) \/ GroupVerified(s) PROVE GroupType'
  BY <1>0, <1>7 DEF GroupFull, GroupVerified, GroupType
<1>8. ASSUME NEW s \in Sizes, NEW f \in File, StartVerify(s, f) PROVE GroupType'
  BY <1>0, <1>8 DEF StartVerify, SameResult, GroupType
<1>9. ASSUME NEW s \in Sizes, NEW f \in File, AnswerEqual(s, f) PROVE GroupType'
  <2>1. /\ equal' \in [Sizes -> SUBSET File] /\ equal'[s] \subseteq equal[s] \cup {f}
        /\ \A t \in Sizes : t # s => equal'[t] = equal[t]
        /\ unread' \in [Sizes -> SUBSET File]
        /\ UNCHANGED <<pc, group, ref>>
    BY <1>0, <1>9 DEF AnswerEqual, GroupType
  <2>2. f \in members[s]
    BY <1>9 DEF AnswerEqual
  <2> QED BY <1>0, <2>1, <2>2 DEF GroupType
<1>10. ASSUME NEW s \in Sizes, GiveUp(s) \/ EndVerify(s) PROVE GroupType'
  <2>1. /\ hashed' \in [Sizes -> SUBSET File] /\ hashed'[s] \subseteq hashed[s]
        /\ equal' \in [Sizes -> SUBSET File] /\ equal'[s] = {}
        /\ \A t \in Sizes : t # s => hashed'[t] = hashed[t] /\ equal'[t] = equal[t]
        /\ unread' \in [Sizes -> SUBSET File] /\ ref' \in [Sizes -> File \cup {NoFile}]
        /\ UNCHANGED <<pc, stage, members, chunk>>
    BY <1>0, <1>10 DEF GiveUp, EndVerify, Drop, GroupType
  <2>2. chunk[s] = {}
    BY <1>10 DEF GiveUp, EndVerify, Staged, StageOK
  <2> QED BY <1>0, <2>1, <2>2 DEF GroupType
<1> QED BY <1>1, <1>2, <1>3, <1>4, <1>5, <1>6, <1>7, <1>8, <1>9, <1>10, GroupFrame

\* The steps that touch read jobs and what they have given.
LEMMA ReadFrame ==
  ASSUME [Next]_vars
  PROVE  \/ UNCHANGED reading
         \/ Finish \/ Kill
         \/ \E s \in Sizes :
               \/ PrunePartial(s)
               \/ \E f \in File : \/ Send(s, f) \/ SendComparison(s, f) \/ Lookup(s, f)
                                  \/ Take(s, f) \/ Answer(s, f) \/ AnswerEqual(s, f)
         \/ \E f \in File : Fail(f)
<1> DEFINE Still == UNCHANGED reading
<1>1. ASSUME NEW s \in Sizes, StartChunk(s) \/ EndChunk(s) \/ GroupFull(s) PROVE Still
  BY <1>1 DEF StartChunk, EndChunk, GroupFull
<1>2. ASSUME NEW s \in Sizes, GiveUp(s) \/ EndVerify(s) \/ GroupVerified(s) PROVE Still
  BY <1>2 DEF GiveUp, EndVerify, GroupVerified, Drop
<1>3. ASSUME NEW s \in Sizes, NEW f \in File, StartVerify(s, f) PROVE Still
  BY <1>3 DEF StartVerify
<1>4. StartScan \/ Environment \/ UNCHANGED vars => Still
  BY DEF StartScan, Environment, vars
<1> HIDE DEF Still
<1>5. Still \/ ~Still
  OBVIOUS
<1> QED BY <1>1, <1>2, <1>3, <1>4 DEF Next, Pipeline, Pool, Still

\* A file that is compared has a reference to be compared with.
LEMMA HasReference ==
  ASSUME TypeOK, Staged, NEW s \in Sizes, NEW f \in members[s], stage[s] = "verify",
         job[f] \in {"queued", "reading"}
  PROVE  ref[s] \in File
BY DEF Staged, JobsOK, JobOK, TypeOK

LEMMA AtOpened ==
  ASSUME TypeOK, NEW f \in File PROVE At(f) \in Opened
BY DEF TypeOK, At, Opened

\* What a read gives is the sample or the hash of a content, or of none.
LEMMA DigestTypes ==
  ASSUME TypeOK, Staged, NEW s \in Sizes, NEW f \in File, Answer(s, f)
  PROVE  /\ Digests(s, f) \subseteq Samples \cup Hashes
         /\ stage[s] # "partial" => Digests(s, f) \subseteq Hashes
<1>1. seen[f] \in (Opened \X {NoFile}) \cup (Opened \X Opened)
  BY DEF Answer, Staged, ReadingOK
<1>2. seen[f][1] \in Opened
  BY <1>1
<1>3. seen[f][1][1] \in Content
  BY <1>2 DEF Answer, Opened
<1>4. file[f] # NoFile => file[f] \in Content
  BY DEF TypeOK
<1>5. Garbled(f) \in Samples /\ Garbled(f) \in Hashes
  BY ContentTypes DEF Garbled
<1> QED BY <1>3, <1>4, <1>5, ContentTypes DEF Digests

LEMMA ReadStep ==
  ASSUME TypeOK, Staged, [Next]_vars PROVE ReadType'
<1> USE DEF reading
<1>0. ReadType
  BY TypeParts
<1>1. CASE UNCHANGED reading
  BY <1>0, <1>1 DEF ReadType
<1>2. ASSUME NEW S, Forget(S) PROVE ReadType'
  BY <1>0, <1>2 DEF Forget, ReadType
<1>3. CASE Finish \/ Kill \/ \E s \in Sizes : PrunePartial(s)
  BY <1>2, <1>3 DEF Finish, Kill, DropScan, PrunePartial
<1>4. ASSUME NEW s \in Sizes, NEW f \in File, Send(s, f) \/ SendComparison(s, f)
      PROVE  ReadType'
  BY <1>0, <1>4 DEF Send, SendComparison, Enqueue, ReadType
<1>5. ASSUME NEW s \in Sizes, NEW f \in File, Lookup(s, f) PROVE ReadType'
  <2>1. file[f] # NoFile => <<SizeAt(f), mtime[f]>> \in Sizes \X (0..EnvSteps)
    BY ContentTypes DEF TypeOK, SizeAt
  <2>2. /\ cache[f] # NoFile => cache[f].hash \in Hashes
        /\ imported[f] # NoFile => imported[f].hash \in Hashes
    BY DEF TypeOK, Entry
  <2>3. /\ seen' = seen
        /\ \E d \in Hashes \cup {NoFile} : result' = [result EXCEPT ![f] = d]
        /\ \E d \in (Sizes \X (0..EnvSteps)) \cup {NoFile} : stat' = [stat EXCEPT ![f] = d]
        /\ \E d \in {"done", "missed"} : job' = [job EXCEPT ![f] = d]
    BY <1>5, <2>1, <2>2 DEF Lookup, Hit, Importable
  <2> QED BY <1>0, <2>3 DEF ReadType
<1>6. ASSUME NEW s \in Sizes, NEW f \in File, Take(s, f) PROVE ReadType'
  <2>1. stage[s] = "verify" => ref[s] \in File
    BY <1>6, HasReference DEF Take
  <2>2. <<At(f), IF stage[s] = "verify" THEN At(ref[s]) ELSE NoFile>>
           \in (Opened \X {NoFile}) \cup (Opened \X Opened)
    BY <2>1, AtOpened
  <2> QED BY <1>0, <1>6, <2>2 DEF Take, ReadType
<1>7. ASSUME NEW s \in Sizes, NEW f \in File, Answer(s, f) PROVE ReadType'
  <2>1. PICK d \in Digests(s, f) : result' = [result EXCEPT ![f] = d]
    BY <1>7 DEF Answer
  <2>2. d \in Samples \cup Hashes
    BY <1>7, DigestTypes
  <2> QED BY <1>0, <1>7, <2>1, <2>2 DEF Answer, ReadType
<1>8. ASSUME NEW s \in Sizes, NEW f \in File, AnswerEqual(s, f) PROVE ReadType'
  BY <1>0, <1>8 DEF AnswerEqual, ReadType
<1>9. ASSUME NEW f \in File, Fail(f) PROVE ReadType'
  BY <1>0, <1>9 DEF Fail, ReadType
<1> QED BY <1>1, <1>3, <1>4, <1>5, <1>6, <1>7, <1>8, <1>9, ReadFrame

LEMMA SentStep ==
  ASSUME TypeOK, [Next]_vars PROVE SentType'
<1>0. SentType
  BY TypeParts
<1>1. ASSUME NEW s \in Sizes, GroupFull(s) PROVE SentType'
  <2>1. SameHash(s) \subseteq SUBSET File
    BY DEF SameHash, SameResult, TypeOK
  <2> QED BY <1>0, <1>1, <2>1 DEF GroupFull, SentType
<1>2. ASSUME NEW s \in Sizes, EndVerify(s) PROVE SentType'
  <2>1. equal[s] \subseteq File
    BY DEF TypeOK
  <2> QED BY <1>0, <1>2, <2>1 DEF EndVerify, Drop, SentType
<1>3. CASE StartScan
  <2>1. \A s \in Sizes : Found(s) \subseteq File
    BY ONLY TRUE DEF Found
  <2>2. /\ reported' = {Found(s) : s \in {t \in Sizes \cap {0} : Cardinality(Found(t)) > 1}}
        /\ errors' = {} /\ changed' = {}
    BY ONLY <1>3 DEF StartScan
  <2> QED BY ONLY <2>1, <2>2 DEF SentType
<1>4. CASE Environment
  <2>1. \A f \in File, g \in File : Rewrite(f) \/ Remove(f) \/ Rename(f, g) =>
           changed' \subseteq File
    BY <1>0 DEF Rewrite, Remove, Rename, SentType
  <2> QED BY <1>0, <1>4, <2>1 DEF Environment, SentType
<1>5. ASSUME NEW f \in File, Fail(f) PROVE SentType'
  BY <1>0, <1>5 DEF Fail, ReportError, SentType
<1>6. CASE Kill
  BY <1>0, <1>6 DEF Kill, SentType
<1>7. CASE UNCHANGED <<reported, errors, changed>>
  BY <1>0, <1>7 DEF SentType
<1>8. \/ StartScan \/ Environment \/ Kill \/ UNCHANGED <<reported, errors, changed>>
      \/ \E s \in Sizes : GroupFull(s) \/ EndVerify(s)
      \/ \E f \in File : Fail(f)
  <2> DEFINE Still == UNCHANGED <<reported, errors, changed>>
  <2>1. ASSUME NEW s \in Sizes, PrunePartial(s) \/ StartChunk(s) \/ EndChunk(s) PROVE Still
    BY <2>1 DEF PrunePartial, StartChunk, EndChunk
  <2>2. ASSUME NEW s \in Sizes, GiveUp(s) \/ GroupVerified(s) PROVE Still
    BY <2>2 DEF GiveUp, GroupVerified, Drop
  <2>3. ASSUME NEW s \in Sizes, NEW f \in File,
               Send(s, f) \/ SendComparison(s, f) \/ Lookup(s, f) \/ StartVerify(s, f)
        PROVE  Still
    BY <2>3 DEF Send, SendComparison, Enqueue, Lookup, StartVerify
  <2>4. ASSUME NEW s \in Sizes, NEW f \in File,
               Take(s, f) \/ Answer(s, f) \/ AnswerEqual(s, f)
        PROVE  Still
    BY <2>4 DEF Take, Answer, AnswerEqual
  <2>5. Finish \/ UNCHANGED vars => Still
    BY DEF Finish, vars
  <2> HIDE DEF Still
  <2> QED BY <2>1, <2>2, <2>3, <2>4, <2>5 DEF Next, Pipeline, Pool, Still
<1> QED BY <1>1, <1>2, <1>3, <1>4, <1>5, <1>6, <1>7, <1>8

LEMMA TypeStep == TypeOK /\ Staged /\ [Next]_vars => TypeOK'
<1> SUFFICES ASSUME TypeOK, Staged, [Next]_vars PROVE TypeOK'
  OBVIOUS
<1>1. StoredType'
  BY StoredStep, TypeParts
<1> QED BY <1>1, CacheStep, GroupStep, ReadStep, SentStep, PoolStep
     DEF TypeOK, StoredType, CacheType, GroupType, ReadType, SentType
-----------------------------------------------------------------------------
\* Sizes share no candidates: a walk finds each file once, and none joins later.
LEMMA DisjointStep ==
  ASSUME TypeOK, Staged, [Next]_vars PROVE Disjoint'
<1> USE DEF group, verification
<1>0. Disjoint
  BY DEF Staged
<1>1. CASE \A s \in Sizes : members'[s] \subseteq members[s]
  BY <1>0, <1>1 DEF Disjoint
<1>2. CASE StartScan
  <2>1. \A s \in Sizes : members'[s] = Found(s)
    BY <1>2 DEF StartScan
  <2> QED BY <2>1 DEF Disjoint, Found
<1>3. ASSUME NEW s \in Sizes, PrunePartial(s) PROVE \A t \in Sizes : members'[t] \subseteq members[t]
  BY <1>3 DEF PrunePartial, TypeOK
<1>4. ASSUME NEW s \in Sizes, EndChunk(s) PROVE \A t \in Sizes : members'[t] \subseteq members[t]
  BY <1>4 DEF EndChunk, TypeOK
<1>5. Finish \/ Kill => \A t \in Sizes : members'[t] \subseteq members[t]
  BY DEF Finish, Kill, DropScan, AllSizes
<1>6. ASSUME NEW s \in Sizes, NEW f \in File,
             \/ StartChunk(s) \/ GroupFull(s) \/ GiveUp(s) \/ EndVerify(s)
             \/ GroupVerified(s) \/ StartVerify(s, f) \/ AnswerEqual(s, f)
      PROVE  members' = members
  BY <1>6 DEF StartChunk, GroupFull, GiveUp, EndVerify, Drop, GroupVerified, StartVerify,
     AnswerEqual
<1>7. ASSUME NEW s \in Sizes,
             \/ StartChunk(s) \/ GroupFull(s) \/ GiveUp(s) \/ EndVerify(s)
             \/ GroupVerified(s)
      PROVE  members' = members
  BY <1>7 DEF StartChunk, GroupFull, GiveUp, EndVerify, Drop, GroupVerified
<1> QED BY <1>1, <1>2, <1>3, <1>4, <1>5, <1>6, <1>7, GroupFrame

LEMMA IdleStep ==
  ASSUME TypeOK, Staged, [Next]_vars PROVE IdleOK'
<1>1. CASE Finish \/ Kill
  BY <1>1 DEF Finish, Kill, DropScan, Forget, AllSizes, IdleOK
<1>2. CASE pc' # "idle"
  BY <1>2 DEF IdleOK
<1>3. CASE UNCHANGED <<pc, group, job, stat>>
  BY <1>3 DEF Staged, IdleOK, group
<1>4. CASE pc = "idle" /\ ~StartScan
  <2>1. /\ \A f \in File : job[f] = "none"
        /\ \A s \in Sizes : members[s] = {} /\ chunk[s] = {} /\ stage[s] = "done"
    BY <1>4 DEF Staged, IdleOK
  <2>2. ASSUME NEW f \in File
        PROVE  ~Fail(f) /\ \A s \in Sizes : ~Take(s, f) /\ ~Answer(s, f) /\ ~AnswerEqual(s, f)
    BY ONLY <2>1 DEF Fail, Take, Answer, AnswerEqual
  <2>7. ~Pool
    BY ONLY <2>2 DEF Pool
  <2>3. ASSUME NEW s \in Sizes, NEW f \in File
        PROVE  ~Send(s, f) /\ ~SendComparison(s, f) /\ ~Lookup(s, f) /\ ~StartVerify(s, f)
    BY <2>1 DEF Send, Wanted, SendComparison, Lookup, StartVerify
  <2>4. ASSUME NEW s \in Sizes
        PROVE  /\ ~PrunePartial(s) /\ ~StartChunk(s) /\ ~EndChunk(s) /\ ~GroupFull(s)
               /\ ~GiveUp(s) /\ ~EndVerify(s) /\ ~GroupVerified(s)
    BY <2>1 DEF PrunePartial, StartChunk, EndChunk, GroupFull, GiveUp, EndVerify,
       GroupVerified
  <2>5. ~Pipeline /\ ~Kill
    BY <1>4, <2>3, <2>4 DEF Pipeline, Finish, Kill
  <2>6. Environment \/ UNCHANGED vars
    BY <1>4, <2>5, <2>7 DEF Next
  <2> QED BY <1>3, <2>6 DEF Environment, vars, reading
<1>5. StartScan => pc' # "idle"
  BY DEF StartScan
<1>6. ASSUME NEW s \in Sizes, NEW f \in File,
             \/ PrunePartial(s) \/ StartChunk(s) \/ EndChunk(s) \/ GroupFull(s) \/ GiveUp(s)
             \/ EndVerify(s) \/ GroupVerified(s) \/ StartVerify(s, f) \/ AnswerEqual(s, f)
      PROVE  pc' = pc
  BY <1>6 DEF PrunePartial, StartChunk, EndChunk, GroupFull, GiveUp, EndVerify, Drop,
     GroupVerified, StartVerify, AnswerEqual
<1>7. ASSUME NEW s \in Sizes,
             \/ PrunePartial(s) \/ StartChunk(s) \/ EndChunk(s) \/ GroupFull(s) \/ GiveUp(s)
             \/ EndVerify(s) \/ GroupVerified(s)
      PROVE  pc' = pc
  BY <1>7 DEF PrunePartial, StartChunk, EndChunk, GroupFull, GiveUp, EndVerify, Drop,
     GroupVerified
<1>8. Finish \/ Kill \/ StartScan \/ pc' = pc
  BY <1>6, <1>7, GroupFrame
<1> QED BY <1>1, <1>2, <1>4, <1>5, <1>8

LEMMA StageStep ==
  ASSUME TypeOK, Staged, [Next]_vars PROVE StageOK'
<1> USE DEF group, verification
<1>0. StageOK /\ VerifyOK /\ GroupType
  BY TypeParts DEF Staged
<1>1. CASE UNCHANGED <<pc, group, verification>>
  BY <1>0, <1>1 DEF StageOK
<1>2. CASE StartScan
  <2>1. /\ UNCHANGED <<chunk, hashed, verification>>
        /\ stage' \in [Sizes -> {"partial", "full", "done"}]
    BY <1>2 DEF StartScan
  <2>2. \A s \in Sizes : chunk[s] = {} /\ hashed[s] = {} /\ stage[s] = "done"
    BY <1>2 DEF StartScan, Staged, IdleOK
  <2> QED BY <1>0, <2>1, <2>2 DEF StageOK
<1>3. CASE Finish \/ Kill
  BY <1>3 DEF Finish, Kill, DropScan, AllSizes, StageOK
<1>4. ASSUME NEW s \in Sizes, PrunePartial(s) PROVE StageOK'
  BY <1>0, <1>4 DEF PrunePartial, GroupType, StageOK
<1>5. ASSUME NEW s \in Sizes, StartChunk(s) PROVE StageOK'
  BY <1>0, <1>5 DEF StartChunk, GroupType, StageOK
<1>6. ASSUME NEW s \in Sizes, EndChunk(s) PROVE StageOK'
  BY <1>0, <1>6 DEF EndChunk, GroupType, StageOK
<1>7. ASSUME NEW s \in Sizes, GroupFull(s) \/ GroupVerified(s) PROVE StageOK'
  BY <1>0, <1>7 DEF GroupFull, GroupVerified, GroupType, StageOK, VerifyOK
<1>8. ASSUME NEW s \in Sizes, NEW f \in File, StartVerify(s, f) PROVE StageOK'
  BY <1>0, <1>8 DEF StartVerify, GroupType, StageOK
<1>9. ASSUME NEW s \in Sizes, NEW f \in File, AnswerEqual(s, f) PROVE StageOK'
  BY <1>0, <1>9 DEF AnswerEqual, GroupType, StageOK
<1>10. ASSUME NEW s \in Sizes, GiveUp(s) \/ EndVerify(s) PROVE StageOK'
  BY <1>0, <1>10 DEF GiveUp, EndVerify, Drop, GroupType, StageOK
<1> QED BY <1>1, <1>2, <1>3, <1>4, <1>5, <1>6, <1>7, <1>8, <1>9, <1>10, GroupFrame

LEMMA ReadingStep ==
  ASSUME TypeOK, Staged, [Next]_vars PROVE ReadingOK'
<1> USE DEF reading
<1>0. ReadingOK /\ ReadType
  BY TypeParts DEF Staged
<1>1. ASSUME \A f \in File : job'[f] = "reading" => job[f] = "reading" /\ seen'[f] = seen[f]
      PROVE  ReadingOK'
  BY <1>0, <1>1 DEF ReadingOK, Opened
<1>2. CASE UNCHANGED reading
  BY <1>1, <1>2
<1>3. CASE Finish \/ Kill \/ \E s \in Sizes : PrunePartial(s)
  BY <1>1, <1>3 DEF Finish, Kill, DropScan, PrunePartial, Forget
<1>4. ASSUME NEW s \in Sizes, NEW f \in File, Send(s, f) \/ SendComparison(s, f)
      PROVE  ReadingOK'
  BY <1>0, <1>1, <1>4 DEF Send, SendComparison, Enqueue, ReadType
<1>5. ASSUME NEW s \in Sizes, NEW f \in File, Lookup(s, f) PROVE ReadingOK'
  BY <1>0, <1>1, <1>5 DEF Lookup, ReadType
<1>6. ASSUME NEW s \in Sizes, NEW f \in File, Take(s, f) PROVE ReadingOK'
  <2>1. stage[s] = "verify" => ref[s] \in File
    BY <1>6, HasReference DEF Take
  <2>2. <<At(f), IF stage[s] = "verify" THEN At(ref[s]) ELSE NoFile>>
           \in (Opened \X {NoFile}) \cup (Opened \X Opened)
    BY <2>1, AtOpened
  <2> QED BY <1>0, <1>6, <2>2 DEF Take, ReadType, ReadingOK, Opened
<1>7. ASSUME NEW s \in Sizes, NEW f \in File, Answer(s, f) PROVE ReadingOK'
  BY <1>0, <1>1, <1>7 DEF Answer, ReadType
<1>8. ASSUME NEW s \in Sizes, NEW f \in File, AnswerEqual(s, f) PROVE ReadingOK'
  BY <1>0, <1>1, <1>8 DEF AnswerEqual, ReadType
<1>9. ASSUME NEW f \in File, Fail(f) PROVE ReadingOK'
  BY <1>0, <1>1, <1>9 DEF Fail, ReadType
<1> QED BY <1>2, <1>3, <1>4, <1>5, <1>6, <1>7, <1>8, <1>9, ReadFrame

\* The steps that change neither the groups nor the jobs: other programs, and
\* those that stutter.
LEMMA OtherFrame ==
  ASSUME [Next]_vars
  PROVE  \/ UNCHANGED <<pc, group, reading, verification>>
         \/ StartScan \/ Finish \/ Kill
         \/ \E s \in Sizes :
               \/ PrunePartial(s) \/ StartChunk(s) \/ EndChunk(s) \/ GroupFull(s)
               \/ GiveUp(s) \/ EndVerify(s) \/ GroupVerified(s)
               \/ \E f \in File : \/ Send(s, f) \/ SendComparison(s, f) \/ Lookup(s, f)
                                  \/ Take(s, f) \/ Answer(s, f) \/ AnswerEqual(s, f)
                                  \/ StartVerify(s, f)
         \/ \E f \in File : Fail(f)
<1>1. Environment \/ UNCHANGED vars => UNCHANGED <<pc, group, reading, verification>>
  BY DEF Environment, vars
<1> QED BY <1>1 DEF Next, Pipeline, Pool

\* The reference of a size is nobody else's candidate.
LEMMA ReferenceApart ==
  ASSUME TypeOK, Staged, NEW s \in Sizes, ref[s] # NoFile
  PROVE  /\ ref[s] \in members[s] /\ ref[s] \in File /\ stage[s] = "verify"
         /\ \A t \in Sizes : ref[s] \in members[t] => t = s
BY DEF Staged, VerifyOK, StageOK, Disjoint, TypeOK

LEMMA VerifyStep ==
  ASSUME TypeOK, Staged, [Next]_vars PROVE VerifyOK'
<1> USE DEF group, verification, reading
<1>0. VerifyOK /\ StageOK /\ GroupType /\ ReadType /\ Disjoint /\ JobsOK
  BY TypeParts DEF Staged
<1>1. ASSUME UNCHANGED <<verification, hashed>>,
             \A s \in Sizes : ref[s] # NoFile /\ job[ref[s]] = "done" => job'[ref[s]] = "done"
      PROVE  VerifyOK'
  BY <1>0, <1>1 DEF VerifyOK
<1>2. CASE UNCHANGED <<pc, group, reading, verification>>
  BY <1>1, <1>2
<1>3. CASE StartScan
  BY <1>1, <1>3 DEF StartScan
<1>4. CASE Finish \/ Kill
  BY <1>4 DEF Finish, Kill, DropScan, AllSizes, VerifyOK
<1>5. ASSUME NEW s \in Sizes, PrunePartial(s) PROVE VerifyOK'
  <2>1. \A t \in Sizes : ref[t] # NoFile => ref[t] \in File /\ ref[t] \notin members[s]
    BY <1>5, ReferenceApart DEF PrunePartial
  <2>2. \A t \in Sizes : ref[t] # NoFile => job'[ref[t]] = job[ref[t]]
    BY <1>5, <2>1 DEF PrunePartial, Forget
  <2>3. UNCHANGED <<verification, hashed>>
    BY <1>5 DEF PrunePartial
  <2> QED BY <1>1, <2>2, <2>3
<1>6. ASSUME NEW s \in Sizes, StartChunk(s) \/ GroupFull(s) \/ GroupVerified(s) PROVE VerifyOK'
  BY <1>1, <1>6 DEF StartChunk, GroupFull, GroupVerified
<1>7. ASSUME NEW s \in Sizes, EndChunk(s) PROVE VerifyOK'
  BY <1>0, <1>7 DEF EndChunk, GroupType, VerifyOK
<1>8. ASSUME NEW s \in Sizes, GiveUp(s) \/ EndVerify(s) PROVE VerifyOK'
  BY <1>0, <1>8 DEF GiveUp, EndVerify, Drop, GroupType, VerifyOK
<1>9. ASSUME NEW s \in Sizes, NEW f \in File, StartVerify(s, f) PROVE VerifyOK'
  BY <1>0, <1>9 DEF StartVerify, SameResult, GroupType, VerifyOK
<1>10. ASSUME NEW s \in Sizes, NEW f \in File, AnswerEqual(s, f) PROVE VerifyOK'
  <2>1. /\ f \in members[s] /\ stage[s] = "verify" /\ ref[s] # NoFile
        /\ IF equal[s] = {} THEN f = ref[s] ELSE f \in unread[s]
    BY <1>0, <1>10 DEF AnswerEqual, JobsOK, JobOK
  <2>2. /\ equal'[s] = equal[s] \/ equal'[s] = equal[s] \cup {f}
        /\ f = ref[s] => f \in equal'[s]
        /\ unread'[s] = unread[s] \ {f} /\ UNCHANGED <<hashed, ref>>
        /\ \A t \in Sizes : t # s => equal'[t] = equal[t] /\ unread'[t] = unread[t]
        /\ job'[f] = "done" /\ \A g \in File : g # f => job'[g] = job[g]
    BY <1>0, <1>10 DEF AnswerEqual, GroupType, ReadType
  <2>3. \A t \in Sizes : ref[t] # NoFile => ref[t] \in File
    BY ReferenceApart
  <2>4. ASSUME NEW t \in Sizes, equal'[t] # {}
        PROVE  ref[t] \in equal'[t] /\ job'[ref[t]] = "done"
    <3>1. CASE t = s
      BY <1>0, <2>1, <2>2, <2>3, <2>4, <3>1 DEF VerifyOK
    <3>2. CASE t # s
      <4>1. ref[t] \in equal[t] /\ job[ref[t]] = "done"
        BY <1>0, <2>2, <2>4, <3>2 DEF VerifyOK
      <4>2. ref[t] \in File
        BY <4>1 DEF TypeOK
      <4> QED BY <2>2, <3>2, <4>1, <4>2
    <3> QED BY <3>1, <3>2
  <2>5. ASSUME NEW t \in Sizes
        PROVE  /\ ref[t] # NoFile => ref[t] \in hashed[t] /\ ref[t] \notin unread'[t]
               /\ unread'[t] \subseteq hashed[t]
               /\ ref[t] = NoFile => equal'[t] = {}
    BY <1>0, <2>1, <2>2 DEF VerifyOK
  <2> QED BY <2>2, <2>4, <2>5 DEF VerifyOK
<1>11. ASSUME NEW f \in File, job[f] # "done", UNCHANGED <<verification, hashed>>,
              \E j : job' = [job EXCEPT ![f] = j]
       PROVE  VerifyOK'
  <2>1. \A g \in File : g # f => job'[g] = job[g]
    BY <1>0, <1>11 DEF ReadType
  <2> QED BY <1>1, <1>11, <2>1, ReferenceApart
<1>12. ASSUME NEW s \in Sizes, NEW f \in File, Send(s, f) \/ Lookup(s, f) \/ Take(s, f) \/ Answer(s, f)
       PROVE  VerifyOK'
  BY <1>11, <1>12 DEF Send, Wanted, Enqueue, Lookup, Take, Answer
<1>13. ASSUME NEW f \in File, Fail(f) PROVE VerifyOK'
  BY <1>11, <1>13 DEF Fail
<1>14. ASSUME NEW s \in Sizes, NEW f \in File, SendComparison(s, f) PROVE VerifyOK'
  <2>1. /\ UNCHANGED <<verification, hashed>> /\ job'[f] = "queued"
        /\ \A g \in File : g # f => job'[g] = job[g]
    BY <1>0, <1>14 DEF SendComparison, Enqueue, ReadType
  <2>2. IF equal[s] = {} THEN f = ref[s] ELSE f \in unread[s]
    BY <1>14 DEF SendComparison
  <2>3. f \in members[s]
    BY <1>0, <2>2 DEF VerifyOK, GroupType
  <2>4. \A t \in Sizes : equal[t] # {} => ref[t] # f
    BY <1>0, <2>2, <2>3, ReferenceApart DEF VerifyOK
  <2>5. \A t \in Sizes : equal[t] # {} => ref[t] \in equal[t] /\ job'[ref[t]] = "done"
    BY <1>0, <2>1, <2>4, ReferenceApart DEF VerifyOK
  <2> QED BY <1>0, <2>1, <2>5 DEF VerifyOK
<1> QED BY <1>2, <1>3, <1>4, <1>5, <1>6, <1>7, <1>8, <1>9, <1>10, <1>12, <1>13, <1>14, OtherFrame

\* Where a job is changes with the stage of its group and its own answer only.
LEMMA JobsStep ==
  ASSUME TypeOK, Staged, [Next]_vars PROVE JobsOK'
<1> USE DEF group, verification, reading
<1>0. /\ VerifyOK /\ StageOK /\ GroupType /\ ReadType /\ Disjoint /\ JobsOK
      /\ \A s \in Sizes : members[s] \subseteq File
  BY TypeParts DEF Staged, GroupType
<1>1. ASSUME NEW s \in Sizes, NEW f \in members[s],
             /\ stage'[s] = stage[s] /\ chunk'[s] = chunk[s] /\ hashed'[s] = hashed[s]
             /\ ref'[s] = ref[s] /\ equal'[s] = equal[s] /\ unread'[s] = unread[s],
             job'[f] = job[f] /\ stat'[f] = stat[f] /\ result'[f] = result[f]
      PROVE  JobOK(s, f)'
  BY <1>0, <1>1 DEF JobsOK, JobOK, Hashes
<1>2. CASE UNCHANGED <<pc, group, reading, verification>>
  BY <1>1, <1>2 DEF JobsOK
<1>3. CASE StartScan
  <2>1. \A f \in File : job'[f] = "none" /\ stat'[f] = NoFile
    BY <1>3 DEF StartScan, Staged, IdleOK
  <2>2. \A s \in Sizes : hashed'[s] = {} /\ stage'[s] # "verify" /\ members'[s] \subseteq File
    BY <1>3 DEF StartScan, Staged, IdleOK, Found
  <2> QED BY <2>1, <2>2 DEF JobsOK, JobOK
<1>4. CASE Finish \/ Kill
  BY <1>4 DEF Finish, Kill, DropScan, AllSizes, JobsOK
<1>5. ASSUME NEW s \in Sizes, PrunePartial(s) PROVE JobsOK'
  <2>1. /\ members'[s] \subseteq members[s] /\ stage'[s] = "full"
        /\ \A t \in Sizes : t # s => members'[t] = members[t] /\ stage'[t] = stage[t]
        /\ UNCHANGED <<chunk, hashed, verification>>
    BY <1>0, <1>5 DEF PrunePartial, GroupType
  <2>2. chunk[s] = {} /\ hashed[s] = {}
    BY <1>0, <1>5 DEF PrunePartial, StageOK
  <2>3. \A f \in File : IF f \in members[s] THEN job'[f] = "none"
           ELSE job'[f] = job[f] /\ stat'[f] = stat[f] /\ result'[f] = result[f]
    BY <1>5 DEF PrunePartial, Forget
  <2>4. ASSUME NEW f \in members'[s] PROVE JobOK(s, f)'
    BY <1>0, <2>1, <2>2, <2>3 DEF JobOK
  <2>5. ASSUME NEW t \in Sizes, t # s, NEW f \in members[t] PROVE JobOK(t, f)'
    <3>1. f \notin members[s] /\ f \in File
      BY <1>0, <2>5 DEF Disjoint
    <3> QED BY <1>1, <2>1, <2>3, <2>5, <3>1
  <2> QED BY <2>1, <2>4, <2>5 DEF JobsOK
<1>6. ASSUME NEW s \in Sizes, UNCHANGED reading,
             \A t \in Sizes : t # s =>
                /\ members'[t] = members[t] /\ stage'[t] = stage[t] /\ chunk'[t] = chunk[t]
                /\ hashed'[t] = hashed[t] /\ ref'[t] = ref[t] /\ equal'[t] = equal[t]
                /\ unread'[t] = unread[t],
             \A f \in members'[s] : JobOK(s, f)'
      PROVE  JobsOK'
  BY <1>1, <1>6 DEF JobsOK
<1>7. ASSUME NEW s \in Sizes, StartChunk(s) PROVE JobsOK'
  <2>1. PICK c \in SUBSET (members[s] \ hashed[s]) : chunk' = [chunk EXCEPT ![s] = c]
    BY <1>7 DEF StartChunk
  <2>2. UNCHANGED <<stage, members, hashed, verification, reading>> /\ chunk[s] = {}
        /\ stage[s] = "full"
    BY <1>7 DEF StartChunk
  <2>3. chunk'[s] = c /\ \A t \in Sizes : t # s => chunk'[t] = chunk[t]
    BY <1>0, <2>1 DEF GroupType
  <2>4. \A f \in members[s] : JobOK(s, f)'
    BY <1>0, <2>2, <2>3 DEF JobsOK, JobOK, Hashes
  <2> QED BY <1>6, <2>2, <2>3, <2>4
<1>8. ASSUME NEW s \in Sizes, EndChunk(s) PROVE JobsOK'
  <2>1. /\ members'[s] = members[s] \ (chunk[s] \ Hashed(s))
        /\ chunk'[s] = {} /\ hashed'[s] = hashed[s] \cup Hashed(s)
        /\ \A t \in Sizes : t # s => /\ members'[t] = members[t] /\ chunk'[t] = chunk[t]
                                     /\ hashed'[t] = hashed[t]
        /\ UNCHANGED <<stage, verification, reading>> /\ stage[s] = "full"
    BY <1>0, <1>8 DEF EndChunk, GroupType
  <2>2. \A f \in members'[s] : JobOK(s, f)'
    BY <1>0, <2>1 DEF JobsOK, JobOK, Hashed, Hashes
  <2> QED BY <1>6, <2>1, <2>2
<1>9. ASSUME NEW s \in Sizes, GroupFull(s) PROVE JobsOK'
  <2>1. /\ stage'[s] \in {"verify", "done"} /\ stage[s] = "full" /\ hashed[s] = members[s]
        /\ \A t \in Sizes : t # s => stage'[t] = stage[t]
        /\ UNCHANGED <<members, chunk, hashed, verification, reading>>
    BY <1>0, <1>9 DEF GroupFull, GroupType
  <2>2. \A f \in members'[s] : JobOK(s, f)'
    BY <1>0, <2>1 DEF JobsOK, JobOK
  <2> QED BY <1>6, <2>1, <2>2
<1>10. ASSUME NEW s \in Sizes, GroupVerified(s) PROVE JobsOK'
  <2>1. /\ stage'[s] = "done" /\ stage[s] = "verify" /\ ref[s] = NoFile
        /\ \A t \in Sizes : t # s => stage'[t] = stage[t]
        /\ UNCHANGED <<members, chunk, hashed, verification, reading>>
    BY <1>0, <1>10 DEF GroupVerified, GroupType
  <2>2. \A f \in members'[s] : JobOK(s, f)'
    BY <1>0, <2>1 DEF JobsOK, JobOK
  <2> QED BY <1>6, <2>1, <2>2
<1>11. ASSUME NEW s \in Sizes, GiveUp(s) \/ EndVerify(s) PROVE JobsOK'
  <2>1. /\ stage[s] = "verify" /\ UNCHANGED <<stage, members, chunk, reading>>
        /\ \A t \in Sizes : t # s => /\ hashed'[t] = hashed[t] /\ ref'[t] = ref[t]
                                     /\ unread'[t] = unread[t] /\ equal'[t] = equal[t]
        /\ \/ ref[s] # NoFile /\ job[ref[s]] = "failed"
           \/ equal[s] # {} /\ \A f \in unread[s] : job[f] = "failed"
    BY <1>0, <1>11 DEF GiveUp, EndVerify, Drop, GroupType
  <2>2. \A f \in members[s] : job[f] \notin {"queued", "reading"}
    BY <1>0, <2>1 DEF JobsOK, JobOK, VerifyOK
  <2>3. \A f \in members'[s] : JobOK(s, f)'
    BY <2>1, <2>2 DEF JobOK
  <2> QED BY <1>6, <2>1, <2>3
<1>12. ASSUME NEW s \in Sizes, NEW f \in File, StartVerify(s, f) PROVE JobsOK'
  <2>1. /\ stage[s] = "verify" /\ ref[s] = NoFile /\ UNCHANGED <<group, equal, reading>>
        /\ \A t \in Sizes : t # s => ref'[t] = ref[t] /\ unread'[t] = unread[t]
    BY <1>0, <1>12 DEF StartVerify, GroupType
  <2>2. \A g \in members[s] : job[g] \notin {"queued", "reading"}
    BY <1>0, <2>1 DEF JobsOK, JobOK
  <2>3. \A g \in members'[s] : JobOK(s, g)'
    BY <2>1, <2>2 DEF JobOK
  <2> QED BY <1>6, <2>1, <2>3
<1>13. ASSUME NEW s \in Sizes, NEW f \in members[s], UNCHANGED <<group, verification>>,
              \A g \in File : g # f => /\ job'[g] = job[g] /\ stat'[g] = stat[g]
                                       /\ result'[g] = result[g],
              JobOK(s, f)'
       PROVE  JobsOK'
  <2> SUFFICES ASSUME NEW t \in Sizes, NEW g \in members[t] PROVE JobOK(t, g)'
    BY <1>13 DEF JobsOK
  <2>1. CASE g = f
    BY <1>0, <1>13, <2>1 DEF Disjoint
  <2>2. CASE g # f
    BY <1>0, <1>1, <1>13, <2>2
  <2> QED BY <2>1, <2>2
<1>14. ASSUME NEW s \in Sizes, NEW f \in File, Send(s, f) PROVE JobsOK'
  <2>1. /\ UNCHANGED <<group, verification, stat, result>> /\ job'[f] = "queued"
        /\ \A g \in File : g # f => job'[g] = job[g]
    BY <1>0, <1>14 DEF Send, Enqueue, ReadType
  <2>2. \/ stage[s] = "partial" /\ f \in members[s]
        \/ stage[s] = "full" /\ f \in chunk[s] /\ f \in members[s] /\ f \notin hashed[s]
    BY <1>0, <1>14 DEF Send, Wanted, GroupType
  <2>3. JobOK(s, f)'
    BY <1>0, <2>1, <2>2 DEF JobsOK, JobOK
  <2> QED BY <1>13, <2>1, <2>2, <2>3
<1>15. ASSUME NEW s \in Sizes, NEW f \in File, SendComparison(s, f) PROVE JobsOK'
  <2>1. /\ UNCHANGED <<group, verification, stat, result>> /\ job'[f] = "queued"
        /\ \A g \in File : g # f => job'[g] = job[g]
    BY <1>0, <1>15 DEF SendComparison, Enqueue, ReadType
  <2>2. /\ stage[s] = "verify" /\ IF equal[s] = {} THEN f = ref[s] ELSE f \in unread[s]
        /\ ref[s] # NoFile
    BY <1>0, <1>15 DEF SendComparison, VerifyOK
  <2>3. f \in members[s]
    BY <1>0, <2>2 DEF VerifyOK, GroupType
  <2>4. JobOK(s, f)'
    BY <2>1, <2>2 DEF JobOK
  <2> QED BY <1>13, <2>1, <2>3, <2>4
<1>16. ASSUME NEW s \in Sizes, NEW f \in File, Lookup(s, f) PROVE JobsOK'
  <2>1. /\ UNCHANGED <<group, verification>> /\ job'[f] \in {"done", "missed"}
        /\ \A g \in File : g # f => /\ job'[g] = job[g] /\ stat'[g] = stat[g]
                                    /\ result'[g] = result[g]
    BY <1>0, <1>16 DEF Lookup, ReadType
  <2>2. job'[f] = "done" => result'[f] \in Hashes
    <3>1. /\ cache[f] # NoFile => cache[f].hash \in Hashes
          /\ imported[f] # NoFile => imported[f].hash \in Hashes
      BY DEF TypeOK, Entry
    <3>2. CASE file[f] # NoFile /\ Hit(f)
      BY <1>0, <1>16, <3>1, <3>2 DEF Lookup, Hit, ReadType
    <3>3. CASE file[f] # NoFile /\ ~Hit(f) /\ Importable(f)
      BY <1>0, <1>16, <3>1, <3>3 DEF Lookup, Importable, ReadType
    <3>4. CASE file[f] = NoFile \/ (~Hit(f) /\ ~Importable(f))
      BY <1>0, <1>16, <3>4 DEF Lookup, ReadType
    <3> QED BY <3>2, <3>3, <3>4
  <2>3. stage[s] = "full" /\ f \in chunk[s] /\ f \in members[s] /\ f \notin hashed[s]
    BY <1>0, <1>16 DEF Lookup, GroupType
  <2>4. JobOK(s, f)'
    BY <2>1, <2>2, <2>3 DEF JobOK, Hashes
  <2> QED BY <1>13, <2>1, <2>3, <2>4
<1>17. ASSUME NEW s \in Sizes, NEW f \in File, Take(s, f) PROVE JobsOK'
  <2>1. /\ UNCHANGED <<group, verification, stat, result>> /\ job'[f] = "reading"
        /\ \A g \in File : g # f => job'[g] = job[g]
        /\ f \in members[s] /\ job[f] = "queued"
    BY <1>0, <1>17 DEF Take, ReadType
  <2>2. JobOK(s, f)'
    BY <1>0, <2>1 DEF JobsOK, JobOK
  <2> QED BY <1>13, <2>1, <2>2
<1>18. ASSUME NEW s \in Sizes, NEW f \in File, Answer(s, f) PROVE JobsOK'
  <2>1. PICK d \in Digests(s, f) : result' = [result EXCEPT ![f] = d]
    BY <1>18 DEF Answer
  <2>2. /\ UNCHANGED <<group, verification, stat>> /\ job'[f] = "done" /\ result'[f] = d
        /\ \A g \in File : g # f => job'[g] = job[g] /\ result'[g] = result[g]
        /\ f \in members[s] /\ job[f] = "reading"
    BY <1>0, <1>18, <2>1 DEF Answer, ReadType
  <2>3. stage[s] # "partial" => d \in Hashes
    BY <1>18, DigestTypes
  <2>4. JobOK(s, f)'
    BY <1>0, <2>2, <2>3 DEF JobsOK, JobOK, Hashes
  <2> QED BY <1>13, <2>2, <2>4
<1>19. ASSUME NEW s \in Sizes, NEW f \in File, AnswerEqual(s, f) PROVE JobsOK'
  <2>1. /\ f \in members[s] /\ stage[s] = "verify" /\ ref[s] # NoFile
        /\ IF equal[s] = {} THEN f = ref[s] ELSE f \in unread[s]
    BY <1>0, <1>19 DEF AnswerEqual, JobsOK, JobOK
  <2>2. /\ equal'[s] = equal[s] \/ equal'[s] = equal[s] \cup {f}
        /\ f = ref[s] => f \in equal'[s]
        /\ unread'[s] = unread[s] \ {f}
        /\ \A t \in Sizes : t # s => equal'[t] = equal[t] /\ unread'[t] = unread[t]
        /\ job'[f] = "done" /\ \A g \in File : g # f => job'[g] = job[g]
        /\ UNCHANGED <<group, ref, stat, result>>
    BY <1>0, <1>19 DEF AnswerEqual, GroupType, ReadType
  <2>3. ASSUME NEW g \in members[s] PROVE JobOK(s, g)'
    <3>1. CASE g = f
      BY <2>1, <2>2, <3>1 DEF JobOK
    <3>2. CASE g # f
      BY <1>0, <2>1, <2>2, <3>2 DEF JobOK, JobsOK
    <3> QED BY <3>1, <3>2
  <2>4. ASSUME NEW t \in Sizes, t # s, NEW g \in members[t] PROVE JobOK(t, g)'
    <3>1. g # f /\ g \in File
      BY <1>0, <2>1, <2>4 DEF Disjoint
    <3> QED BY <1>1, <2>2, <2>4, <3>1
  <2> QED BY <2>2, <2>3, <2>4 DEF JobsOK
<1>20. ASSUME NEW f \in File, Fail(f) PROVE JobsOK'
  <2>1. /\ UNCHANGED <<group, verification, stat, result>> /\ job'[f] = "failed"
        /\ \A g \in File : g # f => job'[g] = job[g]
        /\ job[f] = "reading"
    BY <1>0, <1>20 DEF Fail, ReadType
  <2>2. ASSUME NEW s \in Sizes, NEW g \in members[s] PROVE JobOK(s, g)'
    <3>1. CASE g = f
      BY <1>0, <2>1, <3>1 DEF JobsOK, JobOK
    <3>2. CASE g # f
      BY <1>0, <1>1, <2>1, <3>2
    <3> QED BY <3>1, <3>2
  <2> QED BY <2>1, <2>2 DEF JobsOK
<1> QED BY <1>2, <1>3, <1>4, <1>5, <1>7, <1>8, <1>9, <1>10, <1>11, <1>12, <1>14, <1>15,
         <1>16, <1>17, <1>18, <1>19, <1>20, OtherFrame

LEMMA StagedStep == TypeOK /\ Staged /\ [Next]_vars => Staged'
BY DisjointStep, IdleStep, StageStep, VerifyStep, JobsStep, ReadingStep DEF Staged

LEMMA InitTyped == Init => TypeOK /\ Staged
<1> SUFFICES ASSUME Init PROVE TypeOK /\ Staged
  OBVIOUS
<1>1. StoredType
  <2>1. /\ setup \in Setups /\ file \in [File -> Content \cup {NoFile}]
        /\ mtime \in [File -> 0..EnvSteps]
        /\ scans \in 0..setup.scans /\ env \in 0..EnvSteps
    BY DEF Init, AllFiles
  <2>2. Millis(0) = 0 /\ 0 \in 0..EnvSteps
    BY DEF Millis
  <2>3. \A f \in File : file[f] # NoFile => FclonesEntry(f) \in Entry
    BY <2>1, <2>2, ContentTypes DEF FclonesEntry, Entry, SizeAt
  <2> QED BY <2>1, <2>3 DEF Init, StoredType
<1>2. CacheType /\ ReadType /\ SentType /\ GroupType
  BY DEF Init, AllFiles, AllSizes, CacheType, ReadType, SentType, GroupType
<1>3. {f \in File : job[f] = "queued"} = {} /\ {f \in File : job[f] = "reading"} = {}
  BY DEF Init, AllFiles
<1>4. /\ Cardinality({f \in File : job[f] = "queued"}) <= QueueLimit
      /\ Cardinality({f \in File : job[f] = "reading"}) <= Workers
  <2>1. Cardinality({}) = 0
    BY FS_EmptySet
  <2>2. QueueLimit \in Nat /\ Workers \in Nat
    OBVIOUS
  <2>3. Cardinality({}) <= QueueLimit /\ Cardinality({}) <= Workers
    BY <2>1, <2>2
  <2> QED BY <1>3, <2>3
<1>5. Staged
  BY DEF Init, AllFiles, AllSizes, Staged, Disjoint, IdleOK, StageOK, VerifyOK, JobsOK,
     ReadingOK
<1> QED BY <1>1, <1>2, <1>4, <1>5, TypeParts

\* Every variable keeps its type; the pool has its limit and the queue too.
THEOREM TypeCorrect == Spec => []TypeOK
<1> QED BY InitTyped, TypeStep, StagedStep, PTL DEF Spec

\* Where each file's job is fits where its group is, however the sizes, the
\* threads and the crashes interleave.
THEOREM StagesOrdered == Spec => [](TypeOK /\ Staged)
<1> QED BY InitTyped, TypeStep, StagedStep, PTL DEF Spec
-----------------------------------------------------------------------------
(* An mtime tells which content a file has, as long as files are only written *)
(* and removed, and fclones' milliseconds tell all mtimes apart.              *)

Exact == ~setup.renames /\ (PerMilli = 1 \/ ~setup.imports)

\* The mtime of the last write.
Now == EnvSteps - env

\* Nobody knows an mtime that a file will have.
OrderedAt(f) ==
    /\ mtime[f] <= Now
    /\ cache[f] # NoFile => cache[f].mtime <= mtime[f]
    /\ imported[f] # NoFile => setup.imports /\ imported[f].mtime = 0
    /\ stat[f] # NoFile => stat[f][2] <= mtime[f]
    /\ job[f] = "reading" => seen[f][1][2] <= mtime[f]
    /\ job[f] = "reading" /\ stat[f] # NoFile => stat[f][2] <= seen[f][1][2]

Ordered == Exact => \A f \in File : OrderedAt(f)

\* Whoever knows the mtime that a file has knows its content or hash.
CurrentAt(f) ==
    file[f] # NoFile =>
       /\ cache[f] # NoFile /\ cache[f].mtime = mtime[f] => cache[f].hash = Hash[file[f]]
       /\ imported[f] # NoFile /\ mtime[f] = 0 => imported[f].hash = Hash[file[f]]
       /\ job[f] = "reading" /\ seen[f][1][2] = mtime[f] => seen[f][1][1] = file[f]

ResultAt(s, f) ==
    /\ stage[s] = "full" /\ job[f] = "done" /\ file[f] # NoFile
    /\ stat[f] # NoFile /\ stat[f][2] = mtime[f]
    => result[f] = Hash[file[f]]

Current == Exact => /\ \A f \in File : CurrentAt(f)
                    /\ \A s \in Sizes : \A f \in members[s] : ResultAt(s, f)

\* What a step of another program makes of each file.
LEMMA FileSteps ==
  ASSUME TypeOK, [Next]_vars, ~setup.renames, NEW f \in File
  PROVE  \/ /\ file'[f] = file[f] /\ mtime'[f] = mtime[f] /\ imported'[f] = imported[f]
            /\ Now' \in {Now, Now + 1}
         \/ /\ file'[f] = NoFile /\ mtime'[f] = mtime[f] /\ imported'[f] = NoFile
            /\ Now' = Now + 1
         \/ mtime'[f] = Now + 1 /\ Now' = Now + 1 /\ imported'[f] = imported[f]
<1>1. CASE Environment
  <2>1. env \in Nat /\ EnvSteps \in Nat /\ env' = env - 1 /\ Now' = Now + 1
    BY <1>1 DEF Environment, Now, TypeOK
  <2>2. PICK g \in File : Rewrite(g) \/ Remove(g)
    BY <1>1 DEF Environment
  <2>3. CASE Rewrite(g)
    <3>1. mtime' = [mtime EXCEPT ![g] = Now + 1]
      BY <2>1, <2>3 DEF Rewrite, Now
    <3> QED BY <2>1, <2>3, <3>1 DEF Rewrite, TypeOK
  <2>4. CASE Remove(g)
    BY <2>1, <2>4 DEF Remove, TypeOK
  <2> QED BY <2>2, <2>3, <2>4
<1>2. CASE UNCHANGED disk /\ env' = env
  BY <1>2 DEF disk, Now
<1>3. StartScan => env' = env
  BY DEF StartScan
<1>4. UNCHANGED bounds => env' = env
  BY DEF bounds
<1> QED BY <1>1, <1>2, <1>3, <1>4, QuietSteps

LEMMA SetupStays == [Next]_vars => setup' = setup /\ Exact' = Exact
BY QuietSteps DEF Environment, disk, Exact

\* How a file comes to have a result.
LEMMA DoneSteps ==
  ASSUME TypeOK, Staged, [Next]_vars, NEW f \in File, job'[f] = "done"
  PROVE  \/ job[f] = "done" /\ stat'[f] = stat[f] /\ result'[f] = result[f]
         \/ \E s \in Sizes : Lookup(s, f) \/ Answer(s, f) \/ AnswerEqual(s, f)
<1> USE DEF reading
<1>0. ReadType
  BY TypeParts
<1>1. ASSUME NEW S, Forget(S) PROVE job[f] = "done" /\ stat'[f] = stat[f] /\ result'[f] = result[f]
  BY <1>1 DEF Forget
<1>2. CASE Finish \/ Kill \/ \E s \in Sizes : PrunePartial(s)
  BY <1>1, <1>2 DEF Finish, Kill, DropScan, PrunePartial
<1>3. ASSUME NEW s \in Sizes, NEW g \in File,
             Send(s, g) \/ SendComparison(s, g) \/ Take(s, g)
      PROVE  job[f] = "done" /\ stat'[f] = stat[f] /\ result'[f] = result[f]
  BY <1>0, <1>3 DEF Send, SendComparison, Enqueue, Take, ReadType
<1>4. ASSUME NEW g \in File, Fail(g)
      PROVE  job[f] = "done" /\ stat'[f] = stat[f] /\ result'[f] = result[f]
  BY <1>0, <1>4 DEF Fail, ReadType
<1>5. ASSUME NEW s \in Sizes, NEW g \in File, g # f,
             Lookup(s, g) \/ Answer(s, g) \/ AnswerEqual(s, g)
      PROVE  job[f] = "done" /\ stat'[f] = stat[f] /\ result'[f] = result[f]
  <2>1. CASE Lookup(s, g)
    BY <1>0, <1>5, <2>1 DEF Lookup, ReadType
  <2>2. CASE Answer(s, g)
    BY <1>0, <1>5, <2>2 DEF Answer, ReadType
  <2>3. CASE AnswerEqual(s, g)
    BY <1>0, <1>5, <2>3 DEF AnswerEqual, ReadType
  <2> QED BY <1>5, <2>1, <2>2, <2>3
<1>6. CASE UNCHANGED reading
  BY <1>6
<1> QED BY <1>2, <1>3, <1>4, <1>5, <1>6, ReadFrame

\* How a file comes to be read.
LEMMA ReadingSteps ==
  ASSUME TypeOK, Staged, [Next]_vars, NEW f \in File, job'[f] = "reading"
  PROVE  \/ job[f] = "reading" /\ seen'[f] = seen[f] /\ stat'[f] = stat[f]
         \/ \E s \in Sizes : Take(s, f)
<1> USE DEF reading
<1>0. ReadType
  BY TypeParts
<1>1. CASE Finish \/ Kill \/ \E s \in Sizes : PrunePartial(s)
  BY <1>1 DEF Finish, Kill, DropScan, PrunePartial, Forget
<1>2. ASSUME NEW s \in Sizes, NEW g \in File, Send(s, g) \/ SendComparison(s, g)
      PROVE  job[f] = "reading" /\ seen'[f] = seen[f] /\ stat'[f] = stat[f]
  BY <1>0, <1>2 DEF Send, SendComparison, Enqueue, ReadType
<1>3. ASSUME NEW g \in File, Fail(g)
      PROVE  job[f] = "reading" /\ seen'[f] = seen[f] /\ stat'[f] = stat[f]
  BY <1>0, <1>3 DEF Fail, ReadType
<1>4. ASSUME NEW s \in Sizes, NEW g \in File,
             \/ Lookup(s, g) \/ Answer(s, g) \/ AnswerEqual(s, g)
             \/ g # f /\ Take(s, g)
      PROVE  job[f] = "reading" /\ seen'[f] = seen[f] /\ stat'[f] = stat[f]
  <2>1. CASE Lookup(s, g)
    BY <1>0, <2>1 DEF Lookup, ReadType
  <2>2. CASE Answer(s, g)
    BY <1>0, <2>2 DEF Answer, ReadType
  <2>3. CASE AnswerEqual(s, g)
    BY <1>0, <2>3 DEF AnswerEqual, ReadType
  <2>4. CASE g # f /\ Take(s, g)
    BY <1>0, <2>4 DEF Take, ReadType
  <2> QED BY <1>4, <2>1, <2>2, <2>3, <2>4
<1>5. CASE UNCHANGED reading
  BY <1>5
<1> QED BY <1>1, <1>2, <1>3, <1>4, <1>5, ReadFrame

\* How a file comes to have a stat-ed mtime: it is the one it has.
LEMMA StatSteps ==
  ASSUME TypeOK, Staged, [Next]_vars, NEW f \in File
  PROVE  \/ stat'[f] = stat[f]
         \/ stat'[f] = NoFile
         \/ stat'[f][2] = mtime[f] /\ ~Environment
<1> USE DEF reading
<1>0. ReadType
  BY TypeParts
<1>1. CASE Finish \/ Kill \/ \E s \in Sizes : PrunePartial(s)
  BY <1>1 DEF Finish, Kill, DropScan, PrunePartial, Forget
<1>2. ASSUME NEW s \in Sizes, NEW g \in File,
             \/ Send(s, g) \/ SendComparison(s, g) \/ Take(s, g) \/ Answer(s, g)
             \/ AnswerEqual(s, g)
      PROVE  stat'[f] = stat[f]
  BY <1>2 DEF Send, SendComparison, Enqueue, Take, Answer, AnswerEqual
<1>3. ASSUME NEW g \in File, Fail(g) PROVE stat'[f] = stat[f]
  BY <1>3 DEF Fail
<1>4. ASSUME NEW s \in Sizes, NEW g \in File, Lookup(s, g)
      PROVE  stat'[f] = stat[f] \/ stat'[f] = NoFile \/ (stat'[f][2] = mtime[f] /\ ~Environment)
  <2>1. ~Environment
    <3>1. job' # job
      BY <1>0, <1>4 DEF Lookup, ReadType
    <3> QED BY <3>1 DEF Environment
  <2>2. CASE g = f
    BY <1>0, <1>4, <2>1, <2>2 DEF Lookup, ReadType
  <2>3. CASE g # f
    BY <1>0, <1>4, <2>3 DEF Lookup, ReadType
  <2> QED BY <2>2, <2>3
<1>5. CASE UNCHANGED reading
  BY <1>5
<1> QED BY <1>1, <1>2, <1>3, <1>4, <1>5, ReadFrame

\* How a file comes to have an entry in the cache.
LEMMA CacheSteps ==
  ASSUME TypeOK, Staged, [Next]_vars, NEW f \in File
  PROVE  \/ cache'[f] = cache[f]
         \/ \E s \in Sizes :
               /\ EndChunk(s) /\ f \in members[s] /\ stage[s] = "full" /\ job[f] = "done"
               /\ stat[f] # NoFile
               /\ cache'[f].mtime = stat[f][2] /\ cache'[f].hash = result[f]
<1>1. ASSUME NEW s \in Sizes, EndChunk(s), cache'[f] # cache[f]
      PROVE  /\ f \in members[s] /\ stage[s] = "full" /\ job[f] = "done" /\ stat[f] # NoFile
             /\ cache'[f].mtime = stat[f][2] /\ cache'[f].hash = result[f]
  <2>1. cache' = Entries(s)
    BY <1>1 DEF EndChunk
  <2>2. f \in chunk[s] /\ job[f] = "done" /\ stat[f] # NoFile
    BY <1>1, <2>1 DEF Entries
  <2>3. cache'[f] = [size |-> stat[f][1], mtime |-> stat[f][2], hash |-> result[f]]
    BY <2>1, <2>2 DEF Entries
  <2> QED BY <1>1, <2>2, <2>3 DEF EndChunk, TypeOK
<1> QED BY <1>1, QuietSteps

\* The mtimes that are compared are numbers.
LEMMA Clocks ==
  ASSUME TypeOK, NEW f \in File
  PROVE  /\ Now \in Nat /\ mtime[f] \in Nat
         /\ cache[f] # NoFile => cache[f].mtime \in Nat
         /\ imported[f] # NoFile => imported[f].mtime \in Nat
         /\ stat[f] # NoFile => stat[f][2] \in Nat
<1>1. env \in 0..EnvSteps /\ EnvSteps \in Nat
  BY DEF TypeOK
<1>2. Now \in Nat
  BY <1>1 DEF Now
<1>3. 0..EnvSteps \subseteq Nat
  OBVIOUS
<1>4. mtime[f] \in 0..EnvSteps
  BY DEF TypeOK
<1>5. /\ cache[f] # NoFile => cache[f].mtime \in 0..EnvSteps
      /\ imported[f] # NoFile => imported[f].mtime \in 0..EnvSteps
  BY DEF TypeOK, Entry
<1>6. stat[f] # NoFile => stat[f][2] \in 0..EnvSteps
  BY DEF TypeOK
<1> QED BY <1>2, <1>3, <1>4, <1>5, <1>6

LEMMA ReadingClocks ==
  ASSUME TypeOK, Staged, NEW f \in File, job[f] = "reading"
  PROVE  /\ seen[f][1] = <<seen[f][1][1], seen[f][1][2]>>
         /\ seen[f][1][2] \in Nat
<1>1. seen[f] \in (Opened \X {NoFile}) \cup (Opened \X Opened)
  BY DEF Staged, ReadingOK
<1>2. seen[f][1] \in Opened
  BY <1>1
<1> QED BY <1>2 DEF Opened

\* What a thread has opened is what was there.
LEMMA TakeSees ==
  ASSUME TypeOK, NEW s \in Sizes, NEW f \in File, Take(s, f)
  PROVE  /\ seen'[f][1] = <<file[f], mtime[f]>> /\ stat'[f] = stat[f]
         /\ file'[f] = file[f] /\ mtime'[f] = mtime[f]
BY DEF Take, TypeOK, At, disk

LEMMA OrderedStep ==
  ASSUME TypeOK, TypeOK', Staged, Staged', Ordered, [Next]_vars PROVE Ordered'
<1> SUFFICES ASSUME Exact, NEW f \in File PROVE OrderedAt(f)'
  BY SetupStays DEF Ordered
<1>1. OrderedAt(f) /\ ~setup.renames /\ setup' = setup
  BY SetupStays DEF Ordered, Exact
<1>2. /\ mtime'[f] <= Now' /\ mtime[f] <= mtime'[f]
      /\ imported'[f] = imported[f] \/ imported'[f] = NoFile
  BY <1>1, Clocks, FileSteps DEF OrderedAt
<1>3. /\ Now' \in Nat /\ mtime'[f] \in Nat
      /\ cache'[f] # NoFile => cache'[f].mtime \in Nat
      /\ stat'[f] # NoFile => stat'[f][2] \in Nat
  <2>1. mtime'[f] \in 0..EnvSteps
    BY DEF TypeOK
  <2>6. env' \in 0..EnvSteps
    BY DEF TypeOK
  <2>2. cache'[f] # NoFile => cache'[f].mtime \in 0..EnvSteps
    BY DEF TypeOK, Entry
  <2>3. stat'[f] # NoFile => stat'[f][2] \in 0..EnvSteps
    BY DEF TypeOK
  <2>4. EnvSteps \in Nat /\ 0..EnvSteps \subseteq Nat
    OBVIOUS
  <2>7. ASSUME NEW n \in 0..EnvSteps PROVE EnvSteps - n \in Nat
    BY ONLY <2>4, <2>7
  <2>5. Now' \in Nat
    BY ONLY <2>6, <2>7 DEF Now
  <2> QED BY <2>1, <2>2, <2>3, <2>4, <2>5
<1>4. cache'[f] # NoFile => cache'[f].mtime <= mtime'[f]
  <2>1. CASE cache'[f] = cache[f]
    BY <1>1, <1>2, <1>3, <2>1, Clocks DEF OrderedAt
  <2>2. CASE stat[f] # NoFile /\ cache'[f].mtime = stat[f][2]
    BY <1>1, <1>2, <1>3, <2>2, Clocks DEF OrderedAt
  <2> QED BY <2>1, <2>2, CacheSteps
<1>5. imported'[f] # NoFile => setup'.imports /\ imported'[f].mtime = 0
  BY <1>1, <1>2 DEF OrderedAt
<1>6. stat'[f] # NoFile => stat'[f][2] <= mtime'[f]
  BY <1>1, <1>2, <1>3, StatSteps, Clocks DEF OrderedAt
<1>7. ASSUME job'[f] = "reading"
      PROVE  /\ seen'[f][1][2] <= mtime'[f]
             /\ stat'[f] # NoFile => stat'[f][2] <= seen'[f][1][2]
  <2>1. CASE job[f] = "reading" /\ seen'[f] = seen[f] /\ stat'[f] = stat[f]
    BY <1>1, <1>2, <1>3, <2>1, ReadingClocks, Clocks DEF OrderedAt
  <2>2. ASSUME NEW s \in Sizes, Take(s, f)
        PROVE  /\ seen'[f][1][2] <= mtime'[f]
               /\ stat'[f] # NoFile => stat'[f][2] <= seen'[f][1][2]
    BY <1>1, <2>2, TakeSees, Clocks DEF OrderedAt
  <2> QED BY <1>7, <2>1, <2>2, ReadingSteps
<1> QED BY <1>2, <1>4, <1>5, <1>6, <1>7 DEF OrderedAt

\* Nothing that has a hash joins the groups that are being hashed.
LEMMA StillFull ==
  ASSUME TypeOK, Staged, [Next]_vars, NEW s \in Sizes, NEW f \in File,
         stage'[s] = "full", f \in members'[s], job'[f] = "done"
  PROVE  stage[s] = "full" /\ f \in members[s]
<1> USE DEF group
<1>0. GroupType /\ ReadType
  BY TypeParts
<1>1. CASE UNCHANGED <<pc, group, verification>>
  BY <1>1
<1>2. ~StartScan
  <2>1. ASSUME StartScan PROVE job'[f] = "none"
    BY <2>1 DEF StartScan, Staged, IdleOK, reading
  <2> QED BY <2>1
<1>3. ~Finish /\ ~Kill
  BY DEF Finish, Kill, DropScan, AllSizes
<1>4. ASSUME NEW t \in Sizes, PrunePartial(t) PROVE stage[s] = "full" /\ f \in members[s]
  <2>1. CASE t = s
    BY <1>0, <1>4, <2>1 DEF PrunePartial, Forget, GroupType
  <2>2. CASE t # s
    BY <1>0, <1>4, <2>2 DEF PrunePartial, GroupType
  <2> QED BY <2>1, <2>2
<1>5. ASSUME NEW t \in Sizes, StartChunk(t) \/ EndChunk(t)
      PROVE  stage[s] = "full" /\ f \in members[s]
  BY <1>0, <1>5 DEF StartChunk, EndChunk, GroupType
<1>6. ASSUME NEW t \in Sizes, GroupFull(t) \/ GroupVerified(t)
      PROVE  stage[s] = "full" /\ f \in members[s]
  BY <1>0, <1>6 DEF GroupFull, GroupVerified, GroupType
<1>7. ASSUME NEW t \in Sizes, NEW g \in File, StartVerify(t, g) \/ AnswerEqual(t, g)
      PROVE  stage[s] = "full" /\ f \in members[s]
  BY <1>7 DEF StartVerify, AnswerEqual
<1>8. ASSUME NEW t \in Sizes, GiveUp(t) \/ EndVerify(t)
      PROVE  stage[s] = "full" /\ f \in members[s]
  BY <1>8 DEF GiveUp, EndVerify, Drop
<1> QED BY <1>1, <1>2, <1>3, <1>4, <1>5, <1>6, <1>7, <1>8, GroupFrame

\* What is read from a file that has not been touched since it was opened.
LEMMA AnswerTrue ==
  ASSUME TypeOK, Staged, NEW s \in Sizes, NEW f \in File, Answer(s, f), stage[s] = "full",
         seen[f][1] = At(f)
  PROVE  result'[f] = Hash[file[f]]
<1>1. Digests(s, f) = {Hash[file[f]]}
  BY DEF Digests, At
<1>2. PICK d \in Digests(s, f) : result' = [result EXCEPT ![f] = d]
  BY DEF Answer
<1> QED BY <1>1, <1>2 DEF TypeOK

LEMMA CurrentStep ==
  ASSUME TypeOK, TypeOK', Staged, Staged', Ordered, Ordered', Current, [Next]_vars
  PROVE  Current'
<1> SUFFICES ASSUME Exact
             PROVE  /\ \A f \in File : CurrentAt(f)'
                    /\ \A s \in Sizes : \A f \in members'[s] : ResultAt(s, f)'
  BY SetupStays DEF Current
<1>1. ~setup.renames
  BY DEF Exact
<1>2. \A f \in File : OrderedAt(f) /\ CurrentAt(f)
  BY DEF Ordered, Current
\* A file that was written is known with its old mtimes only.
<1>3. ASSUME NEW f \in File, file'[f] # NoFile
      PROVE  \/ file'[f] = file[f] /\ mtime'[f] = mtime[f] /\ imported'[f] = imported[f]
             \/ mtime'[f] = Now + 1 /\ mtime[f] < mtime'[f] /\ mtime'[f] # 0
  BY <1>1, <1>2, <1>3, FileSteps, Clocks DEF OrderedAt
<1>4. ASSUME NEW f \in File PROVE CurrentAt(f)'
  <2> SUFFICES ASSUME file'[f] # NoFile
               PROVE  /\ cache'[f] # NoFile /\ cache'[f].mtime = mtime'[f] =>
                            cache'[f].hash = Hash[file'[f]]
                      /\ imported'[f] # NoFile /\ mtime'[f] = 0 =>
                            imported'[f].hash = Hash[file'[f]]
                      /\ job'[f] = "reading" /\ seen'[f][1][2] = mtime'[f] =>
                            seen'[f][1][1] = file'[f]
    BY DEF CurrentAt
  <2>1. ASSUME cache'[f] # NoFile, cache'[f].mtime = mtime'[f]
        PROVE  cache'[f].hash = Hash[file'[f]]
    <3>1. CASE cache'[f] = cache[f]
      BY <1>2, <1>3, <2>1, <3>1, Clocks DEF OrderedAt, CurrentAt
    <3>2. ASSUME NEW s \in Sizes, f \in members[s], stage[s] = "full", job[f] = "done",
                 stat[f] # NoFile, cache'[f].mtime = stat[f][2], cache'[f].hash = result[f]
          PROVE  cache'[f].hash = Hash[file'[f]]
      <4>1. ResultAt(s, f)
        BY <3>2 DEF Current
      <4>2. mtime'[f] = mtime[f] /\ file'[f] = file[f]
        <5>1. stat[f][2] <= mtime[f] /\ mtime'[f] = stat[f][2]
          BY <1>2, <2>1, <3>2 DEF OrderedAt
        <5>2. stat[f][2] \in Nat /\ mtime[f] \in Nat
          BY <3>2, Clocks
        <5>3. ~(mtime[f] < mtime'[f])
          BY <5>1, <5>2
        <5> QED BY <1>3, <5>3
      <4> QED BY <2>1, <3>2, <4>1, <4>2 DEF ResultAt
    <3> QED BY <3>1, <3>2, CacheSteps
  <2>2. imported'[f] # NoFile /\ mtime'[f] = 0 => imported'[f].hash = Hash[file'[f]]
    BY <1>2, <1>3 DEF CurrentAt
  <2>3. ASSUME job'[f] = "reading", seen'[f][1][2] = mtime'[f]
        PROVE  seen'[f][1][1] = file'[f]
    <3>1. CASE job[f] = "reading" /\ seen'[f] = seen[f] /\ stat'[f] = stat[f]
      BY <1>2, <1>3, <2>3, <3>1, ReadingClocks, Clocks DEF OrderedAt, CurrentAt
    <3>2. CASE \E s \in Sizes : Take(s, f)
      BY <3>2, TakeSees
    <3> QED BY <2>3, <3>1, <3>2, ReadingSteps
  <2> QED BY <2>1, <2>2, <2>3
<1>5. ASSUME NEW s \in Sizes, NEW f \in members'[s] PROVE ResultAt(s, f)'
  <2>0. f \in File
    BY <1>5 DEF TypeOK
  <2> SUFFICES ASSUME stage'[s] = "full", job'[f] = "done", file'[f] # NoFile,
                      stat'[f] # NoFile, stat'[f][2] = mtime'[f]
               PROVE  result'[f] = Hash[file'[f]]
    BY DEF ResultAt
  <2>1. stage[s] = "full" /\ f \in members[s] /\ ResultAt(s, f)
    BY <1>5, <2>0, StillFull DEF Current
  <2>2. CASE job[f] = "done" /\ stat'[f] = stat[f] /\ result'[f] = result[f]
    BY <1>2, <1>3, <2>0, <2>1, <2>2, Clocks DEF OrderedAt, ResultAt
  <2>3. ASSUME NEW t \in Sizes, Lookup(t, f) PROVE result'[f] = Hash[file'[f]]
    <3>1. file[f] # NoFile /\ ~Hit(f) /\ Importable(f) /\ result'[f] = imported[f].hash
          /\ file' = file
      BY <2>0, <2>3 DEF Lookup, disk, TypeOK
    <3>2. imported[f] # NoFile /\ Millis(mtime[f]) = 0 /\ PerMilli = 1
      BY <1>2, <2>0, <3>1 DEF Importable, OrderedAt, Exact
    <3>3. mtime[f] = 0
      BY <2>0, <3>2, Clocks DEF Millis
    <3> QED BY <1>2, <2>0, <3>1, <3>2, <3>3 DEF CurrentAt
  <2>4. ASSUME NEW t \in Sizes, Answer(t, f) PROVE result'[f] = Hash[file'[f]]
    <3>1. t = s /\ job[f] = "reading"
      BY <2>1, <2>4 DEF Answer, Staged, Disjoint
    <3>2. stat'[f] = stat[f] /\ file' = file /\ mtime' = mtime
      BY <2>4 DEF Answer, disk
    <3>3. seen[f][1][2] = mtime[f]
      BY <1>2, <2>0, <3>1, <3>2, ReadingClocks, Clocks DEF OrderedAt
    <3>4. seen[f][1] = At(f)
      BY <1>2, <2>0, <3>1, <3>2, <3>3, ReadingClocks DEF CurrentAt, At
    <3> QED BY <2>0, <2>1, <2>4, <3>1, <3>2, <3>4, AnswerTrue
  <2>5. ASSUME NEW t \in Sizes PROVE ~AnswerEqual(t, f)
    BY <2>1 DEF AnswerEqual, Staged, Disjoint
  <2> QED BY <2>0, <2>2, <2>3, <2>4, <2>5, DoneSteps
<1> QED BY <1>4, <1>5

LEMMA InitOrdered == Init => Ordered /\ Current
<1> SUFFICES ASSUME Init PROVE Ordered /\ Current
  OBVIOUS
<1>1. Now = 0 /\ Millis(0) = 0
  BY DEF Init, Now, Millis
<1>2. ASSUME NEW f \in File PROVE OrderedAt(f) /\ CurrentAt(f)
  BY <1>1, <1>2 DEF Init, AllFiles, OrderedAt, CurrentAt, FclonesEntry
<1>3. \A s \in Sizes : members[s] = {}
  BY DEF Init, AllSizes
<1> QED BY <1>2, <1>3 DEF Ordered, Current

\* An entry of the cache that would be used holds the hash of what is in the
\* file, whatever interleaves with the hashing and with the commits of a chunk,
\* when fclones' milliseconds tell the mtimes apart or nothing is imported.
THEOREM CacheTrue ==
  ASSUME \A s \in Setups : PerMilli = 1 \/ ~s.imports
  PROVE  Spec => []CacheSound
<1>1. Init => TypeOK /\ Staged /\ Ordered /\ Current
  BY InitTyped, InitOrdered
<1>2. TypeOK /\ Staged /\ Ordered /\ Current /\ [Next]_vars
        => (TypeOK /\ Staged /\ Ordered /\ Current)'
  <2> SUFFICES ASSUME TypeOK, Staged, Ordered, Current, [Next]_vars
               PROVE  (TypeOK /\ Staged /\ Ordered /\ Current)'
    OBVIOUS
  <2>1. TypeOK' /\ Staged'
    BY TypeStep, StagedStep
  <2>2. Ordered'
    BY <2>1, OrderedStep
  <2> QED BY <2>1, <2>2, CurrentStep
<1>3. TypeOK /\ Current => CacheSound
  <2> SUFFICES ASSUME TypeOK, Current, ~setup.renames,
                      NEW f \in File, file[f] # NoFile, Hit(f)
               PROVE  cache[f].hash = Hash[file[f]]
    BY DEF CacheSound
  <2>1. Exact
    BY DEF Exact, TypeOK
  <2> QED BY <2>1 DEF Current, CurrentAt, Hit
<1> QED BY <1>1, <1>2, <1>3, PTL DEF Spec
-----------------------------------------------------------------------------
(* What is known of the files that nobody has changed since the scan started. *)

Written == file \in [File -> setup.contents \cup {NoFile}]

OpenedAt(f) == f \notin changed /\ job[f] = "reading" => seen[f][1] = At(f)

HashedAt(s, f) ==
    Exact /\ f \notin changed /\ stage[s] = "full" /\ job[f] = "done" =>
       file[f] # NoFile /\ result[f] = Hash[file[f]]

ComparedAt(s) ==
    ref[s] # NoFile /\ ref[s] \notin changed =>
       /\ \A f \in members[s] : job[f] = "reading" => seen[f][2] = At(ref[s])
       /\ \A f \in equal[s] \ changed : file[f] = file[ref[s]]

Unchanged ==
    /\ Written
    /\ \A f \in File : OpenedAt(f)
    /\ \A s \in Sizes : ComparedAt(s) /\ \A f \in members[s] : HashedAt(s, f)

LEMMA WrittenStep == ASSUME TypeOK, Written, [Next]_vars PROVE Written'
<1>1. CASE Environment
  <2>1. setup' = setup
    BY <1>1 DEF Environment
  <2>2. PICK f \in File, g \in File : Rewrite(f) \/ Remove(f) \/ Rename(f, g)
    BY <1>1 DEF Environment
  <2> QED BY <2>1, <2>2 DEF Rewrite, Remove, Rename, Written
<1>2. CASE UNCHANGED disk
  BY <1>2 DEF disk, Written
<1> QED BY <1>1, <1>2, QuietSteps

LEMMA UnchangedSteps ==
  ASSUME TypeOK, [Next]_vars, NEW f \in File, f \notin changed', ~StartScan
  PROVE  f \notin changed /\ file'[f] = file[f] /\ mtime'[f] = mtime[f]
<1>1. CASE Environment
  <2>1. PICK g \in File, h \in File : Rewrite(g) \/ Remove(g) \/ Rename(g, h)
    BY <1>1 DEF Environment
  <2> QED BY <2>1 DEF Rewrite, Remove, Rename, TypeOK
<1>2. CASE ~Environment
  <2> DEFINE Still == changed' = changed
  <2>1. ASSUME NEW s \in Sizes, PrunePartial(s) \/ StartChunk(s) \/ EndChunk(s) PROVE Still
    BY <2>1 DEF PrunePartial, StartChunk, EndChunk
  <2>2. ASSUME NEW s \in Sizes, GroupFull(s) \/ GiveUp(s) \/ EndVerify(s) \/ GroupVerified(s)
        PROVE  Still
    BY <2>2 DEF GroupFull, GiveUp, EndVerify, GroupVerified, Drop
  <2>3. ASSUME NEW s \in Sizes, NEW g \in File,
               Send(s, g) \/ SendComparison(s, g) \/ Lookup(s, g) \/ StartVerify(s, g)
        PROVE  Still
    BY <2>3 DEF Send, SendComparison, Enqueue, Lookup, StartVerify
  <2>4. ASSUME NEW s \in Sizes, NEW g \in File,
               Take(s, g) \/ Answer(s, g) \/ AnswerEqual(s, g)
        PROVE  Still
    BY <2>4 DEF Take, Answer, AnswerEqual
  <2>5. ASSUME NEW g \in File, Fail(g) PROVE Still
    BY <2>5 DEF Fail
  <2>6. Finish \/ Kill \/ UNCHANGED vars => Still
    BY DEF Finish, Kill, vars
  <2> HIDE DEF Still
  <2>7. Still
    BY <1>2, <2>1, <2>2, <2>3, <2>4, <2>5, <2>6 DEF Next, Pipeline, Pool
  <2> QED BY <1>2, <2>7, QuietSteps DEF Still, disk
<1> QED BY <1>1, <1>2

\* A scan starts with nothing being read, hashed or compared.
LEMMA FreshScan ==
  ASSUME Staged, StartScan
  PROVE  /\ \A f \in File : job'[f] = "none"
         /\ \A s \in Sizes : ref'[s] = NoFile
BY DEF StartScan, Staged, IdleOK, StageOK, reading, verification

LEMMA OpenedStep ==
  ASSUME TypeOK, Staged, Unchanged, [Next]_vars, NEW f \in File PROVE OpenedAt(f)'
<1> SUFFICES ASSUME f \notin changed', job'[f] = "reading" PROVE seen'[f][1] = At(f)'
  BY DEF OpenedAt
<1>1. f \notin changed /\ file'[f] = file[f] /\ mtime'[f] = mtime[f]
  BY FreshScan, UnchangedSteps
<1>2. CASE job[f] = "reading" /\ seen'[f] = seen[f]
  BY <1>1, <1>2 DEF Unchanged, OpenedAt, At
<1>3. CASE \E s \in Sizes : Take(s, f)
  BY <1>1, <1>3, TakeSees DEF At
<1> QED BY <1>2, <1>3, ReadingSteps

LEMMA HashedStep ==
  ASSUME TypeOK, Staged, Ordered, Current, Unchanged, [Next]_vars,
         NEW s \in Sizes, NEW f \in members'[s], f \in File
  PROVE  HashedAt(s, f)'
<1> SUFFICES ASSUME Exact, f \notin changed', stage'[s] = "full", job'[f] = "done"
             PROVE  file'[f] # NoFile /\ result'[f] = Hash[file'[f]]
  BY SetupStays DEF HashedAt
<1>1. f \notin changed /\ file'[f] = file[f] /\ mtime'[f] = mtime[f]
  BY FreshScan, UnchangedSteps
<1>2. stage[s] = "full" /\ f \in members[s]
  BY StillFull
<1>3. OrderedAt(f) /\ CurrentAt(f) /\ HashedAt(s, f) /\ OpenedAt(f)
  BY <1>2 DEF Ordered, Current, Unchanged
<1>4. CASE job[f] = "done" /\ stat'[f] = stat[f] /\ result'[f] = result[f]
  BY <1>1, <1>2, <1>3, <1>4 DEF HashedAt
<1>5. ASSUME NEW t \in Sizes, Lookup(t, f)
      PROVE  file'[f] # NoFile /\ result'[f] = Hash[file'[f]]
  <2>1. /\ file[f] # NoFile
        /\ \/ Hit(f) /\ result'[f] = cache[f].hash
           \/ Importable(f) /\ result'[f] = imported[f].hash
    BY <1>5 DEF Lookup, TypeOK
  <2>2. CASE Hit(f) /\ result'[f] = cache[f].hash
    BY <1>1, <1>3, <2>1, <2>2 DEF Hit, CurrentAt
  <2>3. CASE Importable(f) /\ result'[f] = imported[f].hash
    <3>1. imported[f] # NoFile /\ Millis(mtime[f]) = 0 /\ PerMilli = 1
      BY <1>3, <2>3 DEF Importable, OrderedAt, Exact
    <3>2. mtime[f] = 0
      BY <3>1, Clocks DEF Millis
    <3> QED BY <1>1, <1>3, <2>1, <2>3, <3>1, <3>2 DEF CurrentAt
  <2> QED BY <2>1, <2>2, <2>3
<1>6. ASSUME NEW t \in Sizes, Answer(t, f)
      PROVE  file'[f] # NoFile /\ result'[f] = Hash[file'[f]]
  <2>1. t = s /\ job[f] = "reading" /\ seen[f][1][1] # NoFile
    BY <1>2, <1>6 DEF Answer, Staged, Disjoint
  <2>2. seen[f][1] = At(f)
    BY <1>1, <1>3, <2>1 DEF OpenedAt
  <2>3. file[f] # NoFile
    BY <2>1, <2>2 DEF At
  <2> QED BY <1>1, <1>2, <1>6, <2>1, <2>2, <2>3, AnswerTrue
<1>7. ASSUME NEW t \in Sizes PROVE ~AnswerEqual(t, f)
  BY <1>2 DEF AnswerEqual, Staged, Disjoint
<1> QED BY <1>4, <1>5, <1>6, <1>7, DoneSteps

\* A size keeps its reference until the group is done with, and what is compared
\* meanwhile joins those that are equal.
LEMMA ComparisonSteps ==
  ASSUME TypeOK, Staged, [Next]_vars, NEW s \in Sizes, ref'[s] # NoFile
  PROVE  \/ /\ ref'[s] = ref[s] /\ stage[s] = "verify" /\ members'[s] \subseteq members[s]
            /\ \/ equal'[s] = equal[s]
               \/ \E f \in File : AnswerEqual(s, f) /\ equal'[s] \subseteq equal[s] \cup {f}
         \/ \E f \in File : StartVerify(s, f)
<1> USE DEF group, verification
<1> DEFINE Same == ref'[s] = ref[s] /\ members'[s] \subseteq members[s] /\ equal'[s] = equal[s]
<1>0. GroupType
  BY TypeParts
<1>1. ref[s] # NoFile => stage[s] = "verify"
  BY ReferenceApart
<1>2. CASE UNCHANGED <<pc, group, verification>>
  BY <1>1, <1>2
<1>3. ~StartScan
  BY FreshScan
<1>4. ~Finish /\ ~Kill
  BY DEF Finish, Kill, DropScan, AllSizes
<1>5. ASSUME NEW t \in Sizes, PrunePartial(t) \/ StartChunk(t) \/ EndChunk(t) PROVE Same
  BY <1>0, <1>5 DEF PrunePartial, StartChunk, EndChunk, GroupType
<1>6. ASSUME NEW t \in Sizes, GroupFull(t) \/ GroupVerified(t) PROVE Same
  BY <1>6 DEF GroupFull, GroupVerified
<1>7. ASSUME NEW t \in Sizes, GiveUp(t) \/ EndVerify(t) PROVE Same
  BY <1>0, <1>7 DEF GiveUp, EndVerify, Drop, GroupType
<1>8. ASSUME NEW t \in Sizes, NEW f \in File, StartVerify(t, f)
      PROVE  Same \/ StartVerify(s, f)
  BY <1>0, <1>8 DEF StartVerify, GroupType
<1>9. ASSUME NEW t \in Sizes, NEW f \in File, AnswerEqual(t, f)
      PROVE  Same \/ ( /\ AnswerEqual(s, f) /\ equal'[s] \subseteq equal[s] \cup {f}
                       /\ ref'[s] = ref[s] /\ members'[s] = members[s] )
  <2>1. ref' = ref /\ members' = members
    BY <1>9 DEF AnswerEqual
  <2>4. PICK verdict \in Verdicts(t, f) :
           equal' = [equal EXCEPT ![t] = IF verdict \/ f = ref[t] THEN @ \cup {f} ELSE @]
    BY ONLY <1>9 DEF AnswerEqual
  <2>5. equal \in [Sizes -> SUBSET File]
    BY ONLY <1>0 DEF GroupType
  <2>2. CASE t = s
    <3>1. equal'[s] \subseteq equal[s] \cup {f}
      BY ONLY <2>2, <2>4, <2>5
    <3> QED BY ONLY <1>9, <2>1, <2>2, <3>1
  <2>3. CASE t # s
    <3>1. equal'[s] = equal[s]
      BY ONLY <2>3, <2>4, <2>5
    <3> QED BY ONLY <2>1, <3>1
  <2> QED BY <2>2, <2>3
<1> HIDE DEF group, verification
<1>10. \/ Same
       \/ \E f \in File :
             \/ StartVerify(s, f)
             \/ /\ AnswerEqual(s, f) /\ equal'[s] \subseteq equal[s] \cup {f}
                /\ ref'[s] = ref[s] /\ members'[s] = members[s]
  <2>1. UNCHANGED <<pc, group, verification>> => Same
    BY DEF group, verification
  <2> HIDE DEF Same
  <2> QED BY <1>3, <1>4, <1>5, <1>6, <1>7, <1>8, <1>9, <2>1, GroupFrame
<1> QED BY <1>1, <1>10

LEMMA VerdictTrue ==
  ASSUME TypeOK, Staged, NEW s \in Sizes, NEW f \in File, AnswerEqual(s, f),
         seen[f][1] = At(f), seen[f][2] = At(ref[s]),
         f \in equal'[s], f \notin equal[s], f # ref[s]
  PROVE  file[f] = file[ref[s]]
<1>1. seen[f] = <<At(f), At(ref[s])>>
  <2>1. seen[f] \in (Opened \X {NoFile}) \cup (Opened \X Opened)
    BY DEF AnswerEqual, Staged, ReadingOK
  <2>2. seen[f] = <<seen[f][1], seen[f][2]>>
    BY <2>1
  <2> QED BY <2>2
<1>2. Verdicts(s, f) = {file[f] = file[ref[s]]}
  BY <1>1 DEF Verdicts
<1>3. PICK verdict \in Verdicts(s, f) :
         equal' = [equal EXCEPT ![s] = IF verdict \/ f = ref[s] THEN @ \cup {f} ELSE @]
  BY DEF AnswerEqual
<1>4. verdict
  BY <1>3 DEF TypeOK
<1> QED BY <1>2, <1>4

LEMMA ComparedStep ==
  ASSUME TypeOK, Staged, Unchanged, [Next]_vars, NEW s \in Sizes PROVE ComparedAt(s)'
<1> DEFINE r == ref[s]
<1> SUFFICES ASSUME ref'[s] # NoFile, ref'[s] \notin changed'
             PROVE  /\ \A f \in members'[s] : job'[f] = "reading" => seen'[f][2] = At(ref[s])'
                    /\ \A f \in equal'[s] \ changed' : file'[f] = file'[ref'[s]]
  BY DEF ComparedAt
<1>1. ASSUME NEW f \in File, StartVerify(s, f)
      PROVE  /\ \A g \in members'[s] : job'[g] # "reading"
             /\ equal'[s] = {}
  <2>1. /\ stage[s] = "verify" /\ ref[s] = NoFile /\ members' = members /\ job' = job
        /\ equal' = equal
    BY <1>1 DEF StartVerify, group, reading
  <2> QED BY <2>1 DEF Staged, JobsOK, JobOK, VerifyOK
<1>2. ASSUME r # NoFile, ref'[s] = r, stage[s] = "verify", members'[s] \subseteq members[s],
             \/ equal'[s] = equal[s]
             \/ \E f \in File : AnswerEqual(s, f) /\ equal'[s] \subseteq equal[s] \cup {f}
      PROVE  /\ \A f \in members'[s] : job'[f] = "reading" => seen'[f][2] = At(ref[s])'
             /\ \A f \in equal'[s] \ changed' : file'[f] = file'[r]
  <2>0. ~StartScan /\ r \in File
    BY <1>2, FreshScan, ReferenceApart
  <2>1. r \notin changed /\ file'[r] = file[r] /\ mtime'[r] = mtime[r]
    BY <1>2, <2>0, UnchangedSteps
  <2>2. At(ref[s])' = At(r)
    BY <1>2, <2>1 DEF At
  <2>3. /\ \A f \in members[s] : job[f] = "reading" => seen[f][2] = At(r)
        /\ \A f \in equal[s] \ changed : file[f] = file[r]
    BY <1>2, <2>1 DEF Unchanged, ComparedAt
  <2>4. ASSUME NEW f \in members'[s], job'[f] = "reading" PROVE seen'[f][2] = At(r)
    <3>0. f \in members[s] /\ f \in File
      BY <1>2, <2>4 DEF TypeOK
    <3>1. CASE job[f] = "reading" /\ seen'[f] = seen[f]
      BY <2>3, <3>0, <3>1
    <3>2. ASSUME NEW t \in Sizes, Take(t, f) PROVE seen'[f][2] = At(r)
      <4>1. t = s
        BY <3>0, <3>2 DEF Take, Staged, Disjoint
      <4> QED BY <1>2, <3>0, <3>2, <4>1 DEF Take, TypeOK
    <3> QED BY <2>4, <3>0, <3>1, <3>2, ReadingSteps
  <2>5. ASSUME NEW f \in equal'[s], f \notin changed' PROVE file'[f] = file'[r]
    <3>1. CASE f \in equal[s]
      <4>1. f \in File
        BY <3>1 DEF TypeOK
      <4>2. f \notin changed /\ file'[f] = file[f]
        BY <2>0, <2>5, <4>1, UnchangedSteps
      <4> QED BY <2>1, <2>3, <3>1, <4>2
    <3>2. ASSUME f \notin equal[s], AnswerEqual(s, f), f \in File, f # r
          PROVE  file'[f] = file'[r]
      <4>1. f \notin changed /\ file'[f] = file[f]
        BY <2>0, <2>5, <3>2, UnchangedSteps
      <4>2. f \in members[s] /\ job[f] = "reading"
        BY <3>2 DEF AnswerEqual
      <4>3. seen[f][1] = At(f) /\ seen[f][2] = At(r)
        BY <2>3, <3>2, <4>1, <4>2 DEF Unchanged, OpenedAt
      <4> QED BY <2>1, <2>5, <3>2, <4>1, <4>3, VerdictTrue
    <3> QED BY <1>2, <2>5, <3>1, <3>2
  <2> QED BY <2>2, <2>4, <2>5
<1> QED BY <1>1, <1>2, ComparisonSteps

LEMMA UnchangedStep ==
  ASSUME TypeOK, Staged, Ordered, Current, Unchanged, [Next]_vars PROVE Unchanged'
<1>1. \A s \in Sizes : members'[s] \subseteq File
  BY TypeStep DEF TypeOK
<1>2. \A s \in Sizes : \A f \in members'[s] : HashedAt(s, f)'
  BY <1>1, HashedStep
<1>3. Written' /\ (\A f \in File : OpenedAt(f)') /\ (\A s \in Sizes : ComparedAt(s)')
  BY WrittenStep, OpenedStep, ComparedStep DEF Unchanged
<1> QED BY <1>2, <1>3 DEF Unchanged

\* Where the groups that are reported come from.
LEMMA ReportSteps ==
  ASSUME TypeOK, [Next]_vars, NEW g \in reported'
  PROVE  \/ g \in reported /\ ~StartScan
         \/ StartScan /\ \E s \in Sizes \cap {0} : g = Found(s)
         \/ \E s \in Sizes : GroupFull(s) /\ ~setup.verify /\ g \in SameHash(s)
         \/ \E s \in Sizes : EndVerify(s) /\ g = equal[s]
<1> DEFINE Still == reported' = reported \/ reported' = {}
<1>1. CASE StartScan
  BY <1>1 DEF StartScan
<1>2. ASSUME NEW s \in Sizes, GroupFull(s)
      PROVE  g \in reported \/ (~setup.verify /\ g \in SameHash(s))
  BY <1>2 DEF GroupFull
<1>3. ASSUME NEW s \in Sizes, EndVerify(s) PROVE g \in reported \/ g = equal[s]
  BY <1>3 DEF EndVerify
<1>4. ASSUME NEW s \in Sizes, PrunePartial(s) \/ StartChunk(s) \/ EndChunk(s) PROVE Still
  BY <1>4 DEF PrunePartial, StartChunk, EndChunk
<1>5. ASSUME NEW s \in Sizes, GiveUp(s) \/ GroupVerified(s) PROVE Still
  BY <1>5 DEF GiveUp, GroupVerified
<1>6. ASSUME NEW s \in Sizes, NEW f \in File,
             Send(s, f) \/ SendComparison(s, f) \/ Lookup(s, f) \/ StartVerify(s, f)
      PROVE  Still
  BY <1>6 DEF Send, SendComparison, Enqueue, Lookup, StartVerify
<1>7. ASSUME NEW s \in Sizes, NEW f \in File, Take(s, f) \/ Answer(s, f) \/ AnswerEqual(s, f)
      PROVE  Still
  BY <1>7 DEF Take, Answer, AnswerEqual
<1>8. ASSUME NEW f \in File, Fail(f) PROVE Still
  BY <1>8 DEF Fail
<1>9. Finish \/ Kill \/ Environment \/ UNCHANGED vars => Still
  BY DEF Finish, Kill, Environment, vars
<1>10. Still => g \in reported
  OBVIOUS
<1> HIDE DEF Still
<1> QED BY <1>1, <1>2, <1>3, <1>4, <1>5, <1>6, <1>7, <1>8, <1>9, <1>10 DEF Next, Pipeline, Pool

\* Between two contents a file can have here, the hash tells the difference, and
\* the mtimes that the cache and fclones go by tell the changes.
HashesTell(s) ==
    /\ ~s.renames /\ (PerMilli = 1 \/ ~s.imports)
    /\ \A c, d \in s.contents : Hash[c] = Hash[d] => c = d

LEMMA ReportedStep ==
  ASSUME TypeOK, Staged, Unchanged, ReportedEqual, [Next]_vars,
         setup.verify \/ HashesTell(setup)
  PROVE  ReportedEqual'
<1> SUFFICES ASSUME NEW g \in reported', g \cap changed' = {}, NEW e \in g, NEW f \in g
             PROVE  file'[e] = file'[f]
  BY DEF ReportedEqual
<1>1. CASE g \in reported /\ ~StartScan
  <2>1. e \in File /\ f \in File
    BY <1>1 DEF TypeOK
  <2>2. \A h \in g : h \notin changed /\ file'[h] = file[h]
    <3>1. g \subseteq File /\ \A h \in g : h \notin changed'
      BY <1>1 DEF TypeOK
    <3> QED BY <1>1, <3>1, UnchangedSteps
  <2> QED BY <1>1, <2>2 DEF ReportedEqual
<1>2. CASE StartScan /\ \E s \in Sizes \cap {0} : g = Found(s)
  <2>1. e \in File /\ f \in File /\ file[e] \in Content /\ file[f] \in Content
        /\ Size[file[e]] = 0 /\ Size[file[f]] = 0
    BY <1>2 DEF Found, SizeAt, TypeOK
  <2>2. file' = file
    BY <1>2 DEF StartScan, disk
  <2> QED BY <2>1, <2>2
<1>3. ASSUME NEW s \in Sizes, GroupFull(s), ~setup.verify, g \in SameHash(s)
      PROVE  file'[e] = file'[f]
  <2>1. file' = file /\ changed' = changed /\ stage[s] = "full"
    BY <1>3 DEF GroupFull, disk
  <2>2. e \in hashed[s] /\ f \in hashed[s] /\ result[e] = result[f]
    BY <1>3 DEF SameHash, SameResult
  <2>3. \A h \in {e, f} : h \in members[s] /\ h \in File /\ job[h] = "done"
    BY <2>1, <2>2 DEF TypeOK, Staged, JobsOK, JobOK
  <2>4. Exact /\ HashesTell(setup)
    BY <1>3 DEF Exact, HashesTell
  <2>5. \A h \in {e, f} : file[h] # NoFile /\ result[h] = Hash[file[h]]
    BY <2>1, <2>3, <2>4 DEF Unchanged, HashedAt
  <2>6. file[e] \in setup.contents /\ file[f] \in setup.contents
    BY <2>3, <2>5 DEF Unchanged, Written
  <2> QED BY <2>1, <2>2, <2>4, <2>5, <2>6 DEF HashesTell
<1>4. ASSUME NEW s \in Sizes, EndVerify(s), g = equal[s] PROVE file'[e] = file'[f]
  <2>1. file' = file /\ changed' = changed
    BY <1>4 DEF EndVerify, Drop, disk
  <2>2. ref[s] # NoFile /\ ref[s] \in g
    BY <1>4 DEF Staged, VerifyOK
  <2> QED BY <1>4, <2>1, <2>2 DEF Unchanged, ComparedAt
<1> QED BY <1>1, <1>2, <1>3, <1>4, ReportSteps

\* A group that is reported holds equal files, as far as they have not changed
\* since the scan started: whatever the hashes are when the files are compared
\* (verify_matches), and else when the hashes and mtimes that are trusted tell.
THEOREM ReportsTrue ==
  ASSUME \A s \in Setups : s.verify \/ HashesTell(s)
  PROVE  Spec => []ReportedEqual
<1> DEFINE Inv == TypeOK /\ Staged /\ Ordered /\ Current /\ Unchanged /\ ReportedEqual
<1>1. Init => Inv
  <2>1. Init => Unchanged /\ ReportedEqual
    BY DEF Init, AllFiles, AllSizes, Unchanged, Written, OpenedAt, ComparedAt, ReportedEqual
  <2> QED BY <2>1, InitTyped, InitOrdered
<1>2. Inv /\ [Next]_vars => Inv'
  <2> SUFFICES ASSUME TypeOK, Staged, Ordered, Current, Unchanged, ReportedEqual, [Next]_vars
               PROVE  Inv'
    OBVIOUS
  <2>1. TypeOK' /\ Staged'
    BY TypeStep, StagedStep
  <2>2. Ordered'
    BY <2>1, OrderedStep
  <2>3. Current'
    BY <2>1, <2>2, CurrentStep
  <2>4. Unchanged'
    BY UnchangedStep
  <2>5. setup.verify \/ HashesTell(setup)
    BY DEF TypeOK
  <2>6. ReportedEqual'
    BY <2>5, ReportedStep
  <2> QED BY <2>1, <2>2, <2>3, <2>4, <2>6
<1>3. Inv => ReportedEqual
  OBVIOUS
<1> HIDE DEF Inv
<1> QED BY <1>1, <1>2, <1>3, PTL DEF Spec
-----------------------------------------------------------------------------
(* Equal files that nobody changes and that can be read stay together from   *)
(* the walk to the report.                                                   *)

FailedOK == \A f \in File : job[f] = "failed" => f \in errors

SampledAt(s, f) ==
    f \notin changed /\ stage[s] = "partial" /\ job[f] = "done" =>
       file[f] # NoFile /\ result[f] = Sample[file[f]]

Sampled == \A s \in Sizes : \A f \in members[s] : SampledAt(s, f)

\* e and f are duplicates that a scan has to find.
Pair(e, f) == /\ {e, f} \cap (changed \cup errors) = {}
              /\ e # f /\ file[e] = file[f] /\ file[e] # NoFile

InOneGroup(e, f) == \E g \in reported : {e, f} \subseteq g

TogetherAt(e, f) ==
    Pair(e, f) => \/ /\ stage[SizeAt(e)] \in {"partial", "full"}
                     /\ {e, f} \subseteq members[SizeAt(e)]
                  \/ InOneGroup(e, f)

Together ==
    pc = "hashing" /\ Exact /\ ~setup.verify => \A e, f \in File : TogetherAt(e, f)

LEMMA ErrorSteps ==
  ASSUME TypeOK, [Next]_vars, ~StartScan PROVE errors \subseteq errors'
<1> DEFINE Still == errors' = errors
<1>1. ASSUME NEW s \in Sizes, PrunePartial(s) \/ StartChunk(s) \/ EndChunk(s) PROVE Still
  BY <1>1 DEF PrunePartial, StartChunk, EndChunk
<1>2. ASSUME NEW s \in Sizes, GroupFull(s) \/ GiveUp(s) \/ EndVerify(s) \/ GroupVerified(s)
      PROVE  Still
  BY <1>2 DEF GroupFull, GiveUp, EndVerify, GroupVerified, Drop
<1>3. ASSUME NEW s \in Sizes, NEW g \in File,
             Send(s, g) \/ SendComparison(s, g) \/ Lookup(s, g) \/ StartVerify(s, g)
      PROVE  Still
  BY <1>3 DEF Send, SendComparison, Enqueue, Lookup, StartVerify
<1>4. ASSUME NEW s \in Sizes, NEW g \in File,
             Take(s, g) \/ Answer(s, g) \/ AnswerEqual(s, g)
      PROVE  Still
  BY <1>4 DEF Take, Answer, AnswerEqual
<1>5. ASSUME NEW g \in File, Fail(g) PROVE errors \subseteq errors'
  BY <1>5 DEF Fail, ReportError
<1>6. Finish \/ Kill \/ Environment \/ UNCHANGED vars => Still
  BY DEF Finish, Kill, Environment, vars
<1>7. Still => errors \subseteq errors'
  OBVIOUS
<1> HIDE DEF Still
<1> QED BY <1>1, <1>2, <1>3, <1>4, <1>5, <1>6, <1>7 DEF Next, Pipeline, Pool

\* A read fails only with an error that is reported.
LEMMA FailedStep ==
  ASSUME TypeOK, Staged, FailedOK, [Next]_vars PROVE FailedOK'
<1> USE DEF reading
<1>0. ReadType
  BY TypeParts
<1> SUFFICES ASSUME NEW f \in File, job'[f] = "failed" PROVE f \in errors'
  BY DEF FailedOK
<1>1. ~StartScan
  BY FreshScan
<1>2. job[f] = "failed" => f \in errors'
  BY <1>1, ErrorSteps DEF FailedOK
<1>3. CASE Finish \/ Kill \/ \E s \in Sizes : PrunePartial(s)
  BY <1>2, <1>3 DEF Finish, Kill, DropScan, PrunePartial, Forget
<1>4. ASSUME NEW s \in Sizes, NEW g \in File,
             Send(s, g) \/ SendComparison(s, g) \/ Take(s, g)
      PROVE  job[f] = "failed"
  BY <1>0, <1>4 DEF Send, SendComparison, Enqueue, Take, ReadType
<1>5. ASSUME NEW s \in Sizes, NEW g \in File,
             Lookup(s, g) \/ Answer(s, g) \/ AnswerEqual(s, g)
      PROVE  job[f] = "failed"
  BY <1>0, <1>5 DEF Lookup, Answer, AnswerEqual, ReadType
<1>6. ASSUME NEW g \in File, Fail(g) PROVE job[f] = "failed" \/ f \in errors'
  BY <1>0, <1>6 DEF Fail, ReportError, ReadType
<1>7. CASE UNCHANGED reading
  BY <1>2, <1>7
<1> QED BY <1>2, <1>3, <1>4, <1>5, <1>6, <1>7, ReadFrame

\* What a step makes of a group that is being sampled or hashed.
LEMMA StageSteps ==
  ASSUME TypeOK, Staged, [Next]_vars, NEW s \in Sizes
  PROVE  \/ stage'[s] = stage[s] /\ members'[s] = members[s]
         \/ StartScan \/ Finish \/ Kill
         \/ PrunePartial(s) \/ EndChunk(s) \/ GroupFull(s) \/ GroupVerified(s)
<1> USE DEF group
<1> DEFINE Same == stage'[s] = stage[s] /\ members'[s] = members[s]
<1>0. GroupType
  BY TypeParts
<1>1. UNCHANGED <<pc, group, verification>> => Same
  OBVIOUS
<1>2. ASSUME NEW t \in Sizes, t # s, PrunePartial(t) \/ EndChunk(t) PROVE Same
  BY <1>0, <1>2 DEF PrunePartial, EndChunk, GroupType
<1>3. ASSUME NEW t \in Sizes, t # s, GroupFull(t) \/ GroupVerified(t) PROVE Same
  BY <1>0, <1>3 DEF GroupFull, GroupVerified, GroupType
<1>4. ASSUME NEW t \in Sizes, StartChunk(t) \/ GiveUp(t) \/ EndVerify(t) PROVE Same
  BY <1>4 DEF StartChunk, GiveUp, EndVerify, Drop
<1>5. ASSUME NEW t \in Sizes, NEW f \in File, StartVerify(t, f) \/ AnswerEqual(t, f) PROVE Same
  BY <1>5 DEF StartVerify, AnswerEqual
<1> HIDE DEF Same
<1>6. Same => stage'[s] = stage[s] /\ members'[s] = members[s]
  BY DEF Same
<1> QED BY <1>1, <1>2, <1>3, <1>4, <1>5, <1>6, GroupFrame

LEMMA SampledStep ==
  ASSUME TypeOK, Staged, Unchanged, Sampled, [Next]_vars PROVE Sampled'
<1> SUFFICES ASSUME NEW s \in Sizes, NEW f \in members'[s], f \in File, f \notin changed',
                    stage'[s] = "partial", job'[f] = "done"
             PROVE  file'[f] # NoFile /\ result'[f] = Sample[file'[f]]
  <2>1. \A s \in Sizes : members'[s] \subseteq File
    BY TypeStep DEF TypeOK
  <2> QED BY <2>1 DEF Sampled, SampledAt
<1>1. f \notin changed /\ file'[f] = file[f] /\ ~StartScan
  BY FreshScan, UnchangedSteps
<1>2. stage[s] = "partial" /\ f \in members[s]
  <2>1. ~Finish /\ ~Kill
    BY DEF Finish, Kill, DropScan, AllSizes
  <2>2. ~PrunePartial(s) /\ ~EndChunk(s) /\ ~GroupFull(s) /\ ~GroupVerified(s)
    BY DEF PrunePartial, EndChunk, GroupFull, GroupVerified, TypeOK
  <2> QED BY <1>1, <2>1, <2>2, StageSteps
<1>3. CASE job[f] = "done" /\ result'[f] = result[f]
  BY <1>1, <1>2, <1>3 DEF Sampled, SampledAt
<1>4. ASSUME NEW t \in Sizes PROVE ~Lookup(t, f) /\ ~AnswerEqual(t, f)
  BY <1>2 DEF Lookup, AnswerEqual, Staged, Disjoint, TypeOK
<1>5. ASSUME NEW t \in Sizes, Answer(t, f)
      PROVE  file'[f] # NoFile /\ result'[f] = Sample[file'[f]]
  <2>1. t = s /\ job[f] = "reading" /\ seen[f][1][1] # NoFile
    BY <1>2, <1>5 DEF Answer, Staged, Disjoint
  <2>2. seen[f][1] = At(f)
    BY <1>1, <2>1 DEF Unchanged, OpenedAt
  <2>3. Digests(s, f) = {Sample[file[f]]}
    BY <1>2, <2>2 DEF Digests, At
  <2>4. PICK d \in Digests(s, f) : result' = [result EXCEPT ![f] = d]
    BY <1>5, <2>1 DEF Answer
  <2>5. file[f] # NoFile
    BY <2>1, <2>2 DEF At
  <2>6. result'[f] = d
    BY <2>4 DEF TypeOK
  <2> QED BY <1>1, <2>3, <2>4, <2>5, <2>6
<1> QED BY <1>3, <1>4, <1>5, DoneSteps

LEMMA TwoMembers ==
  ASSUME NEW S, IsFiniteSet(S), NEW e \in S, NEW f \in S, e # f
  PROVE  Cardinality(S) \in Nat /\ Cardinality(S) > 1
<1> DEFINE T == {e}
<1>0. IsFiniteSet(T) /\ Cardinality(T) = 1 /\ f \notin T /\ {e, f} = T \cup {f}
  BY FS_Singleton
<1>1. IsFiniteSet({e, f}) /\ Cardinality({e, f}) = 2
  <2> HIDE DEF T
  <2>1. IsFiniteSet(T \cup {f}) /\ Cardinality(T \cup {f}) = Cardinality(T) + 1
    BY <1>0, FS_AddElement
  <2>2. Cardinality(T \cup {f}) = 2
    BY <1>0, <2>1
  <2> QED BY <1>0, <2>1, <2>2, Zenon
<1>2. {e, f} \subseteq S
  OBVIOUS
<1>3. Cardinality({e, f}) <= Cardinality(S) /\ Cardinality(S) \in Nat
  BY <1>2, FS_Subset, FS_CardinalityType
<1> QED BY <1>1, <1>3

\* What is reported stays reported until the scan is killed or the next starts.
LEMMA ReportsStay ==
  ASSUME TypeOK, [Next]_vars, ~StartScan, ~Kill PROVE reported \subseteq reported'
<1> DEFINE Still == reported \subseteq reported'
<1>1. ASSUME NEW s \in Sizes, PrunePartial(s) \/ StartChunk(s) \/ EndChunk(s) PROVE Still
  BY <1>1 DEF PrunePartial, StartChunk, EndChunk
<1>2. ASSUME NEW s \in Sizes, GroupFull(s) \/ GiveUp(s) PROVE Still
  BY <1>2 DEF GroupFull, GiveUp
<1>3. ASSUME NEW s \in Sizes, EndVerify(s) \/ GroupVerified(s) PROVE Still
  BY <1>3 DEF EndVerify, GroupVerified
<1>4. ASSUME NEW s \in Sizes, NEW g \in File,
             Send(s, g) \/ SendComparison(s, g) \/ Lookup(s, g) \/ StartVerify(s, g)
      PROVE  Still
  BY <1>4 DEF Send, SendComparison, Enqueue, Lookup, StartVerify
<1>5. ASSUME NEW s \in Sizes, NEW g \in File,
             Take(s, g) \/ Answer(s, g) \/ AnswerEqual(s, g)
      PROVE  Still
  BY <1>5 DEF Take, Answer, AnswerEqual
<1>6. ASSUME NEW g \in File, Fail(g) PROVE Still
  BY <1>6 DEF Fail
<1>7. Finish \/ Environment \/ UNCHANGED vars => Still
  BY DEF Finish, Environment, vars
<1> HIDE DEF Still
<1>8. Still
  BY <1>1, <1>2, <1>3, <1>4, <1>5, <1>6, <1>7 DEF Next, Pipeline, Pool
<1> QED BY <1>8 DEF Still

\* Only the start of a scan ends the rest.
LEMMA IdleWaits ==
  ASSUME TypeOK, Staged, [Next]_vars, ~StartScan, pc = "idle" PROVE pc' = "idle"
<1>1. Finish \/ Kill => pc' = "idle"
  BY DEF Finish, Kill, DropScan
<1>2. ASSUME NEW s \in Sizes, NEW f \in File,
             \/ PrunePartial(s) \/ StartChunk(s) \/ EndChunk(s) \/ GroupFull(s) \/ GiveUp(s)
             \/ EndVerify(s) \/ GroupVerified(s) \/ StartVerify(s, f) \/ AnswerEqual(s, f)
      PROVE  pc' = pc
  BY <1>2 DEF PrunePartial, StartChunk, EndChunk, GroupFull, GiveUp, EndVerify, Drop,
     GroupVerified, StartVerify, AnswerEqual
<1>3. ASSUME NEW s \in Sizes,
             \/ PrunePartial(s) \/ StartChunk(s) \/ EndChunk(s) \/ GroupFull(s) \/ GiveUp(s)
             \/ EndVerify(s) \/ GroupVerified(s)
      PROVE  pc' = pc
  BY <1>3 DEF PrunePartial, StartChunk, EndChunk, GroupFull, GiveUp, EndVerify, Drop,
     GroupVerified
<1> QED BY <1>1, <1>2, <1>3, GroupFrame

\* Duplicates pass every comparison they are put to.
LEMMA PairSampled ==
  ASSUME TypeOK, Staged, Unchanged, Sampled, FailedOK,
         NEW s \in Sizes, NEW e \in members[s], NEW f \in members[s], Pair(e, f),
         PrunePartial(s)
  PROVE  {e, f} \subseteq members'[s]
<1>1. \A h \in {e, f} : h \in File /\ job[h] = "done" /\ result[h] = Sample[file[e]]
  <2>1. \A h \in {e, f} : h \in File /\ h \in members[s] /\ h \notin changed \cup errors
    BY DEF TypeOK, Pair
  <2>2. \A h \in {e, f} : job[h] = "done"
    BY <2>1 DEF PrunePartial, Answered, FailedOK
  <2>3. \A h \in {e, f} : result[h] = Sample[file[h]]
    BY <2>1, <2>2 DEF PrunePartial, Sampled, SampledAt
  <2> QED BY <2>1, <2>2, <2>3 DEF Pair
<1>2. \A h \in {e, f} : Cardinality(SameResult(members[s], h)) > 1
  <2>1. \A h \in {e, f} : {e, f} \subseteq SameResult(members[s], h)
    BY <1>1 DEF SameResult
  <2>2. \A h \in {e, f} : IsFiniteSet(SameResult(members[s], h))
    <3>1. \A h : SameResult(members[s], h) \subseteq File
      BY DEF SameResult, TypeOK
    <3> QED BY <3>1, FS_Subset
  <2>3. e # f
    BY DEF Pair
  <2> QED BY <2>1, <2>2, <2>3, TwoMembers
<1> QED BY <1>1, <1>2 DEF PrunePartial, TypeOK

LEMMA PairReported ==
  ASSUME TypeOK, Staged, Unchanged, Exact, ~setup.verify,
         NEW s \in Sizes, NEW e \in members[s], NEW f \in members[s], Pair(e, f),
         GroupFull(s)
  PROVE  InOneGroup(e, f)'
<1>1. \A h \in {e, f} : h \in File /\ h \in hashed[s] /\ h \notin changed
  BY DEF TypeOK, Pair, GroupFull
<1>2. \A h \in {e, f} : result[h] = Hash[file[h]]
  BY <1>1 DEF GroupFull, Staged, JobsOK, JobOK, Unchanged, HashedAt
<1>3. {e, f} \subseteq SameResult(hashed[s], e)
  BY <1>1, <1>2 DEF SameResult, Pair
<1>4. Cardinality(SameResult(hashed[s], e)) > 1
  <2>1. SameResult(hashed[s], e) \subseteq File
    BY DEF SameResult, TypeOK
  <2>2. IsFiniteSet(SameResult(hashed[s], e))
    BY <2>1, FS_Subset
  <2> QED BY <1>3, <2>2, TwoMembers DEF Pair
<1>5. SameResult(hashed[s], e) \in SameHash(s)
  BY <1>1, <1>4 DEF SameHash
<1>6. reported' = reported \cup SameHash(s)
  BY DEF GroupFull
<1> QED BY <1>3, <1>5, <1>6 DEF InOneGroup

LEMMA PairFound ==
  ASSUME TypeOK, StartScan, NEW e \in File, NEW f \in File, e # f, file[e] = file[f],
         file[e] # NoFile
  PROVE  \/ /\ stage'[SizeAt(e)] \in {"partial", "full"}
            /\ {e, f} \subseteq members'[SizeAt(e)]
         \/ InOneGroup(e, f)'
<1> DEFINE s == SizeAt(e)
<1>1. s \in Sizes /\ {e, f} \subseteq Found(s)
  BY ContentTypes DEF Found, SizeAt, TypeOK
<1>2. Cardinality(Found(s)) \in Nat /\ Cardinality(Found(s)) > 1
  <2>1. IsFiniteSet(Found(s))
    BY FS_Subset DEF Found
  <2> QED BY <1>1, <2>1, TwoMembers
<1>3. members'[s] = Found(s)
  BY <1>1 DEF StartScan
<1>4. CASE s = 0
  <2>1. Found(s) \in reported'
    BY <1>1, <1>2, <1>4 DEF StartScan
  <2> QED BY <1>1, <2>1 DEF InOneGroup
<1>5. CASE s # 0
  <2>1. stage'[s] \in {"partial", "full"}
    BY <1>1, <1>2, <1>5 DEF StartScan
  <2> QED BY <1>1, <1>3, <2>1
<1> QED BY <1>4, <1>5

LEMMA TogetherStep ==
  ASSUME TypeOK, Staged, Unchanged, Sampled, FailedOK, Together, [Next]_vars
  PROVE  Together'
<1> SUFFICES ASSUME pc' = "hashing", Exact, ~setup.verify, NEW e \in File, NEW f \in File,
                    Pair(e, f)'
             PROVE  \/ /\ stage'[SizeAt(e)'] \in {"partial", "full"}
                       /\ {e, f} \subseteq members'[SizeAt(e)']
                    \/ InOneGroup(e, f)'
  BY SetupStays DEF Together, TogetherAt
<1> DEFINE s == SizeAt(e)
<1>1. CASE StartScan
  <2>1. file' = file
    BY <1>1 DEF StartScan, disk
  <2>2. SizeAt(e)' = s
    BY <2>1 DEF SizeAt
  <2> QED BY <1>1, <2>1, <2>2, PairFound DEF Pair
<1>2. CASE ~StartScan
  <2>1. \A h \in {e, f} : h \notin changed \cup errors /\ file'[h] = file[h]
    BY <1>2, UnchangedSteps, ErrorSteps DEF Pair
  <2>2. Pair(e, f) /\ SizeAt(e)' = s /\ s \in Sizes
    BY <2>1, ContentTypes DEF Pair, SizeAt, TypeOK
  <2>3. pc = "hashing" /\ ~Finish /\ ~Kill
    <3>1. ~Finish /\ ~Kill
      BY DEF Finish, Kill, DropScan
    <3>2. pc # "idle"
      BY <1>2, <3>1, IdleWaits
    <3> QED BY <3>1, <3>2 DEF TypeOK
  <2>4. CASE InOneGroup(e, f)
    BY <1>2, <2>3, <2>4, ReportsStay DEF InOneGroup
  <2>5. CASE stage[s] \in {"partial", "full"} /\ {e, f} \subseteq members[s]
    <3>1. CASE PrunePartial(s)
      <4>1. stage'[s] = "full"
        BY <2>2, <3>1 DEF PrunePartial, TypeOK
      <4> QED BY <2>2, <2>5, <3>1, <4>1, PairSampled
    <3>2. CASE EndChunk(s)
      <4>1. \A h \in {e, f} : h \in chunk[s] => h \in Hashed(s)
        BY <2>1, <3>2 DEF EndChunk, Answered, Hashed, FailedOK
      <4>2. stage' = stage /\ members'[s] = members[s] \ (chunk[s] \ Hashed(s))
        BY <2>2, <3>2 DEF EndChunk, TypeOK
      <4> QED BY <2>2, <2>5, <4>1, <4>2
    <3>3. CASE GroupFull(s)
      BY <2>2, <2>5, <3>3, PairReported
    <3>4. ~GroupVerified(s)
      BY <2>5 DEF GroupVerified
    <3>5. CASE stage'[s] = stage[s] /\ members'[s] = members[s]
      BY <2>2, <2>5, <3>5
    <3> QED BY <1>2, <2>2, <2>3, <3>1, <3>2, <3>3, <3>4, <3>5, StageSteps
  <2> QED BY <2>2, <2>3, <2>4, <2>5 DEF Together, TogetherAt
<1> QED BY <1>1, <1>2

\* A scan without verify_matches that ends has reported any two files with one
\* content in one group, unless one of them has changed or could not be read:
\* nothing is lost between the walk, the samples, the chunks, the cache and the
\* grouping, as long as mtimes tell the changes that the cache and fclones miss.
THEOREM DuplicatesFound ==
  ASSUME \A s \in Setups : s.verify \/ (~s.renames /\ (PerMilli = 1 \/ ~s.imports))
  PROVE  Spec => ScanComplete
<1> DEFINE Inv == /\ TypeOK /\ Staged /\ Ordered /\ Current /\ Unchanged
                  /\ Sampled /\ FailedOK /\ Together
<1>1. Init => Inv
  <2>1. Init => Unchanged /\ Sampled /\ FailedOK /\ Together
    BY DEF Init, AllFiles, AllSizes, Unchanged, Written, OpenedAt, ComparedAt, Sampled,
       FailedOK, Together
  <2> QED BY <2>1, InitTyped, InitOrdered
<1>2. Inv /\ [Next]_vars => Inv'
  BY TypeStep, StagedStep, OrderedStep, CurrentStep, UnchangedStep, SampledStep, FailedStep,
     TogetherStep
<1>3. Inv /\ Finish /\ ~setup.verify => UnchangedFound
  <2> SUFFICES ASSUME Inv, Finish, ~setup.verify,
                      NEW e \in File \ (changed \cup errors),
                      NEW f \in File \ (changed \cup errors),
                      e # f, file[e] = file[f], file[e] # NoFile
               PROVE  \E g \in reported : {e, f} \subseteq g
    BY DEF UnchangedFound
  <2>1. Exact
    BY DEF TypeOK, Exact
  <2>2. Pair(e, f) /\ pc = "hashing" /\ SizeAt(e) \in Sizes
    BY ContentTypes DEF Pair, Finish, SizeAt, TypeOK
  <2>3. TogetherAt(e, f)
    BY <2>1, <2>2 DEF Together
  <2>4. stage[SizeAt(e)] = "done"
    BY <2>2 DEF Finish
  <2> QED BY <2>2, <2>3, <2>4 DEF TogetherAt, InOneGroup
<1>4. Inv /\ [Next]_vars => [Finish /\ ~setup.verify => UnchangedFound]_vars
  BY <1>3
<1> HIDE DEF Inv
<1> QED BY <1>1, <1>2, <1>4, PTL DEF Spec, ScanComplete
=============================================================================
