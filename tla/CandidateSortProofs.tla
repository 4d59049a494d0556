------------------------ MODULE CandidateSortProofs ------------------------
(***************************************************************************)
(* The proofs about CandidateSort.  Everything rests on one view of the    *)
(* state: each source is a line of records, its head first, and what the   *)
(* actions do is said of the lines before it is said of cells and heads.   *)
(***************************************************************************)
EXTENDS CandidateSort, TLAPS, FiniteSetTheorems, FunctionTheorems, SequenceTheorems

\* The cells that can be in a run, and the records a run still holds.
Cells == {WriteRecord(c)[k] : c \in Candidate, k \in 1..5}
Records(cells) ==
    [i \in 1..(Len(cells) \div 5) |-> ReadRecord(SubSeq(cells, 5 * i - 4, 5 * i))]

\* The line of source s: what it will still give away, the head included.
Waiting(s) == IF s <= Len(runs) THEN Records(runs[s]) ELSE buffer
HasHead(s) == pc = "merging" /\ heads[s] # None
Line(s) == IF HasHead(s)
           THEN [i \in 1..(Len(Waiting(s)) + 1) |-> IF i = 1 THEN heads[s] ELSE Waiting(s)[i - 1]]
           ELSE Waiting(s)

Ordered(records) == \A i, j \in DOMAIN records : i < j => ~Less(records[j], records[i])
Distinct(records) == \A i, j \in DOMAIN records : records[i] = records[j] => i = j
Elements(records) == {records[i] : i \in DOMAIN records}
-----------------------------------------------------------------------------
(* The inductive invariant, in parts that build on each other.             *)

Reading == pc \in {"walking", "sorting", "merging"}

\* What is where while the program is at pc.
Shape ==
    /\ pc \in {"walking", "sorting", "merging", "stopping", "finished"}
    /\ ahead \subseteq Candidate /\ (pc # "walking" => ahead = {})
    /\ buffer \in Seq(Candidate)
    /\ runs \in Seq(Seq(Cells))
    /\ \A r \in DOMAIN runs : /\ Records(runs[r]) \in Seq(Candidate)
                              /\ runs[r] = Run(Records(runs[r]))
    /\ heads \in Seq(Candidate \cup {None})
    /\ pc = "merging" =>
          /\ Len(heads) = Len(runs) + 1
          /\ \A s \in Sources : heads[s] = None => Waiting(s) = <<>>
    /\ pc \in {"walking", "sorting"} =>
          heads = <<>> /\ taken = <<>> /\ groups = {} /\ stream = <<>>
    /\ stream \in Seq(Candidate) /\ taken \in Seq(Candidate)
    /\ errors \in {0, 1} /\ (Reading => errors = 0)

\* Each candidate that was found is in one place, and all lines are in order.
LinesOK ==
    Reading =>
      /\ \A s \in Sources : Distinct(Line(s))
      /\ \A s, t \in Sources : s # t => Elements(Line(s)) \cap Elements(Line(t)) = {}
      /\ \A s \in Sources : s <= Len(runs) \/ pc # "walking" => Ordered(Line(s))
      /\ \A c \in Candidate : c \notin ahead /\ c \notin Elements(stream)
                                 <=> \E s \in Sources : c \in Elements(Line(s))

\* What has come out is in order, and nothing that is left comes before it.
StreamOK ==
    /\ Ordered(stream) /\ Distinct(stream)
    /\ pc = "merging" => \A s \in Sources : \A c \in Elements(Line(s)), d \in Elements(stream) :
                            ~Less(c, d)
    /\ pc \in {"stopping", "finished"} /\ errors = 0 => Elements(stream) = Candidate

\* The counters.
CountsOK ==
    /\ scanned = Cardinality(Candidate \ ahead) /\ checked = Len(stream)
    /\ reporter \in {"unborn", "running", "gone"}
    /\ reporter = "gone" => pc \in {"stopping", "finished"} /\ shown = <<scanned, checked>>

\* The groups of the sizes below a size.
GroupsBelow(size) ==
    {g \in {SizeGroup(c.size) : c \in {d \in Candidate : d.size < size}} : Cardinality(g) > 1}

\* What is collected is what has come out of the size that was reached.
GroupsOK ==
    /\ pc = "merging" =>
          /\ groups = GroupsBelow(Reached)
          /\ Ordered(taken) /\ (taken = <<>> => stream = <<>>)
          /\ Elements(taken) = {c \in Elements(stream) : c.size = Reached}
    /\ \A group \in groups : group \subseteq SUBSET Candidate
    /\ pc \in {"stopping", "finished"} =>
          /\ errors = 0 => groups = SizeGroups
          /\ errors > 0 => GroupsBelow(Reached) \subseteq groups
          /\ \A g \in groups \ SizeGroups : \A file \in g : \A c \in file : c.size = Reached
          /\ \A g \in groups : \A file, other \in g :
                file # other => \A c \in file, d \in other : c.file_id # d.file_id

IInv == Shape /\ LinesOK /\ StreamOK /\ CountsOK /\ GroupsOK
-----------------------------------------------------------------------------
(* The order.                                                              *)

LEMMA CandidateParts ==
  ASSUME NEW c \in Candidate
  PROVE  /\ c.size \in Nat /\ c.file_id \in {0, 1, 2} \X Nat \X Nat
         /\ c.file_id[1] \in {0, 1, 2} /\ c.file_id[2] \in Nat /\ c.file_id[3] \in Nat
         /\ c.file_id = <<c.file_id[1], c.file_id[2], c.file_id[3]>>
         /\ c = [size |-> c.size, file_id |-> c.file_id, path |-> c.path]
         /\ c # None
<1>1. c.size \in Nat /\ c.file_id \in {0, 1, 2} \X Nat \X Nat /\ c # None
      /\ c = [size |-> c.size, file_id |-> c.file_id, path |-> c.path]
  BY CandidateAssumption
<1> QED
  BY <1>1

\* Less, place by place.
LEMMA LessCases ==
  ASSUME NEW c \in Candidate, NEW d \in Candidate
  PROVE  Less(c, d) <=>
           \/ c.size < d.size
           \/ c.size = d.size /\ c.file_id[1] < d.file_id[1]
           \/ c.size = d.size /\ c.file_id[1] = d.file_id[1] /\ c.file_id[2] < d.file_id[2]
           \/ c.size = d.size /\ c.file_id[1] = d.file_id[1] /\ c.file_id[2] = d.file_id[2]
                /\ c.file_id[3] < d.file_id[3]
<1>1. \A j : j \in 1..(1 - 1) <=> FALSE
  OBVIOUS
<1>2. \A j : j \in 1..(2 - 1) <=> j = 1
  OBVIOUS
<1>3. \A j : j \in 1..(3 - 1) <=> j = 1 \/ j = 2
  OBVIOUS
<1>4. \A j : j \in 1..(4 - 1) <=> j = 1 \/ j = 2 \/ j = 3
  OBVIOUS
<1>5. \A j : j \in 1..4 <=> j = 1 \/ j = 2 \/ j = 3 \/ j = 4
  OBVIOUS
<1>6. /\ Key(c)[1] = c.size /\ Key(c)[2] = c.file_id[1]
      /\ Key(c)[3] = c.file_id[2] /\ Key(c)[4] = c.file_id[3]
      /\ Key(d)[1] = d.size /\ Key(d)[2] = d.file_id[1]
      /\ Key(d)[3] = d.file_id[2] /\ Key(d)[4] = d.file_id[3]
  BY DEF Key
<1> QED
  BY <1>1, <1>2, <1>3, <1>4, <1>5, <1>6 DEF Less

\* "Not after" is transitive, and goes with the size.
LEMMA NotAfter ==
  ASSUME NEW a \in Candidate, NEW b \in Candidate, NEW c \in Candidate
  PROVE  /\ ~Less(a, a)
         /\ ~Less(b, a) /\ ~Less(c, b) => ~Less(c, a)
         /\ ~Less(b, a) => a.size <= b.size
         /\ Less(a, b) => ~Less(b, a)
BY CandidateParts, LessCases

\* Of two records of one size, the one between two of one file is of that file.
LEMMA Between ==
  ASSUME NEW a \in Candidate, NEW b \in Candidate, NEW c \in Candidate,
         ~Less(b, a), ~Less(c, b), a.size = b.size, b.size = c.size, a.file_id = c.file_id
  PROVE  b.file_id = a.file_id
BY CandidateParts, LessCases
-----------------------------------------------------------------------------
(* Runs: what is written is what is read.                                  *)

LEMMA FiveCells ==
  ASSUME NEW S, NEW a \in S, NEW b \in S, NEW c \in S, NEW d \in S, NEW e \in S
  PROVE  <<a, b, c, d, e>> \in Seq(S) /\ Len(<<a, b, c, d, e>>) = 5
OBVIOUS

LEMMA RecordRead ==
  ASSUME NEW c \in Candidate
  PROVE  /\ WriteRecord(c) \in Seq(Cells) /\ Len(WriteRecord(c)) = 5
         /\ ReadRecord(WriteRecord(c)) = c
         /\ WriteRecord(c) # <<>>
<1>1. WriteRecord(c) = <<WriteRecord(c)[1], WriteRecord(c)[2], WriteRecord(c)[3],
                         WriteRecord(c)[4], WriteRecord(c)[5]>>
  BY DEF WriteRecord
<1>2. \A k \in 1..5 : WriteRecord(c)[k] \in Cells
  BY DEF Cells
<1>3. WriteRecord(c) \in Seq(Cells) /\ Len(WriteRecord(c)) = 5 /\ WriteRecord(c) # <<>>
  <2> DEFINE w == WriteRecord(c)
  <2>1. w[1] \in Cells /\ w[2] \in Cells /\ w[3] \in Cells /\ w[4] \in Cells /\ w[5] \in Cells
    BY <1>2
  <2>2. w = <<w[1], w[2], w[3], w[4], w[5]>>
    BY <1>1
  <2> HIDE DEF w
  <2>3. /\ <<w[1], w[2], w[3], w[4], w[5]>> \in Seq(Cells)
        /\ Len(<<w[1], w[2], w[3], w[4], w[5]>>) = 5
    BY <2>1, FiveCells
  <2>4. w \in Seq(Cells) /\ Len(w) = 5
    BY <2>2, <2>3, Zenon
  <2> QED
    BY <2>4 DEF w
<1>4. /\ Read(WriteRecord(c), 1, 8) = c.size
      /\ Read(WriteRecord(c), 5, 4) = c.path
  BY DEF WriteRecord, Read
<1>5. ReadFileId(WriteRecord(c)) = c.file_id
  <2> DEFINE id == c.file_id
  <2>1. id[1] \in {0, 1, 2} /\ id = <<id[1], id[2], id[3]>>
    BY CandidateParts
  <2>2. /\ id[1] = 0 => WriteFileId(id) = <<<<1, 0>>, <<8, id[2]>>, <<8, id[3]>>>>
        /\ id[1] = 1 => WriteFileId(id) = <<<<1, 1>>, <<4, id[2]>>, <<8, id[3]>>>>
        /\ id[1] = 2 => WriteFileId(id) = <<<<1, 2>>, <<8, id[2]>>, <<16, id[3]>>>>
    <3>1. 0 # 1 /\ 1 # 0 /\ 0 # 2 /\ 2 # 0 /\ 1 # 2 /\ 2 # 1
      OBVIOUS
    <3> QED
      BY <3>1, Zenon DEF WriteFileId
  <2>3. /\ WriteRecord(c)[2] = WriteFileId(id)[1] /\ WriteRecord(c)[3] = WriteFileId(id)[2]
        /\ WriteRecord(c)[4] = WriteFileId(id)[3]
    BY DEF WriteRecord
  <2> HIDE DEF id
  <2>4. ReadFileId(WriteRecord(c)) = <<id[1], id[2], id[3]>>
    BY <2>1, <2>2, <2>3 DEF ReadFileId, Read
  <2> QED
    BY <2>1, <2>4 DEF id
<1>6. ReadRecord(WriteRecord(c)) = [size |-> c.size, file_id |-> c.file_id, path |-> c.path]
  BY <1>3, <1>4, <1>5 DEF ReadRecord
<1> QED
  BY <1>3, <1>6, CandidateParts

LEMMA ReadFirst ==
  ASSUME NEW cells, NEW other, cells # <<>>, other # <<>>,
         \A k \in 1..5 : cells[k] = other[k]
  PROVE  ReadRecord(cells) = ReadRecord(other)
BY DEF ReadRecord, ReadFileId, Read

LEMMA RunCells ==
  ASSUME NEW s \in Seq(Candidate)
  PROVE  /\ Run(s) \in Seq(Cells) /\ Len(Run(s)) = 5 * Len(s) /\ DOMAIN Run(s) = 1..(5 * Len(s))
         /\ \A i \in 1..Len(s), k \in 1..5 : Run(s)[5 * (i - 1) + k] = WriteRecord(s[i])[k]
<1>1. Len(s) \in Nat
  OBVIOUS
<1>2. ASSUME NEW i \in 1..(5 * Len(s))
      PROVE  ((i - 1) \div 5) + 1 \in 1..Len(s) /\ ((i - 1) % 5) + 1 \in 1..5
  BY <1>1
<1>3. \A i \in 1..(5 * Len(s)) :
         WriteRecord(s[((i - 1) \div 5) + 1])[((i - 1) % 5) + 1] \in Cells
  BY <1>2 DEF Cells
<1>4. Run(s) \in [1..(5 * Len(s)) -> Cells]
  BY <1>3 DEF Run
<1>5. 5 * Len(s) \in Nat
  BY <1>1
<1>6. Run(s) \in Seq(Cells) /\ Len(Run(s)) = 5 * Len(s) /\ DOMAIN Run(s) = 1..(5 * Len(s))
  BY <1>4, <1>5
<1>7. ASSUME NEW i \in 1..Len(s), NEW k \in 1..5
      PROVE  Run(s)[5 * (i - 1) + k] = WriteRecord(s[i])[k]
  <2> DEFINE m == 5 * (i - 1) + k
  <2>1. m \in 1..(5 * Len(s)) /\ ((m - 1) \div 5) + 1 = i /\ ((m - 1) % 5) + 1 = k
    BY <1>1
  <2>2. Run(s)[m] = WriteRecord(s[((m - 1) \div 5) + 1])[((m - 1) % 5) + 1]
    <3> HIDE DEF m
    <3> QED
      BY <2>1 DEF Run
  <2> QED
    BY <2>1, <2>2
<1> QED
  BY <1>6, <1>7

LEMMA Fives == \A n \in Nat : (5 * n) \div 5 = n
OBVIOUS

LEMMA RunRead ==
  ASSUME NEW s \in Seq(Candidate)
  PROVE  Records(Run(s)) = s
<1>1. Len(s) \in Nat /\ s \in [1..Len(s) -> Candidate]
  BY LenProperties
<1>2. (5 * Len(s)) \div 5 = Len(s)
  BY <1>1, Fives
<1>3. Len(Run(s)) \div 5 = Len(s)
  BY <1>2, RunCells
<1>4. ASSUME NEW i \in 1..Len(s)
      PROVE  ReadRecord(SubSeq(Run(s), 5 * i - 4, 5 * i)) = s[i]
  <2> DEFINE piece == SubSeq(Run(s), 5 * i - 4, 5 * i)
             record == WriteRecord(s[i])
  <2>1. s[i] \in Candidate /\ 5 * i - 4 \in Int /\ 5 * i \in Int /\ 5 * i - (5 * i - 4) + 1 = 5
        /\ 5 * i - 4 <= 5 * i
    BY <1>1
  <2>2. \A j \in (5 * i - 4)..(5 * i) : Run(s)[j] \in Cells
    <3>1. (5 * i - 4)..(5 * i) \subseteq 1..(5 * Len(s))
      BY <1>1
    <3>2. Run(s) \in Seq(Cells) /\ Len(Run(s)) = 5 * Len(s)
      BY RunCells
    <3> QED
      BY <3>1, <3>2, ElementOfSeq
  <2>3. /\ Len(piece) = 5
        /\ \A k \in 1..5 : piece[k] = Run(s)[5 * i - 4 + k - 1]
    <3> HIDE DEF piece
    <3>1. /\ piece \in Seq(Cells)
          /\ Len(piece) = IF 5 * i - 4 <= 5 * i THEN 5 * i - (5 * i - 4) + 1 ELSE 0
          /\ \A k \in 1..(5 * i - (5 * i - 4) + 1) : piece[k] = Run(s)[5 * i - 4 + k - 1]
      BY <2>1, <2>2, SubSeqProperties DEF piece
    <3> QED
      BY <2>1, <3>1
  <2>4. \A k \in 1..5 : piece[k] = record[k]
    <3>1. \A k \in 1..5 : 5 * i - 4 + k - 1 = 5 * (i - 1) + k
      BY <1>1
    <3>2. \A k \in 1..5 : Run(s)[5 * (i - 1) + k] = record[k]
      BY RunCells
    <3> HIDE DEF piece, record
    <3> QED
      BY <2>3, <3>1, <3>2
  <2>5. piece # <<>>
    <3> HIDE DEF piece
    <3>1. Len(<<>>) = 0
      OBVIOUS
    <3>2. ASSUME piece = <<>> PROVE FALSE
      BY <2>3, <3>1, <3>2
    <3> QED
      BY <3>2
  <2>6. record # <<>> /\ ReadRecord(record) = s[i]
    BY <2>1, RecordRead
  <2> HIDE DEF piece, record
  <2>7. ReadRecord(piece) = ReadRecord(record)
    BY <2>4, <2>5, <2>6, ReadFirst
  <2> QED
    BY <2>6, <2>7 DEF piece
<1>5. Records(Run(s)) = [i \in 1..Len(s) |-> s[i]]
  BY <1>3, <1>4, Zenon DEF Records
<1> QED
  BY <1>1, <1>5

LEMMA RunNext ==
  ASSUME NEW s \in Seq(Candidate)
  PROVE  /\ s = <<>> => Run(s) = <<>> /\ ReadRecord(Run(s)) = None
         /\ s # <<>> => /\ Run(s) # <<>> /\ ReadRecord(Run(s)) = s[1]
                        /\ AfterRecord(Run(s)) = Run(Tail(s))
<1>1. Len(s) \in Nat /\ s \in [1..Len(s) -> Candidate]
  BY LenProperties
<1>2. Run(s) \in Seq(Cells) /\ Len(Run(s)) = 5 * Len(s)
  BY RunCells
<1>3. ASSUME s = <<>> PROVE Run(s) = <<>> /\ ReadRecord(Run(s)) = None
  <2>1. Len(s) = 0 /\ 5 * Len(s) = 0
    BY <1>3
  <2>2. Run(s) = <<>>
    <3> DEFINE r == Run(s)
    <3>1. r \in Seq(Cells) /\ Len(r) = 0
      BY <1>2, <2>1
    <3> HIDE DEF r
    <3>2. r = <<>>
      BY <3>1, EmptySeq
    <3> QED
      BY <3>2 DEF r
  <2> QED
    BY <2>2 DEF ReadRecord
<1>4. ASSUME s # <<>>
      PROVE  Run(s) # <<>> /\ ReadRecord(Run(s)) = s[1] /\ AfterRecord(Run(s)) = Run(Tail(s))
  <2>1. Len(s) \in Nat \ {0} /\ 1 \in 1..Len(s) /\ s[1] \in Candidate
    BY <1>1, <1>4, EmptySeq
  <2>2. Len(Run(s)) # 0
    BY <1>2, <2>1
  <2>3. Run(s) # <<>>
    BY <2>2
  <2>4. \A k \in 1..5 : Run(s)[k] = WriteRecord(s[1])[k]
    <3>1. \A k \in 1..5 : Run(s)[5 * (1 - 1) + k] = WriteRecord(s[1])[k]
      BY <2>1, RunCells
    <3>2. \A k \in 1..5 : 5 * (1 - 1) + k = k
      OBVIOUS
    <3> QED
      BY <3>1, <3>2
  <2>5. ReadRecord(Run(s)) = s[1]
    <3>1. WriteRecord(s[1]) # <<>> /\ ReadRecord(WriteRecord(s[1])) = s[1]
      BY <2>1, RecordRead
    <3> QED
      BY <2>3, <2>4, <3>1, ReadFirst
  <2> DEFINE rest == AfterRecord(Run(s))
             n == 5 * Len(s)
             t == Tail(s)
  <2>6. t \in Seq(Candidate) /\ Len(t) = Len(s) - 1 /\ \A i \in 1..Len(t) : t[i] = s[i + 1]
    BY <1>4, HeadTailProperties
  <2>7. Run(t) \in Seq(Cells) /\ Len(Run(t)) = 5 * Len(t)
    BY <2>6, RunCells
  <2>8. \A j \in 6..n : Run(s)[j] \in Cells
    <3>1. 6..n \subseteq 1..Len(Run(s))
      BY <1>2
    <3> QED
      BY <1>2, <3>1, ElementOfSeq
  <2>9. /\ rest \in Seq(Cells) /\ Len(rest) = n - 5
        /\ \A j \in 1..(n - 5) : rest[j] = Run(s)[j + 5]
    <3> DEFINE q == Run(s)
    <3>1. n \in Int /\ 6 \in Int /\ (6 <= n \/ n = 5) /\ n - 6 + 1 = n - 5
      BY <2>1
    <3>2. /\ SubSeq(q, 6, n) \in Seq(Cells)
          /\ Len(SubSeq(q, 6, n)) = IF 6 <= n THEN n - 6 + 1 ELSE 0
          /\ \A j \in 1..(n - 6 + 1) : SubSeq(q, 6, n)[j] = q[6 + j - 1]
      <4> HIDE DEF q, n
      <4> QED
        BY <3>1, SubSeqProperties, <2>8 DEF q
    <3>3. rest = SubSeq(q, 6, n)
      BY <1>2 DEF AfterRecord
    <3> HIDE DEF rest, q, n
    <3>4. \A j \in 1..(n - 5) : 6 + j - 1 = j + 5
      BY <3>1
    <3>5. Len(rest) = n - 5 /\ rest \in Seq(Cells)
      BY <3>1, <3>2, <3>3
    <3>6. \A j \in 1..(n - 5) : rest[j] = q[j + 5]
      BY <3>1, <3>2, <3>3, <3>4
    <3> QED
      BY <3>5, <3>6 DEF q
  <2>10. ASSUME NEW j \in 1..(n - 5) PROVE rest[j] = Run(t)[j]
    <3>1. /\ j \in 1..(5 * Len(t)) /\ j + 5 \in 1..(5 * Len(s))
          /\ ((j + 5 - 1) \div 5) + 1 = (((j - 1) \div 5) + 1) + 1
          /\ (j + 5 - 1) % 5 = (j - 1) % 5
          /\ ((j - 1) \div 5) + 1 \in 1..Len(t)
      BY <1>1, <2>6
    <3> DEFINE m == ((j - 1) \div 5) + 1
               k == ((j - 1) % 5) + 1
    <3>2. Run(t)[j] = WriteRecord(t[m])[k]
      BY <3>1 DEF Run
    <3>3. Run(s)[j + 5] = WriteRecord(s[m + 1])[k]
      <4> DEFINE l == j + 5
      <4>1. l \in 1..(5 * Len(s)) /\ ((l - 1) \div 5) + 1 = m + 1 /\ ((l - 1) % 5) + 1 = k
        BY <3>1
      <4> HIDE DEF l, m, k
      <4>2. Run(s)[l] = WriteRecord(s[((l - 1) \div 5) + 1])[((l - 1) % 5) + 1]
        BY <4>1 DEF Run
      <4> QED
        BY <4>1, <4>2 DEF l
    <3>4. t[m] = s[m + 1]
      BY <2>6, <3>1
    <3> HIDE DEF m, k
    <3> QED
      BY <2>9, <3>2, <3>3, <3>4
  <2>11. Len(rest) = Len(Run(t)) /\ Len(rest) = n - 5
    BY <1>1, <2>6, <2>7, <2>9
  <2>12. rest = Run(t)
    <3> DEFINE u == Run(t)
    <3>1. u \in Seq(Cells) /\ Len(rest) = Len(u) /\ \A j \in 1..Len(rest) : rest[j] = u[j]
      BY <2>7, <2>10, <2>11
    <3> HIDE DEF rest, u
    <3>2. rest = u
      BY <2>9, <3>1, SeqEqual
    <3> QED
      BY <3>2 DEF u
  <2> QED
    BY <2>3, <2>5, <2>12
<1> QED
  BY <1>3, <1>4

-----------------------------------------------------------------------------
(* Sorting keeps the records and puts them in order.                       *)

LEMMA SortedFacts ==
  ASSUME NEW full \in Seq(Candidate), NEW sorted \in Sorted(full)
  PROVE  /\ sorted \in Seq(Candidate) /\ Len(sorted) = Len(full)
         /\ Ordered(sorted) /\ Elements(sorted) = Elements(full)
         /\ Distinct(full) => Distinct(sorted)
<1> DEFINE n == Len(full)
           places == 1..n
<1>1. n \in Nat /\ full \in [places -> Candidate] /\ DOMAIN full = places
  BY LenProperties
<1>2. PICK p \in [places -> places] :
         /\ sorted = [i \in places |-> full[p[i]]]
         /\ \A i, j \in places : i < j => p[i] # p[j] /\ ~Less(full[p[j]], full[p[i]])
  BY <1>1 DEF Sorted
<1>3. sorted \in [places -> Candidate]
  BY <1>1, <1>2
<1> HIDE DEF n
<1>4. sorted \in Seq(Candidate) /\ Len(sorted) = n /\ DOMAIN sorted = places
  BY <1>1, <1>3
<1>5. \A i, j \in places : i # j => i < j \/ j < i
  BY <1>1
<1>6. \A i, j \in places : i # j => p[i] # p[j]
  BY <1>2, <1>5, Zenon
<1>7. p \in Injection(places, places)
  BY <1>6 DEF Injection, IsInjective
<1>8. IsFiniteSet(places)
  BY <1>1, FS_Interval
<1>9. p \in Surjection(places, places)
  BY <1>7, <1>8, FS_Injection
<1>10. \A j \in places : \E i \in places : p[i] = j
  BY <1>9 DEF Surjection
<1>11. Ordered(sorted)
  BY <1>2, <1>4 DEF Ordered
<1>12. Elements(sorted) = Elements(full)
  <2>1. \A i \in places : sorted[i] = full[p[i]] /\ p[i] \in places
    BY <1>2
  <2>2. ASSUME NEW x \in Elements(sorted) PROVE x \in Elements(full)
    BY <1>1, <1>4, <2>1 DEF Elements
  <2>3. ASSUME NEW x \in Elements(full) PROVE x \in Elements(sorted)
    <3>1. PICK j \in places : x = full[j]
      BY <1>1 DEF Elements
    <3>2. PICK i \in places : p[i] = j
      BY <1>10
    <3> QED
      BY <1>4, <2>1, <3>1, <3>2 DEF Elements
  <2> QED
    BY <2>2, <2>3
<1>13. ASSUME Distinct(full) PROVE Distinct(sorted)
  BY <1>1, <1>2, <1>4, <1>6, <1>13 DEF Distinct
<1> QED
  BY <1>4, <1>11, <1>12, <1>13 DEF n

-----------------------------------------------------------------------------
(* Lines.                                                                  *)

LEMMA SourceNumbers ==
  ASSUME Shape
  PROVE  /\ Len(runs) \in Nat /\ DOMAIN runs = 1..Len(runs)
         /\ \A s \in Sources : s \in Nat /\ (s \in DOMAIN runs <=> s <= Len(runs))
         /\ Len(runs) + 1 \in Sources /\ DOMAIN runs \subseteq Sources
         /\ \A s \in Sources : s \notin DOMAIN runs => s = Len(runs) + 1
<1>1. runs \in Seq(Seq(Cells))
  BY DEF Shape
<1>2. Len(runs) \in Nat /\ DOMAIN runs = 1..Len(runs)
  BY <1>1, LenProperties
<1> QED
  BY <1>2 DEF Sources

LEMMA WaitingTyped ==
  ASSUME Shape, NEW s \in Sources
  PROVE  Waiting(s) \in Seq(Candidate)
BY SourceNumbers DEF Shape, Waiting

LEMMA RunWaits ==
  ASSUME Shape
  PROVE  \A r \in 1..Len(runs) : runs[r] = Run(Waiting(r)) /\ Waiting(r) \in Seq(Candidate)
<1> SUFFICES ASSUME NEW r \in 1..Len(runs)
             PROVE  runs[r] = Run(Waiting(r)) /\ Waiting(r) \in Seq(Candidate)
  OBVIOUS
<1>1. r \in DOMAIN runs /\ r <= Len(runs)
  BY SourceNumbers
<1>2. Waiting(r) = Records(runs[r])
  BY <1>1 DEF Waiting
<1>3. Records(runs[r]) \in Seq(Candidate) /\ runs[r] = Run(Records(runs[r]))
  BY <1>1 DEF Shape
<1> QED
  BY <1>2, <1>3

LEMMA LineFacts ==
  ASSUME Shape, NEW s \in Sources
  PROVE  /\ Line(s) \in Seq(Candidate)
         /\ HasHead(s) =>
              /\ heads[s] \in Candidate /\ Line(s) # <<>> /\ Line(s)[1] = heads[s]
              /\ Len(Line(s)) = Len(Waiting(s)) + 1
              /\ \A i \in 1..Len(Waiting(s)) : Line(s)[i + 1] = Waiting(s)[i]
         /\ ~HasHead(s) => Line(s) = Waiting(s)
         /\ pc = "merging" /\ ~HasHead(s) => Line(s) = <<>>
<1> DEFINE w == Waiting(s)
           l == [i \in 1..(Len(w) + 1) |-> IF i = 1 THEN heads[s] ELSE w[i - 1]]
<1>1. w \in Seq(Candidate)
  BY WaitingTyped
<1>2. Len(w) \in Nat /\ w \in [1..Len(w) -> Candidate]
  BY <1>1, LenProperties
<1>3. ASSUME HasHead(s)
      PROVE  /\ heads[s] \in Candidate /\ l \in Seq(Candidate) /\ Line(s) = l
             /\ l # <<>> /\ l[1] = heads[s] /\ Len(l) = Len(w) + 1
             /\ \A i \in 1..Len(w) : l[i + 1] = w[i]
  <2>1. pc = "merging" /\ heads[s] # None
    BY <1>3 DEF HasHead
  <2>2. heads \in Seq(Candidate \cup {None}) /\ Len(heads) = Len(runs) + 1
    BY <2>1 DEF Shape
  <2>3. s \in 1..Len(heads)
    BY <2>2 DEF Sources
  <2>4. heads[s] \in Candidate
    BY <2>1, <2>2, <2>3, ElementOfSeq
  <2>5. Line(s) = l
    BY <1>3 DEF Line
  <2> HIDE DEF w
  <2>6. l \in [1..(Len(w) + 1) -> Candidate]
    BY <1>2, <2>4
  <2>7. l \in Seq(Candidate) /\ Len(l) = Len(w) + 1 /\ Len(w) + 1 \in Nat /\ 1 \in 1..(Len(w) + 1)
    BY <1>2, <2>6
  <2>8. l[1] = heads[s]
    BY <2>7
  <2>9. \A i \in 1..Len(w) : l[i + 1] = w[i]
    BY <1>2
  <2> HIDE DEF l
  <2>10. l # <<>>
    <3>1. Len(<<>>) = 0
      OBVIOUS
    <3>2. ASSUME l = <<>> PROVE FALSE
      BY <1>2, <2>7, <3>1, <3>2
    <3> QED
      BY <3>2
  <2> QED
    BY <2>4, <2>5, <2>7, <2>8, <2>9, <2>10
<1>4. ASSUME ~HasHead(s) PROVE Line(s) = w
  BY <1>4 DEF Line
<1>5. ASSUME pc = "merging", ~HasHead(s) PROVE w = <<>>
  BY <1>5 DEF HasHead, Shape
<1> HIDE DEF w, l
<1> QED
  BY <1>1, <1>3, <1>4, <1>5 DEF w

LEMMA NextIsFirst ==
  ASSUME Shape, NEW s \in Sources
  PROVE  NextRecord(s) = IF Waiting(s) = <<>> THEN None ELSE Waiting(s)[1]
<1>1. CASE s <= Len(runs)
  <2>1. Records(runs[s]) \in Seq(Candidate) /\ runs[s] = Run(Records(runs[s]))
    BY <1>1, SourceNumbers DEF Shape
  <2>2. Waiting(s) = Records(runs[s]) /\ NextRecord(s) = ReadRecord(runs[s])
    BY <1>1 DEF Waiting, NextRecord
  <2> QED
    BY <2>1, <2>2, RunNext
<1>2. CASE ~(s <= Len(runs))
  <2>1. Waiting(s) = buffer /\ NextRecord(s) = IF buffer = <<>> THEN None ELSE Head(buffer)
    BY <1>2 DEF Waiting, NextRecord
  <2> QED
    BY <2>1
<1> QED
  BY <1>1, <1>2

\* The cells of a run, taken or new, are those of what it holds.
LEMMA RunOf ==
  ASSUME NEW q \in Seq(Candidate)
  PROVE  Run(q) \in Seq(Cells) /\ Records(Run(q)) = q /\ Run(q) = Run(Records(Run(q)))
BY RunCells, RunRead

\* Shape, as far as it is about the runs.
RunsOK ==
    /\ runs \in Seq(Seq(Cells))
    /\ \A r \in DOMAIN runs : /\ Records(runs[r]) \in Seq(Candidate)
                              /\ runs[r] = Run(Records(runs[r]))

\* The list takes the place of the buffer, in memory or on disk.
Placed(list) ==
    \/ runs' = runs /\ buffer' = list
    \/ Ordered(list) /\ runs' = Append(runs, Run(list)) /\ buffer' = <<>>

LEMMA PlacedLines ==
  ASSUME Shape, NEW n, n = Len(runs),
         NEW list \in Seq(Candidate), Placed(list), pc # "merging", pc' # "merging"
  PROVE  /\ RunsOK' /\ buffer' \in Seq(Candidate)
         /\ \A s \in DOMAIN runs : s \in Sources' /\ Line(s)' = Line(s)
         /\ n + 1 \in Sources' /\ Line(n + 1)' = list
         /\ \A s \in Sources' : \/ s \in DOMAIN runs \/ s = n + 1
                                \/ Line(s)' = <<>>
         /\ n + 1 <= Len(runs') => Ordered(list)
         /\ DOMAIN runs \subseteq DOMAIN runs'
         /\ \A s \in Sources' : s <= Len(runs') => s \in DOMAIN runs \/ s = n + 1
<1>1. n \in Nat /\ DOMAIN runs = 1..n /\ runs \in Seq(Seq(Cells)) /\ Sources = 1..(n + 1)
  BY SourceNumbers DEF Shape, Sources
<1>2. \A s : ~HasHead(s) /\ ~HasHead(s)'
  BY DEF HasHead
<1>3. \A s : Line(s) = Waiting(s) /\ Line(s)' = Waiting(s)'
  BY <1>2 DEF Line
<1>4. RunsOK
  BY DEF RunsOK, Shape
<1>5. CASE runs' = runs /\ buffer' = list
  <2>1. RunsOK' /\ Sources' = 1..(n + 1) /\ DOMAIN runs' = DOMAIN runs /\ Len(runs') = n
    BY <1>1, <1>4, <1>5 DEF RunsOK, Sources
  <2>2. \A s \in 1..n : Waiting(s)' = Waiting(s)
    BY <1>1, <1>5 DEF Waiting
  <2>3. Waiting(n + 1)' = list
    BY <1>1, <1>5 DEF Waiting
  <2> QED
    BY <1>1, <1>3, <1>5, <2>1, <2>2, <2>3
<1>6. CASE Ordered(list) /\ runs' = Append(runs, Run(list)) /\ buffer' = <<>>
  <2>1. Run(list) \in Seq(Cells) /\ Records(Run(list)) = list
    BY RunOf
  <2>2. /\ runs' \in Seq(Seq(Cells)) /\ Len(runs') = n + 1
        /\ \A i \in 1..n : runs'[i] = runs[i]
        /\ runs'[n + 1] = Run(list)
    BY <1>1, <1>6, <2>1, AppendProperties
  <2>3. DOMAIN runs' = 1..(n + 1) /\ Sources' = 1..(n + 2)
    <3>1. DOMAIN runs' = 1..Len(runs')
      BY <2>2, LenProperties
    <3> QED
      BY <1>1, <2>2, <3>1 DEF Sources
  <2>4. RunsOK'
    <3>1. \A r \in 1..(n + 1) : r \in 1..n \/ r = n + 1
      BY <1>1
    <3> QED
      BY <1>1, <1>4, <2>1, <2>2, <2>3, <3>1 DEF RunsOK
  <2>5. \A s \in 1..n : Waiting(s)' = Waiting(s)
    BY <1>1, <2>2 DEF Waiting
  <2>6. Waiting(n + 1)' = list
    BY <1>1, <2>1, <2>2 DEF Waiting
  <2>7. Waiting(n + 2)' = <<>>
    BY <1>1, <1>6, <2>2 DEF Waiting
  <2>8. \A s \in 1..(n + 2) : s \in 1..n \/ s = n + 1 \/ s = n + 2
    BY <1>1
  <2>9. \A s \in 1..n : s \in 1..(n + 1) /\ s \in 1..(n + 2)
    BY <1>1
  <2>10. n + 1 \in 1..(n + 2) /\ ~(n + 2 <= n + 1)
    BY <1>1
  <2>11. buffer' \in Seq(Candidate)
    BY <1>6
  <2>12. \A s \in Sources' : s <= Len(runs') => s \in 1..n \/ s = n + 1
    BY <2>2, <2>3, <2>8, <2>10
  <2> QED
    BY <1>1, <1>3, <1>6, <2>3, <2>4, <2>5, <2>6, <2>7, <2>8, <2>9, <2>10, <2>11, <2>12
<1> QED
  BY <1>5, <1>6 DEF Placed

LEMMA PushPlaces ==
  ASSUME Shape, NEW c \in Candidate, Push(c)
  PROVE  \E list \in Seq(Candidate) :
            /\ Placed(list)
            /\ Elements(list) = Elements(buffer) \cup {c}
            /\ Distinct(buffer) /\ c \notin Elements(buffer) => Distinct(list)
<1> DEFINE full == Append(buffer, c)
           n == Len(buffer)
<1>1. buffer \in Seq(Candidate) /\ n \in Nat /\ DOMAIN buffer = 1..n
  BY DEF Shape
<1>2. /\ full \in Seq(Candidate) /\ Len(full) = n + 1 /\ full[n + 1] = c
      /\ \A i \in 1..n : full[i] = buffer[i]
  BY <1>1, AppendProperties
<1>3. DOMAIN full = 1..(n + 1)
  <2>1. DOMAIN full = 1..Len(full)
    BY <1>2, LenProperties
  <2> QED
    BY <1>2, <2>1
<1>4. \A i \in 1..(n + 1) : i \in 1..n \/ i = n + 1
  BY <1>1
<1>5. 1..n \subseteq 1..(n + 1) /\ n + 1 \in 1..(n + 1)
  BY <1>1
<1> HIDE DEF full
<1>6. Elements(full) = Elements(buffer) \cup {c}
  <2>1. \A x \in Elements(full) : x \in Elements(buffer) \cup {c}
    BY <1>1, <1>2, <1>3, <1>4 DEF Elements
  <2>2. \A x \in Elements(buffer) \cup {c} : x \in Elements(full)
    <3> HIDE DEF n
    <3> QED
      BY <1>1, <1>2, <1>3, <1>5 DEF Elements
  <2> QED
    BY <2>1, <2>2
<1>7. Distinct(buffer) /\ c \notin Elements(buffer) => Distinct(full)
  <2> HIDE DEF n
  <2> QED
    BY <1>1, <1>2, <1>3, <1>4 DEF Distinct, Elements
<1>8. CASE Len(full) < Limit
  <2>1. Placed(full)
    BY <1>8 DEF Push, Placed, full
  <2> QED
    BY <1>2, <1>6, <1>7, <2>1
<1>9. CASE ~(Len(full) < Limit)
  <2>1. Spill(full)
    BY <1>9 DEF Push, full
  <2>2. PICK sorted \in Sorted(full) : \/ runs' = Append(runs, Run(sorted)) /\ buffer' = <<>>
                                       \/ runs' = runs /\ buffer' = sorted
    BY <2>1 DEF Spill
  <2>3. /\ sorted \in Seq(Candidate) /\ Ordered(sorted) /\ Elements(sorted) = Elements(full)
        /\ Distinct(full) => Distinct(sorted)
    BY <1>2, SortedFacts
  <2>4. Placed(sorted)
    BY <2>2, <2>3 DEF Placed
  <2> QED
    BY <1>6, <1>7, <2>3, <2>4
<1> QED
  BY <1>8, <1>9

First(q) == IF q = <<>> THEN None ELSE q[1]
Rest(q) == IF q = <<>> THEN <<>> ELSE Tail(q)

LEMMA RestTyped ==
  ASSUME NEW q \in Seq(Candidate)
  PROVE  /\ Rest(q) \in Seq(Candidate) /\ AfterRecord(Run(q)) = Run(Rest(q))
         /\ First(q) \in Candidate \cup {None} /\ (First(q) = None <=> q = <<>>)
<1>1. CASE q = <<>>
  <2>1. Run(q) = <<>>
    BY <1>1, RunNext
  <2>2. AfterRecord(<<>>) = <<>>
    BY SubSeqEmpty DEF AfterRecord
  <2>3. <<>> \in Seq(Candidate)
    OBVIOUS
  <2> QED
    BY <1>1, <2>1, <2>2, <2>3 DEF Rest, First
<1>2. CASE q # <<>>
  <2>1. Tail(q) \in Seq(Candidate) /\ AfterRecord(Run(q)) = Run(Tail(q))
    BY <1>2, RunNext, HeadTailProperties
  <2>2. q[1] \in Candidate
    <3>1. 1 \in 1..Len(q)
      BY <1>2, EmptySeq
    <3> QED
      BY <3>1, ElementOfSeq
  <2> QED
    BY <1>2, <2>1, <2>2, CandidateParts DEF Rest, First
<1> QED
  BY <1>1, <1>2

\* A source whose head has been refilled has what waited as its line.
LEMMA Refilled ==
  ASSUME NEW q \in Seq(Candidate), NEW s, pc' = "merging",
         heads'[s] = First(q), Waiting(s)' = Rest(q)
  PROVE  Line(s)' = q
<1>1. CASE q = <<>>
  <2>1. ~HasHead(s)' /\ Waiting(s)' = <<>>
    BY <1>1 DEF HasHead, First, Rest
  <2> QED
    BY <1>1, <2>1 DEF Line
<1>2. CASE q # <<>>
  <2>1. /\ Tail(q) \in Seq(Candidate) /\ Len(Tail(q)) = Len(q) - 1
        /\ \A i \in 1..Len(Tail(q)) : Tail(q)[i] = q[i + 1]
    BY <1>2, HeadTailProperties
  <2>2. Len(q) \in Nat \ {0} /\ q \in [1..Len(q) -> Candidate]
    BY <1>2, EmptySeq, LenProperties
  <2>3. heads'[s] = q[1] /\ q[1] # None
    BY <1>2, RestTyped DEF First
  <2>4. HasHead(s)'
    BY <2>3 DEF HasHead
  <2>5. Waiting(s)' = Tail(q)
    BY <1>2 DEF Rest
  <2> DEFINE t == Tail(q)
             l == [i \in 1..(Len(t) + 1) |-> IF i = 1 THEN q[1] ELSE t[i - 1]]
  <2>6. Line(s)' = l
    BY <2>3, <2>4, <2>5 DEF Line
  <2> HIDE DEF t
  <2>7. Len(t) + 1 = Len(q)
    BY <2>1, <2>2 DEF t
  <2>8. ASSUME NEW i \in 1..Len(q) PROVE (IF i = 1 THEN q[1] ELSE t[i - 1]) = q[i]
    <3>1. CASE i = 1
      BY <3>1
    <3>2. CASE i # 1
      <4>1. i - 1 \in 1..Len(t) /\ (i - 1) + 1 = i
        BY <2>2, <2>7, <3>2
      <4> QED
        BY <2>1, <3>2, <4>1 DEF t
    <3> QED
      BY <3>1, <3>2
  <2>9. l = [i \in 1..Len(q) |-> q[i]]
    BY <2>7, <2>8, Zenon
  <2> QED
    BY <2>2, <2>6, <2>9
<1> QED
  BY <1>1, <1>2

\* Merge::new: every line is what it was, its first record now in memory.
LEMMA OpenLines ==
  ASSUME Shape, OpenMerge
  PROVE  /\ RunsOK' /\ buffer' \in Seq(Candidate) /\ Sources' = Sources /\ Len(runs') = Len(runs)
         /\ heads' \in Seq(Candidate \cup {None}) /\ Len(heads') = Len(runs') + 1
         /\ \A s \in Sources : heads'[s] = None => Waiting(s)' = <<>>
         /\ \A s \in Sources : Line(s)' = Line(s)
<1> DEFINE n == Len(runs)
<1>1. n \in Nat /\ DOMAIN runs = 1..n /\ runs \in Seq(Seq(Cells)) /\ Sources = 1..(n + 1)
      /\ buffer \in Seq(Candidate)
  BY SourceNumbers DEF Shape, Sources
<1>2. /\ heads' = [s \in Sources |-> NextRecord(s)]
      /\ runs' = [s \in DOMAIN runs |-> AfterRecord(runs[s])]
      /\ buffer' = Rest(buffer)
      /\ pc = "sorting" /\ pc' = "merging"
  BY DEF OpenMerge, Rest
<1>3. \A s \in Sources : Waiting(s) \in Seq(Candidate)
  BY WaitingTyped
<1>4. \A s \in Sources : NextRecord(s) = First(Waiting(s))
  BY NextIsFirst DEF First
<1>5. \A r \in 1..n : runs[r] = Run(Waiting(r)) /\ Waiting(r) \in Seq(Candidate)
  BY RunWaits
<1>6. \A r \in 1..n : runs'[r] = Run(Rest(Waiting(r))) /\ Rest(Waiting(r)) \in Seq(Candidate)
  BY <1>1, <1>2, <1>5, RestTyped
<1>7. \A r \in 1..n : runs'[r] \in Seq(Cells) /\ Records(runs'[r]) = Rest(Waiting(r))
  BY <1>6, RunOf
<1>8. DOMAIN runs' = 1..n
  BY <1>1, <1>2
<1>9. runs' \in [1..n -> Seq(Cells)]
  BY <1>1, <1>2, <1>7
<1> HIDE DEF n
<1>10. runs' \in Seq(Seq(Cells)) /\ Len(runs') = n /\ Sources' = 1..(n + 1)
  BY <1>1, <1>9 DEF Sources
<1>11. RunsOK'
  BY <1>6, <1>7, <1>8, <1>10 DEF RunsOK
<1>12. heads' \in [1..(n + 1) -> Candidate \cup {None}]
  BY <1>1, <1>2, <1>3, <1>4, RestTyped
<1>13. heads' \in Seq(Candidate \cup {None}) /\ Len(heads') = n + 1
  BY <1>1, <1>12
<1>14. buffer' \in Seq(Candidate)
  BY <1>1, <1>2, RestTyped
<1>15. ASSUME NEW s \in Sources PROVE Waiting(s)' = Rest(Waiting(s))
  <2>1. CASE s <= n
    <3>1. s \in 1..n
      BY <1>1, <2>1
    <3>2. Waiting(s)' = Records(runs'[s])
      BY <1>10, <2>1 DEF Waiting
    <3> QED
      BY <1>7, <3>1, <3>2
  <2>2. CASE ~(s <= n)
    <3>1. Waiting(s)' = buffer' /\ Waiting(s) = buffer
      BY <1>10, <2>2 DEF Waiting, n
    <3> QED
      BY <1>2, <3>1
  <2> QED
    BY <2>1, <2>2
<1>16. \A s \in Sources : heads'[s] = First(Waiting(s))
  BY <1>2, <1>4
<1>17. ASSUME NEW s \in Sources
       PROVE  Line(s)' = Line(s) /\ (heads'[s] = None => Waiting(s)' = <<>>)
  <2>1. Line(s)' = Waiting(s)
    BY <1>2, <1>3, <1>15, <1>16, Refilled
  <2>2. Line(s) = Waiting(s)
    BY <1>2 DEF Line, HasHead
  <2>3. heads'[s] = None => Waiting(s)' = <<>>
    BY <1>3, <1>15, <1>16, RestTyped DEF Rest
  <2> QED
    BY <2>1, <2>2, <2>3
<1> QED
  BY <1>1, <1>10, <1>11, <1>13, <1>14, <1>17 DEF n

\* Merge::next: one line loses its first record.
LEMMA PopLines ==
  ASSUME Shape, NEW s \in Sources, PopRecord(s)
  PROVE  /\ RunsOK' /\ buffer' \in Seq(Candidate) /\ Sources' = Sources /\ Len(runs') = Len(runs)
         /\ heads' \in Seq(Candidate \cup {None}) /\ Len(heads') = Len(runs') + 1
         /\ \A t \in Sources : heads'[t] = None => Waiting(t)' = <<>>
         /\ \A t \in Sources : t # s => Line(t)' = Line(t)
         /\ Line(s) # <<>> /\ Line(s)[1] = heads[s] /\ Line(s)' = Tail(Line(s))
         /\ heads[s] \in Candidate
<1> DEFINE n == Len(runs)
           q == Waiting(s)
<1>1. n \in Nat /\ DOMAIN runs = 1..n /\ runs \in Seq(Seq(Cells)) /\ Sources = 1..(n + 1)
      /\ buffer \in Seq(Candidate)
  BY SourceNumbers DEF Shape, Sources
<1>2. /\ heads' = [heads EXCEPT ![s] = NextRecord(s)] /\ Advance(s) /\ heads[s] # None
      /\ pc = "merging" /\ pc' = "merging"
  BY DEF PopRecord, LeastSource
<1>3. heads \in Seq(Candidate \cup {None}) /\ Len(heads) = n + 1
  BY <1>2 DEF Shape
<1>4. q \in Seq(Candidate) /\ NextRecord(s) = First(q)
  BY WaitingTyped, NextIsFirst DEF First
<1>5. NextRecord(s) \in Candidate \cup {None}
  BY <1>4, RestTyped
<1>6. /\ heads' \in Seq(Candidate \cup {None}) /\ Len(heads') = n + 1
      /\ \A t \in Sources : heads'[t] = IF t = s THEN First(q) ELSE heads[t]
  <2>1. s \in 1..Len(heads)
    BY <1>1, <1>3
  <2> HIDE DEF n, q
  <2> QED
    BY <1>1, <1>2, <1>3, <1>4, <1>5, <2>1, ExceptSeq
<1>7. /\ RunsOK' /\ buffer' \in Seq(Candidate) /\ Len(runs') = n
      /\ Waiting(s)' = Rest(q)
      /\ \A t \in Sources : t # s => Waiting(t)' = Waiting(t)
  <2>1. CASE NextRecord(s) = None
    <3>1. UNCHANGED <<runs, buffer>>
      BY <1>2, <2>1 DEF Advance
    <3>2. q = <<>> /\ Rest(q) = q
      BY <1>4, <2>1, RestTyped DEF Rest
    <3>3. RunsOK'
      BY <3>1 DEF Shape, RunsOK
    <3> QED
      BY <1>1, <3>1, <3>2, <3>3 DEF Waiting
  <2>2. CASE NextRecord(s) # None /\ s <= n
    <3>1. runs' = [runs EXCEPT ![s] = AfterRecord(@)] /\ buffer' = buffer
      BY <1>2, <2>2 DEF Advance
    <3>2. s \in 1..n
      BY <1>1, <2>2
    <3>3. runs[s] = Run(q)
      BY <3>2, RunWaits
    <3>4. Rest(q) \in Seq(Candidate) /\ AfterRecord(runs[s]) = Run(Rest(q))
      BY <1>4, <3>3, RestTyped
    <3>5. Run(Rest(q)) \in Seq(Cells) /\ Records(Run(Rest(q))) = Rest(q)
      BY <3>4, RunOf
    <3> DEFINE cells == Run(Rest(q))
    <3>6. runs' = [runs EXCEPT ![s] = cells]
      BY <3>1, <3>4
    <3> HIDE DEF cells, q, n
    <3>7. /\ runs' \in Seq(Seq(Cells)) /\ Len(runs') = n
          /\ \A r \in 1..n : runs'[r] = IF r = s THEN cells ELSE runs[r]
      BY <1>1, <3>2, <3>5, <3>6, ExceptSeq DEF n, cells
    <3>8. DOMAIN runs' = 1..n
      BY <1>1, <3>6
    <3>9. RunsOK'
      BY <1>1, <3>4, <3>5, <3>7, <3>8 DEF RunsOK, Shape, cells
    <3>10. Waiting(s)' = Rest(q)
      <4>1. s <= Len(runs')
        BY <2>2, <3>7
      <4> QED
        BY <3>2, <3>5, <3>7, <4>1 DEF Waiting, cells
    <3>11. ASSUME NEW t \in Sources, t # s PROVE Waiting(t)' = Waiting(t)
      <4>1. t <= n => t \in 1..n
        BY <1>1
      <4>2. t <= n => runs'[t] = runs[t]
        BY <3>7, <3>11, <4>1
      <4> QED
        BY <3>1, <3>7, <4>2 DEF Waiting, n
    <3> QED
      BY <1>1, <3>1, <3>7, <3>9, <3>10, <3>11
  <2>3. CASE NextRecord(s) # None /\ ~(s <= n)
    <3>1. runs' = runs /\ buffer' = Tail(buffer)
      BY <1>2, <2>3 DEF Advance
    <3>2. q = buffer /\ q # <<>>
      BY <1>4, <2>3, RestTyped DEF Waiting
    <3>3. Rest(q) = Tail(buffer) /\ Rest(q) \in Seq(Candidate)
      BY <1>4, <3>2, RestTyped DEF Rest
    <3>4. RunsOK'
      BY <3>1 DEF Shape, RunsOK
    <3>5. Waiting(s)' = Rest(q)
      BY <2>3, <3>1, <3>3 DEF Waiting
    <3>6. ASSUME NEW t \in Sources, t # s PROVE Waiting(t)' = Waiting(t)
      <4>1. t <= n
        BY <1>1, <2>3, <3>6
      <4> QED
        BY <3>1, <4>1 DEF Waiting
    <3> QED
      BY <3>1, <3>3, <3>4, <3>5, <3>6
  <2> QED
    BY <2>1, <2>2, <2>3
<1>8. Sources' = Sources
  BY <1>7 DEF Sources
<1>9. Line(s)' = q
  BY <1>2, <1>4, <1>6, <1>7, Refilled
<1>10. ASSUME NEW t \in Sources, t # s PROVE Line(t)' = Line(t)
  BY <1>2, <1>6, <1>7, <1>10 DEF Line, HasHead
<1>11. /\ Line(s) \in Seq(Candidate) /\ heads[s] \in Candidate /\ Line(s) # <<>>
       /\ Line(s)[1] = heads[s] /\ Len(Line(s)) = Len(q) + 1
       /\ \A i \in 1..Len(q) : Line(s)[i + 1] = q[i]
  BY <1>2, LineFacts DEF HasHead
<1>12. Tail(Line(s)) = q
  <2> DEFINE l == Line(s)
  <2>1. /\ Tail(l) \in Seq(Candidate) /\ Len(Tail(l)) = Len(l) - 1
        /\ \A i \in 1..Len(Tail(l)) : Tail(l)[i] = l[i + 1]
    BY <1>11, HeadTailProperties
  <2>2. Len(q) \in Nat
    BY <1>4, LenProperties
  <2> HIDE DEF q, l
  <2>3. Len(Tail(l)) = Len(q)
    BY <1>11, <2>1, <2>2 DEF l
  <2>4. \A i \in 1..Len(q) : Tail(l)[i] = q[i]
    BY <1>11, <2>1, <2>3 DEF l
  <2>5. Tail(l) = q
    BY <1>4, <2>1, <2>3, <2>4, SeqEqual
  <2> QED
    BY <2>5 DEF l
<1>13. ASSUME NEW t \in Sources, heads'[t] = None PROVE Waiting(t)' = <<>>
  <2>1. CASE t = s
    BY <1>4, <1>6, <1>7, <1>13, <2>1, RestTyped DEF Rest
  <2>2. CASE t # s
    BY <1>2, <1>6, <1>7, <1>13, <2>2 DEF Shape
  <2> QED
    BY <2>1, <2>2
<1> QED
  BY <1>6, <1>7, <1>8, <1>9, <1>10, <1>11, <1>12, <1>13

-----------------------------------------------------------------------------
(* Shape is kept.                                                          *)

\* The steps, those that leave the lines and what has come out alone as one.
Ends == OpenFails \/ (\E s \in Sources : PopFails(s)) \/ Drain \/ Finish \/ LastReport
Stays == Report \/ UNCHANGED vars

LEMMA Steps ==
  ASSUME [Next]_vars
  PROVE  \/ \E c \in Candidate : Push(c)
         \/ EndWalk \/ OpenMerge
         \/ \E s \in Sources : PopRecord(s)
         \/ Ends \/ Stays
BY DEF Next, Scan, Merge, Reporter, Ends, Stays

LEMMA EndsFrame ==
  ASSUME Ends
  PROVE  /\ UNCHANGED <<ahead, buffer, scanned, runs, heads, checked, stream>>
         /\ pc \in {"sorting", "merging", "stopping"} /\ pc' \in {"stopping", "finished"}
         /\ errors' \in {errors, errors + 1} /\ (errors' # errors => pc \in {"sorting", "merging"})
         /\ taken' \in {taken, <<>>}
BY DEF Ends, OpenFails, PopFails, Drain, Finish, LastReport, ReportSpillError, input, progress

LEMMA StaysFrame ==
  ASSUME Stays
  PROVE  /\ UNCHANGED <<pc, ahead, buffer, scanned, runs, heads, taken, groups, checked, errors, stream>>
         /\ \A s : Line(s)' = Line(s) /\ Waiting(s)' = Waiting(s)
         /\ Sources' = Sources
<1>1. UNCHANGED <<pc, ahead, buffer, scanned, runs, heads, taken, groups, checked, errors, stream>>
  BY DEF Stays, Report, vars, input, progress
<1> QED
  BY <1>1 DEF Line, Waiting, HasHead, Sources

LEMMA ShapeInit == Init => Shape
<1> SUFFICES ASSUME Init PROVE Shape
  OBVIOUS
<1>1. /\ pc = "walking" /\ ahead = Candidate /\ buffer = <<>> /\ runs = <<>> /\ heads = <<>>
      /\ taken = <<>> /\ groups = {} /\ stream = <<>> /\ errors = 0
  BY DEF Init
<1>2. DOMAIN runs = {}
  BY <1>1
<1> QED
  BY <1>1, <1>2 DEF Shape

LEMMA ShapeStep == ASSUME Shape, [Next]_vars PROVE Shape'
<1>1. ASSUME NEW c \in Candidate, Push(c) PROVE Shape'
  <2>1. PICK list \in Seq(Candidate) : Placed(list)
    BY <1>1, PushPlaces
  <2>2. /\ pc = "walking" /\ pc' = "walking" /\ ahead' = ahead \ {c}
        /\ UNCHANGED <<heads, taken, groups, errors, stream>>
    BY <1>1 DEF Push
  <2>3. RunsOK' /\ buffer' \in Seq(Candidate)
    <3>1. PICK n : n = Len(runs)
      OBVIOUS
    <3> QED
      BY <2>1, <2>2, <3>1, PlacedLines
  <2> QED
    BY <2>2, <2>3 DEF Shape, RunsOK, Reading
<1>2. ASSUME EndWalk PROVE Shape'
  <2>1. /\ pc = "walking" /\ pc' = "sorting" /\ ahead' = {} /\ buffer' \in Sorted(buffer)
        /\ UNCHANGED <<runs, heads, taken, groups, errors, stream>>
    BY <1>2 DEF EndWalk
  <2>2. buffer' \in Seq(Candidate)
    BY <2>1, SortedFacts DEF Shape
  <2> QED
    BY <2>1, <2>2 DEF Shape, Reading
<1>3. ASSUME OpenMerge PROVE Shape'
  <2>1. /\ pc = "sorting" /\ pc' = "merging"
        /\ UNCHANGED <<ahead, taken, groups, errors, stream>>
    BY <1>3 DEF OpenMerge
  <2>2. /\ RunsOK' /\ buffer' \in Seq(Candidate) /\ Sources' = Sources
        /\ heads' \in Seq(Candidate \cup {None}) /\ Len(heads') = Len(runs') + 1
        /\ \A s \in Sources : heads'[s] = None => Waiting(s)' = <<>>
    BY <1>3, OpenLines
  <2> QED
    BY <2>1, <2>2 DEF Shape, RunsOK, Reading
<1>4. ASSUME NEW s \in Sources, PopRecord(s) PROVE Shape'
  <2>1. /\ pc = "merging" /\ pc' = "merging" /\ UNCHANGED <<ahead, errors>>
        /\ stream' = Append(stream, heads[s]) /\ Collect(heads[s])
    BY <1>4 DEF PopRecord
  <2>2. /\ RunsOK' /\ buffer' \in Seq(Candidate) /\ Sources' = Sources
        /\ heads' \in Seq(Candidate \cup {None}) /\ Len(heads') = Len(runs') + 1
        /\ \A t \in Sources : heads'[t] = None => Waiting(t)' = <<>>
        /\ heads[s] \in Candidate
    BY <1>4, PopLines
  <2>3. stream' \in Seq(Candidate)
    BY <2>1, <2>2, AppendProperties DEF Shape
  <2>4. taken' \in Seq(Candidate)
    <3>1. taken \in Seq(Candidate)
      BY DEF Shape
    <3>2. taken' = Append(taken, heads[s]) \/ taken' = <<heads[s]>>
      BY <2>1 DEF Collect
    <3>3. Append(taken, heads[s]) \in Seq(Candidate) /\ <<heads[s]>> \in Seq(Candidate)
      BY <2>2, <3>1, AppendProperties
    <3> QED
      BY <3>2, <3>3
  <2> QED
    BY <2>1, <2>2, <2>3, <2>4 DEF Shape, RunsOK, Reading
<1>5. ASSUME Ends PROVE Shape'
  <2>1. <<>> \in Seq(Candidate)
    OBVIOUS
  <2>2. /\ UNCHANGED <<ahead, buffer, runs, heads, stream>>
        /\ pc \in {"sorting", "merging", "stopping"} /\ pc' \in {"stopping", "finished"}
        /\ errors' \in {errors, errors + 1} /\ (errors' # errors => pc \in {"sorting", "merging"})
        /\ taken' \in {taken, <<>>}
    BY <1>5, EndsFrame
  <2>3. errors \in {0, 1} /\ (pc \in {"sorting", "merging"} => errors = 0)
    BY DEF Shape, Reading
  <2>4. errors' \in {0, 1} /\ taken' \in Seq(Candidate)
    <3>1. errors' \in {0, 1}
      BY <2>2, <2>3
    <3>2. taken \in Seq(Candidate)
      BY DEF Shape
    <3> QED
      BY <2>1, <2>2, <3>1, <3>2
  <2>5. ~Reading' /\ ahead' = {} /\ pc' \notin {"walking", "sorting", "merging"}
    BY <2>2 DEF Shape, Reading
  <2>6. RunsOK'
    BY <2>2 DEF Shape, RunsOK
  <2>7. /\ buffer' \in Seq(Candidate) /\ heads' \in Seq(Candidate \cup {None})
        /\ stream' \in Seq(Candidate)
    BY <2>2 DEF Shape
  <2> QED
    BY <2>2, <2>4, <2>5, <2>6, <2>7 DEF Shape, RunsOK
<1>6. ASSUME Stays PROVE Shape'
  BY <1>6, StaysFrame DEF Shape, Reading
<1> QED
  BY <1>1, <1>2, <1>3, <1>4, <1>5, <1>6, Steps

-----------------------------------------------------------------------------
(* Each candidate is in one line, and the lines are in order.              *)

LEMMA LinesInit == Init => LinesOK
<1> SUFFICES ASSUME Init PROVE LinesOK
  OBVIOUS
<1>1. /\ pc = "walking" /\ ahead = Candidate /\ buffer = <<>> /\ runs = <<>> /\ stream = <<>>
  BY DEF Init
<1>2. Len(runs) = 0 /\ Sources = {1} /\ 0 < 1 /\ ~(1 <= 0)
  BY <1>1 DEF Sources
<1>3. Line(1) = <<>>
  BY <1>1, <1>2 DEF Line, HasHead, Waiting
<1>4. Elements(Line(1)) = {} /\ Distinct(Line(1))
  BY <1>3 DEF Elements, Distinct
<1> QED
  BY <1>1, <1>2, <1>4 DEF LinesOK

\* A sequence without its first record.
LEMMA TailElements ==
  ASSUME NEW q \in Seq(Candidate), q # <<>>
  PROVE  /\ Elements(q) = Elements(Tail(q)) \cup {q[1]} /\ q[1] \in Candidate
         /\ Distinct(q) => Distinct(Tail(q)) /\ q[1] \notin Elements(Tail(q))
         /\ Ordered(q) => Ordered(Tail(q)) /\ \A c \in Elements(q) : ~Less(c, q[1])
<1> DEFINE t == Tail(q)
           n == Len(q)
<1>1. t \in Seq(Candidate) /\ Len(t) = n - 1 /\ \A i \in 1..Len(t) : t[i] = q[i + 1]
  BY HeadTailProperties
<1>2. n \in Nat \ {0} /\ DOMAIN q = 1..n /\ q \in [1..n -> Candidate]
  BY EmptySeq, LenProperties
<1>3. DOMAIN t = 1..(n - 1)
  BY <1>1, LenProperties
<1> HIDE DEF t, n
<1>4. 1 \in 1..n /\ \A i \in 1..n : i = 1 \/ i - 1 \in 1..(n - 1)
  BY <1>2
<1>5. \A i \in 1..(n - 1) : i + 1 \in 1..n /\ i + 1 # 1 /\ i + 1 > 1
  BY <1>2
<1>6. \A i \in 1..n : i # 1 => q[i] = t[i - 1]
  BY <1>1, <1>2, <1>4
<1>7. \A i \in 1..(n - 1) : t[i] = q[i + 1]
  BY <1>1
<1>8. ASSUME NEW x \in Elements(q) PROVE x \in Elements(t) \cup {q[1]}
  BY <1>2, <1>3, <1>4, <1>6 DEF Elements
<1>9. ASSUME NEW x \in Elements(t) \cup {q[1]} PROVE x \in Elements(q)
  BY <1>2, <1>3, <1>4, <1>5, <1>7 DEF Elements
<1>10. ASSUME Distinct(q) PROVE Distinct(t) /\ q[1] \notin Elements(t)
  <2>1. Distinct(t)
    <3> SUFFICES ASSUME NEW i \in 1..(n - 1), NEW j \in 1..(n - 1), t[i] = t[j] PROVE i = j
      BY <1>3 DEF Distinct
    <3>1. q[i + 1] = q[j + 1] /\ i + 1 \in 1..n /\ j + 1 \in 1..n
      BY <1>5, <1>7
    <3>2. i + 1 = j + 1
      BY <1>2, <1>10, <3>1 DEF Distinct
    <3> QED
      BY <1>2, <3>2
  <2>2. ASSUME q[1] \in Elements(t) PROVE FALSE
    <3>1. PICK i \in 1..(n - 1) : q[1] = t[i]
      BY <1>3, <2>2 DEF Elements
    <3>2. q[1] = q[i + 1] /\ i + 1 \in 1..n /\ i + 1 # 1
      BY <1>5, <1>7, <3>1
    <3> QED
      BY <1>2, <1>4, <1>10, <3>2 DEF Distinct
  <2> QED
    BY <2>1, <2>2
<1>11. ASSUME Ordered(q) PROVE Ordered(t) /\ \A c \in Elements(q) : ~Less(c, q[1])
  <2>1. Ordered(t)
    <3> SUFFICES ASSUME NEW i \in 1..(n - 1), NEW j \in 1..(n - 1), i < j PROVE ~Less(t[j], t[i])
      BY <1>3 DEF Ordered
    <3>1. t[i] = q[i + 1] /\ t[j] = q[j + 1] /\ i + 1 \in 1..n /\ j + 1 \in 1..n
      BY <1>5, <1>7
    <3>2. i + 1 < j + 1
      BY <1>2
    <3> QED
      BY <1>2, <1>11, <3>1, <3>2 DEF Ordered
  <2>2. ASSUME NEW c \in Elements(q) PROVE ~Less(c, q[1])
    <3>1. PICK i \in 1..n : c = q[i]
      BY <1>2 DEF Elements
    <3>2. CASE i = 1
      BY <1>2, <3>1, <3>2, NotAfter
    <3>3. CASE i # 1
      <4>1. 1 < i
        BY <1>2, <3>3
      <4> QED
        BY <1>2, <1>4, <1>11, <3>1, <4>1 DEF Ordered
    <3> QED
      BY <3>2, <3>3
  <2> QED
    BY <2>1, <2>2
<1> QED
  BY <1>2, <1>4, <1>8, <1>9, <1>10, <1>11 DEF t

LEMMA LinesPush ==
  ASSUME Shape, LinesOK, NEW c \in Candidate, Push(c)
  PROVE  LinesOK'
<1>1. /\ pc = "walking" /\ pc' = "walking" /\ c \in ahead /\ ahead' = ahead \ {c}
      /\ stream' = stream
  BY DEF Push
<1>2. PICK n : n = Len(runs)
  OBVIOUS
<1>3. n \in Nat /\ Sources = 1..(n + 1) /\ DOMAIN runs = 1..n /\ n + 1 \in Sources
      /\ ~(n + 1 <= n) /\ \A s \in 1..n : s \in Sources /\ s # n + 1
  BY <1>2, SourceNumbers DEF Sources
<1>4. Line(n + 1) = buffer
  BY <1>1, <1>2, <1>3 DEF Line, HasHead, Waiting
<1>5. /\ \A s \in Sources : Distinct(Line(s))
      /\ \A s, t \in Sources : s # t => Elements(Line(s)) \cap Elements(Line(t)) = {}
      /\ \A s \in Sources : s <= Len(runs) => Ordered(Line(s))
      /\ \A d \in Candidate : d \notin ahead /\ d \notin Elements(stream)
                                 <=> \E s \in Sources : d \in Elements(Line(s))
  BY <1>1 DEF LinesOK, Reading
<1>6. \A s \in Sources : c \notin Elements(Line(s))
  BY <1>1, <1>5
<1>7. PICK list \in Seq(Candidate) :
         /\ Placed(list)
         /\ Elements(list) = Elements(buffer) \cup {c}
         /\ Distinct(buffer) /\ c \notin Elements(buffer) => Distinct(list)
  BY PushPlaces
<1>8. Distinct(list)
  BY <1>3, <1>4, <1>5, <1>6, <1>7
<1>9. /\ \A s \in 1..n : s \in Sources' /\ Line(s)' = Line(s)
      /\ n + 1 \in Sources' /\ Line(n + 1)' = list
      /\ \A s \in Sources' : s \in 1..n \/ s = n + 1 \/ Line(s)' = <<>>
      /\ n + 1 <= Len(runs') => Ordered(list)
      /\ \A s \in Sources' : s <= Len(runs') => s \in 1..n \/ s = n + 1
  BY <1>1, <1>2, <1>3, <1>7, PlacedLines
<1>10. /\ Elements(<<>>) = {} /\ Distinct(<<>>)
  BY DEF Elements, Distinct
<1>11. \A s \in Sources' : Distinct(Line(s)')
  BY <1>3, <1>5, <1>8, <1>9, <1>10
<1>12. \A s \in Sources' : s \notin 1..n /\ s # n + 1 => Elements(Line(s)') = {}
  BY <1>9, <1>10
<1>13. \A s \in 1..n : Elements(Line(s)') \cap Elements(list) = {}
  <2> SUFFICES ASSUME NEW s \in 1..n, NEW x \in Elements(Line(s)'), x \in Elements(list) PROVE FALSE
    OBVIOUS
  <2>1. x \in Elements(Line(s))
    BY <1>9
  <2>2. x = c \/ x \in Elements(Line(n + 1))
    BY <1>4, <1>7
  <2>3. s \in Sources /\ s # n + 1
    BY <1>3
  <2> QED
    BY <1>3, <1>5, <1>6, <2>1, <2>2, <2>3
<1>14. \A s, t \in Sources' : s # t => Elements(Line(s)') \cap Elements(Line(t)') = {}
  <2> SUFFICES ASSUME NEW s \in Sources', NEW t \in Sources', s # t
               PROVE  Elements(Line(s)') \cap Elements(Line(t)') = {}
    OBVIOUS
  <2>1. CASE s \in 1..n /\ t \in 1..n
    BY <1>3, <1>5, <1>9, <2>1
  <2>2. CASE s \in 1..n /\ t = n + 1
    BY <1>9, <1>13, <2>2
  <2>3. CASE s = n + 1 /\ t \in 1..n
    BY <1>9, <1>13, <2>3
  <2> QED
    BY <1>12, <2>1, <2>2, <2>3
<1>15. \A s \in Sources' : s <= Len(runs') => Ordered(Line(s)')
  <2> SUFFICES ASSUME NEW s \in Sources', s <= Len(runs') PROVE Ordered(Line(s)')
    OBVIOUS
  <2>1. CASE s \in 1..n
    <3>1. s \in Sources /\ s <= Len(runs)
      BY <1>2, <1>3, <2>1
    <3> QED
      BY <1>5, <1>9, <2>1, <3>1
  <2>2. CASE s = n + 1
    BY <1>9, <2>2
  <2> QED
    BY <1>9, <2>1, <2>2
<1>16. ASSUME NEW d \in Candidate
       PROVE  d \notin ahead' /\ d \notin Elements(stream')
                 <=> \E s \in Sources' : d \in Elements(Line(s)')
  <2>1. (\E s \in Sources' : d \in Elements(Line(s)'))
           <=> (\E s \in 1..n : d \in Elements(Line(s))) \/ d \in Elements(list)
    BY <1>9, <1>12
  <2>2. (\E s \in Sources : d \in Elements(Line(s)))
           <=> (\E s \in 1..n : d \in Elements(Line(s))) \/ d \in Elements(buffer)
    <3>1. \A s \in Sources : s \in 1..n \/ s = n + 1
      BY <1>3
    <3> QED
      BY <1>3, <1>4, <3>1
  <2>3. stream = <<>> /\ Elements(stream) = {}
    BY <1>1, <1>10 DEF Shape
  <2> QED
    BY <1>1, <1>5, <1>7, <2>1, <2>2, <2>3
<1> QED
  BY <1>1, <1>11, <1>14, <1>15, <1>16 DEF LinesOK

\* A sequence with one more record.
LEMMA Appended ==
  ASSUME NEW q \in Seq(Candidate), NEW c \in Candidate
  PROVE  /\ Append(q, c) \in Seq(Candidate) /\ Append(q, c) # <<>>
         /\ Len(Append(q, c)) = Len(q) + 1 /\ Append(q, c)[Len(Append(q, c))] = c
         /\ Elements(Append(q, c)) = Elements(q) \cup {c}
         /\ Distinct(q) /\ c \notin Elements(q) => Distinct(Append(q, c))
         /\ Ordered(q) /\ (\A d \in Elements(q) : ~Less(c, d)) => Ordered(Append(q, c))
<1> DEFINE a == Append(q, c)
           n == Len(q)
<1>1. /\ a \in Seq(Candidate) /\ Len(a) = n + 1 /\ a[n + 1] = c
      /\ \A i \in 1..n : a[i] = q[i]
  BY AppendProperties
<1>2. n \in Nat /\ DOMAIN q = 1..n
  BY LenProperties
<1>3. DOMAIN a = 1..(n + 1)
  BY <1>1, LenProperties
<1> HIDE DEF a, n
<1>4. /\ \A i \in 1..(n + 1) : i \in 1..n \/ i = n + 1
      /\ \A i \in 1..n : i \in 1..(n + 1) /\ i < n + 1
      /\ n + 1 \in 1..(n + 1) /\ n + 1 # 0
  BY <1>2
<1>5. Elements(a) = Elements(q) \cup {c}
  <2>1. \A x \in Elements(a) : x \in Elements(q) \cup {c}
    BY <1>1, <1>2, <1>3, <1>4 DEF Elements
  <2>2. \A x \in Elements(q) \cup {c} : x \in Elements(a)
    BY <1>1, <1>2, <1>3, <1>4 DEF Elements
  <2> QED
    BY <2>1, <2>2
<1>6. Distinct(q) /\ c \notin Elements(q) => Distinct(a)
  BY <1>1, <1>2, <1>3, <1>4 DEF Distinct, Elements
<1>7. ASSUME Ordered(q), \A d \in Elements(q) : ~Less(c, d) PROVE Ordered(a)
  <2> SUFFICES ASSUME NEW i \in 1..(n + 1), NEW j \in 1..(n + 1), i < j PROVE ~Less(a[j], a[i])
    BY <1>3 DEF Ordered
  <2>1. i \in 1..n
    BY <1>2
  <2>2. CASE j \in 1..n
    BY <1>1, <1>2, <1>7, <2>1, <2>2 DEF Ordered
  <2>3. CASE j = n + 1
    BY <1>1, <1>2, <1>7, <2>1, <2>3 DEF Elements
  <2> QED
    BY <1>4, <2>2, <2>3
<1>8. a # <<>>
  <2>1. Len(<<>>) = 0 /\ Len(a) # 0
    BY <1>1, <1>2
  <2> QED
    BY <2>1
<1> QED
  BY <1>1, <1>5, <1>6, <1>7, <1>8 DEF a, n

LEMMA LinesEndWalk ==
  ASSUME Shape, LinesOK, EndWalk
  PROVE  LinesOK' /\ \A s \in Sources : Elements(Line(s)') = Elements(Line(s))
<1>1. /\ pc = "walking" /\ pc' = "sorting" /\ ahead' = ahead /\ buffer' \in Sorted(buffer)
      /\ runs' = runs /\ stream' = stream
  BY DEF EndWalk
<1>2. PICK n : n = Len(runs)
  OBVIOUS
<1>3. n \in Nat /\ Sources = 1..(n + 1) /\ n + 1 \in Sources /\ ~(n + 1 <= n)
      /\ \A s \in Sources : s <= n \/ s = n + 1
  BY <1>2, SourceNumbers DEF Sources
<1>4. Sources' = Sources /\ Len(runs') = n
  BY <1>1, <1>2 DEF Sources
<1>5. \A s : ~HasHead(s) /\ ~HasHead(s)'
  BY <1>1 DEF HasHead
<1>6. Line(n + 1) = buffer /\ Line(n + 1)' = buffer'
  BY <1>2, <1>3, <1>4, <1>5 DEF Line, Waiting
<1>7. \A s \in Sources : s <= n => Line(s)' = Line(s)
  BY <1>1, <1>2, <1>5 DEF Line, Waiting
<1>8. /\ \A s \in Sources : Distinct(Line(s))
      /\ \A s, t \in Sources : s # t => Elements(Line(s)) \cap Elements(Line(t)) = {}
      /\ \A s \in Sources : s <= n => Ordered(Line(s))
      /\ \A d \in Candidate : d \notin ahead /\ d \notin Elements(stream)
                                 <=> \E s \in Sources : d \in Elements(Line(s))
  BY <1>1, <1>2 DEF LinesOK, Reading
<1>9. /\ Ordered(buffer') /\ Elements(buffer') = Elements(buffer)
      /\ Distinct(buffer) => Distinct(buffer')
  BY <1>1, SortedFacts DEF Shape
<1>10. \A s \in Sources : /\ Elements(Line(s)') = Elements(Line(s))
                          /\ Distinct(Line(s)') /\ Ordered(Line(s)')
  BY <1>3, <1>6, <1>7, <1>8, <1>9
<1>11. LinesOK'
  BY <1>1, <1>4, <1>8, <1>10 DEF LinesOK
<1> QED
  BY <1>10, <1>11

LEMMA LinesOpen ==
  ASSUME Shape, LinesOK, OpenMerge
  PROVE  LinesOK'
<1>1. pc = "sorting" /\ pc' = "merging" /\ ahead' = ahead /\ stream' = stream
  BY DEF OpenMerge
<1>2. Sources' = Sources /\ Len(runs') = Len(runs) /\ \A s \in Sources : Line(s)' = Line(s)
  BY OpenLines
<1> QED
  BY <1>1, <1>2 DEF LinesOK, Reading

LEMMA LinesPop ==
  ASSUME Shape, LinesOK, NEW s \in Sources, PopRecord(s)
  PROVE  LinesOK'
<1>1. pc = "merging" /\ pc' = "merging" /\ ahead' = ahead /\ stream' = Append(stream, heads[s])
  BY DEF PopRecord
<1>2. /\ Sources' = Sources /\ Len(runs') = Len(runs)
      /\ \A t \in Sources : t # s => Line(t)' = Line(t)
      /\ Line(s) # <<>> /\ Line(s)[1] = heads[s] /\ Line(s)' = Tail(Line(s))
      /\ heads[s] \in Candidate
  BY PopLines
<1>3. Line(s) \in Seq(Candidate)
  BY LineFacts
<1>4. /\ \A t \in Sources : Distinct(Line(t))
      /\ \A t, u \in Sources : t # u => Elements(Line(t)) \cap Elements(Line(u)) = {}
      /\ \A t \in Sources : Ordered(Line(t))
      /\ \A d \in Candidate : d \notin ahead /\ d \notin Elements(stream)
                                 <=> \E t \in Sources : d \in Elements(Line(t))
  BY <1>1 DEF LinesOK, Reading
<1>5. /\ Elements(Line(s)) = Elements(Line(s)') \cup {heads[s]}
      /\ Distinct(Line(s)') /\ heads[s] \notin Elements(Line(s)')
      /\ Ordered(Line(s)')
  BY <1>2, <1>3, <1>4, TailElements
<1>6. Elements(stream') = Elements(stream) \cup {heads[s]}
  BY <1>1, <1>2, Appended DEF Shape
<1>7. ASSUME NEW t \in Sources
      PROVE  /\ Distinct(Line(t)') /\ Ordered(Line(t)')
             /\ Elements(Line(t)') \subseteq Elements(Line(t))
             /\ t # s => Elements(Line(t)') = Elements(Line(t))
  <2>1. CASE t = s
    BY <1>5, <2>1
  <2>2. CASE t # s
    <3>1. Line(t)' = Line(t) /\ Distinct(Line(t)) /\ Ordered(Line(t))
      BY <1>2, <1>4, <2>2
    <3> QED
      BY <2>2, <3>1
  <2> QED
    BY <2>1, <2>2
<1>8. \A t, u \in Sources : t # u => Elements(Line(t)') \cap Elements(Line(u)') = {}
  BY <1>4, <1>7
<1>9. ASSUME NEW d \in Candidate
      PROVE  d \notin ahead' /\ d \notin Elements(stream')
                <=> \E t \in Sources' : d \in Elements(Line(t)')
  <2>1. CASE d = heads[s]
    <3>1. d \in Elements(Line(s))
      BY <1>5, <2>1
    <3>2. \A t \in Sources : d \notin Elements(Line(t)')
      BY <1>4, <1>5, <1>7, <2>1, <3>1
    <3> QED
      BY <1>2, <1>6, <2>1, <3>2
  <2>2. CASE d # heads[s]
    <3>1. d \in Elements(Line(s)) <=> d \in Elements(Line(s)')
      BY <1>5, <2>2
    <3>2. \A t \in Sources : d \in Elements(Line(t)) <=> d \in Elements(Line(t)')
      BY <1>7, <3>1
    <3> QED
      BY <1>1, <1>2, <1>4, <1>6, <2>2, <3>2
  <2> QED
    BY <2>1, <2>2
<1> QED
  BY <1>2, <1>7, <1>8, <1>9 DEF LinesOK

LEMMA LinesStep == ASSUME Shape, LinesOK, [Next]_vars PROVE LinesOK'
<1>1. ASSUME Ends PROVE LinesOK'
  BY <1>1, EndsFrame DEF LinesOK, Reading
<1>2. ASSUME Stays PROVE LinesOK'
  <2>1. /\ pc' = pc /\ ahead' = ahead /\ runs' = runs /\ stream' = stream /\ Sources' = Sources
        /\ \A s : Line(s)' = Line(s)
    BY <1>2, StaysFrame
  <2> QED
    BY <2>1 DEF LinesOK, Reading
<1> QED
  BY <1>1, <1>2, Steps, LinesPush, LinesEndWalk, LinesOpen, LinesPop

-----------------------------------------------------------------------------
(* What has come out is in order.                                          *)

LEMMA ElementsTyped ==
  ASSUME NEW q \in Seq(Candidate)
  PROVE  Elements(q) \subseteq Candidate /\ (Elements(q) = {} <=> q = <<>>)
<1>1. Len(q) \in Nat /\ DOMAIN q = 1..Len(q) /\ q \in [1..Len(q) -> Candidate]
  BY LenProperties
<1>2. q # <<>> => 1 \in 1..Len(q)
  BY <1>1, EmptySeq
<1>3. Elements(<<>>) = {}
  BY DEF Elements
<1> QED
  BY <1>1, <1>2, <1>3 DEF Elements

\* The record that is popped comes after none that is left.
LEMMA HeadIsLeast ==
  ASSUME Shape, LinesOK, pc = "merging", NEW s \in Sources, LeastSource(s)
  PROVE  \A t \in Sources : \A c \in Elements(Line(t)) : c \in Candidate /\ ~Less(c, heads[s])
<1> SUFFICES ASSUME NEW t \in Sources, NEW c \in Elements(Line(t))
             PROVE  c \in Candidate /\ ~Less(c, heads[s])
  OBVIOUS
<1>1. Line(t) \in Seq(Candidate) /\ Line(s) \in Seq(Candidate)
  BY LineFacts
<1>2. c \in Candidate /\ Line(t) # <<>>
  BY <1>1, ElementsTyped
<1>3. HasHead(t) /\ HasHead(s)
  BY <1>2, LineFacts DEF LeastSource, HasHead
<1>4. heads[t] \in Candidate /\ Line(t)[1] = heads[t] /\ heads[s] \in Candidate
  BY <1>3, LineFacts
<1>5. Ordered(Line(t))
  BY DEF LinesOK, Reading
<1>6. ~Less(c, heads[t])
  BY <1>1, <1>2, <1>4, <1>5, TailElements
<1>7. ~Less(heads[t], heads[s])
  BY <1>3 DEF LeastSource, HasHead
<1> QED
  BY <1>2, <1>4, <1>6, <1>7, NotAfter

LEMMA EmptyStream == Elements(<<>>) = {} /\ Distinct(<<>>) /\ Ordered(<<>>)
BY DEF Elements, Distinct, Ordered

LEMMA StreamInit == Init => StreamOK
BY EmptyStream DEF Init, StreamOK

\* What PopRecord does to the stream.
LEMMA StreamPop ==
  ASSUME Shape, LinesOK, StreamOK, NEW s \in Sources, PopRecord(s)
  PROVE  /\ heads[s] \in Candidate /\ heads[s] \notin Elements(stream)
         /\ heads[s] \in Elements(Line(s))
         /\ \A t \in Sources : \A c \in Elements(Line(t)) : c \in Candidate /\ ~Less(c, heads[s])
         /\ \A d \in Elements(stream) : ~Less(heads[s], d)
         /\ stream' \in Seq(Candidate) /\ stream' = Append(stream, heads[s])
         /\ Elements(stream') = Elements(stream) \cup {heads[s]}
         /\ StreamOK'
<1>1. /\ pc = "merging" /\ pc' = "merging" /\ stream' = Append(stream, heads[s])
      /\ LeastSource(s)
  BY DEF PopRecord
<1>2. /\ Sources' = Sources
      /\ \A t \in Sources : t # s => Line(t)' = Line(t)
      /\ Line(s) # <<>> /\ Line(s)[1] = heads[s] /\ Line(s)' = Tail(Line(s))
      /\ heads[s] \in Candidate
  BY PopLines
<1>3. Line(s) \in Seq(Candidate)
  BY LineFacts
<1>4. heads[s] \in Elements(Line(s)) /\ Elements(Line(s)') \subseteq Elements(Line(s))
  BY <1>2, <1>3, TailElements
<1>5. \A t \in Sources : Elements(Line(t)') \subseteq Elements(Line(t))
  BY <1>2, <1>4
<1>6. heads[s] \notin Elements(stream)
  BY <1>1, <1>2, <1>4 DEF LinesOK, Reading
<1>7. \A t \in Sources : \A c \in Elements(Line(t)) : c \in Candidate /\ ~Less(c, heads[s])
  BY <1>1, HeadIsLeast
<1>8. \A d \in Elements(stream) : ~Less(heads[s], d)
  BY <1>1, <1>4 DEF StreamOK
<1>9. /\ Elements(stream') = Elements(stream) \cup {heads[s]} /\ stream' \in Seq(Candidate)
      /\ Ordered(stream') /\ Distinct(stream')
  BY <1>1, <1>2, <1>6, <1>8, Appended DEF Shape, StreamOK
<1>10. ASSUME NEW t \in Sources, NEW c \in Elements(Line(t)'), NEW d \in Elements(stream')
       PROVE  ~Less(c, d)
  <2>1. c \in Elements(Line(t))
    BY <1>5
  <2>2. CASE d = heads[s]
    BY <1>7, <2>1, <2>2
  <2>3. CASE d \in Elements(stream)
    BY <1>1, <2>1, <2>3 DEF StreamOK
  <2> QED
    BY <1>9, <2>2, <2>3
<1>11. StreamOK'
  BY <1>1, <1>2, <1>9, <1>10 DEF StreamOK
<1> QED
  BY <1>1, <1>2, <1>4, <1>6, <1>7, <1>8, <1>9, <1>11

\* When no source has a head, everything has come out.
LEMMA AllOut ==
  ASSUME Shape, LinesOK, pc = "merging", \A s \in Sources : heads[s] = None
  PROVE  Elements(stream) = Candidate
<1>1. \A s \in Sources : Line(s) = <<>>
  BY LineFacts DEF HasHead
<1>2. \A s \in Sources : Elements(Line(s)) = {}
  BY <1>1, EmptyStream
<1>3. \A c \in Candidate : c \in ahead \/ c \in Elements(stream)
  BY <1>2 DEF LinesOK, Reading
<1>4. ahead = {} /\ stream \in Seq(Candidate)
  BY DEF Shape
<1> QED
  BY <1>3, <1>4, ElementsTyped

LEMMA StreamStep == ASSUME Shape, LinesOK, StreamOK, [Next]_vars PROVE StreamOK'
<1>1. ASSUME pc' \in {"walking", "sorting"}, stream' = stream PROVE StreamOK'
  BY <1>1 DEF StreamOK
<1>2. ASSUME NEW c \in Candidate, Push(c) PROVE StreamOK'
  BY <1>1, <1>2 DEF Push
<1>3. ASSUME EndWalk PROVE StreamOK'
  BY <1>1, <1>3 DEF EndWalk
<1>4. ASSUME OpenMerge PROVE StreamOK'
  <2>1. stream = <<>> /\ stream' = stream /\ pc' = "merging"
    BY <1>4 DEF OpenMerge, Shape
  <2> QED
    BY <2>1, EmptyStream DEF StreamOK
<1>5. ASSUME NEW s \in Sources, PopRecord(s) PROVE StreamOK'
  BY <1>5, StreamPop
<1>6. ASSUME Ends PROVE StreamOK'
  <2>1. pc' \in {"stopping", "finished"} /\ stream' = stream
    BY <1>6, EndsFrame
  <2>2. ASSUME errors' = 0 PROVE Elements(stream) = Candidate
    <3>1. errors \in {0, 1} /\ errors + 1 # 0
      BY DEF Shape
    <3>2. ~OpenFails /\ ~\E s \in Sources : PopFails(s)
      BY <2>2, <3>1 DEF OpenFails, PopFails, ReportSpillError
    <3>3. CASE Drain
      BY <3>3, AllOut DEF Drain
    <3>4. CASE Finish \/ LastReport
      BY <2>2, <3>4 DEF Finish, LastReport, StreamOK
    <3> QED
      BY <1>6, <3>2, <3>3, <3>4 DEF Ends
  <2> QED
    BY <2>1, <2>2 DEF StreamOK
<1>7. ASSUME Stays PROVE StreamOK'
  <2>1. /\ pc' = pc /\ errors' = errors /\ stream' = stream /\ Sources' = Sources
        /\ \A s : Line(s)' = Line(s)
    BY <1>7, StaysFrame
  <2> QED
    BY <2>1 DEF StreamOK
<1> QED
  BY <1>2, <1>3, <1>4, <1>5, <1>6, <1>7, Steps

-----------------------------------------------------------------------------
(* The counters.                                                           *)

LEMMA Counted ==
  ASSUME NEW q \in Seq(Candidate), Distinct(q)
  PROVE  Cardinality(Elements(q)) = Len(q)
<1> DEFINE n == Len(q)
           S == Elements(q)
<1>1. n \in Nat /\ DOMAIN q = 1..n /\ q \in [1..n -> Candidate]
  BY LenProperties
<1> HIDE DEF n
<1>2. q \in [1..n -> S]
  BY <1>1 DEF Elements
<1>3. \A i, j \in 1..n : q[i] = q[j] => i = j
  BY <1>1 DEF Distinct
<1>4. \A x \in S : \E i \in 1..n : q[i] = x
  BY <1>1 DEF Elements
<1> HIDE DEF S
<1>5. q \in Injection(1..n, S)
  BY <1>2, <1>3 DEF Injection, IsInjective
<1>6. q \in Surjection(1..n, S)
  BY <1>2, <1>4 DEF Surjection
<1>7. ExistsBijection(1..n, S)
  BY <1>5, <1>6 DEF ExistsBijection, Bijection
<1>8. Cardinality(S) = n
  BY <1>1, <1>7, FS_CountingElements
<1> QED
  BY <1>8 DEF n, S

LEMMA CountsInit == Init => CountsOK
<1> SUFFICES ASSUME Init PROVE CountsOK
  OBVIOUS
<1>1. /\ pc = "walking" /\ ahead = Candidate /\ scanned = 0 /\ checked = 0
      /\ reporter = "unborn" /\ stream = <<>>
  BY DEF Init
<1>2. Candidate \ ahead = {} /\ Len(stream) = 0
  BY <1>1
<1> QED
  BY <1>1, <1>2, FS_EmptySet DEF CountsOK

LEMMA CountsStep == ASSUME Shape, CountsOK, [Next]_vars PROVE CountsOK'
<1>1. ASSUME NEW c \in Candidate, Push(c) PROVE CountsOK'
  <2>1. /\ pc = "walking" /\ pc' = pc /\ c \in ahead /\ ahead' = ahead \ {c}
        /\ scanned' = scanned + 1 /\ UNCHANGED <<checked, reporter, stream>>
    BY <1>1 DEF Push
  <2> DEFINE S == Candidate \ ahead
  <2>2. Candidate \ ahead' = S \cup {c} /\ c \notin S /\ S \in SUBSET Candidate
    BY <2>1
  <2>3. IsFiniteSet(S)
    BY <2>2, FS_Subset, CandidateAssumption
  <2>4. Cardinality(S \cup {c}) = Cardinality(S) + 1
    BY <2>2, <2>3, FS_AddElement
  <2>5. scanned' = Cardinality(Candidate \ ahead')
    BY <2>1, <2>2, <2>4 DEF CountsOK
  <2> QED
    BY <2>1, <2>5 DEF CountsOK
<1>2. ASSUME EndWalk \/ OpenMerge PROVE CountsOK'
  BY <1>2 DEF EndWalk, OpenMerge, CountsOK, progress
<1>3. ASSUME NEW s \in Sources, PopRecord(s) PROVE CountsOK'
  <2>1. /\ pc = "merging" /\ pc' = pc /\ checked' = checked + 1
        /\ stream' = Append(stream, heads[s]) /\ heads[s] \in Candidate
        /\ UNCHANGED <<ahead, scanned, shown, reporter>>
    BY <1>3, PopLines DEF PopRecord, Check, progress
  <2>2. Len(stream') = Len(stream) + 1
    BY <2>1, AppendProperties DEF Shape
  <2> QED
    BY <2>1, <2>2 DEF CountsOK
<1>4. ASSUME Ends PROVE CountsOK'
  <2>1. /\ UNCHANGED <<ahead, scanned, checked, stream>> /\ pc' \in {"stopping", "finished"}
    BY <1>4, EndsFrame
  <2>2. UNCHANGED progress \/ (shown' = <<scanned, checked>> /\ reporter' = "gone")
    BY <1>4 DEF Ends, OpenFails, PopFails, Drain, Finish, LastReport
  <2> QED
    BY <2>1, <2>2 DEF CountsOK, progress
<1>5. ASSUME Stays PROVE CountsOK'
  <2>1. /\ UNCHANGED <<pc, ahead, scanned, checked, stream, reporter>>
        /\ shown' = shown \/ reporter = "running"
    BY <1>5 DEF Stays, Report, vars, input, progress
  <2> QED
    BY <2>1 DEF CountsOK
<1> QED
  BY <1>1, <1>2, <1>3, <1>4, <1>5, Steps

\* The counters stay within what there is.
LEMMA CountsBounded ==
  ASSUME Shape, StreamOK, CountsOK, LinesOK
  PROVE  scanned \in 0..Cardinality(Candidate) /\ checked \in 0..scanned
<1>1. stream \in Seq(Candidate) /\ Distinct(stream)
  BY DEF Shape, StreamOK
<1>2. checked = Cardinality(Elements(stream)) /\ checked \in Nat
  BY <1>1, Counted, LenProperties DEF CountsOK
<1>3. Candidate \ ahead \in SUBSET Candidate
  OBVIOUS
<1>4. /\ IsFiniteSet(Candidate \ ahead) /\ Cardinality(Candidate \ ahead) <= Cardinality(Candidate)
      /\ IsFiniteSet(Candidate)
  BY <1>3, FS_Subset, CandidateAssumption
<1>5. Cardinality(Candidate) \in Nat /\ Cardinality(Candidate \ ahead) \in Nat
  BY <1>4, FS_CardinalityType
<1>6. Elements(stream) \in SUBSET (Candidate \ ahead)
  <2>1. Elements(stream) \subseteq Candidate
    BY <1>1, ElementsTyped
  <2>2. pc # "walking" => ahead = {}
    BY DEF Shape
  <2>3. pc = "walking" => stream = <<>>
    BY DEF Shape
  <2> QED
    BY <2>1, <2>2, <2>3, EmptyStream
<1>7. Cardinality(Elements(stream)) <= Cardinality(Candidate \ ahead)
  BY <1>4, <1>6, FS_Subset
<1> QED
  BY <1>2, <1>4, <1>5, <1>7 DEF CountsOK

-----------------------------------------------------------------------------
(* The size groups.                                                        *)

\* The candidates of one size come as one piece, those of one file in it too.
Files(S) == {{d \in S : d.file_id = c.file_id} : c \in S}
OfSize(size) == {c \in Candidate : c.size = size}

LEMMA SizeGroupFiles == \A size : SizeGroup(size) = Files(OfSize(size))
BY DEF SizeGroup, Files, OfSize

LEMMA FilesDiffer ==
  ASSUME NEW S
  PROVE  /\ Files(S) \subseteq SUBSET S
         /\ \A file, other \in Files(S) :
               file # other => \A c \in file, d \in other : c.file_id # d.file_id
<1> SUFFICES ASSUME NEW file \in Files(S), NEW other \in Files(S), NEW c \in file, NEW d \in other,
                    c.file_id = d.file_id
             PROVE  file = other
  BY DEF Files
<1>1. PICK a \in S : file = {x \in S : x.file_id = a.file_id}
  BY DEF Files
<1>2. PICK b \in S : other = {x \in S : x.file_id = b.file_id}
  BY DEF Files
<1> QED
  BY <1>1, <1>2

\* In an ordered list of one size the neighbours of a record with its file id
\* are all the records with its file id (chunk_by finds every alias).
LEMMA NeighboursAreFiles ==
  ASSUME NEW q \in Seq(Candidate), Ordered(q),
         \A c, d \in Elements(q) : c.size = d.size
  PROVE  FileGroups(q) = Files(Elements(q))
<1> DEFINE n == Len(q)
<1>1. n \in Nat /\ DOMAIN q = 1..n /\ q \in [1..n -> Candidate]
  BY LenProperties
<1> HIDE DEF n
<1>2. Elements(q) = {q[i] : i \in 1..n} /\ Elements(q) \subseteq Candidate
  BY <1>1 DEF Elements
<1>3. \A i, j \in 1..n : i <= j => ~Less(q[j], q[i])
  <2> SUFFICES ASSUME NEW i \in 1..n, NEW j \in 1..n, i <= j PROVE ~Less(q[j], q[i])
    OBVIOUS
  <2>1. CASE i = j
    BY <1>1, <2>1, NotAfter
  <2>2. CASE i # j
    <3>1. i < j
      BY <1>1, <2>2
    <3> QED
      BY <1>1, <3>1 DEF Ordered
  <2> QED
    BY <2>1, <2>2
<1>4. ASSUME NEW i \in 1..n
      PROVE  Aliases(q, i) = {d \in Elements(q) : d.file_id = q[i].file_id}
  <2>1. ASSUME NEW x \in Aliases(q, i)
        PROVE  x \in Elements(q) /\ x.file_id = q[i].file_id
    <3>1. PICK j \in 1..n : /\ x = q[j]
                            /\ \A k \in (i..j) \cup (j..i) : q[k].file_id = q[i].file_id
      BY <1>1, <2>1 DEF Aliases
    <3>2. j \in (i..j) \cup (j..i)
      BY <1>1
    <3> QED
      BY <1>2, <3>1, <3>2
  <2>2. ASSUME NEW x \in Elements(q), x.file_id = q[i].file_id
        PROVE  x \in Aliases(q, i)
    <3>1. PICK j \in 1..n : x = q[j]
      BY <1>2
    <3>2. ASSUME NEW k \in (i..j) \cup (j..i) PROVE q[k].file_id = q[i].file_id
      <4>1. k \in 1..n /\ ((i <= k /\ k <= j) \/ (j <= k /\ k <= i))
        BY <1>1
      <4>2. /\ q[i] \in Candidate /\ q[j] \in Candidate /\ q[k] \in Candidate
            /\ q[i].size = q[k].size /\ q[k].size = q[j].size /\ q[i].file_id = q[j].file_id
        BY <1>1, <1>2, <2>2, <3>1, <4>1
      <4>3. CASE i <= k /\ k <= j
        <5>1. ~Less(q[k], q[i]) /\ ~Less(q[j], q[k])
          BY <1>3, <4>1, <4>3
        <5> QED
          BY <4>2, <5>1, Between
      <4>4. CASE j <= k /\ k <= i
        <5>1. ~Less(q[k], q[j]) /\ ~Less(q[i], q[k])
          BY <1>3, <4>1, <4>4
        <5>2. q[k].file_id = q[j].file_id
          BY <4>2, <5>1, Between
        <5> QED
          BY <4>2, <5>2
      <4> QED
        BY <4>1, <4>3, <4>4
    <3> QED
      BY <1>1, <3>1, <3>2 DEF Aliases
  <2> QED
    BY <2>1, <2>2
<1>5. FileGroups(q) = {Aliases(q, i) : i \in 1..n}
  BY <1>1 DEF FileGroups
<1>6. ASSUME NEW g \in FileGroups(q) PROVE g \in Files(Elements(q))
  <2>1. PICK i \in 1..n : g = Aliases(q, i)
    BY <1>5
  <2> QED
    BY <1>2, <1>4, <2>1 DEF Files
<1>7. ASSUME NEW g \in Files(Elements(q)) PROVE g \in FileGroups(q)
  <2>1. PICK c \in Elements(q) : g = {d \in Elements(q) : d.file_id = c.file_id}
    BY DEF Files
  <2>2. PICK i \in 1..n : c = q[i]
    BY <1>2
  <2>3. g = Aliases(q, i)
    BY <1>4, <2>1, <2>2
  <2> QED
    BY <1>5, <2>3
<1> QED
  BY <1>6, <1>7

\* The record that was reached is the last of what has come out.
LEMMA ReachedFacts ==
  ASSUME Shape, StreamOK, stream # <<>>
  PROVE  /\ Reached \in Nat
         /\ \E c \in Elements(stream) : c.size = Reached
         /\ \A c \in Elements(stream) : c \in Candidate /\ c.size <= Reached
<1> DEFINE n == Len(stream)
<1>1. stream \in Seq(Candidate)
  BY DEF Shape
<1>2. n \in Nat /\ DOMAIN stream = 1..n /\ stream \in [1..n -> Candidate] /\ n # 0
  BY <1>1, LenProperties, EmptySeq
<1>3. Reached = stream[n].size
  BY DEF Reached
<1> HIDE DEF n
<1>4. n \in 1..n /\ \A i \in 1..n : i = n \/ i < n
  BY <1>2
<1>5. stream[n] \in Candidate /\ stream[n] \in Elements(stream)
  BY <1>2, <1>4 DEF Elements
<1>6. ASSUME NEW c \in Elements(stream) PROVE c \in Candidate /\ c.size <= Reached
  <2>1. PICK i \in 1..n : c = stream[i]
    BY <1>2 DEF Elements
  <2>2. ~Less(stream[n], c)
    BY <1>2, <1>4, <1>5, <2>1, NotAfter DEF StreamOK, Ordered
  <2>3. c \in Candidate
    BY <1>2, <2>1
  <2> QED
    BY <1>3, <1>5, <2>2, <2>3, NotAfter
<1> QED
  BY <1>3, <1>5, <1>6, CandidateParts

\* Handing out the group of the size z, when the next size there is is not
\* below y.
LEMMA NextGroup ==
  ASSUME groups = GroupsBelow(Reached), NEW z, z = Reached, z \in Nat, NEW y \in Nat, z < y,
         FileGroups(taken) = SizeGroup(z),
         \E c \in Candidate : c.size = z,
         \A c \in Candidate : c.size < y => c.size <= z
  PROVE  GroupsWith(taken) = GroupsBelow(y)
<1>1. \A c \in Candidate : c.size \in Nat
  BY CandidateParts
<1>2. \A c \in Candidate : c.size < y <=> c.size < z \/ c.size = z
  BY <1>1
<1>3. {SizeGroup(c.size) : c \in {d \in Candidate : d.size < y}} =
         {SizeGroup(c.size) : c \in {d \in Candidate : d.size < z}} \cup {SizeGroup(z)}
  BY <1>2
<1>4. GroupsBelow(y) = groups \cup {g \in {SizeGroup(z)} : Cardinality(g) > 1}
  BY <1>3 DEF GroupsBelow
<1>5. CASE Cardinality(SizeGroup(z)) > 1
  BY <1>4, <1>5 DEF GroupsWith
<1>6. CASE ~(Cardinality(SizeGroup(z)) > 1)
  BY <1>4, <1>6 DEF GroupsWith
<1> QED
  BY <1>5, <1>6

LEMMA BelowLeast ==
  ASSUME NEW y, \A c \in Candidate : ~(c.size < y)
  PROVE  GroupsBelow(y) = {}
BY DEF GroupsBelow

LEMMA BelowTyped ==
  ASSUME NEW y
  PROVE  /\ GroupsBelow(y) \subseteq SizeGroups
         /\ (\A c \in Candidate : c.size < y) => GroupsBelow(y) = SizeGroups
         /\ \A g \in SizeGroups : g \subseteq SUBSET Candidate
         /\ \A g \in SizeGroups : \A file, other \in g :
               file # other => \A c \in file, d \in other : c.file_id # d.file_id
<1>1. /\ GroupsBelow(y) \subseteq SizeGroups
      /\ (\A c \in Candidate : c.size < y) => GroupsBelow(y) = SizeGroups
  BY DEF GroupsBelow, SizeGroups
<1>2. \A g \in SizeGroups : \E size : g = Files(OfSize(size))
  BY SizeGroupFiles DEF SizeGroups
<1>3. \A size : OfSize(size) \subseteq Candidate
  BY DEF OfSize
<1> QED
  BY <1>1, <1>2, <1>3, FilesDiffer

\* What is collected, as files.
LEMMA TakenFiles ==
  ASSUME Shape, GroupsOK, pc = "merging"
  PROVE  /\ FileGroups(taken) = Files(Elements(taken))
         /\ \A c \in Elements(taken) : c \in Elements(stream) /\ c \in Candidate /\ c.size = Reached
<1>1. taken \in Seq(Candidate) /\ Ordered(taken)
  BY DEF Shape, GroupsOK
<1>2. \A c \in Elements(taken) : c \in Elements(stream) /\ c.size = Reached
  BY DEF GroupsOK
<1>3. \A c, d \in Elements(taken) : c.size = d.size
  BY <1>2
<1> QED
  BY <1>1, <1>2, <1>3, NeighboursAreFiles, ElementsTyped

\* If the candidates of the size that was reached have all come out, what is
\* collected is the group of that size.
LEMMA TakenGroup ==
  ASSUME Shape, GroupsOK, pc = "merging", NEW z, z = Reached,
         \A c \in Candidate : c.size = z => c \in Elements(stream)
  PROVE  FileGroups(taken) = SizeGroup(z)
<1>1. Elements(taken) = {c \in Elements(stream) : c.size = z}
  BY DEF GroupsOK
<1>2. Elements(stream) \subseteq Candidate
  BY ElementsTyped DEF Shape
<1>3. Elements(taken) = OfSize(z)
  BY <1>1, <1>2 DEF OfSize
<1> QED
  BY <1>3, TakenFiles, SizeGroupFiles

LEMMA GroupsPop ==
  ASSUME Shape, LinesOK, StreamOK, GroupsOK, NEW s \in Sources, PopRecord(s)
  PROVE  GroupsOK'
<1> DEFINE h == heads[s]
<1>1. /\ h \in Candidate /\ h \notin Elements(stream)
      /\ \A t \in Sources : \A c \in Elements(Line(t)) : c \in Candidate /\ ~Less(c, h)
      /\ \A d \in Elements(stream) : ~Less(h, d)
      /\ stream' \in Seq(Candidate) /\ stream' = Append(stream, h)
      /\ Elements(stream') = Elements(stream) \cup {h}
  BY StreamPop
<1>2. pc = "merging" /\ pc' = "merging" /\ Collect(h)
  BY DEF PopRecord
<1>3. stream \in Seq(Candidate) /\ taken \in Seq(Candidate) /\ ahead = {}
  BY <1>2 DEF Shape
<1>4. Reached' = h.size /\ h.size \in Nat
  <2>1. stream' # <<>> /\ stream'[Len(stream')] = h
    BY <1>1, <1>3, Appended
  <2> QED
    BY <1>1, <2>1, CandidateParts DEF Reached
<1>5. \A d \in Candidate : d \in Elements(stream) \/ ~Less(d, h)
  BY <1>1, <1>2, <1>3 DEF LinesOK, Reading
<1>6. \A d \in Candidate : d.size < h.size => d \in Elements(stream)
  <2> SUFFICES ASSUME NEW d \in Candidate, d.size < h.size, d \notin Elements(stream) PROVE FALSE
    OBVIOUS
  <2>1. ~Less(d, h)
    BY <1>5
  <2>2. h.size <= d.size
    BY <1>1, <2>1, NotAfter
  <2> QED
    BY <1>1, <2>2, CandidateParts
<1> HIDE DEF h
<1>7. /\ groups = GroupsBelow(Reached) /\ Ordered(taken) /\ (taken = <<>> => stream = <<>>)
      /\ Elements(taken) = {c \in Elements(stream) : c.size = Reached}
  BY <1>2 DEF GroupsOK
<1>8. taken # <<>> => /\ stream # <<>> /\ taken[1] \in Elements(taken) /\ taken[1].size = Reached
  <2>1. taken # <<>> => taken[1] \in Elements(taken)
    BY <1>3, TailElements
  <2>2. taken # <<>> => stream # <<>>
    BY <1>7, <2>1, EmptyStream
  <2> QED
    BY <1>7, <2>1, <2>2
<1>9. /\ groups' = GroupsBelow(h.size)
      /\ Ordered(taken') /\ taken' # <<>>
      /\ Elements(taken') = {c \in Elements(stream') : c.size = h.size}
  <2>1. CASE taken = <<>>
    <3>1. stream = <<>> /\ groups' = groups /\ taken' = Append(<<>>, h) /\ Elements(<<>>) = {}
      BY <1>2, <1>7, <2>1, EmptyStream DEF Collect
    <3>2. <<>> \in Seq(Candidate) /\ Ordered(<<>>)
      BY EmptyStream
    <3>3. Ordered(taken') /\ taken' # <<>> /\ Elements(taken') = {h}
      BY <1>1, <3>1, <3>2, Appended
    <3>4. Elements(stream') = {h}
      BY <1>1, <3>1
    <3>5. \A c \in Candidate : ~(c.size < h.size)
      BY <1>6, <3>1
    <3>6. Reached = 0 /\ \A c \in Candidate : ~(c.size < 0)
      BY <3>1, CandidateParts DEF Reached
    <3>7. groups = {} /\ GroupsBelow(h.size) = {}
      BY <1>7, <3>5, <3>6, BelowLeast
    <3> QED
      BY <3>1, <3>3, <3>4, <3>7
  <2>2. CASE taken # <<>> /\ taken[1].size = h.size
    <3>1. groups' = groups /\ taken' = Append(taken, h) /\ Reached = h.size
      BY <1>2, <1>8, <2>2 DEF Collect
    <3>2. \A d \in Elements(taken) : ~Less(h, d)
      BY <1>1, <1>7
    <3>3. Ordered(taken') /\ taken' # <<>> /\ Elements(taken') = Elements(taken) \cup {h}
      BY <1>1, <1>3, <1>7, <3>1, <3>2, Appended
    <3> QED
      BY <1>1, <1>7, <3>1, <3>3
  <2>3. CASE taken # <<>> /\ taken[1].size # h.size
    <3>1. groups' = GroupsWith(taken) /\ taken' = <<h>> /\ Reached # h.size
      BY <1>2, <1>8, <2>3 DEF Collect
    <3>2. /\ Reached \in Nat
          /\ \E c \in Elements(stream) : c.size = Reached
          /\ \A c \in Elements(stream) : c \in Candidate /\ c.size <= Reached
      BY <1>8, <2>3, ReachedFacts
    <3>3. Reached < h.size
      <4>1. PICK c \in Elements(stream) : c.size = Reached
        BY <3>2
      <4>2. c.size <= h.size
        BY <1>1, <3>2, NotAfter
      <4> QED
        BY <1>4, <3>1, <3>2, <4>1, <4>2
    <3>4. \A c \in Candidate : c.size = Reached => c \in Elements(stream)
      BY <1>6, <3>3
    <3> DEFINE z == Reached
    <3> HIDE DEF z
    <3>5. FileGroups(taken) = SizeGroup(z)
      BY <1>2, <3>4, TakenGroup DEF z
    <3>6. \A c \in Candidate : c.size < h.size => c.size <= z
      BY <1>6, <3>2 DEF z
    <3>7. \E c \in Candidate : c.size = z
      BY <3>2 DEF z
    <3>8. z \in Nat /\ z < h.size /\ groups = GroupsBelow(Reached) /\ z = Reached
      BY <1>7, <3>2, <3>3 DEF z
    <3>9. groups' = GroupsBelow(h.size)
      BY <1>4, <3>1, <3>5, <3>6, <3>7, <3>8, NextGroup
    <3>10. \A c \in Elements(stream) : c.size # h.size
      BY <1>4, <3>2, <3>3, CandidateParts
    <3>11. taken' # <<>> /\ Ordered(taken') /\ Elements(taken') = {h}
      <4> DEFINE none == <<>>
                 one == Append(none, h)
      <4>1. none \in Seq(Candidate) /\ one = <<h>>
        OBVIOUS
      <4>2. Elements(none) = {} /\ Ordered(none)
        BY EmptyStream
      <4> HIDE DEF none, one
      <4>3. Ordered(one) /\ one # <<>> /\ Elements(one) = {h}
        BY <1>1, <4>1, <4>2, Appended DEF one
      <4> QED
        BY <3>1, <4>1, <4>3
    <3> QED
      BY <1>1, <3>9, <3>10, <3>11
  <2> QED
    BY <2>1, <2>2, <2>3
<1>10. \A group \in groups' : group \subseteq SUBSET Candidate
  BY <1>9, BelowTyped
<1> QED
  BY <1>2, <1>4, <1>9, <1>10 DEF GroupsOK

LEMMA GroupsDrain ==
  ASSUME Shape, LinesOK, StreamOK, GroupsOK, Drain
  PROVE  GroupsOK'
<1>1. /\ pc = "merging" /\ pc' = "stopping" /\ groups' = GroupsWith(taken)
      /\ errors' = errors /\ stream' = stream
      /\ \A s \in Sources : heads[s] = None
  BY DEF Drain
<1>2. Elements(stream) = Candidate /\ errors = 0
  BY <1>1, AllOut DEF Shape, Reading
<1>3. groups = GroupsBelow(Reached) /\ (taken = <<>> => stream = <<>>)
  BY <1>1 DEF GroupsOK
<1>4. groups' = SizeGroups
  <2>1. CASE stream = <<>>
    <3>1. Candidate = {}
      BY <1>2, <2>1, EmptyStream
    <3>2. GroupsBelow(Reached) = {} /\ SizeGroups = {} /\ taken = <<>>
      <4>1. taken \in Seq(Candidate) /\ Elements(taken) \subseteq Candidate
        BY ElementsTyped DEF Shape
      <4> QED
        BY <3>1, <4>1, ElementsTyped DEF GroupsBelow, SizeGroups
    <3>3. FileGroups(taken) = {}
      BY <3>2 DEF FileGroups
    <3>4. Cardinality(FileGroups(taken)) = 0
      BY <3>3, FS_EmptySet
    <3> QED
      BY <1>1, <1>3, <3>2, <3>4 DEF GroupsWith
  <2>2. CASE stream # <<>>
    <3>1. /\ Reached \in Nat
          /\ \E c \in Elements(stream) : c.size = Reached
          /\ \A c \in Elements(stream) : c \in Candidate /\ c.size <= Reached
      BY <2>2, ReachedFacts
    <3> DEFINE z == Reached
               y == z + 1
    <3>2. FileGroups(taken) = SizeGroup(z)
      BY <1>1, <1>2, TakenGroup
    <3>3. \A c \in Candidate : c.size <= z
      BY <1>2, <3>1
    <3>4. z \in Nat /\ z = Reached
      BY <3>1
    <3>5. \E c \in Candidate : c.size = z
      BY <1>2, <3>1
    <3> HIDE DEF z
    <3>6. y \in Nat /\ z < y /\ \A c \in Candidate : c.size < y
      BY <3>3, <3>4, CandidateParts
    <3> HIDE DEF y
    <3>7. GroupsWith(taken) = GroupsBelow(y)
      BY <1>3, <3>2, <3>3, <3>4, <3>5, <3>6, NextGroup
    <3> QED
      BY <1>1, <3>6, <3>7, BelowTyped
  <2> QED
    BY <2>1, <2>2
<1>5. /\ \A g \in SizeGroups : g \subseteq SUBSET Candidate
      /\ \A g \in SizeGroups : \A file, other \in g :
               file # other => \A c \in file, d \in other : c.file_id # d.file_id
  BY BelowTyped
<1> QED
  BY <1>1, <1>2, <1>4, <1>5 DEF GroupsOK

\* What is handed out when the scan fails.
LEMMA GroupsFail ==
  ASSUME Shape, GroupsOK, pc = "merging", pc' = "stopping", errors' # 0,
         groups' = GroupsWith(taken), stream' = stream
  PROVE  GroupsOK'
<1> DEFINE new == FileGroups(taken)
<1>1. new = Files(Elements(taken)) /\ \A c \in Elements(taken) : c \in Candidate /\ c.size = Reached
  BY TakenFiles
<1>2. /\ new \subseteq SUBSET Elements(taken)
      /\ \A file, other \in new : file # other => \A c \in file, d \in other : c.file_id # d.file_id
  BY <1>1, FilesDiffer
<1>3. groups = GroupsBelow(Reached)
  BY DEF GroupsOK
<1>4. groups \subseteq groups' /\ groups' \subseteq groups \cup {new}
  BY DEF GroupsWith
<1>5. Reached' = Reached /\ GroupsBelow(Reached)' = GroupsBelow(Reached)
  BY DEF Reached, GroupsBelow
<1>6. /\ groups \subseteq SizeGroups
      /\ \A g \in SizeGroups : g \subseteq SUBSET Candidate
      /\ \A g \in SizeGroups : \A file, other \in g :
            file # other => \A c \in file, d \in other : c.file_id # d.file_id
  BY <1>3, BelowTyped
<1> HIDE DEF new
<1>7. \A g \in groups' : g \subseteq SUBSET Candidate
  BY <1>1, <1>2, <1>4, <1>6
<1>8. \A g \in groups' \ SizeGroups : \A file \in g : \A c \in file : c.size = Reached
  BY <1>1, <1>2, <1>4, <1>6
<1>9. ASSUME NEW g \in groups', NEW file \in g, NEW other \in g, file # other,
             NEW c \in file, NEW d \in other
      PROVE  c.file_id # d.file_id
  <2>1. CASE g = new
    BY <1>2, <1>9, <2>1
  <2>2. CASE g \in SizeGroups
    BY <1>6, <1>9, <2>2
  <2> QED
    BY <1>4, <1>6, <2>1, <2>2
<1> QED
  BY <1>3, <1>4, <1>5, <1>7, <1>8, <1>9 DEF GroupsOK

LEMMA GroupsInit == Init => GroupsOK
BY DEF Init, GroupsOK

LEMMA GroupsStep == ASSUME Shape, LinesOK, StreamOK, GroupsOK, [Next]_vars PROVE GroupsOK'
<1>1. ASSUME pc' \in {"walking", "sorting"}, groups' = groups PROVE GroupsOK'
  BY <1>1 DEF GroupsOK
<1>2. ASSUME NEW c \in Candidate, Push(c) PROVE GroupsOK'
  BY <1>1, <1>2 DEF Push
<1>3. ASSUME EndWalk PROVE GroupsOK'
  BY <1>1, <1>3 DEF EndWalk
<1>4. ASSUME OpenMerge PROVE GroupsOK'
  <2>1. /\ pc = "sorting" /\ pc' = "merging" /\ taken' = taken /\ groups' = groups
        /\ stream' = stream
    BY <1>4 DEF OpenMerge
  <2>2. taken = <<>> /\ groups = {} /\ stream = <<>>
    BY <2>1 DEF Shape
  <2>3. GroupsBelow(Reached)' = {}
    <3>1. Reached' = 0 /\ \A c \in Candidate : ~(c.size < 0)
      BY <2>1, <2>2, CandidateParts DEF Reached
    <3> QED
      BY <3>1 DEF GroupsBelow
  <2> QED
    BY <2>1, <2>2, <2>3, EmptyStream DEF GroupsOK
<1>5. ASSUME NEW s \in Sources, PopRecord(s) PROVE GroupsOK'
  BY <1>5, GroupsPop
<1>6. ASSUME OpenFails PROVE GroupsOK'
  <2>1. pc = "sorting" /\ pc' = "finished" /\ errors' = errors + 1 /\ groups' = groups /\ stream' = stream
    BY <1>6 DEF OpenFails, ReportSpillError
  <2>2. groups = {} /\ stream = <<>> /\ errors + 1 # 0
    BY <2>1 DEF Shape
  <2>3. GroupsBelow(Reached)' = {}
    <3>1. Reached' = 0 /\ \A c \in Candidate : ~(c.size < 0)
      BY <2>1, <2>2, CandidateParts DEF Reached
    <3> QED
      BY <3>1 DEF GroupsBelow
  <2> QED
    BY <2>1, <2>2, <2>3 DEF GroupsOK
<1>7. ASSUME NEW s \in Sources, PopFails(s) PROVE GroupsOK'
  <2>1. /\ pc = "merging" /\ pc' = "stopping" /\ errors' = errors + 1
        /\ groups' = GroupsWith(taken) /\ stream' = stream
    BY <1>7 DEF PopFails, ReportSpillError
  <2>2. errors' # 0
    BY <2>1 DEF Shape
  <2> QED
    BY <2>1, <2>2, GroupsFail
<1>8. ASSUME Drain PROVE GroupsOK'
  BY <1>8, GroupsDrain
<1>9. ASSUME Finish \/ LastReport PROVE GroupsOK'
  <2>1. /\ pc = "stopping" /\ pc' \in {"stopping", "finished"}
        /\ groups' = groups /\ errors' = errors /\ stream' = stream
    BY <1>9 DEF Finish, LastReport
  <2>2. Reached' = Reached
    BY <2>1 DEF Reached
  <2> QED
    BY <2>1, <2>2 DEF GroupsOK, GroupsBelow
<1>10. ASSUME Stays PROVE GroupsOK'
  <2>1. UNCHANGED <<pc, taken, groups, errors, stream>>
    BY <1>10, StaysFrame
  <2>2. Reached' = Reached
    BY <2>1 DEF Reached
  <2> QED
    BY <2>1, <2>2 DEF GroupsOK, GroupsBelow
<1> QED
  BY <1>2, <1>3, <1>4, <1>5, <1>6, <1>7, <1>8, <1>9, <1>10, Steps DEF Ends

-----------------------------------------------------------------------------
(* The invariant, and what follows from it.                                *)

LEMMA IInvInit == Init => IInv
BY ShapeInit, LinesInit, StreamInit, CountsInit, GroupsInit DEF IInv

LEMMA IInvStep == ASSUME IInv, [Next]_vars PROVE IInv'
BY ShapeStep, LinesStep, StreamStep, CountsStep, GroupsStep DEF IInv

\* The invariant the other theorems rest on: as long as the walk and the merge
\* run, every candidate that was found is in exactly one place, in the buffer,
\* in a run, in the heap or among the records that have come out, and each
\* source is in order.
THEOREM InvariantHolds == Spec => []IInv
<1>1. Init => IInv
  BY IInvInit
<1>2. IInv /\ [Next]_vars => IInv'
  BY IInvStep
<1> QED
  BY <1>1, <1>2, PTL DEF Spec

LEMMA TypesFollow == IInv => TypeOK
<1> SUFFICES ASSUME IInv PROVE TypeOK
  OBVIOUS
<1>1. Shape /\ LinesOK /\ StreamOK /\ CountsOK /\ GroupsOK
  BY DEF IInv
<1>2. scanned \in 0..Cardinality(Candidate) /\ checked \in 0..scanned
  BY <1>1, CountsBounded
<1>3. ASSUME NEW r \in DOMAIN runs, runs[r] # <<>> PROVE ReadRecord(runs[r]) \in Candidate
  <2>1. Records(runs[r]) \in Seq(Candidate) /\ runs[r] = Run(Records(runs[r]))
    BY <1>1 DEF Shape
  <2>2. Records(runs[r]) # <<>> /\ ReadRecord(runs[r]) = Records(runs[r])[1]
    BY <1>3, <2>1, RunNext
  <2> QED
    BY <2>1, <2>2, TailElements
<1>4. (\A group \in groups : group \subseteq SUBSET Candidate)
      /\ reporter \in {"unborn", "running", "gone"}
  BY <1>1 DEF GroupsOK, CountsOK
<1> QED
  BY <1>1, <1>2, <1>3, <1>4 DEF TypeOK, Shape

LEMMA GroupsFollow == IInv => GroupsComplete /\ CutShort
<1> SUFFICES ASSUME IInv, pc = "finished" PROVE GroupsComplete /\ CutShort
  BY DEF GroupsComplete, CutShort
<1>1. /\ errors = 0 => groups = SizeGroups
      /\ errors > 0 => GroupsBelow(Reached) \subseteq groups
      /\ \A g \in groups \ SizeGroups : \A file \in g : \A c \in file : c.size = Reached
      /\ \A g \in groups : \A file, other \in g :
            file # other => \A c \in file, d \in other : c.file_id # d.file_id
  BY DEF IInv, GroupsOK
<1>2. ASSUME NEW g \in SizeGroups, NEW file \in g, NEW c \in file, c.size < Reached
      PROVE  g \in GroupsBelow(Reached)
  <2>1. PICK e \in Candidate : g = SizeGroup(e.size)
    BY DEF SizeGroups
  <2>2. g = Files(OfSize(e.size))
    BY <2>1, SizeGroupFiles
  <2>3. c \in OfSize(e.size)
    BY <2>2, FilesDiffer
  <2>4. e.size < Reached
    BY <1>2, <2>3 DEF OfSize
  <2> QED
    BY <2>1, <2>4 DEF SizeGroups, GroupsBelow
<1>3. GroupsComplete
  BY <1>1 DEF GroupsComplete
<1>4. CutShort
  BY <1>1, <1>2 DEF CutShort
<1> QED
  BY <1>3, <1>4

\* Whatever is spilled and whichever write or read fails: the groups handed out
\* are, without an error, exactly the sizes shared by two distinct files with
\* the aliases of one file together, and with an error these up to the size that
\* was being read, with no wrong group (SizeGroups, Merge and run_scan).
THEOREM GroupsAlwaysExact == Spec => []GroupsExact
<1>1. IInv => GroupsExact
  BY TypesFollow, GroupsFollow DEF GroupsExact
<1> QED
  BY <1>1, InvariantHolds, PTL

\* The last progress event tells the final numbers, and all of the candidates
\* unless a run failed (report_hash_progress, Checked, run_scan).
THEOREM LastProgressAlwaysExact == Spec => []LastProgressExact
<1>1. IInv => LastProgressExact
  <2> SUFFICES ASSUME IInv, pc = "finished", reporter = "gone"
               PROVE  /\ shown = <<scanned, checked>>
                      /\ errors = 0 => checked = Cardinality(Candidate)
    BY DEF LastProgressExact
  <2>1. stream \in Seq(Candidate) /\ Distinct(stream) /\ checked = Len(stream)
        /\ shown = <<scanned, checked>>
    BY DEF IInv, Shape, StreamOK, CountsOK
  <2>2. errors = 0 => Elements(stream) = Candidate
    BY DEF IInv, StreamOK
  <2> QED
    BY <2>1, <2>2, Counted
<1> QED
  BY <1>1, InvariantHolds, PTL
-----------------------------------------------------------------------------
(* The refinement.                                                         *)

LEMMA Phases ==
  ASSUME Shape
  PROVE  /\ pc = "walking" => Phase = "open"
         /\ pc \in {"sorting", "merging"} => Phase = "streaming"
         /\ pc \in {"stopping", "finished"} => Phase = IF errors > 0 THEN "failed" ELSE "complete"
<1>1. errors = 0 \/ errors = 1
  BY DEF Shape
<1>2. Reading => errors = 0
  BY DEF Shape
<1>3. ~(0 > 0) /\ 1 > 0
  OBVIOUS
<1> QED
  BY <1>1, <1>2, <1>3 DEF Phase, Reading

LEMMA StreamStarts == Init => Stream!Init
BY DEF Init, Stream!Init, Phase

LEMMA PhasesNext ==
  ASSUME Shape, [Next]_vars
  PROVE  /\ pc' = "walking" => Phase' = "open"
         /\ pc' \in {"sorting", "merging"} => Phase' = "streaming"
         /\ pc' \in {"stopping", "finished"} => Phase' = IF errors' > 0 THEN "failed" ELSE "complete"
<1>1. Shape'
  BY ShapeStep
<1>2. errors' = 0 \/ errors' = 1
  BY <1>1 DEF Shape
<1>3. Reading' => errors' = 0
  BY <1>1 DEF Shape
<1>4. ~(0 > 0) /\ 1 > 0
  OBVIOUS
<1> QED
  BY <1>2, <1>3, <1>4 DEF Phase, Reading

\* Each step of the sorter is a step of the stream, or none.
LEMMA StreamSteps ==
  ASSUME IInv, [Next]_vars
  PROVE  Stream!Next \/ (UNCHANGED <<Phase, Candidate \ ahead, stream>>)
<1> DEFINE pushed == Candidate \ ahead
           same == UNCHANGED <<Phase, Candidate \ ahead, stream>>
<1>1. Shape /\ LinesOK /\ StreamOK
  BY DEF IInv
<1>2. /\ pc = "walking" => Phase = "open"
      /\ pc \in {"sorting", "merging"} => Phase = "streaming"
      /\ pc \in {"stopping", "finished"} => Phase = IF errors > 0 THEN "failed" ELSE "complete"
  BY <1>1, Phases
<1>3. /\ pc' = "walking" => Phase' = "open"
      /\ pc' \in {"sorting", "merging"} => Phase' = "streaming"
      /\ pc' \in {"stopping", "finished"} => Phase' = IF errors' > 0 THEN "failed" ELSE "complete"
  BY <1>1, PhasesNext
<1>4. ASSUME NEW c \in Candidate, Push(c) PROVE Stream!Push(c)
  <2>1. /\ pc = "walking" /\ pc' = pc /\ c \in ahead /\ ahead' = ahead \ {c} /\ stream' = stream
    BY <1>4 DEF Push
  <2>2. /\ Phase = "open" /\ Phase' = Phase
        /\ c \notin Candidate \ ahead /\ Candidate \ ahead' = (Candidate \ ahead) \cup {c}
    BY <1>2, <1>3, <2>1
  <2> QED
    BY <2>1, <2>2 DEF Stream!Push
<1>5. ASSUME EndWalk PROVE Stream!Close
  <2>1. /\ pc = "walking" /\ pc' = "sorting" /\ ahead' = ahead /\ stream' = stream
    BY <1>5 DEF EndWalk
  <2>2. Phase = "open" /\ Phase' = "streaming"
    BY <1>2, <1>3, <2>1
  <2> QED
    BY <2>1, <2>2 DEF Stream!Close
<1>6. ASSUME OpenMerge \/ Stays PROVE same
  <2>1. ahead' = ahead /\ stream' = stream
    BY <1>6, StaysFrame DEF OpenMerge
  <2>2. CASE OpenMerge
    BY <1>2, <1>3, <2>1, <2>2 DEF OpenMerge
  <2>3. CASE Stays
    BY <2>1, <2>3, StaysFrame DEF Phase
  <2> QED
    BY <1>6, <2>2, <2>3
<1>7. ASSUME NEW s \in Sources, PopRecord(s) PROVE Stream!Yield(heads[s])
  <2> DEFINE h == heads[s]
  <2>1. pc = "merging" /\ pc' = pc /\ ahead' = ahead
    BY <1>7 DEF PopRecord
  <2>2. /\ h \in Candidate /\ h \notin Elements(stream)
        /\ \A t \in Sources : \A c \in Elements(Line(t)) : ~Less(c, h)
        /\ stream' = Append(stream, h)
    BY <1>1, <1>7, StreamPop
  <2>3. ahead = {}
    BY <1>1, <2>1 DEF Shape
  <2> HIDE DEF h
  <2>4. \A d \in (Candidate \ ahead) \ Elements(stream) : ~Less(d, h)
    BY <1>1, <2>1, <2>2 DEF LinesOK, Reading
  <2>5. Phase = "streaming" /\ Phase' = Phase /\ Candidate \ ahead' = Candidate \ ahead
    BY <1>2, <1>3, <2>1
  <2>6. Stream!Streamed = Elements(stream)
    BY DEF Stream!Streamed, Elements
  <2>7. Stream!Yield(h)
    BY <2>2, <2>3, <2>4, <2>5, <2>6 DEF Stream!Yield
  <2> QED
    BY <2>7 DEF h
<1>8. ASSUME OpenFails \/ \E s \in Sources : PopFails(s) PROVE Stream!Fail
  <2>1. /\ pc \in {"sorting", "merging"} /\ pc' \in {"stopping", "finished"}
        /\ errors' = errors + 1 /\ ahead' = ahead /\ stream' = stream
    BY <1>8 DEF OpenFails, PopFails, ReportSpillError, input
  <2>2. errors' > 0
    BY <1>1, <2>1 DEF Shape
  <2>3. Phase = "streaming" /\ Phase' = "failed"
    BY <1>2, <1>3, <2>1, <2>2
  <2> QED
    BY <2>1, <2>3 DEF Stream!Fail
<1>9. ASSUME Drain PROVE Stream!End
  <2>1. /\ pc = "merging" /\ pc' = "stopping" /\ errors' = errors /\ ahead' = ahead
        /\ stream' = stream /\ \A s \in Sources : heads[s] = None
    BY <1>9 DEF Drain, input
  <2>2. errors = 0 /\ ahead = {} /\ Elements(stream) = Candidate
    BY <1>1, <2>1, AllOut DEF Shape, Reading
  <2>3. Phase = "streaming" /\ Phase' = "complete" /\ Candidate \ ahead = Elements(stream)
    BY <1>2, <1>3, <2>1, <2>2
  <2>4. Stream!Streamed = Elements(stream)
    BY DEF Stream!Streamed, Elements
  <2> QED
    BY <2>1, <2>3, <2>4 DEF Stream!End
<1>10. ASSUME Finish \/ LastReport PROVE same
  <2>1. /\ pc = "stopping" /\ pc' \in {"stopping", "finished"} /\ errors' = errors
        /\ ahead' = ahead /\ stream' = stream
    BY <1>10 DEF Finish, LastReport, input
  <2>2. Phase' = Phase
    BY <1>2, <1>3, <2>1
  <2> QED
    BY <2>1, <2>2
<1>11. Stream!Next \/ same
  <2>1. \A c \in Candidate : Push(c) => Stream!Next
    BY <1>4 DEF Stream!Next
  <2>2. ASSUME NEW s \in Sources, PopRecord(s) PROVE Stream!Next
    <3>1. heads[s] \in Candidate
      BY <1>1, <2>2, PopLines
    <3> QED
      BY <1>7, <2>2, <3>1 DEF Stream!Next
  <2>3. EndWalk \/ OpenFails \/ (\E s \in Sources : PopFails(s)) \/ Drain => Stream!Next
    BY <1>5, <1>8, <1>9 DEF Stream!Next
  <2> HIDE DEF same
  <2> QED
    BY <1>6, <1>10, <2>1, <2>2, <2>3, Steps DEF Ends
<1> QED
  BY <1>11

\* Whatever part of the candidates is spilled and however often that fails, the
\* sorter returns each of them exactly once and in order, or stops with an error
\* (CandidateSorter implements a sorted stream).
THEOREM SorterImplementsStream == Spec => ImplementsSortedStream
<1>1. Init => Stream!Init
  BY StreamStarts
<1>2. ASSUME IInv, [Next]_vars
      PROVE  [Stream!Next]_<<Phase, Candidate \ ahead, stream>>
  BY <1>2, StreamSteps
<1> QED
  BY <1>1, <1>2, InvariantHolds, PTL DEF Spec, ImplementsSortedStream, Stream!Spec

=============================================================================
