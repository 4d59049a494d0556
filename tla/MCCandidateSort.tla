-------------------------- MODULE MCCandidateSort --------------------------
(* CandidateSort on files of two volumes with ids of low and of high         *)
(* resolution: a and d have two names each, and one of d's was measured      *)
(* after the file had grown; e is the only file of its size.                 *)
EXTENDS CandidateSort

MCCandidate ==
    {[size |-> 2, file_id |-> <<1, 1, 1>>, path |-> "a1"],
     [size |-> 2, file_id |-> <<1, 1, 1>>, path |-> "a2"],
     [size |-> 3, file_id |-> <<2, 0, 2>>, path |-> "d1"],
     [size |-> 2, file_id |-> <<2, 0, 2>>, path |-> "d2"],
     [size |-> 3, file_id |-> <<1, 1, 2>>, path |-> "c"],
     [size |-> 1, file_id |-> <<1, 1, 3>>, path |-> "e"]}
=============================================================================
