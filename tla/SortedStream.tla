---------------------------- MODULE SortedStream ----------------------------
(***************************************************************************)
(* What the pipeline expects of the candidate sorter, whatever memory it   *)
(* has and whatever happens to its temporary files: everything pushed      *)
(* comes back exactly once and in order, or the stream ends early with an  *)
(* error.  CandidateSort is shown to implement this specification.         *)
(***************************************************************************)
EXTENDS Sequences

CONSTANTS Candidate,  \* what can be pushed
          Less(_, _)  \* the order it comes back in

VARIABLES state, pushed, stream

Streamed == {stream[i] : i \in DOMAIN stream}

Init == state = "open" /\ pushed = {} /\ stream = <<>>

Push(c) ==
    /\ state = "open" /\ c \notin pushed
    /\ pushed' = pushed \cup {c}
    /\ UNCHANGED <<state, stream>>

Close ==
    /\ state = "open" /\ state' = "streaming"
    /\ UNCHANGED <<pushed, stream>>

\* One of the least that are left.
Yield(c) ==
    /\ state = "streaming" /\ c \in pushed \ Streamed
    /\ \A d \in pushed \ Streamed : ~Less(d, c)
    /\ stream' = Append(stream, c)
    /\ UNCHANGED <<state, pushed>>

End ==
    /\ state = "streaming" /\ pushed = Streamed
    /\ state' = "complete"
    /\ UNCHANGED <<pushed, stream>>

Fail ==
    /\ state \in {"open", "streaming"} /\ state' = "failed"
    /\ UNCHANGED <<pushed, stream>>

Next == (\E c \in Candidate : Push(c) \/ Yield(c)) \/ Close \/ End \/ Fail

Spec == Init /\ [][Next]_<<state, pushed, stream>>
=============================================================================
