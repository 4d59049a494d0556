--------------------------- MODULE MCCommandLine ---------------------------
(* CommandLine on two groups; the folders A and B are copies of each other,  *)
(* and C is contained in A.  File 5 is under a reference folder.             *)
EXTENDS CommandLine

MCGroup == {{1, 2}, {3, 4, 5}}
MCSize == [g \in Group |-> IF 1 \in g THEN 1 ELSE 2]
MCFilesIn == [d \in Folder |-> CASE d = "A" -> {1, 3} [] d = "B" -> {2, 4} [] d = "C" -> {5}]

Exact == [roots |-> {"A", "B"}, pairs |-> <<<<"B", "A">>>>]
Contained == [roots |-> {"A", "C"}, pairs |-> <<<<"C", "A">>>>]
MCMatches == {<<>>, <<Exact>>, <<Exact, Contained>>}

MCOptions ==
    {o \in CommandLines :
        /\ Accepted(o) /\ o.kind \in {"report", "delete", "hardlink", "copy"}
        /\ o.kind # "copy" => ~o.archive
        /\ o.yes => o.apply
        /\ o.similar = o.yes
        /\ o.history = ~o.plan_out}

\* Every command line by itself, and some one after the other.
Apply(kind) == [kind |-> kind, archive |-> TRUE, apply |-> TRUE, yes |-> TRUE, plan_out |-> FALSE,
                find_folders |-> FALSE, similar |-> FALSE, history |-> TRUE]
Preview(kind) == [Apply(kind) EXCEPT !.apply = FALSE, !.yes = FALSE]
MCSessions ==
    {<<o>> : o \in MCOptions}
      \cup {<<Preview("delete"), Apply("delete")>>, <<Apply("delete"), Apply("delete")>>,
            <<Apply("copy"), Apply("copy")>>, <<Apply("copy"), Apply("delete")>>,
            <<Apply("hardlink"), Apply("delete")>>,
            <<Apply("hardlink"), [Apply("hardlink") EXCEPT !.find_folders = TRUE]>>,
            <<[Apply("delete") EXCEPT !.find_folders = TRUE], Apply("copy")>>}
=============================================================================
