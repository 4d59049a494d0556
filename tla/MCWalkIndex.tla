---------------------------- MODULE MCWalkIndex ----------------------------
(* WalkIndex on a root r with a subdirectory s, and with a link l in r that  *)
(* leads to s or back to r; x is in s, and y is the path to x over l.  The   *)
(* content "none" is the empty file.                                         *)
EXTENDS WalkIndex

CONSTANTS r, s, l, x, y, a, b, none, c1

MCParent == [d \in Dir \ {r} |-> CASE d = x -> s [] d = y -> l [] OTHER -> r]
MCSize == [c \in Content |-> IF c = none THEN 0 ELSE 1]

MCExtension == [n \in Name |-> "txt"]

Plain == [NoOptions EXCEPT !.cross_filesystems = TRUE]
Rescan == [Plain EXCEPT !.rescan_all = TRUE]

Follow == [Plain EXCEPT !.follow_symlinks = TRUE]
Selective == [Plain EXCEPT !.exclude_paths = {<<r, a>>}, !.exclude_extensions = {"jpg"}]
Pictures == [Plain EXCEPT !.include_extensions = {"jpg"}]
Filtered == [Rescan EXCEPT !.min_size = 1]
Pruned == [Follow EXCEPT !.exclude_paths = {s}]

LinkTo(d) == [e \in Dir |-> IF e = l THEN d ELSE IF e = y THEN x ELSE e]
Plainly == [e \in Dir |-> IF e = y THEN x ELSE e]

\* With and without another program: every kind of options; links to s, to r;
\* a directory with two paths, one of them over a link; and a file and a
\* directory that cannot always be read.
MCSetups ==
    <<[paths |-> {r, s}, real |-> Plainly, entry |-> Plainly,
       options |-> {Plain, Rescan},
       failing |-> {}, walks |-> 3, env |-> 1],
      [paths |-> {r, s}, real |-> Plainly, entry |-> Plainly,
       options |-> {Plain, Rescan, Selective, Pictures, Filtered, NoOptions},
       failing |-> {}, walks |-> 3, env |-> 0],
      [paths |-> {r, s, l}, real |-> LinkTo(s), entry |-> Plainly,
       options |-> {Plain, Follow},
       failing |-> {}, walks |-> 2, env |-> 0],
      [paths |-> {r, s, l}, real |-> LinkTo(s), entry |-> Plainly,
       options |-> {Pruned},
       failing |-> {}, walks |-> 1, env |-> 1],
      [paths |-> {r, s, l}, real |-> LinkTo(r), entry |-> Plainly,
       options |-> {Follow, Pruned},
       failing |-> {}, walks |-> 1, env |-> 1],
      [paths |-> {r, s, l, x, y}, real |-> LinkTo(s), entry |-> Plainly,
       options |-> {Pruned},
       failing |-> {}, walks |-> 1, env |-> 0],
      [paths |-> {r, s}, real |-> Plainly, entry |-> Plainly,
       options |-> {Plain, Rescan},
       failing |-> {<<r, a>>, s}, walks |-> 2, env |-> 0]>>
EmptySetups ==
    <<[paths |-> {r}, real |-> [d \in Dir |-> d], entry |-> [d \in Dir |-> d],
       options |-> {Plain, Rescan},
       failing |-> {}, walks |-> 2, env |-> 1]>>

\* One file that cannot always be read.
FailingSetups ==
    <<[paths |-> {r}, real |-> [d \in Dir |-> d], entry |-> [d \in Dir |-> d],
       options |-> {Plain},
       failing |-> {<<r, a>>}, walks |-> 2, env |-> 0]>>
=============================================================================
