---------------------------- MODULE MCGuiSession ----------------------------
(* GuiSession on two groups, a pair of photos and a pair of documents, and   *)
(* two photos more that can look like the others.                            *)
EXTENDS GuiSession

MCInitial == [f \in File |-> CASE f \in {1, 2} -> "a" [] f \in {3, 4} -> "b"
                              [] f = 5 -> "c" [] f = 6 -> "d"]
MCAge == [f \in File |-> 10 - f]

\* A chain over c, two pairs, and c not decodable.
MCLooks == {[a |-> {}, b |-> {}, c |-> {1, 2}, d |-> {1, 2, 3, 4}],
            [a |-> {}, b |-> {}, c |-> {1, 2, 3, 4}, d |-> {1, 2, 3, 4, 5}],
            [a |-> {1}, b |-> {}, c |-> Unreadable, d |-> {2}]}

MCOrders == {<<1, 2, 5, 6>>, <<6, 1, 2, 5>>, <<5, 6, 2, 1>>}

\* A session works on scans or on profiles: they share only the order in which
\* the application answers.
Session(rule, mode, refs, scans, clicks, saves, kills, others) ==
    [rule |-> rule, mode |-> mode, refs |-> refs,
     budget |-> [scans |-> scans, clicks |-> clicks, saves |-> saves, kills |-> kills,
                 others |-> others]]
Review == Session("newest", "exact", {2}, 1, 2, 0, 0, 0)
Choose == Session("alphabetical", "exact", {}, 1, 3, 0, 0, 0)
Again == Session("newest", "exact", {}, 2, 1, 0, 0, 0)
Died == Session("newest", "exact", {1, 2}, 2, 1, 0, 1, 0)
Similar == Session("alphabetical", "similar", {}, 2, 1, 0, 0, 0)
Saving == Session("alphabetical", "exact", {}, 0, 0, 2, 1, 2)
Both == Session("alphabetical", "similar", {}, 1, 1, 1, 0, 0)
MCSessions == {Review, Choose, Again, Died, Similar, Saving, Both}
KeepSessions == {Review}
=============================================================================
