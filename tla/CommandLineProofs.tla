-------------------------- MODULE CommandLineProofs --------------------------
(***************************************************************************)
(* What the command line tool may do and what its exit code says           *)
(* (CommandLine): for every set of duplicate groups, every tree of folders *)
(* and matches, every command line and every sequence of runs.             *)
(***************************************************************************)
EXTENDS CommandLine, FiniteSetTheorems, FunctionTheorems, SequenceTheorems, TLAPS


AcceptedLines == {o \in CommandLines : Accepted(o)}

\* Of the options only what the parser accepts.
LinesOK == opt \in AcceptedLines /\ coming \in Seq(AcceptedLines)

\* The tree changes only in runs with consent.
TreeAsBefore == inode = before.inode /\ archived = before.archived
Consented == opt.apply /\ Acting /\ (opt.yes \/ consent)

ConsentOK ==
    /\ TreeAsBefore \/ Consented
    /\ pc \in {"ready", "asking"} => TreeAsBefore
    /\ pc \notin {"ready", "asking", "ended"} /\ Acting /\ opt.apply => opt.yes \/ consent
-----------------------------------------------------------------------------
LEMMA NextLine ==
  ASSUME NEW S, NEW s \in Seq(S) \ {<<>>} PROVE Head(s) \in S /\ Tail(s) \in Seq(S)
OBVIOUS

LEMMA LinesInit == Init => LinesOK
<1> SUFFICES ASSUME Init PROVE LinesOK
  OBVIOUS
<1>1. PICK s \in Sessions : opt = Head(s) /\ coming = Tail(s)
  BY DEF Init
<1>2. s \in Seq(AcceptedLines) \ {<<>>}
  BY SessionsAssumption DEF AcceptedLines
<1> QED BY <1>1, <1>2, NextLine DEF LinesOK

LEMMA LinesStep == ASSUME LinesOK, [Next]_vars PROVE LinesOK'
<1>1. CASE Invoke
  BY <1>1, NextLine DEF Invoke, LinesOK
<1>2. CASE UNCHANGED session
  BY <1>2 DEF session, LinesOK
<1>3. Program \/ Kill \/ UNCHANGED vars => UNCHANGED session
  BY DEF Program, Start, ReceiveError, ReceiveFinished, ReceiveGroup, FindFolders, FindFails,
     HandlePair, RefusePair, EndMatch, EndMatches, HandleLeftover, Summarize, EndRun, Confirm,
     OpenRoot, Similar, Record, WritePlan, Kill, vars
<1> QED BY <1>1, <1>2, <1>3 DEF Next
-----------------------------------------------------------------------------
\* The steps of a run between the prompt and its end.
LEMMA RunSteps ==
  ASSUME [Next]_vars
  PROVE  \/ Invoke \/ Start \/ (\E ok \in BOOLEAN : Confirm(ok)) \/ Kill \/ UNCHANGED vars
         \/ /\ pc \notin {"ready", "asking", "ended"} /\ pc' \notin {"ready", "asking"}
            /\ UNCHANGED <<session, consent>>
<1> DEFINE Within == /\ pc \notin {"ready", "asking", "ended"} /\ pc' \notin {"ready", "asking"}
                     /\ UNCHANGED <<session, consent>>
<1>1. ASSUME NEW g \in incoming, ReceiveGroup(g) PROVE Within
  BY <1>1 DEF ReceiveGroup
<1>2. ReceiveError \/ ReceiveFinished \/ FindFolders \/ FindFails => Within
  BY DEF ReceiveError, ReceiveFinished, FindFolders, FindFails
<1>3. HandlePair \/ RefusePair \/ EndMatch \/ EndMatches => Within
  BY DEF HandlePair, RefusePair, EndMatch, EndMatches
<1>4. HandleLeftover \/ Summarize \/ EndRun => Within
  BY DEF HandleLeftover, Summarize, EndRun, Exit
<1>5. ASSUME NEW ok \in BOOLEAN, OpenRoot(ok) \/ Similar(ok) \/ Record(ok) \/ WritePlan(ok)
      PROVE  Within
  BY <1>5 DEF OpenRoot, Exit, Similar, Record, WritePlan
<1> HIDE DEF Within
<1>6. Within \/ ~Within
  OBVIOUS
<1> QED BY <1>1, <1>2, <1>3, <1>4, <1>5 DEF Next, Program, Within

\* Only an action on a group or on a pair changes the tree.
LEMMA TreeSteps ==
  ASSUME [Next]_vars
  PROVE  UNCHANGED tree \/ (Acting /\ opt.apply /\ UNCHANGED <<session, consent>>)
<1> DEFINE Good == UNCHANGED tree \/ (Acting /\ opt.apply)
<1>1. ASSUME NEW g \in incoming, ReceiveGroup(g) PROVE Good
  BY <1>1 DEF ReceiveGroup, HandleGroup
<1>2. HandleLeftover => Good
  BY DEF HandleLeftover, HandleGroup
<1>3. HandlePair => Good
  BY DEF HandlePair
<1>4. Invoke \/ Start \/ ReceiveError \/ ReceiveFinished \/ FindFolders \/ FindFails => Good
  BY DEF Invoke, Start, ReceiveError, ReceiveFinished, FindFolders, FindFails
<1>5. RefusePair \/ EndMatch \/ EndMatches \/ Summarize \/ EndRun \/ Kill \/ UNCHANGED vars => Good
  BY DEF RefusePair, EndMatch, EndMatches, Summarize, EndRun, Kill, vars
<1>6. ASSUME NEW ok \in BOOLEAN,
             Confirm(ok) \/ OpenRoot(ok) \/ Similar(ok) \/ Record(ok) \/ WritePlan(ok)
      PROVE  Good
  BY <1>6 DEF Confirm, OpenRoot, Similar, Record, WritePlan
<1> HIDE DEF Good
<1>7. Good
  BY <1>1, <1>2, <1>3, <1>4, <1>5, <1>6 DEF Next, Program
<1>8. Invoke \/ Start \/ Kill \/ UNCHANGED vars => UNCHANGED tree
  BY DEF Invoke, Start, Kill, vars
<1>9. ASSUME NEW ok \in BOOLEAN, Confirm(ok) PROVE UNCHANGED tree
  BY <1>9 DEF Confirm
<1> QED BY <1>7, <1>8, <1>9, RunSteps DEF Good

LEMMA ConsentStep ==
  ASSUME ConsentOK, [Next]_vars PROVE ConsentOK'
<1> USE DEF ConsentOK, TreeAsBefore, Consented, Acting, tree, session
<1>1. CASE Invoke
  BY <1>1 DEF Invoke
<1>2. CASE Start
  BY <1>2 DEF Start, Exit
<1>3. ASSUME NEW ok \in BOOLEAN, Confirm(ok) PROVE ConsentOK'
  BY <1>3 DEF Confirm, Exit
<1>4. CASE Kill \/ UNCHANGED vars
  BY <1>4 DEF Kill, vars
<1>5. CASE /\ pc \notin {"ready", "asking", "ended"} /\ pc' \notin {"ready", "asking"}
           /\ UNCHANGED <<session, consent>>
  BY <1>5, TreeSteps
<1> QED BY <1>1, <1>2, <1>3, <1>4, <1>5, RunSteps

\* Whatever is asked for on the command line, nothing is touched without consent.
THEOREM ConsentNeeded == Spec => []OnlyWithConsent
<1>1. Init => ConsentOK
  BY DEF Init, ConsentOK, TreeAsBefore
<1>2. ConsentOK /\ [Next]_vars => ConsentOK'
  BY ConsentStep
<1>3. ConsentOK => OnlyWithConsent
  BY DEF ConsentOK, TreeAsBefore, Consented, OnlyWithConsent, Touched
<1> QED BY <1>1, <1>2, <1>3, PTL DEF Spec
-----------------------------------------------------------------------------
(* A run without errors has printed no flaw and planned what it printed.     *)

\* Sequences, whatever they hold.
Listed(s) == s \in Seq({s[i] : i \in DOMAIN s})

\* An event that says that all went well.
Flawless(e) ==
    /\ e.type # "error"
    /\ e.type = "group" => e.failed = {}
    /\ e.type = "folder" => \A o \in Range(e.action) : o.failed = 0

\* The group of an event with something to do.
PlannedBy(e) == IF e.type = "group" /\ e.planned # {} THEN {e.group} ELSE {}

PlanPrinted == UNION {PlannedBy(out[i]) : i \in DOMAIN out}

FlawsOK ==
    /\ had_errors \in BOOLEAN /\ Listed(out) /\ Listed(outcomes)
    /\ ~had_errors => /\ \A i \in DOMAIN out : Flawless(out[i])
                      /\ \A i \in DOMAIN outcomes : outcomes[i].failed = 0
    /\ ~had_errors /\ opt.plan_out => plan = PlanPrinted

ExitOK ==
    /\ pc \in {"ready", "asking", "opening"} => out = <<>> /\ plan = {} /\ ~had_errors
    /\ pc = "asking" => opt.apply
    /\ pc = "exiting" /\ opt.plan_out /\ ~had_errors => plan_file = plan
    /\ exit # "none" => pc = "ended"
    /\ exit = "SUCCESS" =>
          /\ \A i \in DOMAIN out : Flawless(out[i])
          /\ opt.plan_out /\ Usable => plan_file = PlanPrinted
-----------------------------------------------------------------------------
LEMMA Appended ==
  ASSUME NEW s, Listed(s), NEW e
  PROVE  /\ Listed(Append(s, e))
         /\ DOMAIN Append(s, e) = DOMAIN s \cup {Len(s) + 1}
         /\ Append(s, e)[Len(s) + 1] = e /\ Len(s) + 1 \notin DOMAIN s
         /\ \A i \in DOMAIN s : Append(s, e)[i] = s[i]
<1> DEFINE S == {s[i] : i \in DOMAIN s} \cup {e}
<1>1. s \in Seq(S)
  BY DEF Listed
<1>2. /\ Append(s, e) \in Seq(S)
      /\ DOMAIN Append(s, e) = DOMAIN s \cup {Len(s) + 1}
      /\ Append(s, e)[Len(s) + 1] = e /\ Len(s) + 1 \notin DOMAIN s
      /\ \A i \in DOMAIN s : Append(s, e)[i] = s[i]
  BY <1>1
<1>3. Append(s, e) \in Seq({Append(s, e)[i] : i \in DOMAIN Append(s, e)})
  BY <1>2
<1> QED BY <1>2, <1>3 DEF Listed

LEMMA EmptyListed == Listed(<<>>)
BY DEF Listed

\* What one event of the output means for the exit code and the plan.
Told(e) ==
    /\ out' = Append(out, e)
    /\ ~had_errors' => ~had_errors /\ Flawless(e)
    /\ ~had_errors' /\ opt.plan_out => plan' = plan \cup PlannedBy(e)

LEMMA GroupTold ==
  ASSUME LinesOK, FlawsOK, NEW g, HandleGroup(g)
  PROVE  had_errors' \in BOOLEAN /\ \E e : Told(e)
<1>1. opt.plan_out => ~opt.apply
  BY DEF LinesOK, AcceptedLines, Accepted
<1>2. had_errors \in BOOLEAN
  BY DEF FlawsOK
<1>3. PICK proposal \in g :
        LET kept == KeptFor(g, proposal)
            planned == Planned(g, kept)
        IN  IF ~Acting \/ planned = {}
            THEN /\ PrintGroup(g, {}, {})
                 /\ UNCHANGED <<tree, total, rows, plan, had_errors>>
            ELSE IF ~opt.apply
            THEN /\ Stamp(g)
                 /\ PrintGroup(g, planned, {})
                 /\ Count(PlanBytes(planned), Cardinality(planned))
                 /\ UNCHANGED <<tree, rows>>
            ELSE \E done \in SUBSET {f \in planned : CanSucceed(f, kept)} :
                    /\ Act(done, [f \in done |-> kept])
                    /\ PrintGroup(g, planned, done)
                    /\ Count(BytesOf(done), Cardinality(done))
                    /\ RecordOutcomes(planned, done)
                    /\ had_errors' = (had_errors \/ done # planned)
                    /\ UNCHANGED plan
  BY DEF HandleGroup
<1> DEFINE kept == KeptFor(g, proposal)
           planned == Planned(g, kept)
           event(pl, done) ==
             [type |-> "group", group |-> g, planned |-> pl, succeeded |-> done,
              failed |-> IF opt.apply THEN pl \ done ELSE {},
              bytes |-> IF opt.apply THEN BytesOf(done) ELSE PlanBytes(pl)]
<1> HIDE DEF planned, kept
<1>4. \A pl, done : PrintGroup(g, pl, done) => out' = Append(out, event(pl, done))
  BY DEF PrintGroup
<1>5. \A pl, done : /\ Flawless(event(pl, done)) <=> (~opt.apply \/ pl \ done = {})
                    /\ PlannedBy(event(pl, done)) = IF pl # {} THEN {g} ELSE {}
  BY DEF Flawless, PlannedBy
<1>6. CASE ~Acting \/ planned = {}
  <2>1. PrintGroup(g, {}, {}) /\ UNCHANGED <<plan, had_errors>>
    BY <1>3, <1>6 DEF planned, kept
  <2>2. Told(event({}, {}))
    <3> HIDE DEF event
    <3> QED BY <1>4, <1>5, <2>1 DEF Told
  <2> QED BY <1>2, <2>1, <2>2
<1>7. CASE Acting /\ planned # {} /\ ~opt.apply
  <2>1. PrintGroup(g, planned, {}) /\ Stamp(g)
    BY <1>3, <1>7 DEF planned, kept
  <2>2. Told(event(planned, {}))
    <3> HIDE DEF event
    <3> QED BY <1>2, <1>4, <1>5, <1>7, <2>1 DEF Told, Stamp
  <2> QED BY <1>2, <2>1, <2>2 DEF Stamp
<1>8. CASE Acting /\ planned # {} /\ opt.apply
  <2>1. PICK done \in SUBSET {f \in planned : CanSucceed(f, kept)} :
           PrintGroup(g, planned, done) /\ had_errors' = (had_errors \/ done # planned)
    BY <1>3, <1>8 DEF planned, kept
  <2>2. Told(event(planned, done))
    <3> HIDE DEF event
    <3>1. ~had_errors' => ~had_errors /\ planned \ done = {}
      BY <1>2, <2>1
    <3>2. ~opt.plan_out
      BY <1>1, <1>8
    <3>3. out' = Append(out, event(planned, done))
      BY <1>4, <2>1
    <3>4. planned \ done = {} => Flawless(event(planned, done))
      BY <1>5
    <3> QED BY <3>1, <3>2, <3>3, <3>4 DEF Told
  <2> QED BY <1>2, <2>1, <2>2
<1> QED BY <1>6, <1>7, <1>8

\* A step prints nothing, or one event; errors are not forgotten.
LEMMA OutSteps ==
  ASSUME LinesOK, FlawsOK, [Next]_vars
  PROVE  \/ Invoke
         \/ /\ had_errors' \in BOOLEAN
            /\ \/ out' = out /\ plan' = plan /\ (had_errors => had_errors')
               \/ \E e : Told(e)
<1> DEFINE Silent == out' = out /\ plan' = plan /\ (had_errors => had_errors')
           Good == had_errors' \in BOOLEAN /\ (Silent \/ \E e : Told(e))
           error == [type |-> "error"]
<1>0. had_errors \in BOOLEAN /\ LinesOK
  BY DEF FlawsOK
<1>1. ASSUME NEW g \in incoming, ReceiveGroup(g) PROVE Good
  <2>1. CASE HandleGroup(g)
    BY <2>1, GroupTold
  <2>2. CASE UNCHANGED <<report, plan, had_errors>>
    BY <1>0, <2>2 DEF report
  <2> QED BY <1>1, <2>1, <2>2 DEF ReceiveGroup
<1>2. ASSUME HandleLeftover PROVE Good
  <2>1. CASE HandleGroup(Head(collected))
    BY <2>1, GroupTold
  <2>2. CASE UNCHANGED <<report, plan, had_errors>>
    BY <1>0, <2>2 DEF report
  <2> QED BY <1>2, <2>1, <2>2 DEF HandleLeftover
<1>3. ASSUME out' = Append(out, error), had_errors' = TRUE PROVE Good
  BY <1>3 DEF Told
<1>4. ASSUME ReceiveError \/ FindFails \/ RefusePair PROVE Good
  <2>1. out' = Append(out, error)
    BY <1>4 DEF ReceiveError, ReportError, FindFails, RefusePair
  <2>2. had_errors' = TRUE
    BY <1>4 DEF ReceiveError, FindFails, RefusePair, PairErrors
  <2> QED BY <1>3, <2>1, <2>2
<1>5. ASSUME EndMatch PROVE Good
  <2> DEFINE e == [type |-> "folder", roots |-> Head(matches).roots, action |-> outcomes]
  <2>1. out' = Append(out, e) /\ plan' = plan /\ had_errors' = had_errors
    BY <1>5 DEF EndMatch, PrintFolderMatch
  <2>2. ~had_errors => \A o \in Range(outcomes) : o.failed = 0
    BY DEF FlawsOK, Range
  <2>3. (~had_errors => Flawless(e)) /\ PlannedBy(e) = {}
    BY <2>2 DEF Flawless, PlannedBy
  <2>4. Told(e)
    <3> HIDE DEF e
    <3> QED BY <2>1, <2>3 DEF Told
  <2> QED BY <1>0, <2>1, <2>4
<1>6. ASSUME Summarize PROVE Good
  <2> DEFINE e == [type |-> "summary", total |-> total]
  <2>1. plan' = plan /\ had_errors' = had_errors /\ (out' = out \/ out' = Append(out, e))
    BY <1>6 DEF Summarize
  <2>2. Flawless(e) /\ PlannedBy(e) = {}
    BY DEF Flawless, PlannedBy
  <2> HIDE DEF e
  <2> QED BY <1>0, <2>1, <2>2 DEF Told
<1>7. ASSUME NEW ok \in BOOLEAN, Similar(ok) PROVE Good
  <2>1. CASE ok
    <3>1. had_errors' \in BOOLEAN /\ (had_errors => had_errors') /\ out' = out /\ plan' = plan
      BY <1>0, <1>7, <2>1 DEF Similar
    <3> QED BY <1>0, <3>1
  <2>2. CASE ~ok
    <3>1. had_errors' = TRUE /\ out' = Append(out, error)
      BY <1>0, <1>7, <2>2 DEF Similar
    <3> QED BY <1>3, <3>1
  <2> QED BY <2>1, <2>2
<1>8. ASSUME HandlePair PROVE Good
  <2>1. had_errors' \in BOOLEAN /\ (had_errors => had_errors')
    BY <1>0, <1>8 DEF HandlePair, PairErrors
  <2> QED BY <1>8, <2>1 DEF HandlePair
<1>9. Start \/ ReceiveFinished \/ FindFolders \/ EndMatches \/ EndRun \/ Kill \/ UNCHANGED vars => Good
  BY <1>0 DEF Start, ReceiveFinished, FindFolders, EndMatches, EndRun, Kill, vars, report
<1>10. ASSUME NEW ok \in BOOLEAN, Confirm(ok) \/ OpenRoot(ok) \/ Record(ok) \/ WritePlan(ok)
       PROVE  Good
  BY <1>0, <1>10 DEF Confirm, OpenRoot, Record, WritePlan, report
<1> HIDE DEF Good
<1>11. Program => Good
  BY <1>1, <1>2, <1>4, <1>5, <1>6, <1>7, <1>8, <1>9, <1>10 DEF Program
<1>12. Invoke \/ Good
  BY <1>9, <1>11 DEF Next
<1> QED BY <1>12 DEF Good

LEMMA OutcomeSteps ==
  ASSUME FlawsOK, [Next]_vars
  PROVE  \/ outcomes' = outcomes \/ outcomes' = <<>>
         \/ \E o : /\ outcomes' = Append(outcomes, o)
                   /\ ~had_errors' => ~had_errors /\ o.failed = 0
<1> DEFINE Same == outcomes' = outcomes \/ outcomes' = <<>>
           Grown(o) == /\ outcomes' = Append(outcomes, o)
                       /\ ~had_errors' => ~had_errors /\ o.failed = 0
<1>1. CASE HandlePair
  <2> DEFINE removed == Head(pairs)[1]
             planned == {f \in FilesIn[removed] \ Reference : inode[f] # Gone}
             outcome(done, pruned) ==
               [removed |-> removed, file_count |-> Cardinality(planned),
                bytes |-> PlanBytes(planned), applied |-> opt.apply,
                directory_removed |-> pruned,
                failed |-> IF opt.apply THEN Cardinality(planned \ done) ELSE 0]
  <2>1. CASE ~opt.apply
    <3>1. outcomes' = Append(outcomes, outcome({}, FALSE)) /\ had_errors' = had_errors
      BY <1>1, <2>1 DEF HandlePair
    <3>2. outcome({}, FALSE).failed = 0
      BY <2>1
    <3> HIDE DEF outcome
    <3> QED BY <3>1, <3>2
  <2>2. CASE opt.apply
    <3>1. \E done, pruned : /\ outcomes' = Append(outcomes, outcome(done, pruned))
                            /\ done \subseteq planned
                            /\ PairErrors(done # planned)
      BY <1>1, <2>2 DEF HandlePair
    <3>2. PICK done, pruned : /\ outcomes' = Append(outcomes, outcome(done, pruned))
                              /\ done \subseteq planned
                              /\ PairErrors(done # planned)
      BY <3>1
    <3>3. outcome(done, pruned).failed = Cardinality(planned \ done)
      BY <2>2
    <3> HIDE DEF outcome, planned
    <3>4. ~had_errors' => ~had_errors /\ planned \ done = {}
      BY <3>2 DEF PairErrors, FlawsOK
    <3>5. Cardinality({}) = 0
      BY FS_EmptySet
    <3> QED BY <3>2, <3>3, <3>4, <3>5
  <2> QED BY <2>1, <2>2
<1>2. Start \/ ReceiveFinished \/ FindFolders \/ EndMatches \/ EndRun \/ Kill \/ UNCHANGED vars => Same
  BY DEF Start, ReceiveFinished, FindFolders, EndMatches, EndRun, Kill, vars, pass
<1>3. ASSUME NEW ok \in BOOLEAN,
             Confirm(ok) \/ OpenRoot(ok) \/ Record(ok) \/ WritePlan(ok) \/ Similar(ok)
      PROVE  Same
  BY <1>3 DEF Confirm, OpenRoot, Record, WritePlan, Similar, pass
<1>4. Invoke \/ ReceiveError \/ FindFails \/ RefusePair \/ EndMatch \/ Summarize => Same
  BY DEF Invoke, ReceiveError, FindFails, RefusePair, EndMatch, Summarize, pass
<1>5. HandleLeftover \/ (\E g \in incoming : ReceiveGroup(g)) => Same
  BY DEF HandleLeftover, ReceiveGroup, pass
<1> HIDE DEF Same
<1>6. HandlePair \/ Same
  BY <1>2, <1>3, <1>4, <1>5 DEF Next, Program
<1> QED BY <1>1, <1>6 DEF Same

LEMMA OptStays == ASSUME [Next]_vars, ~Invoke PROVE opt' = opt
<1>1. Program \/ Kill \/ UNCHANGED vars => opt' = opt
  BY DEF Program, Start, ReceiveError, ReceiveFinished, ReceiveGroup, FindFolders, FindFails,
     HandlePair, RefusePair, EndMatch, EndMatches, HandleLeftover, Summarize, EndRun, Confirm,
     OpenRoot, Similar, Record, WritePlan, Kill, vars, session
<1> QED BY <1>1 DEF Next

LEMMA FlawsStep ==
  ASSUME LinesOK, FlawsOK, [Next]_vars PROVE FlawsOK'
<1>1. CASE Invoke
  <2>1. out' = <<>> /\ outcomes' = <<>> /\ plan' = {} /\ had_errors' = FALSE
    BY <1>1 DEF Invoke
  <2>2. DOMAIN out' = {} /\ DOMAIN outcomes' = {} /\ PlanPrinted' = {}
    BY <2>1 DEF PlanPrinted
  <2> QED BY <2>1, <2>2, EmptyListed DEF FlawsOK
<1>2. CASE ~Invoke
  <2>0. opt' = opt
    BY <1>2, OptStays
  <2>1. /\ had_errors' \in BOOLEAN /\ Listed(out)' /\ (had_errors => had_errors')
        /\ ~had_errors' => \A i \in DOMAIN out' : Flawless(out'[i])
        /\ ~had_errors' /\ opt.plan_out => plan' = PlanPrinted'
    <3>1. CASE out' = out /\ plan' = plan /\ (had_errors => had_errors') /\ had_errors' \in BOOLEAN
      <4>1. PlanPrinted' = PlanPrinted
        BY <3>1 DEF PlanPrinted
      <4>2. \A i \in DOMAIN out : Flawless(out'[i]) <=> Flawless(out[i])
        BY <3>1
      <4>3. Listed(out)'
        BY <3>1 DEF FlawsOK, Listed
      <4>4. ~had_errors' => ~had_errors
        BY <3>1
      <4>5. ~had_errors' => \A i \in DOMAIN out' : Flawless(out'[i])
        BY <3>1, <4>2, <4>4 DEF FlawsOK
      <4>6. ~had_errors' /\ opt.plan_out => plan' = PlanPrinted'
        BY <3>1, <4>1, <4>4 DEF FlawsOK
      <4> QED BY <3>1, <4>3, <4>5, <4>6
    <3>2. ASSUME NEW e, Told(e), had_errors' \in BOOLEAN
          PROVE  /\ Listed(out)' /\ (had_errors => had_errors')
                 /\ ~had_errors' => \A i \in DOMAIN out' : Flawless(out'[i])
                 /\ ~had_errors' /\ opt.plan_out => plan' = PlanPrinted'
      <4>1. /\ Listed(out)' /\ DOMAIN out' = DOMAIN out \cup {Len(out) + 1}
            /\ out'[Len(out) + 1] = e /\ Len(out) + 1 \notin DOMAIN out
            /\ \A i \in DOMAIN out : out'[i] = out[i]
        BY <3>2, Appended DEF Told, FlawsOK
      <4>2. PlanPrinted' = PlanPrinted \cup PlannedBy(e)
        BY <4>1 DEF PlanPrinted
      <4>3. had_errors => had_errors'
        BY <3>2 DEF Told
      <4>4. ~had_errors' => \A i \in DOMAIN out' : Flawless(out'[i])
        BY <3>2, <4>1 DEF Told, FlawsOK
      <4>5. ~had_errors' /\ opt.plan_out => plan' = PlanPrinted'
        BY <3>2, <4>2 DEF Told, FlawsOK
      <4> QED BY <4>1, <4>3, <4>4, <4>5
    <3> QED BY <1>2, <3>1, <3>2, OutSteps
  <2>2. Listed(outcomes)' /\ (~had_errors' => \A i \in DOMAIN outcomes' : outcomes'[i].failed = 0)
    <3>1. CASE outcomes' = outcomes
      BY <2>1, <3>1 DEF FlawsOK, Listed
    <3>2. CASE outcomes' = <<>>
      BY <3>2, EmptyListed
    <3>3. ASSUME NEW o, outcomes' = Append(outcomes, o),
                 ~had_errors' => ~had_errors /\ o.failed = 0
          PROVE  /\ Listed(outcomes)'
                 /\ ~had_errors' => \A i \in DOMAIN outcomes' : outcomes'[i].failed = 0
      <4>1. /\ Listed(outcomes)' /\ DOMAIN outcomes' = DOMAIN outcomes \cup {Len(outcomes) + 1}
            /\ outcomes'[Len(outcomes) + 1] = o
            /\ \A i \in DOMAIN outcomes : outcomes'[i] = outcomes[i]
        BY <3>3, Appended DEF FlawsOK
      <4> QED BY <3>3, <4>1 DEF FlawsOK
    <3> QED BY <3>1, <3>2, <3>3, OutcomeSteps
  <2> QED BY <2>0, <2>1, <2>2 DEF FlawsOK
<1> QED BY <1>1, <1>2

\* The steps that do not start or end a run leave its exit code open.
LEMMA ExitStep ==
  ASSUME LinesOK, FlawsOK, ExitOK, [Next]_vars PROVE ExitOK'
<1>0. had_errors \in BOOLEAN /\ (opt.plan_out => ~opt.apply)
  BY DEF FlawsOK, LinesOK, AcceptedLines, Accepted
<1>1. CASE Invoke
  BY <1>1 DEF Invoke, ExitOK
<1>2. CASE Start
  <2>1. pc = "ready" /\ exit = "none"
    BY <1>2 DEF Start, ExitOK
  <2>2. UNCHANGED <<out, plan, had_errors, opt>>
    BY <1>2 DEF Start, report, session
  <2>3. /\ pc' \in {"asking", "opening", "ended"} /\ (pc' = "asking" => opt.apply)
        /\ exit' # "none" => pc' = "ended" /\ exit' = "FAILURE"
    BY <1>2, <2>1 DEF Start, Exit
  <2> QED BY <2>1, <2>2, <2>3 DEF ExitOK
<1>3. ASSUME NEW ok \in BOOLEAN, Confirm(ok) PROVE ExitOK'
  <2>1. pc = "asking" /\ exit = "none" /\ opt.apply /\ out = <<>> /\ plan = {} /\ ~had_errors
    BY <1>3 DEF Confirm, ExitOK
  <2>2. UNCHANGED <<out, plan, had_errors, opt>>
    BY <1>3 DEF Confirm, report, session
  <2>3. pc' \in {"opening", "ended"} /\ (exit' # "none" => pc' = "ended")
    BY <1>3, <2>1 DEF Confirm, Exit
  <2> QED BY <1>0, <2>1, <2>2, <2>3 DEF ExitOK
<1>4. CASE EndRun
  <2>1. UNCHANGED <<out, plan, had_errors, opt, plan_file>> /\ pc = "exiting" /\ pc' = "ended"
        /\ (exit' = "SUCCESS" => ~had_errors)
    BY <1>4 DEF EndRun, Exit, report, session, written
  <2>2. PlanPrinted' = PlanPrinted /\ Usable' = Usable
    BY <2>1 DEF PlanPrinted, Usable, Acting
  <2>3. ~had_errors => /\ \A i \in DOMAIN out : Flawless(out[i])
                       /\ opt.plan_out => plan_file = PlanPrinted
    BY <2>1 DEF ExitOK, FlawsOK
  <2>4. exit' = "SUCCESS" => \A i \in DOMAIN out' : Flawless(out'[i])
    BY <2>1, <2>3
  <2>5. exit' = "SUCCESS" /\ opt'.plan_out => plan_file' = PlanPrinted'
    BY <2>1, <2>2, <2>3
  <2> QED BY <2>1, <2>4, <2>5 DEF ExitOK
<1>5. ASSUME NEW ok \in BOOLEAN, WritePlan(ok) PROVE ExitOK'
  <2>1. pc = "writing" /\ pc' = "exiting" /\ exit' = exit /\ exit = "none"
    BY <1>5 DEF WritePlan, ExitOK
  <2>2. UNCHANGED <<plan, opt>>
    BY <1>5 DEF WritePlan, session
  <2>3. ~had_errors' /\ opt.plan_out => plan_file' = plan
    <3>1. ~ok => had_errors' = TRUE
      BY <1>0, <1>5 DEF WritePlan
    <3>2. ok /\ opt.plan_out => plan_file' = plan
      BY <1>5 DEF WritePlan
    <3> QED BY <3>1, <3>2
  <2> QED BY <2>1, <2>2, <2>3 DEF ExitOK
<1>6. CASE UNCHANGED vars
  <2>1. UNCHANGED <<pc, out, plan, had_errors, opt, plan_file, exit>>
    BY <1>6 DEF vars, report, session, written
  <2>2. PlanPrinted' = PlanPrinted /\ Usable' = Usable
    BY <2>1 DEF PlanPrinted, Usable, Acting
  <2>3. \A i \in DOMAIN out : Flawless(out'[i]) <=> Flawless(out[i])
    BY <2>1
  <2> QED BY <2>1, <2>2, <2>3 DEF ExitOK
<1> DEFINE Open == /\ pc # "ended" /\ pc' \notin {"ready", "asking", "opening", "exiting"}
                   /\ exit' # "none" => pc' = "ended" /\ exit' \in {exit, "FAILURE"}
<1>7. ASSUME NEW g \in incoming, ReceiveGroup(g) PROVE Open
  BY <1>7 DEF ReceiveGroup, ExitOK
<1>8. ReceiveError \/ ReceiveFinished \/ FindFolders \/ FindFails => Open
  BY DEF ReceiveError, ReceiveFinished, FindFolders, FindFails, ExitOK
<1>9. HandlePair \/ RefusePair \/ EndMatch \/ EndMatches => Open
  BY DEF HandlePair, RefusePair, EndMatch, EndMatches, ExitOK
<1>10. HandleLeftover \/ Summarize => Open
  BY DEF HandleLeftover, Summarize, ExitOK
<1>11. ASSUME NEW ok \in BOOLEAN, OpenRoot(ok) PROVE Open
  BY <1>11 DEF OpenRoot, Exit, ExitOK
<1>12. ASSUME NEW ok \in BOOLEAN, Similar(ok) \/ Record(ok) PROVE Open
  BY <1>12 DEF Similar, Record, ExitOK
<1>13. Kill => Open
  BY DEF Kill, ExitOK
<1>14. ASSUME Open PROVE ExitOK'
  <2>1. exit = "none"
    BY <1>14 DEF ExitOK
  <2> QED BY <1>14, <2>1 DEF ExitOK
<1> HIDE DEF Open
<1> QED BY <1>1, <1>2, <1>3, <1>4, <1>5, <1>6, <1>7, <1>8, <1>9, <1>10, <1>11, <1>12, <1>13,
         <1>14 DEF Next, Program

\* A run that succeeds has printed no error and no failure, and the plan it was
\* asked for holds every group with something to do.
THEOREM SuccessTrue == Spec => []ExitTruthful
<1> DEFINE Inv == LinesOK /\ FlawsOK /\ ExitOK
<1>1. Init => Inv
  <2>1. ASSUME Init PROVE FlawsOK /\ ExitOK
    <3>1. /\ out = <<>> /\ outcomes = <<>> /\ plan = {} /\ had_errors = FALSE
          /\ pc = "ready" /\ exit = "none"
      BY <2>1 DEF Init
    <3>2. DOMAIN out = {} /\ DOMAIN outcomes = {} /\ PlanPrinted = {}
      BY <3>1 DEF PlanPrinted
    <3> QED BY <3>1, <3>2, EmptyListed DEF FlawsOK, ExitOK
  <2> QED BY <2>1, LinesInit
<1>2. Inv /\ [Next]_vars => Inv'
  BY LinesStep, FlawsStep, ExitStep
<1>3. Inv => ExitTruthful
  <2> SUFFICES ASSUME Inv, exit = "SUCCESS" PROVE ExitTruthful
    BY DEF ExitTruthful
  <2>1. \A i \in DOMAIN out : Flawless(out[i])
    BY DEF ExitOK
  <2>2. PlanPrinted = {out[i].group : i \in {j \in Printed("group") : out[j].planned # {}}}
    BY DEF PlanPrinted, PlannedBy, Printed
  <2>3. opt.plan_out /\ Usable => plan_file = PlanPrinted
    BY DEF ExitOK
  <2> QED BY <2>1, <2>2, <2>3 DEF ExitTruthful, Flawless, Printed
<1> HIDE DEF Inv
<1> QED BY <1>1, <1>2, <1>3, PTL DEF Spec
-----------------------------------------------------------------------------
(* Sums and lists in order.                                                *)

\* The union a sum is the size of.
Pieces(f, S) == UNION {{x} \X (1..f[x]) : x \in S}

LEMMA PiecesFinite ==
  ASSUME NEW S, IsFiniteSet(S), NEW f, \A x \in S : f[x] \in Nat
  PROVE  IsFiniteSet(Pieces(f, S))
<1> DEFINE T == {{x} \X (1..f[x]) : x \in S}
           p == [x \in S |-> {x} \X (1..f[x])]
<1>1. p \in Surjection(S, T)
  BY DEF Surjection
<1>2. IsFiniteSet(T)
  <2> HIDE DEF p, T
  <2> QED BY <1>1, FS_Surjection
<1>3. ASSUME NEW t \in T PROVE IsFiniteSet(t)
  <2>1. PICK x \in S : t = {x} \X (1..f[x])
    OBVIOUS
  <2>2. IsFiniteSet({x}) /\ IsFiniteSet(1..f[x])
    <3>1. f[x] \in Int /\ 1 \in Int
      OBVIOUS
    <3>2. IsFiniteSet(1..f[x])
      BY <3>1, FS_Interval
    <3> QED BY <3>2, FS_Singleton
  <2> QED BY <2>1, <2>2, FS_Product
<1> HIDE DEF T
<1>4. IsFiniteSet(UNION T)
  BY <1>2, <1>3, FS_UNION
<1> QED BY <1>4 DEF T, Pieces

LEMMA SumTyped ==
  ASSUME NEW S, IsFiniteSet(S), NEW f, \A x \in S : f[x] \in Nat
  PROVE  Sum(f, S) \in Nat /\ Sum(f, S) = Cardinality(Pieces(f, S))
<1>1. Sum(f, S) = Cardinality(Pieces(f, S))
  BY DEF Sum, Pieces
<1> QED BY <1>1, PiecesFinite, FS_CardinalityType

LEMMA SumEmpty == \A f : Sum(f, {}) = 0
<1>1. \A f : UNION {{x} \X (1..f[x]) : x \in {}} = {}
  OBVIOUS
<1> QED BY <1>1, FS_EmptySet DEF Sum

\* Only the values on the set count.
LEMMA SumSame ==
  ASSUME NEW S, NEW f, NEW g, \A x \in S : f[x] = g[x]
  PROVE  Sum(f, S) = Sum(g, S)
<1>1. {{x} \X (1..f[x]) : x \in S} = {{x} \X (1..g[x]) : x \in S}
  OBVIOUS
<1> QED BY <1>1 DEF Sum

LEMMA SumUnion ==
  ASSUME NEW S, IsFiniteSet(S), NEW T, IsFiniteSet(T), S \cap T = {},
         NEW f, \A x \in S \cup T : f[x] \in Nat
  PROVE  Sum(f, S \cup T) = Sum(f, S) + Sum(f, T)
<1>1. Pieces(f, S \cup T) = Pieces(f, S) \cup Pieces(f, T)
  BY DEF Pieces
<1>2. Pieces(f, S) \cap Pieces(f, T) = {}
  BY DEF Pieces
<1>3. IsFiniteSet(S \cup T)
  BY FS_Union
<1> DEFINE A == Pieces(f, S)
           B == Pieces(f, T)
<1>4. IsFiniteSet(A) /\ IsFiniteSet(B) /\ A \cap B = {}
  BY <1>2, PiecesFinite
<1> HIDE DEF A, B
<1>5. Cardinality(A \cup B) = Cardinality(A) + Cardinality(B)
  <2>1. Cardinality(A \cap B) = 0
    BY <1>4, FS_EmptySet
  <2>2. Cardinality(A) \in Nat /\ Cardinality(B) \in Nat
    BY <1>4, FS_CardinalityType
  <2>3. Cardinality(A \cup B) = Cardinality(A) + Cardinality(B) - Cardinality(A \cap B)
    BY <1>4, FS_Union
  <2> QED BY <2>1, <2>2, <2>3
<1> QED BY <1>1, <1>3, <1>5, SumTyped DEF A, B

LEMMA SumOne ==
  ASSUME NEW x, NEW f, f[x] \in Nat
  PROVE  Sum(f, {x}) = f[x]
<1>1. UNION {{y} \X (1..f[y]) : y \in {x}} = {x} \X (1..f[x])
  <2>1. {{y} \X (1..f[y]) : y \in {x}} = {{x} \X (1..f[x])}
    OBVIOUS
  <2> DEFINE P == {x} \X (1..f[x])
  <2> HIDE DEF P
  <2>2. UNION {P} = P
    OBVIOUS
  <2> QED BY ONLY <2>1, <2>2 DEF P
<1>2. IsFiniteSet({x}) /\ Cardinality({x}) = 1
  BY FS_Singleton
<1>3. IsFiniteSet(1..f[x]) /\ Cardinality(1..f[x]) = f[x]
  <2>1. f[x] \in Nat
    OBVIOUS
  <2>2. \A k \in Nat : IsFiniteSet(1..k) /\ Cardinality(1..k) = k
    BY ONLY FS_Interval
  <2> QED
    BY ONLY <2>1, <2>2
<1> DEFINE A == {x}
           B == 1..f[x]
<1>4. Cardinality(A \X B) = f[x]
  <2>1. IsFiniteSet(A) /\ IsFiniteSet(B) /\ Cardinality(A) = 1 /\ Cardinality(B) = f[x]
    BY <1>2, <1>3
  <2> HIDE DEF A, B
  <2>2. Cardinality(A \X B) = 1 * f[x]
    BY <2>1, FS_Product
  <2> QED BY <2>2
<1> QED BY <1>1, <1>4 DEF Sum

\* A function on a set with one more member.
Extends(g, x, f, S) ==
    x \notin S /\ g[x] \in Nat /\ \A y \in S : f[y] \in Nat /\ g[y] = f[y]

LEMMA SumExtended ==
  ASSUME NEW S, IsFiniteSet(S), NEW x, NEW f, NEW g, Extends(g, x, f, S)
  PROVE  Sum(g, S \cup {x}) = Sum(f, S) + g[x]
<1>1. IsFiniteSet({x}) /\ S \cap {x} = {}
  BY FS_Singleton DEF Extends
<1>2. \A y \in S \cup {x} : g[y] \in Nat
  BY DEF Extends
<1>3. Sum(g, S \cup {x}) = Sum(g, S) + Sum(g, {x})
  BY <1>1, <1>2, SumUnion
<1>4. g[x] \in Nat /\ Sum(g, {x}) = g[x]
  BY SumOne DEF Extends
<1>5. Sum(g, S) = Sum(f, S)
  BY SumSame DEF Extends
<1> QED BY <1>3, <1>4, <1>5

\* The same values, counted by other names.
LEMMA SumRenamed ==
  ASSUME NEW S, NEW T, IsFiniteSet(T), NEW f, NEW g, NEW h \in Bijection(T, S),
         \A t \in T : g[t] \in Nat /\ g[t] = f[h[t]]
  PROVE  Sum(g, T) = Sum(f, S)
<1>1. h \in [T -> S] /\ (\A t, u \in T : h[t] = h[u] => t = u) /\ (\A s \in S : \E t \in T : h[t] = s)
  BY DEF Bijection, Injection, IsInjective, Surjection
<1>2. IsFiniteSet(S) /\ IsFiniteSet(Pieces(g, T))
  BY PiecesFinite, FS_Bijection DEF ExistsBijection
<1>3. \A s \in S : f[s] \in Nat
  BY <1>1
<1> DEFINE A == Pieces(g, T)
           B == Pieces(f, S)
           k == [p \in A |-> <<h[p[1]], p[2]>>]
<1>4. \A p : p \in A <=> \E t \in T : \E n \in 1..g[t] : p = <<t, n>>
  BY DEF Pieces
<1>5. \A p : p \in B <=> \E s \in S : \E n \in 1..f[s] : p = <<s, n>>
  BY DEF Pieces
<1> HIDE DEF A, B
<1>6. k \in [A -> B]
  BY <1>1, <1>4, <1>5
<1>7. ASSUME NEW p \in A, NEW q \in A, k[p] = k[q] PROVE p = q
  <2>1. PICK t \in T : \E n \in 1..g[t] : p = <<t, n>>
    BY <1>4
  <2>2. PICK u \in T : \E n \in 1..g[u] : q = <<u, n>>
    BY <1>4
  <2> QED BY <1>1, <1>7, <2>1, <2>2
<1>8. ASSUME NEW q \in B PROVE \E p \in A : k[p] = q
  <2>1. PICK s \in S : \E n \in 1..f[s] : q = <<s, n>>
    BY <1>5
  <2>2. PICK n \in 1..f[s] : q = <<s, n>>
    BY <2>1
  <2>3. PICK t \in T : h[t] = s
    BY <1>1
  <2>4. <<t, n>> \in A
    BY <1>4, <2>2, <2>3
  <2> QED BY <2>2, <2>3, <2>4
<1>9. k \in Bijection(A, B)
  BY <1>6, <1>7, <1>8 DEF Bijection, Injection, IsInjective, Surjection
<1>10. Cardinality(B) = Cardinality(A)
  <2> HIDE DEF k
  <2> QED BY <1>2, <1>9, FS_Bijection DEF ExistsBijection, A
<1>11. Sum(g, T) = Cardinality(A) /\ Sum(f, S) = Cardinality(B)
  BY <1>2, <1>3, SumTyped DEF A, B
<1> QED BY <1>10, <1>11

\* InOrder lists each member of a finite set of numbers once.
LEMMA OrderFacts ==
  ASSUME NEW S \in SUBSET Nat, IsFiniteSet(S)
  PROVE  /\ InOrder(S) \in Bijection(1..Cardinality(S), S)
         /\ InOrder(S) \in [1..Cardinality(S) -> S] /\ Cardinality(S) \in Nat
<1> DEFINE n == Cardinality(S)
           smaller(f) == {h \in S : h < f}
           rank == [f \in S |-> Cardinality(smaller(f)) + 1]
<1>1. n \in Nat
  BY FS_CardinalityType
<1>2. \A f : IsFiniteSet(smaller(f)) /\ Cardinality(smaller(f)) \in Nat
  BY FS_Subset, FS_CardinalityType
<1>3. ASSUME NEW f \in S PROVE Cardinality(smaller(f)) < n
  <2>1. smaller(f) \in SUBSET S /\ smaller(f) # S
    OBVIOUS
  <2>2. Cardinality(smaller(f)) <= n /\ n # Cardinality(smaller(f))
    BY <2>1, FS_Subset
  <2> QED BY <1>1, <1>2, <2>2
<1>4. ASSUME NEW f \in S, NEW g \in S, f < g
      PROVE  Cardinality(smaller(f)) < Cardinality(smaller(g))
  <2>1. smaller(f) \in SUBSET smaller(g) /\ smaller(f) # smaller(g)
    <3>1. f \in Nat /\ g \in Nat
      OBVIOUS
    <3>2. ASSUME NEW h \in S, h < f PROVE h < g
      <4>1. h \in Nat
        OBVIOUS
      <4> QED BY <1>4, <3>1, <3>2, <4>1
    <3>3. f \in smaller(g) /\ f \notin smaller(f)
      BY <1>4, <3>1
    <3> QED BY <3>2, <3>3
  <2>2. /\ Cardinality(smaller(f)) <= Cardinality(smaller(g))
        /\ Cardinality(smaller(g)) # Cardinality(smaller(f))
    <3> HIDE DEF smaller
    <3> QED BY <1>2, <2>1, FS_Subset
  <2> QED BY <1>2, <2>2
<1>5. rank \in [S -> 1..n]
  <2> HIDE DEF smaller
  <2> QED BY <1>1, <1>2, <1>3
<1>6. ASSUME NEW f \in S, NEW g \in S, rank[f] = rank[g] PROVE f = g
  <2>1. Cardinality(smaller(f)) = Cardinality(smaller(g))
    <3> HIDE DEF smaller
    <3> QED BY <1>2, <1>6
  <2>2. ~(f < g) /\ ~(g < f)
    <3> HIDE DEF smaller
    <3> QED BY <1>2, <1>4, <2>1
  <2> QED BY <2>2
<1>7. rank \in Injection(S, 1..n)
  <2> HIDE DEF rank
  <2> QED BY <1>5, <1>6 DEF Injection, IsInjective
<1>8. IsFiniteSet(1..n) /\ Cardinality(1..n) = n
  BY <1>1, FS_Interval
<1>9. rank \in Surjection(S, 1..n)
  <2> HIDE DEF rank
  <2> QED BY <1>7, <1>8, FS_Injection
<1>10. \A m \in 1..n : \E f \in S : rank[f] = m
  <2> HIDE DEF rank
  <2> QED BY <1>9 DEF Surjection
<1> DEFINE list == InOrder(S)
<1>11. list = [m \in 1..n |-> CHOOSE f \in S : Cardinality(smaller(f)) = m - 1]
  BY DEF InOrder
<1>12. ASSUME NEW m \in 1..n PROVE list[m] \in S /\ rank[list[m]] = m
  <2>1. PICK f \in S : rank[f] = m
    BY <1>10
  <2>2. Cardinality(smaller(f)) = m - 1
    <3> HIDE DEF smaller
    <3> QED BY <1>2, <2>1
  <2>3. list[m] = CHOOSE h \in S : Cardinality(smaller(h)) = m - 1
    <3> HIDE DEF list, smaller, n
    <3> QED BY <1>11
  <2>4. list[m] \in S /\ Cardinality(smaller(list[m])) = m - 1
    <3> HIDE DEF list, smaller
    <3> QED BY <2>2, <2>3
  <2> HIDE DEF smaller, list
  <2> QED BY <1>1, <2>4
<1> HIDE DEF list, rank, smaller
<1>13. DOMAIN list = 1..n /\ list \in [1..n -> S]
  <2> HIDE DEF n
  <2> QED BY <1>11, <1>12
<1>14. ASSUME NEW f \in S PROVE \E m \in 1..n : list[m] = f
  <2>1. rank[f] \in 1..n
    BY <1>5
  <2>2. rank[list[rank[f]]] = rank[f] /\ list[rank[f]] \in S
    BY <1>12, <2>1
  <2> QED BY <1>6, <2>1, <2>2
<1>15. list \in Bijection(1..n, S)
  <2> HIDE DEF n
  <2>1. \A l, m \in 1..n : list[l] = list[m] => l = m
    BY <1>12
  <2> QED BY <1>13, <1>14, <2>1 DEF Bijection, Injection, IsInjective, Surjection
<1> QED BY <1>1, <1>13, <1>15 DEF list

-----------------------------------------------------------------------------
(* The state of a run.                                                       *)

Tree == [File -> File \cup {Gone}]
ActionRow == [path : File, bytes : Nat, succeeded : BOOLEAN]
ScanRow == [started_at : Nat, action_kind : {o.kind : o \in CommandLines}, applied : BOOLEAN,
            bytes_reclaimed : Nat, files_acted_on : Nat, actions : Seq(ActionRow)]
Outcome == [removed : Folder, file_count : Nat, bytes : Nat, applied : BOOLEAN,
            directory_removed : BOOLEAN, failed : Nat]

GroupEvent == [type : {"group"}, group : SUBSET File, planned : SUBSET File,
               succeeded : SUBSET File, failed : SUBSET File, bytes : Nat]
FolderEvent == [type : {"folder"}, roots : SUBSET Folder, action : Seq(Outcome)]
SummaryEvent == [type : {"summary"}, total : [bytes : Nat, files : Nat]]
ErrorEvent == [type : {"error"}]
Event == GroupEvent \cup FolderEvent \cup SummaryEvent \cup ErrorEvent

PlaceOK ==
    /\ pc \in {"ready", "asking", "opening", "scanning", "finding", "matching",
               "leftover", "similar", "summary", "recording", "writing", "exiting", "ended"}
    /\ exit \in {"none", "SUCCESS", "FAILURE"} /\ consent \in BOOLEAN /\ had_errors \in BOOLEAN
    /\ begun \in Nat /\ now \in Nat /\ 1 <= now /\ now <= begun
TreeOK == inode \in Tree /\ archived \in SUBSET File
BeforeOK == before \in [inode : Tree, archived : SUBSET File, recorded : Nat]
GroupsOK ==
    /\ incoming \subseteq Duplicates(before)
    /\ collected \in Seq(Duplicates(before)) /\ plan \subseteq SUBSET File
    /\ plan_file \subseteq SUBSET File
PassOK ==
    /\ matches \in Seq(Match) /\ covered \subseteq Folder
    /\ pairs \in Seq({p \in Folder \X Folder : Partnered(p)}) /\ outcomes \in Seq(Outcome)
ReportOK == total \in [bytes : Nat, files : Nat] /\ rows \in Seq(ActionRow) /\ out \in Seq(Event)

StateOK == PlaceOK /\ TreeOK /\ BeforeOK /\ GroupsOK /\ PassOK /\ ReportOK

\* The database holds what was in it before the run, and the run's scan at most.
HistoryOK ==
    /\ history \in Seq(ScanRow)
    /\ \A i \in DOMAIN history : 1 <= history[i].started_at /\ history[i].started_at <= now
    /\ \A i, j \in DOMAIN history : i <= j => history[i].started_at <= history[j].started_at
    /\ before.recorded < begun
    /\ \/ Len(history) = before.recorded
       \/ /\ Len(history) = before.recorded + 1
          /\ pc \in {"writing", "exiting", "ended"} /\ opt.history
          /\ history[Len(history)] = ScanRecord

\* What the run has done to the tree, and its totals.
DoneOK ==
    /\ ~(Acting /\ opt.apply) => TreeAsBefore
    /\ opt.kind # "hardlink" => \A f \in File : inode[f] \in {before.inode[f], Gone}
    /\ opt.kind # "copy" => archived = before.archived
    /\ opt.kind = "copy" => inode = before.inode /\ before.archived \subseteq archived
    /\ opt.apply /\ opt.kind # "hardlink" =>
          /\ total.files = Cardinality(Touched)
          /\ total.bytes = IF opt.kind = "copy" THEN 0 ELSE PlanBytes(Touched)

\* The rows of the run so far are its actions.
Succeeded(actions) == {i \in DOMAIN actions : actions[i].succeeded}
PathsOf(actions) == {actions[i].path : i \in Succeeded(actions)}
SumOfRows(actions) == Sum([i \in Succeeded(actions) |-> actions[i].bytes], Succeeded(actions))
RowsOK ==
    /\ ~(Acting /\ opt.apply /\ opt.history) => rows = <<>>
    /\ opt.apply /\ opt.history =>
          /\ Touched \subseteq PathsOf(rows)
          /\ opt.kind # "hardlink" => PathsOf(rows) = Touched
          /\ total.files = Cardinality(Succeeded(rows))
          /\ total.bytes = IF opt.kind = "copy" THEN 0 ELSE SumOfRows(rows)

\* The totals of the runs before this one.
GoneIn(names) == {f \in File : names[f] = Gone}
Complete(n) == \A i \in 1..n : history[i].applied /\ history[i].action_kind # "hardlink"
Reclaimed(n) == Sum([i \in 1..n |-> history[i].bytes_reclaimed], 1..n)
ActedOn(n) == Sum([i \in 1..n |-> history[i].files_acted_on], 1..n)
PastOK ==
    (before.recorded + 1 = begun /\ Complete(before.recorded)) =>
       /\ Reclaimed(before.recorded) = PlanBytes(GoneIn(before.inode))
       /\ ActedOn(before.recorded) =
             Cardinality(GoneIn(before.inode)) + Cardinality(before.archived)

\* The lines printed add up to the totals.
GroupFiles == [j \in Printed("group") |->
                 Cardinality(IF opt.apply THEN out[j].succeeded ELSE out[j].planned)]
GroupBytes == [j \in Printed("group") |-> out[j].bytes]
FolderFiles == [j \in Printed("folder") |-> Moved(out[j].action)]
CountsFit(actions) == \A k \in DOMAIN actions : actions[k].failed <= actions[k].file_count
AddsUp ==
    /\ \A i \in Printed("folder") : CountsFit(out[i].action)
    /\ CountsFit(outcomes)
    /\ total.files = Sum(GroupFiles, Printed("group")) + Sum(FolderFiles, Printed("folder"))
                       + Moved(outcomes)
    /\ ~opt.find_folders => total.bytes = Sum(GroupBytes, Printed("group"))
SummaryOK ==
    /\ pc \in {"finding", "matching", "leftover"} => opt.find_folders
    /\ pc \notin {"matching", "ended"} => outcomes = <<>>
    /\ matches = <<>> => pairs = <<>> /\ outcomes = <<>>
    /\ \A i \in Printed("summary") :
          /\ pc \in {"recording", "writing", "exiting", "ended"}
          /\ outcomes = <<>> /\ out[i].total = total

\* Each group is in the scan, among those collected, under a match, or printed.
ShownRoots == UNION {out[i].roots : i \in Printed("folder")}
LinesOf(g) == {i \in Printed("group") : out[i].group = g}
Waiting(g) == g \in incoming \/ g \in Range(collected)
Early == {"ready", "asking", "opening"}
ShownOK ==
    /\ covered = ShownRoots \cup UNION {m.roots : m \in Range(matches)}
    /\ pc \in Early => out = <<>> /\ incoming = Duplicates(before)
    /\ pc \in Early \cup {"scanning", "finding"} => covered = {}
    /\ pc \notin {"matching", "ended"} \/ exit # "none" => matches = <<>>
    /\ pc \in Early \cup {"similar", "summary", "recording", "writing", "exiting"}
          \/ exit # "none" \/ ~opt.find_folders => collected = <<>>
    /\ \A i, j \in DOMAIN collected : collected[i] = collected[j] => i = j
    /\ Range(collected) \cap incoming = {}
    /\ pc \in {"scanning", "finding", "matching"} /\ opt.find_folders =>
          \A g \in Duplicates(before) : Waiting(g)
    /\ pc # "ended" \/ exit # "none" =>
          \A g \in Duplicates(before) :
             Cardinality(LinesOf(g)) = IF Waiting(g) \/ FullyCovered(g) THEN 0 ELSE 1

-----------------------------------------------------------------------------
(* What the steps do to the files.                                           *)

LEMMA FileFacts ==
  /\ IsFiniteSet(File) /\ File \subseteq Nat /\ Gone \notin File
  /\ \A f \in File : SizeOf(f) \in Nat
  /\ \A g \in Group : \A f \in g : GroupOf(f) = g
  /\ \A d \in Folder : FilesIn[d] \subseteq File
<1>1. IsFiniteSet(UNION Group)
  BY GroupAssumption, FS_UNION
<1>2. \A g \in Group : \A f \in g : GroupOf(f) = g
  BY GroupAssumption DEF GroupOf
<1>3. \A f \in File : SizeOf(f) \in Nat
  BY <1>2, GroupAssumption DEF SizeOf, File
<1> QED BY <1>1, <1>2, <1>3, GroupAssumption, FolderAssumption DEF File

LEMMA SetFacts ==
  ASSUME NEW S \in SUBSET File
  PROVE  /\ IsFiniteSet(S) /\ Cardinality(S) \in Nat
         /\ PlanBytes(S) \in Nat /\ BytesOf(S) \in Nat
<1>1. IsFiniteSet(S) /\ Cardinality(S) \in Nat
  BY FileFacts, FS_Subset, FS_CardinalityType
<1> DEFINE size == [f \in File |-> SizeOf(f)]
<1>2. \A f \in S : size[f] \in Nat
  BY FileFacts
<1>3. Sum(size, S) \in Nat
  <2> HIDE DEF size
  <2> QED BY <1>1, <1>2, SumTyped
<1> QED BY <1>1, <1>3 DEF PlanBytes, BytesOf

LEMMA EmptyFacts == PlanBytes({}) = 0 /\ BytesOf({}) = 0 /\ Cardinality({}) = 0
BY SumEmpty, FS_EmptySet DEF PlanBytes, BytesOf

LEMMA PlanBytesUnion ==
  ASSUME NEW S \in SUBSET File, NEW T \in SUBSET File, S \cap T = {}
  PROVE  /\ PlanBytes(S \cup T) = PlanBytes(S) + PlanBytes(T)
         /\ Cardinality(S \cup T) = Cardinality(S) + Cardinality(T)
<1>1. IsFiniteSet(S) /\ IsFiniteSet(T) /\ Cardinality(S) \in Nat /\ Cardinality(T) \in Nat
  BY SetFacts
<1> DEFINE size == [f \in File |-> SizeOf(f)]
<1>2. \A f \in S \cup T : size[f] \in Nat
  BY FileFacts
<1>3. Sum(size, S \cup T) = Sum(size, S) + Sum(size, T)
  <2> HIDE DEF size
  <2> QED BY <1>1, <1>2, SumUnion
<1>4. Cardinality(S \cup T) = Cardinality(S) + Cardinality(T) - Cardinality(S \cap T)
  BY <1>1, FS_Union
<1>5. Cardinality(S \cap T) = 0
  BY FS_EmptySet
<1> QED BY <1>1, <1>3, <1>4, <1>5 DEF PlanBytes

LEMMA DuplicateFacts ==
  ASSUME NEW tr, NEW g \in Duplicates(tr) PROVE g \in SUBSET File /\ g # {}
<1>1. PICK h \in Group : g = {f \in h : tr.inode[f] # Gone}
  BY DEF Duplicates
<1>2. ASSUME g = {} PROVE FALSE
  <2>1. {tr.inode[f] : f \in g} = {}
    BY <1>2
  <2>2. Cardinality({tr.inode[f] : f \in g}) > 1
    BY DEF Duplicates
  <2> QED BY <2>1, <2>2, FS_EmptySet
<1> QED BY <1>1, <1>2 DEF File

\* A protected member has precedence, but any kept file is of the group.
LEMMA KeptFacts ==
  ASSUME NEW g \in SUBSET File, NEW proposal \in g PROVE KeptFor(g, proposal) \in g
<1>1. CASE g \cap Reference = {}
  BY <1>1 DEF KeptFor
<1>2. CASE g \cap Reference # {}
  <2> DEFINE S == g \cap Reference
  <2>1. S \in SUBSET File /\ S \in SUBSET Nat
    BY FileFacts
  <2>2. IsFiniteSet(S) /\ Cardinality(S) \in Nat
    BY <2>1, SetFacts
  <2>3. Cardinality(S) # 0
    <3> HIDE DEF S
    <3> QED BY <1>2, <2>2, FS_EmptySet DEF S
  <2>4. InOrder(S) \in [1..Cardinality(S) -> S]
    <3> HIDE DEF S
    <3> QED BY <2>1, <2>2, OrderFacts
  <2>5. InOrder(S)[1] \in S
    <3> HIDE DEF S
    <3> QED BY <2>2, <2>3, <2>4
  <2> QED BY <1>2, <2>5 DEF KeptFor
<1> QED BY <1>1, <1>2

\* A pair of a match has a partner for each file.
LEMMA PartnerFacts ==
  ASSUME NEW p \in Folder \X Folder, Partnered(p), NEW f \in FilesIn[p[1]]
  PROVE  PartnerIn(p[2], f) \in File
<1>1. PICK h \in FilesIn[p[2]] : \E g \in Group : {f, h} \subseteq g
  BY DEF Partnered
<1>2. h \in GroupOf(f)
  BY <1>1, FileFacts
<1>3. PartnerIn(p[2], f) \in FilesIn[p[2]]
  BY <1>1, <1>2 DEF PartnerIn
<1> QED BY <1>3, FileFacts
-----------------------------------------------------------------------------
\* What an action that succeeds on the files in done does to the tree.
Moves(done) ==
    /\ inode' \in Tree /\ archived' = IF opt.kind = "copy" THEN archived \cup done ELSE archived
    /\ \A f \in File : f \notin done \/ opt.kind = "copy" => inode'[f] = inode[f]
    /\ opt.kind \notin {"hardlink", "copy"} =>
          \A f \in done : inode[f] # Gone /\ inode'[f] = Gone
    /\ opt.kind = "copy" => done \cap archived = {}

\* An action on the files in planned, of which those in done succeed.
Effect(planned, done) ==
    /\ Acting /\ planned \in SUBSET File /\ done \in SUBSET planned
    /\ opt.apply => /\ Moves(done)
                    /\ Count(BytesOf(done), Cardinality(done))
                    /\ RecordOutcomes(planned, done)
    /\ ~opt.apply => /\ UNCHANGED <<tree, rows>>
                     /\ Count(PlanBytes(planned), Cardinality(planned))

Idle == UNCHANGED <<tree, total, rows>>

LEMMA ActMoves ==
  ASSUME TreeOK, NEW done \in SUBSET File, NEW kept,
         \A f \in done : kept[f] \in File /\ CanSucceed(f, kept[f]), Act(done, kept)
  PROVE  Moves(done)
<1>1. inode' \in Tree
  BY DEF Act, TreeOK, Tree
<1>2. \A f \in File : f \notin done \/ opt.kind = "copy" => inode'[f] = inode[f]
  BY DEF Act
<1>3. opt.kind \notin {"hardlink", "copy"} => \A f \in done : inode[f] # Gone /\ inode'[f] = Gone
  BY DEF Act, CanSucceed
<1>4. opt.kind = "copy" => done \cap archived = {}
  BY DEF CanSucceed
<1> QED BY <1>1, <1>2, <1>3, <1>4 DEF Moves, Act

\* A group is printed with what was planned for it and what was done.
GroupLine(g, e) ==
    /\ out' = Append(out, e) /\ e \in GroupEvent /\ e.group = g
    /\ \/ Idle /\ e.planned = {} /\ e.succeeded = {} /\ e.bytes = 0
       \/ /\ Effect(e.planned, e.succeeded)
          /\ e.bytes = IF opt.apply THEN BytesOf(e.succeeded) ELSE PlanBytes(e.planned)

LEMMA GroupSteps ==
  ASSUME TreeOK, NEW g \in SUBSET File, HandleGroup(g)
  PROVE  \E e : GroupLine(g, e)
<1>1. PICK proposal \in g :
        LET kept == KeptFor(g, proposal)
            planned == Planned(g, kept)
        IN  IF ~Acting \/ planned = {}
            THEN /\ PrintGroup(g, {}, {})
                 /\ UNCHANGED <<tree, total, rows, plan, had_errors>>
            ELSE IF ~opt.apply
            THEN /\ Stamp(g)
                 /\ PrintGroup(g, planned, {})
                 /\ Count(PlanBytes(planned), Cardinality(planned))
                 /\ UNCHANGED <<tree, rows>>
            ELSE \E done \in SUBSET {f \in planned : CanSucceed(f, kept)} :
                    /\ Act(done, [f \in done |-> kept])
                    /\ PrintGroup(g, planned, done)
                    /\ Count(BytesOf(done), Cardinality(done))
                    /\ RecordOutcomes(planned, done)
                    /\ had_errors' = (had_errors \/ done # planned)
                    /\ UNCHANGED plan
  BY DEF HandleGroup
<1> DEFINE kept == KeptFor(g, proposal)
           planned == Planned(g, kept)
           event(pl, done) ==
             [type |-> "group", group |-> g, planned |-> pl, succeeded |-> done,
              failed |-> IF opt.apply THEN pl \ done ELSE {},
              bytes |-> IF opt.apply THEN BytesOf(done) ELSE PlanBytes(pl)]
<1>2. kept \in g /\ planned \in SUBSET File
  BY KeptFacts DEF Planned
<1> HIDE DEF planned, kept
<1>3. \A pl, done : PrintGroup(g, pl, done) => out' = Append(out, event(pl, done))
  BY DEF PrintGroup
<1>4. ASSUME NEW pl \in SUBSET File, NEW done \in SUBSET pl
      PROVE  /\ event(pl, done) \in GroupEvent /\ event(pl, done).group = g
             /\ event(pl, done).planned = pl /\ event(pl, done).succeeded = done
             /\ event(pl, done).bytes = IF opt.apply THEN BytesOf(done) ELSE PlanBytes(pl)
  <2>1. done \in SUBSET File /\ pl \ done \in SUBSET File
    OBVIOUS
  <2>2. BytesOf(done) \in Nat /\ PlanBytes(pl) \in Nat
    BY <2>1, SetFacts
  <2> QED BY <2>1, <2>2 DEF GroupEvent
<1>5. CASE ~Acting \/ planned = {}
  <2>1. PrintGroup(g, {}, {}) /\ Idle
    BY <1>1, <1>5 DEF planned, kept, Idle
  <2>2. {} \in SUBSET File /\ {} \in SUBSET {}
    OBVIOUS
  <2> HIDE DEF event
  <2>3. GroupLine(g, event({}, {}))
    BY <1>3, <1>4, <2>1, <2>2, EmptyFacts DEF GroupLine
  <2> QED BY <2>3
<1>6. CASE Acting /\ planned # {} /\ ~opt.apply
  <2>1. /\ PrintGroup(g, planned, {})
        /\ Count(PlanBytes(planned), Cardinality(planned)) /\ UNCHANGED <<tree, rows>>
    BY <1>1, <1>6 DEF planned, kept
  <2>2. Effect(planned, {})
    BY <1>2, <1>6, <2>1 DEF Effect
  <2> HIDE DEF event
  <2>3. GroupLine(g, event(planned, {}))
    BY <1>2, <1>3, <1>4, <2>1, <2>2 DEF GroupLine
  <2> QED BY <2>3
<1>7. CASE Acting /\ planned # {} /\ opt.apply
  <2>1. PICK done \in SUBSET {f \in planned : CanSucceed(f, kept)} :
           /\ Act(done, [f \in done |-> kept]) /\ PrintGroup(g, planned, done)
           /\ Count(BytesOf(done), Cardinality(done)) /\ RecordOutcomes(planned, done)
    BY <1>1, <1>7 DEF planned, kept
  <2>2. Moves(done)
    <3> DEFINE to == [f \in done |-> kept]
    <3>1. \A f \in done : to[f] \in File /\ CanSucceed(f, to[f])
      BY <1>2, <2>1
    <3> HIDE DEF to
    <3> QED BY <1>2, <2>1, <3>1, ActMoves DEF to
  <2>3. Effect(planned, done)
    BY <1>2, <1>7, <2>1, <2>2 DEF Effect
  <2> HIDE DEF event
  <2>4. GroupLine(g, event(planned, done))
    BY <1>2, <1>3, <1>4, <2>1, <2>3 DEF GroupLine
  <2> QED BY <2>4
<1> QED BY <1>5, <1>6, <1>7

\* The outcome of a pair says how many files were dealt with.
PairLine(planned, done, o) ==
    /\ Effect(planned, done) /\ outcomes' = Append(outcomes, o) /\ o \in Outcome
    /\ o.file_count = Cardinality(planned)
    /\ o.failed = IF opt.apply THEN Cardinality(planned \ done) ELSE 0

LEMMA PairSteps ==
  ASSUME LinesOK, TreeOK, PassOK, HandlePair
  PROVE  \E planned, done, o : PairLine(planned, done, o)
<1> DEFINE removed == Head(pairs)[1]
           kept == Head(pairs)[2]
           planned == {f \in FilesIn[removed] \ Reference : inode[f] # Gone}
           partner == [f \in planned |-> PartnerIn(kept, f)]
           outcome(done, pruned) ==
             [removed |-> removed, file_count |-> Cardinality(planned),
              bytes |-> PlanBytes(planned), applied |-> opt.apply,
              directory_removed |-> pruned,
              failed |-> IF opt.apply THEN Cardinality(planned \ done) ELSE 0]
<1>1. /\ Acting /\ pairs # <<>>
      /\ IF ~opt.apply
         THEN /\ outcomes' = Append(outcomes, outcome({}, FALSE))
              /\ Count(PlanBytes(planned), Cardinality(planned))
              /\ UNCHANGED <<tree, rows, had_errors>>
         ELSE \E done \in SUBSET {f \in planned : CanSucceed(f, partner[f])} :
              \E pruned \in BOOLEAN :
                 /\ pruned => /\ opt.kind \notin {"hardlink", "copy"} /\ done = planned
                              /\ FilesIn[removed] \cap Reference = {}
                 /\ Act(done, partner)
                 /\ outcomes' = Append(outcomes, outcome(done, pruned))
                 /\ Count(BytesOf(done), Cardinality(done))
                 /\ RecordOutcomes(planned, done)
                 /\ PairErrors(done # planned)
  BY DEF HandlePair
<1>2. Head(pairs) \in Folder \X Folder /\ Partnered(Head(pairs))
  BY <1>1 DEF PassOK
<1>3. removed \in Folder /\ kept \in Folder
  BY <1>2
<1>4. planned \in SUBSET File
  BY <1>3, FileFacts
<1>5. \A f \in planned : partner[f] \in File
  BY <1>2, PartnerFacts
<1>6. ASSUME NEW done \in SUBSET planned, NEW pruned \in BOOLEAN, opt.apply \in BOOLEAN
      PROVE  /\ outcome(done, pruned) \in Outcome
             /\ outcome(done, pruned).file_count = Cardinality(planned)
             /\ outcome(done, pruned).failed = IF opt.apply THEN Cardinality(planned \ done) ELSE 0
  <2> HIDE DEF planned, removed
  <2>1. planned \ done \in SUBSET File
    BY <1>4
  <2>2. Cardinality(planned \ done) \in Nat /\ Cardinality(planned) \in Nat
        /\ PlanBytes(planned) \in Nat
    BY <1>4, <2>1, SetFacts
  <2> QED BY <1>3, <1>6, <2>2 DEF Outcome
<1>7. opt.apply \in BOOLEAN
  BY DEF LinesOK, AcceptedLines, CommandLines
<1> HIDE DEF planned, kept, removed
<1>8. CASE ~opt.apply
  <2>1. outcomes' = Append(outcomes, outcome({}, FALSE)) /\ UNCHANGED <<tree, rows>>
        /\ Count(PlanBytes(planned), Cardinality(planned))
    BY <1>1, <1>8
  <2>2. Effect(planned, {})
    BY <1>1, <1>4, <1>8, <2>1 DEF Effect
  <2>3. {} \in SUBSET planned /\ FALSE \in BOOLEAN
    OBVIOUS
  <2> HIDE DEF outcome
  <2>4. PairLine(planned, {}, outcome({}, FALSE))
    BY <1>6, <1>7, <2>1, <2>2, <2>3 DEF PairLine
  <2> QED BY <2>4
<1>9. CASE opt.apply
  <2>1. PICK done \in SUBSET {f \in planned : CanSucceed(f, partner[f])}, pruned \in BOOLEAN :
           /\ Act(done, partner) /\ outcomes' = Append(outcomes, outcome(done, pruned))
           /\ Count(BytesOf(done), Cardinality(done)) /\ RecordOutcomes(planned, done)
    BY <1>1, <1>9
  <2>2. Moves(done)
    <3> HIDE DEF partner
    <3>1. \A f \in done : partner[f] \in File /\ CanSucceed(f, partner[f])
      BY <1>5, <2>1
    <3>2. done \in SUBSET File
      BY <1>4, <2>1
    <3> QED BY <2>1, <3>1, <3>2, ActMoves
  <2>3. Effect(planned, done)
    BY <1>1, <1>4, <1>9, <2>1, <2>2 DEF Effect
  <2> HIDE DEF outcome
  <2>4. PairLine(planned, done, outcome(done, pruned))
    BY <1>6, <1>7, <2>1, <2>3 DEF PairLine
  <2> QED BY <2>4
<1> QED BY <1>7, <1>8, <1>9
-----------------------------------------------------------------------------
(* The kinds of steps, by what they print and count.                         *)

error == [type |-> "error"]
Quiet == /\ Idle /\ UNCHANGED <<session, outcomes>>
         /\ out' = out \/ out' = Append(out, error)
ShowGroup(g, e) == /\ g \in SUBSET File /\ GroupLine(g, e)
                   /\ UNCHANGED <<session, outcomes, pc>> /\ pc \in {"scanning", "leftover"}

LEMMA StepKinds ==
  ASSUME StateOK, [Next]_vars
  PROVE  Invoke \/ Quiet \/ (\E g, e : ShowGroup(g, e)) \/ HandlePair \/ EndMatch \/ Summarize
<1> DEFINE Good == Quiet \/ (\E g, e : ShowGroup(g, e)) \/ HandlePair \/ EndMatch \/ Summarize
<1>1. ASSUME NEW g \in incoming, ReceiveGroup(g) PROVE Good
  <2>1. g \in SUBSET File
    BY DuplicateFacts DEF StateOK, GroupsOK
  <2>2. CASE HandleGroup(g)
    <3>1. PICK e : GroupLine(g, e)
      BY <2>1, <2>2, GroupSteps DEF StateOK
    <3>2. UNCHANGED <<session, outcomes, pc>> /\ pc = "scanning"
      BY <1>1 DEF ReceiveGroup, pass
    <3> QED BY <2>1, <3>1, <3>2 DEF ShowGroup
  <2>3. CASE opt.find_folders
    BY <1>1, <2>3 DEF ReceiveGroup, pass, report, Quiet, Idle
  <2> QED BY <1>1, <2>2, <2>3 DEF ReceiveGroup
<1>2. ASSUME HandleLeftover PROVE Good
  <2>1. UNCHANGED <<session, outcomes>> /\ pc = "leftover"
    BY <1>2 DEF HandleLeftover, pass
  <2>2. CASE UNCHANGED <<tree, report>>
    BY <2>1, <2>2 DEF report, Quiet, Idle
  <2>3. CASE collected # <<>> /\ HandleGroup(Head(collected)) /\ UNCHANGED pc
    <3>1. Head(collected) \in SUBSET File
      BY <2>3, DuplicateFacts DEF StateOK, GroupsOK
    <3>2. PICK e : GroupLine(Head(collected), e)
      BY <2>3, <3>1, GroupSteps DEF StateOK
    <3> QED BY <2>1, <2>3, <3>1, <3>2 DEF ShowGroup
  <2> QED BY <1>2, <2>2, <2>3 DEF HandleLeftover
<1>3. ReceiveError \/ FindFails \/ RefusePair => Quiet
  BY DEF ReceiveError, ReportError, FindFails, RefusePair, pass, report, Quiet, Idle, error
<1>4. Start \/ ReceiveFinished \/ FindFolders \/ EndMatches \/ EndRun \/ Kill \/ UNCHANGED vars => Quiet
  BY DEF Start, ReceiveFinished, FindFolders, EndMatches, EndRun, Kill, vars, pass, report, Quiet, Idle
<1>5. ASSUME NEW ok \in BOOLEAN,
             Confirm(ok) \/ OpenRoot(ok) \/ Similar(ok) \/ Record(ok) \/ WritePlan(ok)
      PROVE  Quiet
  BY <1>5 DEF Confirm, OpenRoot, Similar, Record, WritePlan, pass, report, Quiet, Idle, error
<1>6. Quiet \/ HandlePair \/ EndMatch \/ Summarize => Good
  OBVIOUS
<1> HIDE DEF Good
<1>7. Invoke \/ Good
  BY <1>1, <1>2, <1>3, <1>4, <1>5, <1>6 DEF Next, Program
<1> QED BY <1>7 DEF Good

\* The rows that are written down for an action.
NewRows(planned, done) ==
    [i \in 1..Cardinality(planned) |->
       LET f == InOrder(planned)[i]
       IN  [path |-> f, bytes |-> SizeOf(f), succeeded |-> f \in done]]

LEMMA NewRowsTyped ==
  ASSUME NEW planned \in SUBSET File, NEW done
  PROVE  /\ NewRows(planned, done) \in Seq(ActionRow)
         /\ Len(NewRows(planned, done)) = Cardinality(planned)
<1> DEFINE n == Cardinality(planned)
           r(f) == [path |-> f, bytes |-> SizeOf(f), succeeded |-> f \in done]
<1>1. n \in Nat
  BY SetFacts
<1>2. InOrder(planned) \in [1..n -> planned]
  BY FileFacts, SetFacts, OrderFacts
<1>3. \A f \in File : r(f) \in ActionRow
  BY FileFacts DEF ActionRow
<1>4. NewRows(planned, done) = [i \in 1..n |-> r(InOrder(planned)[i])]
  BY DEF NewRows
<1> HIDE DEF n, r
<1>5. NewRows(planned, done) \in [1..n -> ActionRow]
  BY <1>2, <1>3, <1>4
<1>6. \A s : s \in [1..n -> ActionRow] => s \in Seq(ActionRow) /\ Len(s) = n
  BY <1>1
<1> QED BY <1>5, <1>6 DEF n

LEMMA EffectReport ==
  ASSUME TreeOK, total \in [bytes : Nat, files : Nat], rows \in Seq(ActionRow),
         NEW planned, NEW done, Effect(planned, done)
  PROVE  TreeOK' /\ total' \in [bytes : Nat, files : Nat] /\ rows' \in Seq(ActionRow)
<1>1. planned \in SUBSET File /\ done \in SUBSET File
  BY DEF Effect
<1>2. \A S \in SUBSET File : Cardinality(S) \in Nat /\ PlanBytes(S) \in Nat /\ BytesOf(S) \in Nat
  BY SetFacts
<1>3. total' \in [bytes : Nat, files : Nat]
  BY <1>1, <1>2 DEF Effect, Count
<1>4. rows' \in Seq(ActionRow)
  <2>1. CASE opt.apply /\ opt.history
    <3>1. rows' = rows \o NewRows(planned, done)
      BY <2>1 DEF Effect, RecordOutcomes, NewRows
    <3>2. NewRows(planned, done) \in Seq(ActionRow)
      BY <1>1, NewRowsTyped
    <3> QED BY <3>1, <3>2, ConcatProperties
  <2>2. CASE ~(opt.apply /\ opt.history)
    BY <2>2 DEF Effect, RecordOutcomes
  <2> QED BY <2>1, <2>2
<1>5. TreeOK'
  BY <1>1 DEF Effect, Moves, TreeOK, tree, Tree
<1> QED BY <1>3, <1>4, <1>5

LEMMA AppendSeq ==
  ASSUME NEW S, NEW s \in Seq(S), NEW e \in S
  PROVE  /\ Append(s, e) \in Seq(S) /\ Len(Append(s, e)) = Len(s) + 1
         /\ DOMAIN Append(s, e) = DOMAIN s \cup {Len(s) + 1} /\ Len(s) + 1 \notin DOMAIN s
         /\ Append(s, e)[Len(s) + 1] = e
         /\ \A i \in DOMAIN s : Append(s, e)[i] = s[i]
OBVIOUS

LEMMA SeqParts ==
  ASSUME NEW S, NEW s \in Seq(S)
  PROVE  /\ \A i \in DOMAIN s : s[i] \in S
         /\ s # <<>> => /\ Head(s) \in S /\ Tail(s) \in Seq(S) /\ 1 \in DOMAIN s
                        /\ Len(s) # 1 => 2 \in DOMAIN s /\ s[2] \in S
         /\ <<>> \in Seq(S)
<1>1. \A i \in DOMAIN s : s[i] \in S
  OBVIOUS
<1>2. s # <<>> => 1 \in DOMAIN s
  OBVIOUS
<1>3. s # <<>> => Head(s) \in S /\ Tail(s) \in Seq(S)
  OBVIOUS
<1>4. s # <<>> /\ Len(s) # 1 => 2 \in DOMAIN s
  <2>1. Len(s) \in Nat /\ DOMAIN s = 1..Len(s)
    OBVIOUS
  <2> QED BY <1>2, <2>1
<1> QED BY <1>1, <1>2, <1>3, <1>4

LEMMA ErrorTyped == error \in Event
BY DEF error, Event, ErrorEvent

LEMMA ReportStep ==
  ASSUME LinesOK, StateOK, [Next]_vars
  PROVE  TreeOK' /\ ReportOK' /\ (outcomes' \in Seq(Outcome))
<1>0. /\ TreeOK /\ total \in [bytes : Nat, files : Nat] /\ rows \in Seq(ActionRow)
      /\ out \in Seq(Event) /\ outcomes \in Seq(Outcome) /\ PassOK
  BY DEF StateOK, ReportOK, PassOK
<1>1. CASE Invoke
  BY <1>0, <1>1 DEF Invoke, TreeOK, ReportOK, tree
<1>2. CASE Quiet
  <2>1. out' \in Seq(Event)
    <3>1. Append(out, error) \in Seq(Event)
      BY <1>0, ErrorTyped, AppendSeq
    <3> QED BY <1>0, <1>2, <3>1 DEF Quiet
  <2> QED BY <1>0, <1>2, <2>1 DEF Quiet, Idle, TreeOK, ReportOK, tree
<1>3. ASSUME NEW g, NEW e, ShowGroup(g, e) PROVE TreeOK' /\ ReportOK' /\ outcomes' \in Seq(Outcome)
  <2>1. GroupLine(g, e) /\ outcomes' = outcomes
    BY <1>3 DEF ShowGroup
  <2>2. out' = Append(out, e) /\ e \in Event
    BY <2>1 DEF GroupLine, Event
  <2>3. out' \in Seq(Event)
    BY <1>0, <2>2, AppendSeq
  <2>4. CASE Idle
    BY <1>0, <2>1, <2>3, <2>4 DEF Idle, TreeOK, ReportOK, tree
  <2>5. CASE Effect(e.planned, e.succeeded)
    BY <1>0, <2>1, <2>3, <2>5, EffectReport DEF ReportOK
  <2> QED BY <2>1, <2>4, <2>5 DEF GroupLine
<1>4. CASE HandlePair
  <2>1. PICK planned, done, o : PairLine(planned, done, o)
    BY <1>0, <1>4, PairSteps
  <2>2. outcomes' \in Seq(Outcome)
    BY <1>0, <2>1, AppendSeq DEF PairLine
  <2>3. TreeOK' /\ total' \in [bytes : Nat, files : Nat] /\ rows' \in Seq(ActionRow)
    BY <1>0, <2>1, EffectReport DEF PairLine
  <2>4. out' = out
    BY <1>4 DEF HandlePair
  <2> QED BY <1>0, <2>2, <2>3, <2>4 DEF ReportOK
<1>5. CASE EndMatch
  <2> DEFINE e == [type |-> "folder", roots |-> Head(matches).roots, action |-> outcomes]
  <2>1. matches # <<>> /\ out' = Append(out, e) /\ outcomes' = <<>> /\ Idle
    BY <1>5 DEF EndMatch, PrintFolderMatch, Idle
  <2>2. Head(matches) \in Match
    BY <1>0, <2>1 DEF PassOK
  <2>3. e \in Event
    BY <1>0, <2>2 DEF Event, FolderEvent, Match
  <2>4. out' \in Seq(Event)
    <3> HIDE DEF e
    <3> QED BY <1>0, <2>1, <2>3, AppendSeq
  <2> QED BY <1>0, <2>1, <2>4 DEF Idle, TreeOK, ReportOK, tree
<1>6. CASE Summarize
  <2> DEFINE e == [type |-> "summary", total |-> total]
  <2>1. (out' = out \/ out' = Append(out, e)) /\ outcomes' = outcomes /\ Idle
    BY <1>6 DEF Summarize, Idle, pass
  <2>2. e \in Event
    BY <1>0 DEF Event, SummaryEvent
  <2>3. out' \in Seq(Event)
    <3> HIDE DEF e
    <3>1. Append(out, e) \in Seq(Event)
      BY <1>0, <2>2, AppendSeq
    <3> QED BY <1>0, <2>1, <3>1
  <2> QED BY <1>0, <2>1, <2>3 DEF Idle, TreeOK, ReportOK, tree
<1> QED BY <1>1, <1>2, <1>3, <1>4, <1>5, <1>6, StepKinds

LEMMA PassStep ==
  ASSUME LinesOK, StateOK, [Next]_vars PROVE PassOK'
<1> DEFINE P == {p \in Folder \X Folder : Partnered(p)}
           Good == /\ matches' \in Seq(Match) /\ covered' \subseteq Folder
                   /\ pairs' \in Seq(P)
<1>0. Good => PassOK'
  BY ReportStep DEF PassOK, Partnered, Match
<1>1. matches \in Seq(Match) /\ covered \subseteq Folder /\ pairs \in Seq(P)
  BY DEF StateOK, PassOK
<1>2. UNCHANGED <<matches, covered, pairs>> => Good
  BY <1>1
<1>3. CASE Invoke
  <2>1. matches' = <<>> /\ covered' = {} /\ pairs' = <<>>
    BY <1>3 DEF Invoke
  <2> HIDE DEF P
  <2> QED BY <1>0, <2>1, SeqParts
<1>4. CASE HandlePair \/ RefusePair
  <2>1. UNCHANGED <<matches, covered>> /\ pairs # <<>> /\ pairs' = Tail(pairs)
    BY <1>4 DEF HandlePair, RefusePair
  <2> HIDE DEF P
  <2>2. Tail(pairs) \in Seq(P)
    BY <1>1, <2>1, SeqParts
  <2> QED BY <1>0, <1>1, <2>1, <2>2
<1>5. CASE EndMatch
  <2>1. matches # <<>> /\ matches' = Tail(matches) /\ covered' = covered
        /\ pairs' = IF Len(matches) = 1 THEN <<>> ELSE matches[2].pairs
    BY <1>5 DEF EndMatch
  <2>2. Tail(matches) \in Seq(Match) /\ (Len(matches) # 1 => matches[2] \in Match)
    BY <1>1, <2>1, SeqParts
  <2>3. Len(matches) # 1 => matches[2].pairs \in Seq(P)
    BY <2>2 DEF Match
  <2> HIDE DEF P
  <2>4. <<>> \in Seq(P)
    BY SeqParts
  <2> QED BY <1>0, <1>1, <2>1, <2>2, <2>3, <2>4
<1>6. CASE FindFolders
  <2>1. PICK found \in Matches :
          /\ matches' = found /\ covered' = UNION {m.roots : m \in Range(found)}
          /\ pairs' = IF found = <<>> THEN <<>> ELSE found[1].pairs
    BY <1>6 DEF FindFolders
  <2>2. found \in Seq(Match)
    BY MatchesAssumption
  <2>5. covered' \subseteq Folder
    <3>1. \A i \in DOMAIN found : found[i] \in Match
      BY <2>2, SeqParts
    <3>2. \A i \in DOMAIN found : found[i].roots \subseteq Folder
      BY <3>1 DEF Match
    <3> QED BY <2>1, <3>2 DEF Range
  <2>6. pairs' \in Seq(P)
    <3>1. CASE found = <<>>
      <4> HIDE DEF P
      <4> QED BY <2>1, <3>1
    <3>2. CASE found # <<>>
      <4>1. 1 \in DOMAIN found
        BY <2>2, <3>2
      <4>2. found[1].pairs \in Seq(P)
        <5>1. found[1] \in Match
          BY <2>2, <4>1, SeqParts
        <5> QED BY <5>1 DEF Match
      <4> QED BY <2>1, <3>2, <4>2
    <3> QED BY <3>1, <3>2
  <2> QED BY <1>0, <2>1, <2>2, <2>5, <2>6
<1>7. ASSUME NEW g \in incoming, ReceiveGroup(g) PROVE UNCHANGED <<matches, covered, pairs>>
  BY <1>7 DEF ReceiveGroup, pass
<1>8. ReceiveError \/ ReceiveFinished \/ FindFails \/ EndMatches \/ HandleLeftover \/ Summarize
        => UNCHANGED <<matches, covered, pairs>>
  BY DEF ReceiveError, ReceiveFinished, FindFails, EndMatches, HandleLeftover, Summarize, pass
<1>9. Start \/ EndRun \/ Kill \/ UNCHANGED vars => UNCHANGED <<matches, covered, pairs>>
  BY DEF Start, EndRun, Kill, vars, pass
<1>10. ASSUME NEW ok \in BOOLEAN,
              Confirm(ok) \/ OpenRoot(ok) \/ Similar(ok) \/ Record(ok) \/ WritePlan(ok)
       PROVE  UNCHANGED <<matches, covered, pairs>>
  BY <1>10 DEF Confirm, OpenRoot, Similar, Record, WritePlan, pass
<1> HIDE DEF Good
<1>11. CASE UNCHANGED <<matches, covered, pairs>>
  BY <1>0, <1>2, <1>11
<1> QED BY <1>0, <1>3, <1>4, <1>5, <1>6, <1>7, <1>8, <1>9, <1>10, <1>11 DEF Next, Program

\* A run keeps its command line, its number and what it has found.
LEMMA SessionSteps == ASSUME [Next]_vars PROVE Invoke \/ UNCHANGED session
<1>1. Program \/ Kill \/ UNCHANGED vars => UNCHANGED session
  BY DEF Program, Start, ReceiveError, ReceiveFinished, ReceiveGroup, FindFolders, FindFails,
     HandlePair, RefusePair, EndMatch, EndMatches, HandleLeftover, Summarize, EndRun, Confirm,
     OpenRoot, Similar, Record, WritePlan, Kill, vars
<1> QED BY <1>1 DEF Next

LEMMA BeforeStep ==
  ASSUME StateOK, history \in Seq(ScanRow), [Next]_vars PROVE BeforeOK'
<1>1. CASE Invoke
  <2>1. before' = [inode |-> inode, archived |-> archived, recorded |-> Len(history)]
    BY <1>1 DEF Invoke
  <2>2. Len(history) \in Nat /\ inode \in Tree /\ archived \in SUBSET File
    BY DEF StateOK, TreeOK
  <2> QED BY <2>1, <2>2 DEF BeforeOK, Tree
<1>2. CASE UNCHANGED session
  BY <1>2 DEF StateOK, BeforeOK, session, Tree
<1> QED BY <1>1, <1>2, SessionSteps

LEMMA PlaceStep ==
  ASSUME LinesOK, FlawsOK, StateOK, [Next]_vars PROVE PlaceOK'
<1> DEFINE Pcs == {"ready", "asking", "opening", "scanning", "finding", "matching",
                   "leftover", "similar", "summary", "recording", "writing", "exiting", "ended"}
           Exits == {"none", "SUCCESS", "FAILURE"}
           Good == pc' \in Pcs /\ exit' \in Exits
<1>0. PlaceOK
  BY DEF StateOK
<1>1. CASE Invoke
  <2>1. begun' = begun + 1 /\ now' \in {now, now + 1} /\ pc' = "ready" /\ consent' = FALSE
        /\ had_errors' = FALSE /\ exit' = "none"
    BY <1>1 DEF Invoke
  <2>2. begun' \in Nat /\ now' \in Nat /\ 1 <= now' /\ now' <= begun'
    BY <1>0, <2>1 DEF PlaceOK
  <2>3. consent' \in BOOLEAN /\ had_errors' \in BOOLEAN
    BY Zenon, <2>1
  <2> QED BY <2>1, <2>2, <2>3 DEF PlaceOK
<1>2. ASSUME NEW g \in incoming, ReceiveGroup(g) PROVE Good
  BY <1>0, <1>2 DEF ReceiveGroup, PlaceOK
<1>3. ReceiveError \/ ReceiveFinished \/ FindFolders \/ FindFails => Good
  BY <1>0 DEF ReceiveError, ReceiveFinished, FindFolders, FindFails, PlaceOK
<1>4. HandlePair \/ RefusePair \/ EndMatch \/ EndMatches => Good
  BY <1>0 DEF HandlePair, RefusePair, EndMatch, EndMatches, PlaceOK
<1>5. HandleLeftover \/ Summarize \/ EndRun \/ Kill \/ UNCHANGED vars => Good
  BY <1>0 DEF HandleLeftover, Summarize, EndRun, Kill, vars, PlaceOK, Exit
<1>6. ASSUME NEW ok \in BOOLEAN,
             Confirm(ok) \/ OpenRoot(ok) \/ Similar(ok) \/ Record(ok) \/ WritePlan(ok)
      PROVE  Good
  BY <1>0, <1>6 DEF Confirm, OpenRoot, Similar, Record, WritePlan, PlaceOK, Exit
<1>7. Start => Good
  BY <1>0 DEF Start, Exit, PlaceOK
<1> HIDE DEF Good
<1>8. Invoke \/ Good
  BY <1>2, <1>3, <1>4, <1>5, <1>6, <1>7 DEF Next, Program
<1>9. ASSUME ~Invoke PROVE had_errors' \in BOOLEAN /\ consent' \in BOOLEAN /\ UNCHANGED session
  <2>1. had_errors' \in BOOLEAN
    BY <1>9, OutSteps
  <2>2. consent' \in BOOLEAN
    <3>1. (\E ok \in BOOLEAN : Confirm(ok)) => consent' \in BOOLEAN
      BY DEF Confirm
    <3>2. Start \/ Kill \/ UNCHANGED vars => consent' = consent
      BY DEF Start, Kill, vars
    <3> QED BY <1>0, <1>9, <3>1, <3>2, RunSteps DEF PlaceOK
  <2> QED BY <1>9, <2>1, <2>2, SessionSteps
<1>10. CASE ~Invoke
  BY <1>0, <1>8, <1>9, <1>10 DEF PlaceOK, Good, session
<1> QED BY <1>1, <1>10

LEMMA GroupsStep ==
  ASSUME StateOK, [Next]_vars PROVE GroupsOK'
<1> DEFINE D == Duplicates(before)
           Good == /\ incoming' \subseteq D /\ collected' \in Seq(D)
                   /\ plan' \subseteq SUBSET File /\ plan_file' \subseteq SUBSET File
<1>0. /\ incoming \subseteq D /\ collected \in Seq(D)
      /\ plan \subseteq SUBSET File /\ plan_file \subseteq SUBSET File
  BY DEF StateOK, GroupsOK
<1>1. CASE Invoke
  <2>1. incoming' = Duplicates(before') /\ collected' = <<>> /\ plan' = {} /\ plan_file' = plan_file
    BY <1>1 DEF Invoke, written
  <2> QED BY <1>0, <2>1, SeqParts DEF GroupsOK
<1>2. UNCHANGED <<incoming, collected, plan, plan_file>> => Good
  BY <1>0
<1>3. ASSUME NEW g \in SUBSET File, HandleGroup(g) PROVE plan' \subseteq SUBSET File
  BY <1>0, <1>3 DEF HandleGroup, Stamp
<1>4. ASSUME NEW g \in incoming, ReceiveGroup(g) PROVE Good
  <2>1. g \in D /\ g \in SUBSET File
    BY <1>0, DuplicateFacts
  <2>2. incoming' = incoming \ {g} /\ plan_file' = plan_file
    BY <1>4 DEF ReceiveGroup, written
  <2>3. CASE opt.find_folders
    <3>1. collected' = Append(collected, g) /\ plan' = plan
      BY <1>4, <2>3 DEF ReceiveGroup
    <3>2. Append(collected, g) \in Seq(D)
      <4> HIDE DEF D
      <4> QED BY <1>0, <2>1, AppendSeq
    <3> QED BY <1>0, <2>2, <3>1, <3>2
  <2>4. CASE ~opt.find_folders
    <3>1. collected' = collected /\ HandleGroup(g)
      BY <1>4, <2>4 DEF ReceiveGroup
    <3> QED BY <1>0, <1>3, <2>1, <2>2, <3>1
  <2> QED BY <2>3, <2>4
<1>5. ASSUME HandleLeftover PROVE Good
  <2>1. incoming' = incoming /\ plan_file' = plan_file
    BY <1>5 DEF HandleLeftover, written
  <2>2. CASE collected = <<>>
    BY <1>0, <1>5, <2>1, <2>2 DEF HandleLeftover
  <2>3. CASE collected # <<>>
    <3>1. collected' = Tail(collected) /\ (plan' = plan \/ HandleGroup(Head(collected)))
      BY <1>5, <2>3 DEF HandleLeftover
    <3>2. Tail(collected) \in Seq(D) /\ Head(collected) \in D
      <4> HIDE DEF D
      <4> QED BY <1>0, <2>3, SeqParts
    <3>3. Head(collected) \in SUBSET File
      BY <3>2, DuplicateFacts
    <3> QED BY <1>0, <1>3, <2>1, <3>1, <3>2, <3>3
  <2> QED BY <2>2, <2>3
<1>6. ASSUME NEW ok \in BOOLEAN, WritePlan(ok) PROVE Good
  <2>1. UNCHANGED <<incoming, collected, plan>> /\ plan_file' \in {plan_file, {}, plan}
    BY <1>6 DEF WritePlan
  <2> QED BY <1>0, <2>1
<1>7. ReceiveError \/ ReceiveFinished \/ FindFolders \/ FindFails \/ HandlePair \/ RefusePair
        => UNCHANGED <<incoming, collected, plan, plan_file>>
  BY DEF ReceiveError, ReceiveFinished, FindFolders, FindFails, HandlePair, RefusePair, written
<1>8. EndMatch \/ EndMatches \/ Summarize \/ Start \/ EndRun \/ Kill \/ UNCHANGED vars
        => UNCHANGED <<incoming, collected, plan, plan_file>>
  BY DEF EndMatch, EndMatches, Summarize, Start, EndRun, Kill, vars, written
<1>9. ASSUME NEW ok \in BOOLEAN, Confirm(ok) \/ OpenRoot(ok) \/ Similar(ok) \/ Record(ok)
      PROVE  UNCHANGED <<incoming, collected, plan, plan_file>>
  BY <1>9 DEF Confirm, OpenRoot, Similar, Record, written
<1> HIDE DEF Good
<1>10. Invoke \/ Good
  BY <1>2, <1>4, <1>5, <1>6, <1>7, <1>8, <1>9 DEF Next, Program
<1>11. ASSUME ~Invoke PROVE before' = before
  BY <1>11, SessionSteps DEF session
<1>12. CASE ~Invoke
  BY <1>10, <1>11, <1>12 DEF GroupsOK, Good
<1> QED BY <1>1, <1>12

LEMMA StateStep ==
  ASSUME LinesOK, FlawsOK, StateOK, history \in Seq(ScanRow), [Next]_vars PROVE StateOK'
BY PlaceStep, ReportStep, BeforeStep, GroupsStep, PassStep DEF StateOK

LEMMA StateInit == Init => StateOK
<1> SUFFICES ASSUME Init PROVE StateOK
  OBVIOUS
<1>1. PlaceOK
  <2>1. /\ pc = "ready" /\ exit = "none" /\ consent = FALSE /\ had_errors = FALSE
        /\ begun = 1 /\ now = 1
    BY DEF Init
  <2>2. consent \in BOOLEAN /\ had_errors \in BOOLEAN
    BY Zenon, <2>1
  <2> QED BY <2>1, <2>2 DEF PlaceOK
<1>2. TreeOK
  BY DEF Init, TreeOK, Tree
<1>3. BeforeOK
  BY <1>2 DEF Init, BeforeOK, TreeOK
<1>4. GroupsOK
  BY SeqParts DEF Init, GroupsOK
<1>5. PassOK
  BY SeqParts DEF Init, PassOK
<1>6. ReportOK
  BY SeqParts DEF Init, ReportOK
<1> QED BY <1>1, <1>2, <1>3, <1>4, <1>5, <1>6 DEF StateOK
-----------------------------------------------------------------------------
(* What a run has done, and what is written down of it.                      *)

LEMMA WorkSteps ==
  ASSUME LinesOK, StateOK, [Next]_vars
  PROVE  \/ Invoke
         \/ UNCHANGED session /\ (Idle \/ \E planned, done : Effect(planned, done))
<1>1. Quiet => UNCHANGED session /\ Idle
  BY DEF Quiet
<1>2. ASSUME NEW g, NEW e, ShowGroup(g, e)
      PROVE  UNCHANGED session /\ (Idle \/ \E planned, done : Effect(planned, done))
  BY <1>2 DEF ShowGroup, GroupLine
<1>3. HandlePair => \E planned, done : Effect(planned, done)
  <2> SUFFICES ASSUME HandlePair PROVE \E planned, done : Effect(planned, done)
    OBVIOUS
  <2>1. PICK planned, done, o : PairLine(planned, done, o)
    BY PairSteps DEF StateOK
  <2> QED BY <2>1 DEF PairLine
<1>4. EndMatch \/ Summarize => Idle
  BY DEF EndMatch, Summarize, Idle
<1> QED BY <1>1, <1>2, <1>3, <1>4, StepKinds, SessionSteps DEF Invoke

\* An action adds its files to those touched; without hardlinks they are new ones.
LEMMA TouchedGrows ==
  ASSUME StateOK, DoneOK, NEW planned, NEW done, Effect(planned, done), UNCHANGED session
  PROVE  /\ opt.apply => Touched' \subseteq Touched \cup done
         /\ opt.apply /\ opt.kind # "hardlink" =>
               Touched' = Touched \cup done /\ Touched \cap done = {}
         /\ ~opt.apply => Touched' = Touched
<1>0. /\ before' = before /\ opt' = opt /\ done \in SUBSET File
      /\ opt.apply => Moves(done)
      /\ ~opt.apply => UNCHANGED tree
  BY DEF session, Effect
<1>1. ~opt.apply => Touched' = Touched
  BY <1>0 DEF Touched, tree
<1>2. CASE opt.apply /\ opt.kind = "copy"
  <2>1. inode = before.inode /\ before.archived \subseteq archived
    BY <1>2 DEF DoneOK
  <2>2. \A f \in File : inode'[f] = inode[f]
    BY <1>0, <1>2 DEF Moves
  <2>3. archived' = archived \cup done /\ done \cap archived = {}
    BY <1>0, <1>2 DEF Moves
  <2>4. Touched = archived \ before.archived /\ Touched' = archived' \ before.archived
    BY <1>0, <2>1, <2>2 DEF Touched
  <2> QED BY <1>2, <2>1, <2>3, <2>4
<1>3. CASE opt.apply /\ opt.kind \notin {"copy", "hardlink"}
  <2>1. archived = before.archived /\ archived' = archived
    BY <1>0, <1>3 DEF DoneOK, Moves
  <2>2. \A f \in File : inode[f] \in {before.inode[f], Gone}
    BY <1>3 DEF DoneOK
  <2>3. /\ \A f \in File : f \notin done => inode'[f] = inode[f]
        /\ \A f \in done : inode[f] # Gone /\ inode'[f] = Gone
    BY <1>0, <1>3 DEF Moves
  <2>4. /\ Touched = {f \in File : inode[f] # before.inode[f]}
        /\ Touched' = {f \in File : inode'[f] # before.inode[f]}
    BY <1>0, <2>1 DEF Touched
  <2> QED BY <1>0, <1>3, <2>2, <2>3, <2>4
<1>4. CASE opt.apply /\ opt.kind = "hardlink"
  BY <1>0, <1>4 DEF DoneOK, Moves, Touched
<1> QED BY <1>1, <1>2, <1>3, <1>4

LEMMA TouchedFiles == ASSUME StateOK PROVE Touched \in SUBSET File
BY DEF StateOK, TreeOK, Touched

LEMMA DoneEffect ==
  ASSUME LinesOK, StateOK, DoneOK, NEW planned, NEW done, Effect(planned, done), UNCHANGED session
  PROVE  DoneOK'
<1>0. /\ before' = before /\ opt' = opt /\ done \in SUBSET File /\ Acting /\ Acting' = Acting
      /\ opt.apply => Moves(done) /\ Count(BytesOf(done), Cardinality(done))
      /\ ~opt.apply => UNCHANGED tree
  BY DEF session, Effect, Acting
<1>1. (~(Acting /\ opt.apply) => TreeAsBefore)'
  BY <1>0 DEF DoneOK, TreeAsBefore, tree
<1>2. opt.kind # "hardlink" => \A f \in File : inode'[f] \in {before.inode[f], Gone}
  BY <1>0 DEF DoneOK, Moves, tree
<1>3. opt.kind # "copy" => archived' = before.archived
  BY <1>0 DEF DoneOK, Moves, tree
<1>4. opt.kind = "copy" => inode' = before.inode /\ before.archived \subseteq archived'
  <2>1. CASE opt.apply /\ opt.kind = "copy"
    <3>1. inode = before.inode /\ before.archived \subseteq archived
      BY <2>1 DEF DoneOK
    <3>2. inode' \in Tree /\ inode \in Tree /\ \A f \in File : inode'[f] = inode[f]
      BY <1>0, <2>1 DEF Moves, StateOK, TreeOK
    <3>3. inode' = inode
      BY <3>2 DEF Tree
    <3> QED BY <1>0, <2>1, <3>1, <3>3 DEF Moves
  <2>2. CASE ~opt.apply
    BY <1>0, <2>2 DEF DoneOK, tree
  <2> QED BY <2>1, <2>2
<1>5. opt.apply /\ opt.kind # "hardlink" =>
        /\ total'.files = Cardinality(Touched')
        /\ total'.bytes = IF opt.kind = "copy" THEN 0 ELSE PlanBytes(Touched')
  <2> SUFFICES ASSUME opt.apply, opt.kind # "hardlink"
               PROVE  /\ total'.files = Cardinality(Touched')
                      /\ total'.bytes = IF opt.kind = "copy" THEN 0 ELSE PlanBytes(Touched')
    OBVIOUS
  <2>1. Touched' = Touched \cup done /\ Touched \cap done = {} /\ Touched \in SUBSET File
    BY TouchedGrows, TouchedFiles
  <2>2. /\ PlanBytes(Touched') = PlanBytes(Touched) + PlanBytes(done)
        /\ Cardinality(Touched') = Cardinality(Touched) + Cardinality(done)
    BY <1>0, <2>1, PlanBytesUnion
  <2>3. /\ total.files = Cardinality(Touched)
        /\ total.bytes = IF opt.kind = "copy" THEN 0 ELSE PlanBytes(Touched)
    BY DEF DoneOK
  <2>4. total' = [bytes |-> total.bytes + BytesOf(done), files |-> total.files + Cardinality(done)]
    BY <1>0 DEF Count
  <2>5. BytesOf(done) = IF opt.kind = "copy" THEN 0 ELSE PlanBytes(done)
    BY DEF BytesOf, PlanBytes
  <2> QED BY <2>2, <2>3, <2>4, <2>5
<1> QED BY <1>0, <1>1, <1>2, <1>3, <1>4, <1>5 DEF DoneOK

LEMMA DoneStep ==
  ASSUME LinesOK, StateOK, DoneOK, [Next]_vars PROVE DoneOK'
<1>1. CASE Invoke
  <2>1. /\ UNCHANGED <<inode, archived>> /\ total' = [bytes |-> 0, files |-> 0]
        /\ before' = [inode |-> inode, archived |-> archived, recorded |-> Len(history)]
    BY <1>1 DEF Invoke, tree
  <2>2. Touched' = {}
    BY <2>1 DEF Touched
  <2> QED BY <2>1, <2>2, EmptyFacts DEF DoneOK, TreeAsBefore
<1>2. CASE UNCHANGED session /\ Idle
  <2>1. UNCHANGED <<inode, archived, total, before, opt>>
    BY <1>2 DEF session, Idle, tree
  <2>2. Touched' = Touched /\ Acting' = Acting /\ (PlanBytes(Touched))' = PlanBytes(Touched)
    BY <2>1 DEF Touched, Acting, PlanBytes, SizeOf
  <2> QED BY <2>1, <2>2 DEF DoneOK, TreeAsBefore
<1>3. CASE UNCHANGED session /\ \E planned, done : Effect(planned, done)
  BY <1>3, DoneEffect
<1> QED BY <1>1, <1>2, <1>3, WorkSteps
-----------------------------------------------------------------------------
\* The rows of an action name its files, those in done as succeeded.
LEMMA RowsGrow ==
  ASSUME NEW r \in Seq(ActionRow), NEW planned \in SUBSET File, NEW done \in SUBSET planned
  PROVE  LET new == r \o NewRows(planned, done)
         IN  /\ PathsOf(new) = PathsOf(r) \cup done
             /\ Cardinality(Succeeded(new)) = Cardinality(Succeeded(r)) + Cardinality(done)
             /\ SumOfRows(new) = SumOfRows(r) + PlanBytes(done)
<1> DEFINE new == r \o NewRows(planned, done)
           n == Cardinality(planned)
           list == InOrder(planned)
           later == {i \in Len(r) + 1 .. Len(r) + n : list[i - Len(r)] \in done}
           bytes == [i \in Succeeded(new) |-> new[i].bytes]
           size == [f \in File |-> SizeOf(f)]
           h == [i \in later |-> list[i - Len(r)]]
<1>1. /\ n \in Nat /\ IsFiniteSet(planned) /\ planned \in SUBSET Nat
      /\ IsFiniteSet(done) /\ done \in SUBSET File
  BY FileFacts, SetFacts
<1>2. list \in [1..n -> planned] /\ list \in Bijection(1..n, planned)
  BY <1>1, OrderFacts
<1>3. \A i, j \in 1..n : list[i] = list[j] => i = j
  BY <1>2 DEF Bijection, Injection, IsInjective
<1>4. \A f \in planned : \E i \in 1..n : list[i] = f
  BY <1>2 DEF Bijection, Surjection
<1>5. NewRows(planned, done) \in Seq(ActionRow) /\ Len(NewRows(planned, done)) = n
  BY NewRowsTyped
<1> HIDE DEF n, list
<1>6. \A i \in 1..n : NewRows(planned, done)[i] =
        [path |-> list[i], bytes |-> SizeOf(list[i]), succeeded |-> list[i] \in done]
  BY DEF NewRows, n, list
<1>7. /\ new \in Seq(ActionRow) /\ Len(r) \in Nat
      /\ DOMAIN new = 1..(Len(r) + n) /\ DOMAIN r = 1..Len(r)
      /\ \A i \in 1..Len(r) : new[i] = r[i]
      /\ \A i \in Len(r) + 1 .. Len(r) + n :
            new[i] = [path |-> list[i - Len(r)], bytes |-> SizeOf(list[i - Len(r)]),
                      succeeded |-> list[i - Len(r)] \in done]
  <2>1. /\ new \in Seq(ActionRow) /\ Len(new) = Len(r) + n
        /\ \A i \in 1..(Len(r) + n) :
              new[i] = IF i <= Len(r) THEN r[i] ELSE NewRows(planned, done)[i - Len(r)]
    BY <1>5, ConcatProperties
  <2>2. Len(r) \in Nat /\ DOMAIN new = 1..Len(new) /\ DOMAIN r = 1..Len(r)
    BY <2>1
  <2> HIDE DEF new
  <2>3. \A i \in Len(r) + 1 .. Len(r) + n : i - Len(r) \in 1..n /\ ~(i <= Len(r)) /\ i \in 1..(Len(r) + n)
    BY <1>1, <2>2 DEF n
  <2>4. \A i \in 1..Len(r) : i \in 1..(Len(r) + n) /\ i <= Len(r)
    BY <1>1, <2>2 DEF n
  <2> QED BY <1>6, <2>1, <2>2, <2>3, <2>4
<1> HIDE DEF new
<1> DEFINE row(i) == [path |-> list[i - Len(r)], bytes |-> SizeOf(list[i - Len(r)]),
                      succeeded |-> list[i - Len(r)] \in done]
<1>8. Succeeded(new) = Succeeded(r) \cup later /\ Succeeded(r) \cap later = {}
  <2>1. \A i : i \in 1..(Len(r) + n) <=> i \in 1..Len(r) \/ i \in Len(r) + 1 .. Len(r) + n
    BY <1>1, <1>7 DEF n
  <2>2. \A i \in 1..Len(r) : i \notin Len(r) + 1 .. Len(r) + n
    BY <1>7
  <2>3. ASSUME NEW i \in 1..Len(r)
        PROVE  i \in DOMAIN new /\ i \notin later /\ (i \in Succeeded(new) <=> i \in Succeeded(r))
    <3>1. new[i] = r[i]
      BY <1>7
    <3> QED BY <1>7, <2>1, <2>2, <3>1 DEF Succeeded
  <2>4. ASSUME NEW i \in Len(r) + 1 .. Len(r) + n
        PROVE  i \notin Succeeded(r) /\ (i \in Succeeded(new) <=> i \in later)
    <3>1. new[i].succeeded <=> list[i - Len(r)] \in done
      <4>1. new[i] = row(i)
        BY <1>7
      <4>2. row(i).succeeded <=> list[i - Len(r)] \in done
        OBVIOUS
      <4> HIDE DEF row
      <4> QED BY <4>1, <4>2
    <3>2. i \in DOMAIN new /\ i \notin DOMAIN r
      BY <1>7, <2>1, <2>2
    <3> QED BY <3>1, <3>2 DEF Succeeded
  <2>5. \A i : i \in Succeeded(new) \/ i \in Succeeded(r) \/ i \in later
               => i \in 1..Len(r) \/ i \in Len(r) + 1 .. Len(r) + n
    BY <1>7, <2>1 DEF Succeeded
  <2> HIDE DEF later
  <2> QED BY <2>3, <2>4, <2>5
<1>8b. ASSUME NEW i \in later PROVE new[i].path = h[i] /\ new[i].bytes = SizeOf(h[i])
  <2>1. i \in Len(r) + 1 .. Len(r) + n /\ h[i] = list[i - Len(r)]
    OBVIOUS
  <2>2. new[i] = row(i)
    BY <1>7, <2>1
  <2>3. row(i).path = list[i - Len(r)] /\ row(i).bytes = SizeOf(list[i - Len(r)])
    OBVIOUS
  <2> HIDE DEF h, row, later
  <2> QED BY <2>1, <2>2, <2>3
<1>9. IsFiniteSet(Succeeded(r)) /\ IsFiniteSet(later)
  <2>1. IsFiniteSet(1..Len(r)) /\ IsFiniteSet(Len(r) + 1 .. Len(r) + n)
    BY <1>1, <1>7, FS_Interval DEF n
  <2> QED BY <1>7, <2>1, FS_Subset DEF Succeeded
<1>10. h \in Bijection(later, done)
  <2>1. \A i \in later : i - Len(r) \in 1..n
    BY <1>1, <1>7 DEF n
  <2>2. h \in [later -> done]
    OBVIOUS
  <2>3. \A i, j \in later : h[i] = h[j] => i = j
    BY <1>3, <1>7, <2>1
  <2>4. ASSUME NEW f \in done PROVE \E i \in later : h[i] = f
    <3>1. PICK k \in 1..n : list[k] = f
      BY <1>4
    <3>2. Len(r) + k \in Len(r) + 1 .. Len(r) + n /\ (Len(r) + k) - Len(r) = k
      BY <1>1, <1>7 DEF n
    <3> QED BY <3>1, <3>2
  <2> HIDE DEF h, later
  <2> QED BY <2>2, <2>3, <2>4 DEF Bijection, Injection, IsInjective, Surjection
<1>11. Cardinality(later) = Cardinality(done)
  <2> HIDE DEF h, later
  <2> QED BY <1>9, <1>10, FS_Bijection DEF ExistsBijection
<1>12. PathsOf(new) = PathsOf(r) \cup done
  <2>1. {new[i].path : i \in later} = done
    <3>1. \A i \in later : new[i].path = h[i]
      BY <1>8b
    <3>2. \A f \in done : \E i \in later : h[i] = f
      <4> HIDE DEF h, later
      <4> QED BY <1>10 DEF Bijection, Surjection
    <3>3. \A i \in later : h[i] \in done
      OBVIOUS
    <3> HIDE DEF h, later
    <3> QED BY <3>1, <3>2, <3>3
  <2>2. {new[i].path : i \in Succeeded(r)} = PathsOf(r)
    BY <1>7 DEF PathsOf, Succeeded
  <2> HIDE DEF later
  <2> QED BY <1>8, <2>1, <2>2 DEF PathsOf
<1>13. Cardinality(Succeeded(new)) = Cardinality(Succeeded(r)) + Cardinality(done)
  <2> HIDE DEF later
  <2>1. Cardinality(Succeeded(r) \cup later)
          = Cardinality(Succeeded(r)) + Cardinality(later) - Cardinality(Succeeded(r) \cap later)
    BY <1>9, FS_Union
  <2>2. Cardinality(Succeeded(r) \cap later) = 0
    BY <1>8, FS_EmptySet
  <2>3. Cardinality(Succeeded(r)) \in Nat /\ Cardinality(later) \in Nat
    BY <1>9, FS_CardinalityType
  <2> QED BY <1>8, <1>11, <2>1, <2>2, <2>3
<1>14. SumOfRows(new) = SumOfRows(r) + PlanBytes(done)
  <2>1. \A i \in Succeeded(new) : bytes[i] \in Nat
    <3>1. \A i \in DOMAIN new : new[i] \in ActionRow
      BY <1>7, SeqParts
    <3> QED BY <3>1 DEF Succeeded, ActionRow
  <2>2. \A i \in later : bytes[i] = size[h[i]] /\ bytes[i] \in Nat
    <3>1. \A i \in later : i \in Succeeded(new)
      BY <1>8
    <3>2. \A i \in later : new[i].bytes = SizeOf(h[i])
      BY <1>8b
    <3>3. \A i \in later : h[i] \in File
      BY <1>1
    <3> HIDE DEF h, later
    <3> QED BY <2>1, <3>1, <3>2, <3>3
  <2>3. Sum(bytes, later) = Sum(size, done)
    <3> HIDE DEF bytes, size, h, later
    <3> QED BY <1>9, <1>10, <2>2, SumRenamed
  <2>4. Sum(bytes, Succeeded(r)) = SumOfRows(r)
    <3> DEFINE b == [i \in Succeeded(r) |-> r[i].bytes]
    <3>1. \A i \in Succeeded(r) : i \in Succeeded(new)
      BY <1>8
    <3>2. \A i \in Succeeded(r) : bytes[i] = b[i]
      BY <1>7, <3>1 DEF Succeeded
    <3> HIDE DEF b, bytes
    <3>3. Sum(bytes, Succeeded(r)) = Sum(b, Succeeded(r))
      BY <3>2, SumSame
    <3> QED BY <3>3 DEF b, SumOfRows
  <2>5. Sum(bytes, Succeeded(r) \cup later) = Sum(bytes, Succeeded(r)) + Sum(bytes, later)
    <3>1. \A i \in Succeeded(r) \cup later : bytes[i] \in Nat
      BY <1>8, <2>1
    <3> HIDE DEF bytes, later
    <3> QED BY <1>8, <1>9, <3>1, SumUnion
  <2>6. SumOfRows(new) = Sum(bytes, Succeeded(r) \cup later)
    BY <1>8 DEF SumOfRows
  <2> HIDE DEF bytes, later
  <2> QED BY <2>3, <2>4, <2>5, <2>6 DEF PlanBytes, size
<1> QED BY <1>12, <1>13, <1>14 DEF new

LEMMA NoRows == Succeeded(<<>>) = {} /\ PathsOf(<<>>) = {} /\ SumOfRows(<<>>) = 0
<1>1. DOMAIN <<>> = {}
  OBVIOUS
<1>2. Succeeded(<<>>) = {}
  BY <1>1 DEF Succeeded
<1> QED BY <1>2, SumEmpty DEF PathsOf, SumOfRows

LEMMA RowsEffect ==
  ASSUME LinesOK, StateOK, DoneOK, RowsOK, NEW planned, NEW done, Effect(planned, done),
         UNCHANGED session
  PROVE  RowsOK'
<1>0. /\ opt' = opt /\ Acting /\ Acting' = Acting
      /\ planned \in SUBSET File /\ done \in SUBSET planned
      /\ opt.apply => Count(BytesOf(done), Cardinality(done)) /\ RecordOutcomes(planned, done)
      /\ ~opt.apply => rows' = rows
  BY DEF session, Effect, Acting
<1>1. CASE ~(opt.apply /\ opt.history)
  <2>1. rows' = rows
    BY <1>0, <1>1 DEF RecordOutcomes
  <2> QED BY <1>0, <1>1, <2>1 DEF RowsOK
<1>2. CASE opt.apply /\ opt.history
  <2>1. rows' = rows \o NewRows(planned, done)
    BY <1>0, <1>2 DEF RecordOutcomes, NewRows
  <2>2. /\ PathsOf(rows') = PathsOf(rows) \cup done
        /\ Cardinality(Succeeded(rows')) = Cardinality(Succeeded(rows)) + Cardinality(done)
        /\ SumOfRows(rows') = SumOfRows(rows) + PlanBytes(done)
    BY <1>0, <2>1, RowsGrow DEF StateOK, ReportOK
  <2>3. total' = [bytes |-> total.bytes + BytesOf(done), files |-> total.files + Cardinality(done)]
    BY <1>0, <1>2 DEF Count
  <2>4. BytesOf(done) = IF opt.kind = "copy" THEN 0 ELSE PlanBytes(done)
    BY DEF BytesOf, PlanBytes
  <2>5. /\ Touched \subseteq PathsOf(rows)
        /\ opt.kind # "hardlink" => PathsOf(rows) = Touched
        /\ total.files = Cardinality(Succeeded(rows))
        /\ total.bytes = IF opt.kind = "copy" THEN 0 ELSE SumOfRows(rows)
    BY <1>2 DEF RowsOK
  <2>6. Touched' \subseteq PathsOf(rows') /\ (opt.kind # "hardlink" => PathsOf(rows') = Touched')
    BY <1>2, <2>2, <2>5, TouchedGrows
  <2>7. /\ total'.files = Cardinality(Succeeded(rows'))
        /\ total'.bytes = IF opt.kind = "copy" THEN 0 ELSE SumOfRows(rows')
    BY <2>2, <2>3, <2>4, <2>5
  <2> QED BY <1>0, <1>2, <2>6, <2>7 DEF RowsOK
<1> QED BY <1>1, <1>2

LEMMA RowsStep ==
  ASSUME LinesOK, StateOK, DoneOK, RowsOK, [Next]_vars PROVE RowsOK'
<1>1. CASE Invoke
  <2>1. /\ UNCHANGED <<inode, archived>> /\ total' = [bytes |-> 0, files |-> 0] /\ rows' = <<>>
        /\ before' = [inode |-> inode, archived |-> archived, recorded |-> Len(history)]
    BY <1>1 DEF Invoke, tree
  <2>2. Touched' = {}
    BY <2>1 DEF Touched
  <2>3. PathsOf(rows') = {} /\ Cardinality(Succeeded(rows')) = 0 /\ SumOfRows(rows') = 0
    BY <2>1, NoRows, EmptyFacts
  <2> QED BY <2>1, <2>2, <2>3 DEF RowsOK
<1>2. CASE UNCHANGED session /\ Idle
  <2>1. UNCHANGED <<inode, archived, total, rows, before, opt>>
    BY <1>2 DEF session, Idle, tree
  <2>2. Touched' = Touched /\ Acting' = Acting
    BY <2>1 DEF Touched, Acting
  <2> QED BY <2>1, <2>2 DEF RowsOK
<1>3. CASE UNCHANGED session /\ \E planned, done : Effect(planned, done)
  BY <1>3, RowsEffect
<1> QED BY <1>1, <1>2, <1>3, WorkSteps

LEMMA FirstRun ==
  ASSUME Init PROVE DoneOK /\ RowsOK
<1>1. /\ inode = before.inode /\ archived = before.archived
      /\ total = [bytes |-> 0, files |-> 0] /\ rows = <<>>
  BY DEF Init
<1>2. Touched = {}
  BY <1>1 DEF Touched
<1> QED BY <1>1, <1>2, NoRows, EmptyFacts DEF DoneOK, RowsOK, TreeAsBefore
-----------------------------------------------------------------------------
(* The history.                                                              *)

\* Once the scan is recorded, nothing is done or counted any more.
LEMMA LateSteps ==
  ASSUME [Next]_vars, ~Invoke, pc \in {"writing", "exiting", "ended"}
  PROVE  /\ pc' \in {"writing", "exiting", "ended"}
         /\ UNCHANGED <<session, total, rows, history, out>>
<1> DEFINE Good == /\ pc' \in {"writing", "exiting", "ended"}
                   /\ UNCHANGED <<session, total, rows, history, out>>
<1>1. ASSUME NEW ok \in BOOLEAN, WritePlan(ok) PROVE Good
  BY <1>1 DEF WritePlan, report
<1>2. EndRun \/ Kill \/ UNCHANGED vars => Good
  BY DEF EndRun, Exit, Kill, vars, report, written
<1>3. ASSUME NEW ok \in BOOLEAN, Confirm(ok) \/ OpenRoot(ok) \/ Similar(ok) \/ Record(ok) PROVE Good
  BY <1>3 DEF Confirm, OpenRoot, Similar, Record
<1>4. ASSUME NEW g \in incoming, ReceiveGroup(g) PROVE Good
  BY <1>4 DEF ReceiveGroup
<1>5. Start \/ ReceiveError \/ ReceiveFinished \/ FindFolders \/ FindFails \/ HandlePair => Good
  BY DEF Start, ReceiveError, ReceiveFinished, FindFolders, FindFails, HandlePair
<1>6. RefusePair \/ EndMatch \/ EndMatches \/ HandleLeftover \/ Summarize => Good
  BY DEF RefusePair, EndMatch, EndMatches, HandleLeftover, Summarize
<1> HIDE DEF Good
<1>7. Good
  BY <1>1, <1>2, <1>3, <1>4, <1>5, <1>6 DEF Next, Program
<1> QED BY <1>7 DEF Good

\* A run adds its record to the database, or nothing.
LEMMA HistorySteps ==
  ASSUME [Next]_vars
  PROVE  \/ history' = history
         \/ /\ pc = "recording" /\ pc' = "writing" /\ opt.history
            /\ history' = Append(history, ScanRecord) /\ UNCHANGED <<session, report>>
<1> DEFINE Good == \/ history' = history
                   \/ /\ pc = "recording" /\ pc' = "writing" /\ opt.history
                      /\ history' = Append(history, ScanRecord) /\ UNCHANGED <<session, report>>
<1>1. ASSUME NEW ok \in BOOLEAN, Record(ok) PROVE Good
  BY <1>1 DEF Record
<1>2. ASSUME NEW ok \in BOOLEAN, Confirm(ok) \/ OpenRoot(ok) \/ Similar(ok) \/ WritePlan(ok)
      PROVE history' = history
  BY <1>2 DEF Confirm, OpenRoot, Similar, WritePlan, written
<1>3. ASSUME NEW g \in incoming, ReceiveGroup(g) PROVE history' = history
  BY <1>3 DEF ReceiveGroup, written
<1>4. Start \/ ReceiveError \/ ReceiveFinished \/ FindFolders \/ FindFails \/ HandlePair
        => history' = history
  BY DEF Start, ReceiveError, ReceiveFinished, FindFolders, FindFails, HandlePair, written
<1>5. RefusePair \/ EndMatch \/ EndMatches \/ HandleLeftover \/ Summarize => history' = history
  BY DEF RefusePair, EndMatch, EndMatches, HandleLeftover, Summarize, written
<1>6. Invoke \/ EndRun \/ Kill \/ UNCHANGED vars => history' = history
  BY DEF Invoke, EndRun, Kill, vars, written
<1> HIDE DEF Good
<1>7. Good
  BY <1>1, <1>2, <1>3, <1>4, <1>5, <1>6 DEF Next, Program, Good
<1> QED BY <1>7 DEF Good

LEMMA RecordTyped == ASSUME LinesOK, StateOK PROVE ScanRecord \in ScanRow
<1>1. opt \in CommandLines
  BY DEF LinesOK, AcceptedLines
<1>2. opt.kind \in {o.kind : o \in CommandLines}
  BY <1>1
<1>3. (Acting /\ opt.apply) \in BOOLEAN
  OBVIOUS
<1>4. now \in Nat /\ total.bytes \in Nat /\ total.files \in Nat /\ rows \in Seq(ActionRow)
  BY DEF StateOK, PlaceOK, ReportOK
<1> QED BY <1>2, <1>3, <1>4 DEF ScanRecord, ScanRow

LEMMA HistoryStep ==
  ASSUME LinesOK, StateOK, HistoryOK, [Next]_vars PROVE HistoryOK'
<1>0. /\ history \in Seq(ScanRow) /\ Len(history) \in Nat /\ DOMAIN history = 1..Len(history)
      /\ before.recorded \in Nat /\ begun \in Nat /\ now \in Nat /\ before.recorded < begun
      /\ Len(history) \in {before.recorded, before.recorded + 1} /\ 1 <= now
  BY DEF HistoryOK, StateOK, BeforeOK, PlaceOK
<1>00. /\ \A i \in DOMAIN history : /\ history[i].started_at \in Nat
                                    /\ 1 <= history[i].started_at /\ history[i].started_at <= now
       /\ \A i, j \in DOMAIN history : i <= j => history[i].started_at <= history[j].started_at
  <2>1. \A i \in DOMAIN history : history[i] \in ScanRow
    BY <1>0, SeqParts
  <2> QED BY <2>1 DEF HistoryOK, ScanRow
<1>1. CASE Invoke
  <2>1. /\ history' = history /\ begun' = begun + 1 /\ now' \in {now, now + 1}
        /\ before'.recorded = Len(history)
    BY <1>1 DEF Invoke, written
  <2>2. \A i \in DOMAIN history : history[i].started_at <= now'
    BY <1>0, <1>00, <2>1
  <2> QED BY <1>0, <1>00, <2>1, <2>2 DEF HistoryOK
<1>2. CASE ~Invoke /\ history' = history
  <2>1. before' = before /\ now' = now /\ begun' = begun /\ opt' = opt
    BY <1>2, SessionSteps DEF session
  <2>2. CASE Len(history) = before.recorded
    BY <1>0, <1>00, <1>2, <2>1, <2>2 DEF HistoryOK
  <2>3. CASE Len(history) # before.recorded
    <3>1. /\ pc \in {"writing", "exiting", "ended"} /\ opt.history
          /\ history[Len(history)] = ScanRecord /\ Len(history) = before.recorded + 1
      BY <2>3 DEF HistoryOK
    <3>2. pc' \in {"writing", "exiting", "ended"} /\ UNCHANGED <<total, rows>>
      BY <1>2, <3>1, LateSteps
    <3>3. ScanRecord' = ScanRecord
      BY <2>1, <3>2 DEF ScanRecord, Acting
    <3> QED BY <1>0, <1>00, <1>2, <2>1, <3>1, <3>2, <3>3 DEF HistoryOK
  <2> QED BY <2>2, <2>3
<1>3. CASE /\ pc = "recording" /\ pc' = "writing" /\ opt.history
           /\ history' = Append(history, ScanRecord) /\ UNCHANGED <<session, report>>
  <2>1. before' = before /\ now' = now /\ begun' = begun /\ opt' = opt /\ ScanRecord' = ScanRecord
    BY <1>3 DEF session, report, ScanRecord, Acting
  <2>2. Len(history) = before.recorded
    BY <1>3 DEF HistoryOK
  <2>3. /\ history' \in Seq(ScanRow) /\ Len(history') = Len(history) + 1
        /\ DOMAIN history' = DOMAIN history \cup {Len(history) + 1}
        /\ history'[Len(history) + 1] = ScanRecord
        /\ \A i \in DOMAIN history : history'[i] = history[i]
    BY <1>0, <1>3, RecordTyped, AppendSeq
  <2>4. ScanRecord.started_at = now
    BY DEF ScanRecord
  <2>5. \A i \in DOMAIN history' : 1 <= history'[i].started_at /\ history'[i].started_at <= now
    BY <1>0, <1>00, <2>3, <2>4
  <2>6. \A i, j \in DOMAIN history' : i <= j => history'[i].started_at <= history'[j].started_at
    BY <1>0, <1>00, <2>3, <2>4
  <2>7. history'[Len(history')] = ScanRecord' /\ Len(history') = before'.recorded + 1
    BY <2>1, <2>2, <2>3
  <2>8. before'.recorded < begun' /\ opt'.history /\ pc' \in {"writing", "exiting", "ended"}
    BY <1>0, <1>3, <2>1
  <2> QED BY <2>1, <2>3, <2>5, <2>6, <2>7, <2>8 DEF HistoryOK
<1> QED BY <1>1, <1>2, <1>3, HistorySteps
-----------------------------------------------------------------------------
(* The totals over all runs.                                                 *)

\* The sums over the first n rows depend on those rows alone, and grow row by row.
LEMMA SumsGrow ==
  ASSUME history \in Seq(ScanRow), NEW n \in Nat, n < Len(history)
  PROVE  /\ Reclaimed(n + 1) = Reclaimed(n) + history[n + 1].bytes_reclaimed
         /\ ActedOn(n + 1) = ActedOn(n) + history[n + 1].files_acted_on
<1> DEFINE S == 1..n
           x == n + 1
           bytes == [i \in 1..n |-> history[i].bytes_reclaimed]
           bytes2 == [i \in 1..(n + 1) |-> history[i].bytes_reclaimed]
           files == [i \in 1..n |-> history[i].files_acted_on]
           files2 == [i \in 1..(n + 1) |-> history[i].files_acted_on]
<1>1. \A i \in 1..(n + 1) : history[i].bytes_reclaimed \in Nat /\ history[i].files_acted_on \in Nat
  <2>1. \A i \in DOMAIN history : history[i] \in ScanRow
    BY SeqParts
  <2>2. \A i \in DOMAIN history : history[i].bytes_reclaimed \in Nat /\ history[i].files_acted_on \in Nat
    BY <2>1 DEF ScanRow
  <2>3. DOMAIN history = 1..Len(history) /\ Len(history) \in Nat
    OBVIOUS
  <2>4. \A i \in 1..(n + 1) : i \in DOMAIN history
    BY <2>3
  <2> QED BY <2>2, <2>4
<1>2. 1..(n + 1) = S \cup {x} /\ x \notin S /\ x \in 1..(n + 1) /\ S \subseteq 1..(n + 1)
  OBVIOUS
<1>3. IsFiniteSet(S)
  <2>1. n \in Int /\ 1 \in Int
    OBVIOUS
  <2> QED BY <2>1, FS_Interval
<1>4. /\ \A i \in S : bytes[i] \in Nat /\ bytes2[i] = bytes[i]
      /\ \A i \in S : files[i] \in Nat /\ files2[i] = files[i]
  BY <1>1, <1>2
<1>5. /\ bytes2[x] = history[n + 1].bytes_reclaimed /\ bytes2[x] \in Nat
      /\ files2[x] = history[n + 1].files_acted_on /\ files2[x] \in Nat
  BY <1>1, <1>2
<1> HIDE DEF bytes, bytes2, files, files2, S, x
<1>6. Sum(bytes2, S \cup {x}) = Sum(bytes, S) + bytes2[x]
  <2>1. Extends(bytes2, x, bytes, S)
    BY <1>2, <1>4, <1>5 DEF Extends
  <2> QED BY ONLY <1>3, <2>1, SumExtended
<1>7. Sum(files2, S \cup {x}) = Sum(files, S) + files2[x]
  <2>1. Extends(files2, x, files, S)
    BY <1>2, <1>4, <1>5 DEF Extends
  <2> QED BY ONLY <1>3, <2>1, SumExtended
<1>8. Reclaimed(n) = Sum(bytes, S) /\ ActedOn(n) = Sum(files, S)
  BY DEF Reclaimed, ActedOn, bytes, files, S
<1>9. Reclaimed(n + 1) = Sum(bytes2, 1..(n + 1)) /\ ActedOn(n + 1) = Sum(files2, 1..(n + 1))
  BY DEF Reclaimed, ActedOn, bytes2, files2
<1> QED BY ONLY <1>2, <1>5, <1>6, <1>7, <1>8, <1>9

\* If all runs are recorded, and none made hardlinks, their totals are what has
\* become of the tree.
LEMMA AllTold ==
  ASSUME LinesOK, StateOK, HistoryOK, DoneOK, PastOK, Len(history) = begun, Complete(begun)
  PROVE  /\ Reclaimed(begun) = PlanBytes(GoneIn(inode))
         /\ ActedOn(begun) = Cardinality(GoneIn(inode)) + Cardinality(archived)
<1> DEFINE n == before.recorded
<1>1. /\ n \in Nat /\ begun \in Nat /\ begun = n + 1 /\ Len(history) = n + 1
      /\ history[n + 1] = ScanRecord /\ history \in Seq(ScanRow)
  BY DEF HistoryOK, StateOK, BeforeOK, PlaceOK
<1>2. ScanRecord.applied /\ ScanRecord.action_kind # "hardlink"
  BY <1>1 DEF Complete
<1>3. Acting /\ opt.apply /\ opt.kind # "hardlink"
  BY <1>2 DEF ScanRecord
<1>4. Complete(n)
  BY <1>1 DEF Complete
<1>5. /\ Reclaimed(n) = PlanBytes(GoneIn(before.inode))
      /\ ActedOn(n) = Cardinality(GoneIn(before.inode)) + Cardinality(before.archived)
  BY <1>1, <1>4 DEF PastOK
<1>6. /\ history[n + 1].bytes_reclaimed = total.bytes
      /\ history[n + 1].files_acted_on = total.files
  BY <1>1 DEF ScanRecord
<1>7. /\ Reclaimed(begun) = Reclaimed(n) + total.bytes
      /\ ActedOn(begun) = ActedOn(n) + total.files
  <2> HIDE DEF n
  <2> QED BY <1>1, <1>6, SumsGrow
<1>8. /\ total.files = Cardinality(Touched)
      /\ total.bytes = IF opt.kind = "copy" THEN 0 ELSE PlanBytes(Touched)
  BY <1>3 DEF DoneOK
<1>9. /\ GoneIn(before.inode) \in SUBSET File /\ Touched \in SUBSET File
      /\ before.archived \in SUBSET File /\ archived \in SUBSET File
  BY TouchedFiles DEF GoneIn, StateOK, BeforeOK, TreeOK
<1>10. /\ PlanBytes(GoneIn(before.inode)) \in Nat /\ Cardinality(GoneIn(before.inode)) \in Nat
       /\ Cardinality(before.archived) \in Nat /\ Cardinality(Touched) \in Nat
       /\ PlanBytes(Touched) \in Nat
  BY <1>9, SetFacts
<1>11. CASE opt.kind = "copy"
  <2>1. inode = before.inode /\ before.archived \subseteq archived
    BY <1>11 DEF DoneOK
  <2>2. Touched = archived \ before.archived
    BY <2>1 DEF Touched
  <2>3. archived = before.archived \cup Touched /\ before.archived \cap Touched = {}
    BY <2>1, <2>2
  <2>4. Cardinality(archived) = Cardinality(before.archived) + Cardinality(Touched)
    BY <1>9, <2>3, PlanBytesUnion
  <2> QED BY <1>5, <1>7, <1>8, <1>10, <1>11, <2>1, <2>4
<1>12. CASE opt.kind # "copy"
  <2>1. archived = before.archived /\ \A f \in File : inode[f] \in {before.inode[f], Gone}
    BY <1>3, <1>12 DEF DoneOK
  <2>2. Touched = {f \in File : inode[f] # before.inode[f]}
    BY <2>1 DEF Touched
  <2>3. GoneIn(inode) = GoneIn(before.inode) \cup Touched /\ GoneIn(before.inode) \cap Touched = {}
    BY <2>1, <2>2 DEF GoneIn
  <2>4. /\ PlanBytes(GoneIn(inode)) = PlanBytes(GoneIn(before.inode)) + PlanBytes(Touched)
        /\ Cardinality(GoneIn(inode)) = Cardinality(GoneIn(before.inode)) + Cardinality(Touched)
    BY <1>9, <2>3, PlanBytesUnion
  <2> QED BY <1>5, <1>7, <1>8, <1>10, <1>12, <2>1, <2>4
<1> QED BY <1>11, <1>12

\* The rows that are in the database stay as they are.
LEMMA RowsKept ==
  ASSUME LinesOK, StateOK, HistoryOK, [Next]_vars
  PROVE  /\ Len(history') >= Len(history)
         /\ \A i \in 1..Len(history) : history'[i] = history[i]
<1>1. /\ history \in Seq(ScanRow) /\ Len(history) \in Nat /\ DOMAIN history = 1..Len(history)
  BY DEF HistoryOK
<1>2. CASE history' = history
  BY <1>1, <1>2
<1>3. CASE history' = Append(history, ScanRecord)
  BY <1>1, <1>3, RecordTyped, AppendSeq
<1> QED BY <1>2, <1>3, HistorySteps

LEMMA SumsKept ==
  ASSUME NEW n \in Nat, \A i \in 1..n : history'[i] = history[i]
  PROVE  Complete(n)' = Complete(n) /\ Reclaimed(n)' = Reclaimed(n) /\ ActedOn(n)' = ActedOn(n)
<1>1. /\ [i \in 1..n |-> history'[i].bytes_reclaimed] = [i \in 1..n |-> history[i].bytes_reclaimed]
      /\ [i \in 1..n |-> history'[i].files_acted_on] = [i \in 1..n |-> history[i].files_acted_on]
  OBVIOUS
<1>2. Complete(n)' <=> Complete(n)
  BY DEF Complete
<1> QED BY <1>1, <1>2 DEF Reclaimed, ActedOn, Complete

LEMMA PastStep ==
  ASSUME LinesOK, StateOK, HistoryOK, DoneOK, PastOK, [Next]_vars PROVE PastOK'
<1>0. /\ Len(history) \in Nat /\ before.recorded \in Nat /\ begun \in Nat
      /\ before.recorded <= Len(history)
  BY DEF HistoryOK, StateOK, BeforeOK, PlaceOK
<1>1. CASE Invoke
  <2>1. /\ history' = history /\ begun' = begun + 1
        /\ before' = [inode |-> inode, archived |-> archived, recorded |-> Len(history)]
    BY <1>1 DEF Invoke, written
  <2>2. before'.recorded = Len(history) /\ before'.inode = inode /\ before'.archived = archived
    BY <2>1
  <2>3. /\ Complete(Len(history))' <=> Complete(Len(history))
        /\ Reclaimed(Len(history))' = Reclaimed(Len(history))
        /\ ActedOn(Len(history))' = ActedOn(Len(history))
    BY <2>1 DEF Complete, Reclaimed, ActedOn
  <2>4. PlanBytes(GoneIn(before'.inode)) = PlanBytes(GoneIn(inode))
    BY <2>2
  <2> SUFFICES ASSUME before'.recorded + 1 = begun', Complete(before.recorded)'
               PROVE  /\ Reclaimed(before.recorded)' = PlanBytes(GoneIn(inode))
                      /\ ActedOn(before.recorded)' = Cardinality(GoneIn(inode)) + Cardinality(archived)
    BY <2>2 DEF PastOK, PlanBytes, GoneIn
  <2>5. Len(history) = begun
    BY <1>0, <2>1, <2>2
  <2>6. /\ Complete(before.recorded)' <=> Complete(Len(history))
        /\ Reclaimed(before.recorded)' = Reclaimed(Len(history))
        /\ ActedOn(before.recorded)' = ActedOn(Len(history))
    BY <2>1, <2>2 DEF Complete, Reclaimed, ActedOn
  <2>7. Complete(begun)
    BY <2>5, <2>6
  <2> QED BY <2>5, <2>6, <2>7, AllTold
<1>2. CASE ~Invoke
  <2>1. before' = before /\ begun' = begun
    BY <1>2, SessionSteps DEF session
  <2>2. \A i \in 1..before.recorded : history'[i] = history[i]
    BY <1>0, RowsKept
  <2> DEFINE n == before.recorded
  <2>3. Complete(n)' = Complete(n) /\ Reclaimed(n)' = Reclaimed(n) /\ ActedOn(n)' = ActedOn(n)
    BY <1>0, <2>1, <2>2 DEF Complete, Reclaimed, ActedOn
  <2> QED BY <2>1, <2>3 DEF PastOK, PlanBytes, GoneIn
<1> QED BY <1>1, <1>2
-----------------------------------------------------------------------------
(* What the history says.                                                    *)

LEMMA RowsTrueHere ==
  ASSUME LinesOK, StateOK, HistoryOK, DoneOK, RowsOK PROVE RowsTrue
<1> SUFFICES ASSUME NEW n \in before.recorded + 1 .. Len(history)
             PROVE  LET row == history[n]
                        done == {i \in DOMAIN row.actions : row.actions[i].succeeded}
                    IN  IF row.applied
                        THEN /\ Touched \subseteq {row.actions[i].path : i \in done}
                             /\ row.action_kind # "hardlink" =>
                                  {row.actions[i].path : i \in done} = Touched
                             /\ row.files_acted_on = Cardinality(done)
                             /\ row.bytes_reclaimed =
                                  IF opt.kind = "copy" THEN 0
                                  ELSE Sum([i \in done |-> row.actions[i].bytes], done)
                        ELSE row.actions = <<>> /\ Touched = {}
  BY DEF RowsTrue
<1>1. before.recorded \in Nat /\ Len(history) \in Nat
  BY DEF HistoryOK, StateOK, BeforeOK
<1>2. history[n] = ScanRecord /\ opt.history
  BY <1>1 DEF HistoryOK
<1>3. /\ history[n].applied <=> Acting /\ opt.apply
      /\ history[n].action_kind = opt.kind /\ history[n].actions = rows
      /\ history[n].bytes_reclaimed = total.bytes /\ history[n].files_acted_on = total.files
  <2>1. ScanRecord.applied <=> Acting /\ opt.apply
    BY DEF ScanRecord
  <2>2. /\ ScanRecord.action_kind = opt.kind /\ ScanRecord.actions = rows
        /\ ScanRecord.bytes_reclaimed = total.bytes /\ ScanRecord.files_acted_on = total.files
    BY DEF ScanRecord
  <2> QED BY <1>2, <2>1, <2>2
<1>4. CASE history[n].applied
  <2>1. /\ Touched \subseteq PathsOf(rows) /\ (opt.kind # "hardlink" => PathsOf(rows) = Touched)
        /\ total.files = Cardinality(Succeeded(rows))
        /\ total.bytes = IF opt.kind = "copy" THEN 0 ELSE SumOfRows(rows)
    BY <1>2, <1>3, <1>4 DEF RowsOK
  <2> QED BY <1>3, <1>4, <2>1 DEF PathsOf, Succeeded, SumOfRows
<1>5. CASE ~history[n].applied
  <2>1. rows = <<>> /\ TreeAsBefore
    BY <1>3, <1>5 DEF RowsOK, DoneOK
  <2>2. Touched = {}
    BY <2>1 DEF Touched, TreeAsBefore
  <2> QED BY <1>3, <1>5, <2>1, <2>2
<1> QED BY <1>4, <1>5

LEMMA StatsTrueHere ==
  ASSUME LinesOK, StateOK, HistoryOK, DoneOK, PastOK PROVE StatsTrue
<1> SUFFICES ASSUME Len(history) = begun,
                    \A row \in Range(history) : row.applied /\ row.action_kind # "hardlink"
             PROVE  LET gone == {f \in File : inode[f] = Gone}
                    IN  Stats(1, now) = [scans |-> begun, bytes_reclaimed |-> PlanBytes(gone),
                                         files_acted_on |-> Cardinality(gone) + Cardinality(archived)]
  BY DEF StatsTrue
<1>1. DOMAIN history = 1..begun /\ begun \in Nat
  BY DEF HistoryOK, StateOK, PlaceOK
<1>2. Complete(begun)
  BY <1>1 DEF Complete, Range
<1>3. /\ Reclaimed(begun) = PlanBytes(GoneIn(inode))
      /\ ActedOn(begun) = Cardinality(GoneIn(inode)) + Cardinality(archived)
  BY <1>2, AllTold
<1>4. {i \in DOMAIN history : 1 <= history[i].started_at /\ history[i].started_at <= now} = 1..begun
  BY <1>1 DEF HistoryOK
<1>5. Cardinality(1..begun) = begun
  <2>1. begun \in Int /\ 1 \in Int /\ begun >= 0
    BY <1>1
  <2>2. Cardinality(1..begun) = IF 1 > begun THEN 0 ELSE begun - 1 + 1
    BY <2>1, FS_Interval
  <2> QED BY <1>1, <2>2
<1>6. Stats(1, now) = Totals(1..begun)
  BY <1>4 DEF Stats
<1>7. Totals(1..begun) = [scans |-> begun, bytes_reclaimed |-> Reclaimed(begun),
                          files_acted_on |-> ActedOn(begun)]
  BY <1>5 DEF Totals, Reclaimed, ActedOn
<1> QED BY <1>3, <1>6, <1>7 DEF GoneIn

LEMMA ListsHere == ASSUME HistoryOK PROVE ListsLatest
<1> SUFFICES ASSUME NEW limit \in 0..Len(history)
             PROVE  list_scans(limit) = SubSeq(Reverse(history), 1, limit)
  BY DEF ListsLatest
<1> DEFINE n == Len(history)
           before_it(i) == {j \in DOMAIN history : NewestFirst(j, i)}
<1>1. n \in Nat /\ DOMAIN history = 1..n /\ history \in Seq(ScanRow)
  BY DEF HistoryOK
<1>2. ASSUME NEW i \in 1..n PROVE Cardinality(before_it(i)) = n - i
  <2>1. \A j \in 1..n : history[j].started_at \in Nat
    <3>1. \A j \in DOMAIN history : history[j] \in ScanRow
      BY <1>1, SeqParts
    <3> QED BY <1>1, <3>1 DEF ScanRow
  <2>2. \A j \in 1..n : NewestFirst(j, i) <=> j > i
    <3>1. ASSUME NEW j \in 1..n, j > i PROVE NewestFirst(j, i)
      <4>1. history[i].started_at <= history[j].started_at
        BY <1>1, <3>1 DEF HistoryOK
      <4> QED BY <2>1, <3>1, <4>1 DEF NewestFirst
    <3>2. ASSUME NEW j \in 1..n, ~(j > i) PROVE ~NewestFirst(j, i)
      <4>1. history[j].started_at <= history[i].started_at
        BY <1>1, <3>2 DEF HistoryOK
      <4> QED BY <2>1, <3>2, <4>1 DEF NewestFirst
    <3> QED BY <3>1, <3>2
  <2>3. before_it(i) = i + 1 .. n
    BY <1>1, <2>2
  <2>4. i + 1 \in Int /\ n \in Int
    BY <1>1
  <2>5. Cardinality(i + 1 .. n) = IF i + 1 > n THEN 0 ELSE n - (i + 1) + 1
    BY <2>4, FS_Interval
  <2> HIDE DEF n, before_it
  <2> QED BY <1>1, <2>3, <2>5
<1> DEFINE place(m) == CHOOSE i \in DOMAIN history : Cardinality(before_it(i)) = m - 1
<1>3. ASSUME NEW m \in 1..n PROVE place(m) = n - m + 1
  <2> HIDE DEF before_it, n
  <2>1. n - m + 1 \in 1..n /\ n - (n - m + 1) = m - 1
    BY <1>1
  <2>2. \A i \in 1..n : Cardinality(before_it(i)) = m - 1 <=> i = n - m + 1
    BY <1>1, <1>2
  <2> QED BY <1>1, <2>1, <2>2
<1>4. list_scans(limit) = [m \in {k \in DOMAIN history : k <= limit} |-> history[place(m)]]
  BY DEF list_scans
<1>5. {k \in DOMAIN history : k <= limit} = 1..limit /\ limit \in Nat /\ limit <= n
  BY <1>1
<1> HIDE DEF place
<1>6. list_scans(limit) = [m \in 1..limit |-> history[n - m + 1]]
  BY <1>1, <1>3, <1>4, <1>5
<1>7. Reverse(history) = [m \in 1..n |-> history[n - m + 1]]
  BY DEF Reverse
<1>8. SubSeq(Reverse(history), 1, limit) = [m \in 1..limit |-> history[n - m + 1]]
  <2> DEFINE r == [m \in 1..n |-> history[n - m + 1]]
  <2>1. r \in Seq(ScanRow) /\ Len(r) = n
    <3>1. \A m \in 1..n : history[n - m + 1] \in ScanRow
      BY <1>1
    <3> HIDE DEF n
    <3> QED BY <1>1, <3>1
  <2>2. SubSeq(r, 1, limit) = [m \in 1..limit |-> r[m]]
    <3> HIDE DEF r
    <3> QED BY <1>5, <2>1
  <2>3. \A m \in 1..limit : r[m] = history[n - m + 1]
    BY <1>5
  <2> QED BY <1>7, <2>2, <2>3
<1> QED BY <1>6, <1>8

\* Everything above, in one invariant.
RunOK == /\ LinesOK /\ FlawsOK /\ StateOK
         /\ HistoryOK /\ DoneOK /\ RowsOK /\ PastOK

LEMMA RunInit == Init => RunOK
<1> SUFFICES ASSUME Init PROVE RunOK
  OBVIOUS
<1>1. FlawsOK
  <2>1. out = <<>> /\ outcomes = <<>> /\ plan = {} /\ had_errors = FALSE
    BY DEF Init
  <2>2. DOMAIN out = {} /\ DOMAIN outcomes = {} /\ PlanPrinted = {}
    BY <2>1 DEF PlanPrinted
  <2> QED BY <2>1, <2>2, EmptyListed DEF FlawsOK
<1>2. history = <<>> /\ before.recorded = 0 /\ begun = 1 /\ Len(history) = 0 /\ DOMAIN history = {}
  BY DEF Init
<1>3. HistoryOK
  BY <1>2, SeqParts DEF HistoryOK
<1>4. PastOK
  <2>1. before.inode = [f \in File |-> f] /\ before.archived = {}
    BY DEF Init
  <2>2. GoneIn(before.inode) = {}
    BY <2>1, FileFacts DEF GoneIn
  <2>3. Reclaimed(0) = 0 /\ ActedOn(0) = 0
    <3>1. 1..0 = {}
      OBVIOUS
    <3> QED BY <3>1, SumEmpty DEF Reclaimed, ActedOn
  <2>4. Reclaimed(before.recorded) = 0 /\ ActedOn(before.recorded) = 0
    BY <1>2, <2>3
  <2>5. /\ PlanBytes(GoneIn(before.inode)) = 0 /\ Cardinality(GoneIn(before.inode)) = 0
        /\ Cardinality(before.archived) = 0
    BY <2>1, <2>2, EmptyFacts
  <2> QED BY <2>4, <2>5 DEF PastOK
<1> QED BY <1>1, <1>3, <1>4, LinesInit, StateInit, FirstRun DEF RunOK

LEMMA RunStep == RunOK /\ [Next]_vars => RunOK'
<1> SUFFICES ASSUME RunOK, [Next]_vars PROVE RunOK'
  OBVIOUS
<1>1. LinesOK /\ FlawsOK /\ StateOK /\ HistoryOK /\ DoneOK /\ RowsOK /\ PastOK
  BY DEF RunOK
<1>2. history \in Seq(ScanRow)
  BY <1>1 DEF HistoryOK
<1> QED BY <1>1, <1>2, LinesStep, FlawsStep, StateStep, HistoryStep, DoneStep, RowsStep, PastStep
        DEF RunOK

\* Over any number of runs, each on the tree and the database that the one before
\* has left, whichever of them fail or are killed: every recorded scan names the
\* files that were touched and counts them right, the totals of history stats are
\* what has become of the tree, and history list shows the latest runs first.
THEOREM HistoryAlwaysTrue == Spec => []HistoryTrue
<1>1. RunOK => HistoryTrue
  BY RowsTrueHere, StatsTrueHere, ListsHere DEF RunOK, HistoryTrue
<1> QED BY <1>1, RunInit, RunStep, PTL DEF Spec
-----------------------------------------------------------------------------
(* The output: sums over the lines.                                          *)

LEMMA EventTypes ==
  ASSUME NEW e \in Event
  PROVE  /\ e.type = "group" <=> e \in GroupEvent
         /\ e.type = "folder" <=> e \in FolderEvent
         /\ e.type = "summary" <=> e \in SummaryEvent
<1>1. CASE e \in GroupEvent
  BY <1>1 DEF GroupEvent, FolderEvent, SummaryEvent
<1>2. CASE e \in FolderEvent
  BY <1>2 DEF GroupEvent, FolderEvent, SummaryEvent
<1>3. CASE e \in SummaryEvent
  BY <1>3 DEF GroupEvent, FolderEvent, SummaryEvent
<1>4. CASE e \in ErrorEvent
  BY <1>4 DEF GroupEvent, FolderEvent, SummaryEvent, ErrorEvent
<1> QED BY <1>1, <1>2, <1>3, <1>4 DEF Event

LEMMA PrintedTyped ==
  ASSUME out \in Seq(Event)
  PROVE  /\ \A i \in Printed("group") : out[i] \in GroupEvent
         /\ \A i \in Printed("folder") : out[i] \in FolderEvent
         /\ \A t : Printed(t) \subseteq DOMAIN out /\ IsFiniteSet(Printed(t))
<1>1. \A i \in DOMAIN out : out[i] \in Event
  BY SeqParts
<1>2. \A t : Printed(t) \subseteq DOMAIN out
  BY DEF Printed
<1>3. IsFiniteSet(DOMAIN out)
  <2>1. DOMAIN out = 1..Len(out) /\ 1 \in Int /\ Len(out) \in Int
    OBVIOUS
  <2> QED BY <2>1, FS_Interval
<1> QED BY <1>1, <1>2, <1>3, EventTypes, FS_Subset DEF Printed

\* A line more.
LEMMA Reported ==
  ASSUME out \in Seq(Event), NEW e \in Event, out' = Append(out, e)
  PROVE  LET x == Len(out) + 1
         IN  /\ out'[x] = e /\ x \notin DOMAIN out
             /\ \A i \in DOMAIN out : out'[i] = out[i]
             /\ (Printed("group"))' =
                   Printed("group") \cup (IF e.type = "group" THEN {x} ELSE {})
             /\ (Printed("folder"))' =
                   Printed("folder") \cup (IF e.type = "folder" THEN {x} ELSE {})
             /\ (Printed("summary"))' =
                   Printed("summary") \cup (IF e.type = "summary" THEN {x} ELSE {})
<1> DEFINE x == Len(out) + 1
<1>1. /\ DOMAIN out' = DOMAIN out \cup {x} /\ x \notin DOMAIN out /\ out'[x] = e
      /\ \A i \in DOMAIN out : out'[i] = out[i]
  BY AppendSeq
<1> HIDE DEF x
<1>2. ASSUME NEW t
      PROVE {i \in DOMAIN out' : out'[i].type = t}
               = {i \in DOMAIN out : out[i].type = t} \cup (IF e.type = t THEN {x} ELSE {})
  BY <1>1
<1> QED BY <1>1, <1>2 DEF Printed, x

LEMMA MovedTyped ==
  ASSUME NEW a \in Seq(Outcome), \A k \in DOMAIN a : a[k].failed <= a[k].file_count
  PROVE  Moved(a) \in Nat
<1> DEFINE v == [k \in DOMAIN a |-> a[k].file_count - a[k].failed]
<1>1. IsFiniteSet(DOMAIN a)
  <2>1. DOMAIN a = 1..Len(a) /\ 1 \in Int /\ Len(a) \in Int
    OBVIOUS
  <2> QED BY <2>1, FS_Interval
<1>2. \A k \in DOMAIN a : v[k] \in Nat
  <2>1. \A k \in DOMAIN a : a[k] \in Outcome
    BY SeqParts
  <2> QED BY <2>1 DEF Outcome
<1>3. Sum(v, DOMAIN a) \in Nat
  <2> HIDE DEF v
  <2> QED BY <1>1, <1>2, SumTyped
<1> QED BY <1>3 DEF Moved

LEMMA MovedNothing == Moved(<<>>) = 0
<1>1. DOMAIN <<>> = {}
  OBVIOUS
<1> QED BY <1>1, SumEmpty DEF Moved

LEMMA MovedGrows ==
  ASSUME NEW a \in Seq(Outcome), \A k \in DOMAIN a : a[k].failed <= a[k].file_count,
         NEW o \in Outcome, o.failed <= o.file_count
  PROVE  /\ Moved(Append(a, o)) = Moved(a) + (o.file_count - o.failed)
         /\ \A k \in DOMAIN Append(a, o) : Append(a, o)[k].failed <= Append(a, o)[k].file_count
<1> DEFINE b == Append(a, o)
           x == Len(a) + 1
           S == DOMAIN a
           v == [k \in DOMAIN a |-> a[k].file_count - a[k].failed]
           w == [k \in DOMAIN b |-> b[k].file_count - b[k].failed]
<1>1. DOMAIN b = S \cup {x} /\ x \notin S /\ b[x] = o /\ \A i \in S : b[i] = a[i]
  BY AppendSeq
<1>2. IsFiniteSet(S)
  <2>1. S = 1..Len(a) /\ 1 \in Int /\ Len(a) \in Int
    OBVIOUS
  <2> QED BY <2>1, FS_Interval
<1> HIDE DEF b, x
<1>3. \A k \in S : v[k] \in Nat /\ w[k] = v[k]
  <2>1. \A k \in S : a[k] \in Outcome
    BY SeqParts
  <2>2. \A k \in S : v[k] \in Nat
    BY <2>1 DEF Outcome
  <2> QED BY <1>1, <2>2
<1>4. w[x] = o.file_count - o.failed /\ w[x] \in Nat
  BY <1>1 DEF Outcome
<1>5. Sum(w, S \cup {x}) = Sum(v, S) + w[x]
  <2> HIDE DEF S, v, w
  <2>1. Extends(w, x, v, S)
    BY <1>1, <1>3, <1>4 DEF Extends
  <2> QED BY ONLY <1>2, <2>1, SumExtended
<1>6. Moved(b) = Sum(w, S \cup {x}) /\ Moved(a) = Sum(v, S)
  BY <1>1 DEF Moved
<1>7. \A k \in DOMAIN b : b[k].failed <= b[k].file_count
  BY <1>1
<1> HIDE DEF S, v, w
<1> QED BY <1>4, <1>5, <1>6, <1>7 DEF b

\* What a line counts for.
Counts(e) == Cardinality(IF opt.apply THEN e.succeeded ELSE e.planned)

LEMMA GroupSums ==
  ASSUME out \in Seq(Event), NEW e \in Event, out' = Append(out, e), opt' = opt
  PROVE  /\ Sum(GroupFiles, Printed("group"))'
              = Sum(GroupFiles, Printed("group")) + (IF e.type = "group" THEN Counts(e) ELSE 0)
         /\ Sum(GroupBytes, Printed("group"))'
              = Sum(GroupBytes, Printed("group")) + (IF e.type = "group" THEN e.bytes ELSE 0)
<1> DEFINE x == Len(out) + 1
           S == Printed("group")
<1>1. /\ out'[x] = e /\ x \notin S /\ \A i \in S : out'[i] = out[i]
      /\ S' = S \cup (IF e.type = "group" THEN {x} ELSE {})
  BY Reported DEF Printed
<1>2. IsFiniteSet(S) /\ \A i \in S : out[i] \in GroupEvent
  BY PrintedTyped
<1>3. \A f \in GroupEvent : Counts(f) \in Nat /\ f.bytes \in Nat
  BY SetFacts DEF GroupEvent, Counts
<1>4. \A i \in S : GroupFiles[i] = Counts(out[i]) /\ GroupBytes[i] = out[i].bytes
  BY DEF GroupFiles, GroupBytes, Counts
<1>5. \A i \in S' : GroupFiles'[i] = Counts(out'[i]) /\ GroupBytes'[i] = out'[i].bytes
  BY DEF GroupFiles, GroupBytes, Counts
<1> HIDE DEF S, x
<1>6. /\ \A i \in S : GroupFiles[i] \in Nat /\ GroupFiles'[i] = GroupFiles[i]
      /\ \A i \in S : GroupBytes[i] \in Nat /\ GroupBytes'[i] = GroupBytes[i]
  <2> SUFFICES ASSUME NEW i \in S
               PROVE  /\ GroupFiles[i] \in Nat /\ GroupFiles'[i] = GroupFiles[i]
                      /\ GroupBytes[i] \in Nat /\ GroupBytes'[i] = GroupBytes[i]
    OBVIOUS
  <2>1. out'[i] = out[i] /\ i \in S'
    BY <1>1
  <2>2. GroupFiles[i] \in Nat /\ GroupBytes[i] \in Nat
    BY ONLY <1>2, <1>3, <1>4
  <2>3. GroupFiles'[i] = Counts(out[i]) /\ GroupBytes'[i] = out[i].bytes
    BY ONLY <1>5, <2>1
  <2> QED BY ONLY <1>4, <2>2, <2>3
<1>7. CASE e.type # "group"
  <2>1. S' = S
    BY <1>1, <1>7
  <2>2. Sum(GroupFiles', S) = Sum(GroupFiles, S) /\ Sum(GroupBytes', S) = Sum(GroupBytes, S)
    BY <1>6, SumSame
  <2>3. Sum(GroupFiles, S) \in Nat /\ Sum(GroupBytes, S) \in Nat
    BY <1>2, <1>6, SumTyped
  <2> QED BY <1>7, <2>1, <2>2, <2>3 DEF S
<1>8. CASE e.type = "group"
  <2>1. S' = S \cup {x} /\ e \in GroupEvent
    BY <1>1, <1>8, EventTypes
  <2>2. /\ GroupFiles'[x] = Counts(e) /\ GroupFiles'[x] \in Nat
        /\ GroupBytes'[x] = e.bytes /\ GroupBytes'[x] \in Nat
    BY <1>1, <1>3, <1>5, <2>1
  <2>3. Sum(GroupFiles', S \cup {x}) = Sum(GroupFiles, S) + GroupFiles'[x]
    <3>1. Extends(GroupFiles', x, GroupFiles, S)
      BY ONLY <1>1, <1>6, <2>2 DEF Extends
    <3> QED BY ONLY <1>2, <3>1, SumExtended
  <2>4. Sum(GroupBytes', S \cup {x}) = Sum(GroupBytes, S) + GroupBytes'[x]
    <3>1. Extends(GroupBytes', x, GroupBytes, S)
      BY ONLY <1>1, <1>6, <2>2 DEF Extends
    <3> QED BY ONLY <1>2, <3>1, SumExtended
  <2>5. Sum(GroupFiles', S') = Sum(GroupFiles, S) + Counts(e)
    BY ONLY <2>1, <2>2, <2>3
  <2>6. Sum(GroupBytes', S') = Sum(GroupBytes, S) + e.bytes
    BY ONLY <2>1, <2>2, <2>4
  <2> QED BY ONLY <1>8, <2>5, <2>6 DEF S
<1> QED BY <1>7, <1>8

LEMMA FolderSums ==
  ASSUME out \in Seq(Event), NEW e \in Event, out' = Append(out, e),
         \A i \in Printed("folder") : CountsFit(out[i].action),
         e.type = "folder" => CountsFit(e.action)
  PROVE  /\ Sum(FolderFiles, Printed("folder"))'
              = Sum(FolderFiles, Printed("folder")) + (IF e.type = "folder" THEN Moved(e.action) ELSE 0)
         /\ \A i \in (Printed("folder"))' : CountsFit(out'[i].action)
<1> DEFINE x == Len(out) + 1
           S == Printed("folder")
<1>1. /\ out'[x] = e /\ x \notin S /\ \A i \in S : out'[i] = out[i]
      /\ S' = S \cup (IF e.type = "folder" THEN {x} ELSE {})
  BY Reported DEF Printed
<1>2. IsFiniteSet(S) /\ \A i \in S : out[i] \in FolderEvent
  BY PrintedTyped
<1>3. \A f \in FolderEvent : CountsFit(f.action) => Moved(f.action) \in Nat
  BY MovedTyped DEF FolderEvent, CountsFit
<1>4. \A i \in S : FolderFiles[i] = Moved(out[i].action)
  BY DEF FolderFiles
<1>5. \A i \in S' : FolderFiles'[i] = Moved(out'[i].action)
  BY DEF FolderFiles
<1> HIDE DEF x
<1>6. \A i \in S : FolderFiles[i] \in Nat /\ FolderFiles'[i] = FolderFiles[i]
  BY <1>1, <1>2, <1>3, <1>4, <1>5
<1>7. \A i \in S' : CountsFit(out'[i].action)
  BY <1>1
<1> HIDE DEF S
<1>8. CASE e.type # "folder"
  <2>1. S' = S
    BY <1>1, <1>8
  <2>2. Sum(FolderFiles', S) = Sum(FolderFiles, S)
    BY <1>6, SumSame
  <2>3. Sum(FolderFiles, S) \in Nat
    BY <1>2, <1>6, SumTyped
  <2>4. Sum(FolderFiles', S') = Sum(FolderFiles, S) + 0
    BY <2>1, <2>2, <2>3
  <2> QED BY <1>7, <1>8, <2>4 DEF S
<1>9. CASE e.type = "folder"
  <2>1. S' = S \cup {x} /\ e \in FolderEvent
    BY <1>1, <1>9, EventTypes
  <2>2. FolderFiles'[x] = Moved(e.action) /\ FolderFiles'[x] \in Nat
    BY <1>1, <1>3, <1>5, <1>9, <2>1
  <2>3. Sum(FolderFiles', S \cup {x}) = Sum(FolderFiles, S) + FolderFiles'[x]
    <3>1. Extends(FolderFiles', x, FolderFiles, S)
      BY ONLY <1>1, <1>6, <2>2 DEF Extends
    <3> QED BY ONLY <1>2, <3>1, SumExtended
  <2>4. Sum(FolderFiles', S') = Sum(FolderFiles, S) + Moved(e.action)
    BY ONLY <2>1, <2>2, <2>3
  <2> QED BY ONLY <1>7, <1>9, <2>4 DEF S
<1> QED BY <1>8, <1>9

\* What a line shows of the files of a group is what is counted for it.
LEMMA GroupCounted ==
  ASSUME LinesOK, StateOK, NEW g, NEW e, GroupLine(g, e)
  PROVE  /\ e \in Event /\ e.type = "group"
         /\ total'.files = total.files + Counts(e) /\ total'.bytes = total.bytes + e.bytes
<1>1. e \in GroupEvent /\ e \in Event /\ e.type = "group"
  BY DEF GroupLine, GroupEvent, Event
<1>2. total.files \in Nat /\ total.bytes \in Nat /\ opt.apply \in BOOLEAN
  BY DEF StateOK, ReportOK, LinesOK, AcceptedLines, CommandLines
<1>3. CASE Idle /\ e.planned = {} /\ e.succeeded = {} /\ e.bytes = 0
  <2>1. Counts(e) = 0
    BY <1>3, EmptyFacts DEF Counts
  <2> QED BY <1>1, <1>2, <1>3, <2>1 DEF Idle
<1>4. CASE /\ Effect(e.planned, e.succeeded)
           /\ e.bytes = IF opt.apply THEN BytesOf(e.succeeded) ELSE PlanBytes(e.planned)
  <2>1. total' = [bytes |-> total.bytes + e.bytes, files |-> total.files + Counts(e)]
    BY <1>2, <1>4 DEF Effect, Count, Counts
  <2> QED BY <1>1, <2>1
<1> QED BY <1>3, <1>4 DEF GroupLine

\* So is what the outcome of a pair says.
LEMMA PairCounted ==
  ASSUME LinesOK, StateOK, NEW planned, NEW done, NEW o, PairLine(planned, done, o)
  PROVE  /\ o.failed <= o.file_count
         /\ total'.files = total.files + (o.file_count - o.failed)
<1>1. /\ planned \in SUBSET File /\ done \in SUBSET planned /\ Effect(planned, done)
      /\ o.file_count = Cardinality(planned)
      /\ o.failed = IF opt.apply THEN Cardinality(planned \ done) ELSE 0
  BY DEF PairLine, Effect
<1>2. /\ Cardinality(planned) \in Nat /\ Cardinality(done) \in Nat
      /\ Cardinality(planned \ done) \in Nat
      /\ Cardinality(done \cup (planned \ done)) = Cardinality(done) + Cardinality(planned \ done)
  <2>1. done \in SUBSET File /\ planned \ done \in SUBSET File /\ done \cap (planned \ done) = {}
    BY <1>1
  <2> QED BY <1>1, <2>1, SetFacts, PlanBytesUnion
<1>3. done \cup (planned \ done) = planned
  BY <1>1
<1>4. total.files \in Nat
  BY DEF StateOK, ReportOK
<1>5. CASE opt.apply
  <2>1. total'.files = total.files + Cardinality(done)
    BY <1>1, <1>5 DEF Effect, Count
  <2>2. Cardinality(planned) = Cardinality(done) + Cardinality(planned \ done)
    BY <1>2, <1>3
  <2>3. o.failed = Cardinality(planned \ done)
    BY <1>1, <1>5
  <2> QED BY <1>1, <1>2, <1>4, <2>1, <2>2, <2>3
<1>6. CASE ~opt.apply
  <2>1. total'.files = total.files + Cardinality(planned)
    BY <1>1, <1>6 DEF Effect, Count
  <2> QED BY <1>1, <1>2, <1>4, <1>6, <2>1
<1> QED BY <1>5, <1>6

LEMMA SumTypes ==
  ASSUME StateOK, AddsUp
  PROVE  /\ Sum(GroupFiles, Printed("group")) \in Nat /\ Sum(GroupBytes, Printed("group")) \in Nat
         /\ Sum(FolderFiles, Printed("folder")) \in Nat /\ Moved(outcomes) \in Nat
<1>1. /\ out \in Seq(Event) /\ \A i \in Printed("group") : out[i] \in GroupEvent
      /\ \A i \in Printed("folder") : out[i] \in FolderEvent
      /\ IsFiniteSet(Printed("group")) /\ IsFiniteSet(Printed("folder"))
  BY PrintedTyped DEF StateOK, ReportOK
<1>2. \A i \in Printed("group") : GroupFiles[i] \in Nat /\ GroupBytes[i] \in Nat
  <2>1. \A f \in GroupEvent : Counts(f) \in Nat /\ f.bytes \in Nat
    BY SetFacts DEF GroupEvent, Counts
  <2> QED BY <1>1, <2>1 DEF GroupFiles, GroupBytes, Counts
<1>3. \A i \in Printed("folder") : FolderFiles[i] \in Nat
  <2>1. \A f \in FolderEvent : CountsFit(f.action) => Moved(f.action) \in Nat
    BY MovedTyped DEF FolderEvent, CountsFit
  <2> QED BY <1>1, <2>1 DEF FolderFiles, AddsUp
<1>4. Moved(outcomes) \in Nat
  BY MovedTyped DEF StateOK, PassOK, AddsUp, CountsFit
<1> QED BY <1>1, <1>2, <1>3, <1>4, SumTyped

\* A line that is neither a group nor a folder counts for nothing.
LEMMA OtherLine ==
  ASSUME StateOK, AddsUp, UNCHANGED <<outcomes, total, opt>>,
         NEW e \in Event, e.type \notin {"group", "folder"}, out' = Append(out, e)
  PROVE  AddsUp'
<1>1. out \in Seq(Event)
  BY DEF StateOK, ReportOK
<1>2. /\ Sum(GroupFiles, Printed("group"))' = Sum(GroupFiles, Printed("group")) + 0
      /\ Sum(GroupBytes, Printed("group"))' = Sum(GroupBytes, Printed("group")) + 0
  BY <1>1, GroupSums
<1>3. /\ Sum(FolderFiles, Printed("folder"))' = Sum(FolderFiles, Printed("folder")) + 0
      /\ \A i \in (Printed("folder"))' : CountsFit(out'[i].action)
  BY <1>1, FolderSums DEF AddsUp
<1>4. /\ total.files = Sum(GroupFiles, Printed("group")) + Sum(FolderFiles, Printed("folder"))
                        + Moved(outcomes)
      /\ ~opt.find_folders => total.bytes = Sum(GroupBytes, Printed("group"))
      /\ CountsFit(outcomes)
  BY DEF AddsUp
<1>5. total'.files = Sum(GroupFiles, Printed("group"))' + Sum(FolderFiles, Printed("folder"))'
                     + Moved(outcomes')
  BY <1>2, <1>3, <1>4, SumTypes
<1>6. ~opt'.find_folders => total'.bytes = Sum(GroupBytes, Printed("group"))'
  BY <1>2, <1>3, <1>4, SumTypes
<1> QED BY <1>2, <1>3, <1>4, <1>5, <1>6 DEF AddsUp

LEMMA SameLines ==
  ASSUME AddsUp, UNCHANGED <<outcomes, total, opt, out>> PROVE AddsUp'
<1>1. \A t : Printed(t)' = Printed(t)
  BY DEF Printed
<1>2. GroupFiles' = GroupFiles /\ GroupBytes' = GroupBytes /\ FolderFiles' = FolderFiles
  BY <1>1 DEF GroupFiles, GroupBytes, FolderFiles
<1> QED BY <1>1, <1>2 DEF AddsUp

LEMMA NoLines ==
  ASSUME out = <<>>, outcomes = <<>>, total = [bytes |-> 0, files |-> 0] PROVE AddsUp
<1>1. Printed("group") = {} /\ Printed("folder") = {} /\ DOMAIN outcomes = {}
  BY DEF Printed
<1>2. /\ Sum(GroupFiles, Printed("group")) = 0 /\ Sum(GroupBytes, Printed("group")) = 0
      /\ Sum(FolderFiles, Printed("folder")) = 0 /\ Moved(outcomes) = 0
  BY <1>1, SumEmpty, MovedNothing
<1> QED BY <1>1, <1>2 DEF AddsUp, CountsFit

LEMMA AddsStep ==
  ASSUME LinesOK, StateOK, SummaryOK, AddsUp, [Next]_vars PROVE AddsUp'
<1>0. out \in Seq(Event) /\ outcomes \in Seq(Outcome) /\ total.files \in Nat /\ total.bytes \in Nat
  BY DEF StateOK, ReportOK, PassOK
<1>1. CASE Invoke
  <2>1. out' = <<>> /\ outcomes' = <<>> /\ total' = [bytes |-> 0, files |-> 0]
    BY <1>1 DEF Invoke
  <2>2. (Printed("group"))' = {} /\ (Printed("folder"))' = {} /\ DOMAIN outcomes' = {}
    BY <2>1 DEF Printed
  <2>3. /\ Sum(GroupFiles, Printed("group"))' = 0 /\ Sum(GroupBytes, Printed("group"))' = 0
        /\ Sum(FolderFiles, Printed("folder"))' = 0 /\ Moved(outcomes') = 0
    BY <2>1, <2>2, SumEmpty, MovedNothing
  <2> QED BY <2>1, <2>2, <2>3 DEF AddsUp, CountsFit
<1>2. CASE Quiet
  <2>1. UNCHANGED <<outcomes, total, opt>>
    BY <1>2 DEF Quiet, Idle, session
  <2>2. error \in Event /\ error.type \notin {"group", "folder"}
    BY ErrorTyped DEF error
  <2>3. CASE out' = out
    BY <2>1, <2>3, SameLines
  <2>4. CASE out' = Append(out, error)
    BY <2>1, <2>2, <2>4, OtherLine
  <2> QED BY <1>2, <2>3, <2>4 DEF Quiet
<1>3. ASSUME NEW g, NEW e, ShowGroup(g, e) PROVE AddsUp'
  <2>1. GroupLine(g, e) /\ outcomes' = outcomes /\ opt' = opt /\ out' = Append(out, e)
    BY <1>3 DEF ShowGroup, GroupLine, session
  <2>2. /\ e \in Event /\ e.type = "group"
        /\ total'.files = total.files + Counts(e) /\ total'.bytes = total.bytes + e.bytes
    BY <2>1, GroupCounted
  <2>3. /\ Sum(GroupFiles, Printed("group"))' = Sum(GroupFiles, Printed("group")) + Counts(e)
        /\ Sum(GroupBytes, Printed("group"))' = Sum(GroupBytes, Printed("group")) + e.bytes
    BY <1>0, <2>1, <2>2, GroupSums
  <2>4. /\ Sum(FolderFiles, Printed("folder"))' = Sum(FolderFiles, Printed("folder")) + 0
        /\ \A i \in (Printed("folder"))' : CountsFit(out'[i].action)
    BY <1>0, <2>1, <2>2, FolderSums DEF AddsUp
  <2>5. Counts(e) \in Nat /\ e.bytes \in Nat
    BY <2>2, EventTypes, SetFacts DEF GroupEvent, Counts
  <2>6. /\ total.files = Sum(GroupFiles, Printed("group")) + Sum(FolderFiles, Printed("folder"))
                          + Moved(outcomes)
        /\ ~opt.find_folders => total.bytes = Sum(GroupBytes, Printed("group"))
        /\ CountsFit(outcomes)
    BY DEF AddsUp
  <2>7. total'.files = Sum(GroupFiles, Printed("group"))' + Sum(FolderFiles, Printed("folder"))'
                       + Moved(outcomes')
    BY <2>1, <2>2, <2>3, <2>4, <2>5, <2>6, SumTypes
  <2>8. ~opt'.find_folders => total'.bytes = Sum(GroupBytes, Printed("group"))'
    BY <2>1, <2>2, <2>3, <2>4, <2>5, <2>6, SumTypes
  <2> QED BY <2>1, <2>2, <2>3, <2>4, <2>5, <2>6, <2>7, <2>8 DEF AddsUp
<1>4. CASE HandlePair
  <2>1. PICK planned, done, o : PairLine(planned, done, o)
    BY <1>4, PairSteps DEF StateOK
  <2>2. /\ o \in Outcome /\ outcomes' = Append(outcomes, o) /\ o.failed <= o.file_count
        /\ total'.files = total.files + (o.file_count - o.failed)
    BY <2>1, PairCounted DEF PairLine
  <2>3. Moved(outcomes') = Moved(outcomes) + (o.file_count - o.failed) /\ CountsFit(outcomes')
    BY <1>0, <2>2, MovedGrows DEF AddsUp, CountsFit
  <2>4. out' = out /\ opt' = opt /\ opt.find_folders
    BY <1>4 DEF HandlePair, session, SummaryOK
  <2>5. (Printed("group"))' = Printed("group") /\ (Printed("folder"))' = Printed("folder")
    BY <2>4 DEF Printed
  <2>6. GroupFiles' = GroupFiles /\ FolderFiles' = FolderFiles
    BY <2>4, <2>5 DEF GroupFiles, FolderFiles
  <2>7. o.file_count \in Nat /\ o.failed \in Nat
    BY <2>2 DEF Outcome
  <2> QED BY <2>2, <2>3, <2>4, <2>5, <2>6, <2>7, SumTypes DEF AddsUp
<1>5. CASE EndMatch
  <2> DEFINE e == [type |-> "folder", roots |-> Head(matches).roots, action |-> outcomes]
  <2>1. /\ matches # <<>> /\ out' = Append(out, e) /\ outcomes' = <<>>
        /\ total' = total /\ opt' = opt
    BY <1>5 DEF EndMatch, PrintFolderMatch, session
  <2>2. e \in Event /\ e.type = "folder" /\ e.action = outcomes
    <3>1. Head(matches) \in Match
      BY <2>1, SeqParts DEF StateOK, PassOK
    <3> QED BY <1>0, <3>1 DEF Event, FolderEvent, Match
  <2> HIDE DEF e
  <2>3. /\ Sum(GroupFiles, Printed("group"))' = Sum(GroupFiles, Printed("group")) + 0
        /\ Sum(GroupBytes, Printed("group"))' = Sum(GroupBytes, Printed("group")) + 0
    BY <1>0, <2>1, <2>2, GroupSums
  <2>4. /\ Sum(FolderFiles, Printed("folder"))'
             = Sum(FolderFiles, Printed("folder")) + Moved(outcomes)
        /\ \A i \in (Printed("folder"))' : CountsFit(out'[i].action)
    BY <1>0, <2>1, <2>2, FolderSums DEF AddsUp
  <2>5. Moved(outcomes') = 0 /\ CountsFit(outcomes')
    BY <2>1, MovedNothing DEF CountsFit
  <2>6. /\ total.files = Sum(GroupFiles, Printed("group")) + Sum(FolderFiles, Printed("folder"))
                          + Moved(outcomes)
        /\ ~opt.find_folders => total.bytes = Sum(GroupBytes, Printed("group"))
        /\ CountsFit(outcomes)
    BY DEF AddsUp
  <2>7. total'.files = Sum(GroupFiles, Printed("group"))' + Sum(FolderFiles, Printed("folder"))'
                       + Moved(outcomes')
    BY <2>1, <2>3, <2>4, <2>5, <2>6, SumTypes
  <2>8. ~opt'.find_folders => total'.bytes = Sum(GroupBytes, Printed("group"))'
    BY <2>1, <2>3, <2>4, <2>5, <2>6, SumTypes
  <2> QED BY <2>1, <2>3, <2>4, <2>5, <2>6, <2>7, <2>8 DEF AddsUp
<1>6. CASE Summarize
  <2> DEFINE e == [type |-> "summary", total |-> total]
  <2>1. UNCHANGED <<outcomes, total, opt>> /\ (out' = out \/ out' = Append(out, e))
    BY <1>6 DEF Summarize, pass, session
  <2>2. e \in Event /\ e.type \notin {"group", "folder"}
    BY DEF StateOK, ReportOK, Event, SummaryEvent
  <2> HIDE DEF e
  <2> QED BY <2>1, <2>2, SameLines, OtherLine
<1> QED BY <1>1, <1>2, <1>3, <1>4, <1>5, <1>6, StepKinds
-----------------------------------------------------------------------------
(* The output: the summary comes last.                                       *)

Closing == {"recording", "writing", "exiting", "ended"}

LEMMA ClosingSteps ==
  ASSUME [Next]_vars, ~Invoke, pc \in Closing
  PROVE  pc' \in Closing /\ UNCHANGED <<outcomes, matches, pairs, total, out>>
<1> DEFINE Good == pc' \in Closing /\ UNCHANGED <<outcomes, matches, pairs, total, out>>
<1> USE DEF Closing
<1>1. ASSUME NEW ok \in BOOLEAN, WritePlan(ok) \/ Record(ok) PROVE Good
  BY <1>1 DEF WritePlan, Record, report, pass
<1>2. EndRun \/ Kill \/ UNCHANGED vars => Good
  BY DEF EndRun, Exit, Kill, vars, report, pass
<1>3. ASSUME NEW ok \in BOOLEAN, Confirm(ok) \/ OpenRoot(ok) \/ Similar(ok) PROVE Good
  BY <1>3 DEF Confirm, OpenRoot, Similar
<1>4. ASSUME NEW g \in incoming, ReceiveGroup(g) PROVE Good
  BY <1>4 DEF ReceiveGroup
<1>5. Start \/ ReceiveError \/ ReceiveFinished \/ FindFolders \/ FindFails \/ HandlePair => Good
  BY DEF Start, ReceiveError, ReceiveFinished, FindFolders, FindFails, HandlePair
<1>6. RefusePair \/ EndMatch \/ EndMatches \/ HandleLeftover \/ Summarize => Good
  BY DEF RefusePair, EndMatch, EndMatches, HandleLeftover, Summarize
<1> HIDE DEF Good
<1>7. Good
  BY <1>1, <1>2, <1>3, <1>4, <1>5, <1>6 DEF Next, Program
<1> QED BY <1>7 DEF Good

\* Only the folder pass has outcomes.
OutcomesOK ==
    /\ pc \in {"finding", "matching", "leftover"} => opt.find_folders
    /\ pc \notin {"matching", "ended"} => outcomes = <<>>
    /\ matches = <<>> => pairs = <<>> /\ outcomes = <<>>

LEMMA OutcomesStep ==
  ASSUME StateOK, OutcomesOK, [Next]_vars PROVE OutcomesOK'
<1>0. matches \in Seq(Match) /\ pairs \in Seq({p \in Folder \X Folder : Partnered(p)})
  BY DEF StateOK, PassOK
<1> USE DEF OutcomesOK
<1>1. CASE Invoke
  BY <1>1 DEF Invoke
<1>2. ASSUME NEW g \in incoming, ReceiveGroup(g) PROVE OutcomesOK'
  BY <1>2 DEF ReceiveGroup, pass, session
<1>3. CASE ReceiveError \/ ReceiveFinished
  BY <1>3 DEF ReceiveError, ReceiveFinished, pass, session
<1>4. CASE FindFolders
  BY <1>4 DEF FindFolders, session
<1>5. CASE FindFails \/ EndMatches
  BY <1>5 DEF FindFails, EndMatches, pass, session
<1>6. CASE HandlePair \/ RefusePair
  <2>1. pairs # <<>> /\ pc = "matching" /\ pc' = pc /\ UNCHANGED <<matches, session>>
    BY <1>6 DEF HandlePair, RefusePair
  <2> QED BY <2>1 DEF session
<1>7. CASE EndMatch
  <2>1. /\ matches # <<>> /\ matches' = Tail(matches) /\ outcomes' = <<>>
        /\ pairs' = (IF Len(matches) = 1 THEN <<>> ELSE matches[2].pairs)
        /\ pc = "matching" /\ pc' = pc /\ opt' = opt
    BY <1>7 DEF EndMatch, session
  <2>2. ASSUME Tail(matches) = <<>> PROVE Len(matches) = 1
    <3>1. Len(Tail(matches)) = Len(matches) - 1 /\ Len(matches) \in Nat
      BY <1>0, <2>1, HeadTailProperties
    <3>2. Len(Tail(matches)) = 0
      <4>1. Len(<<>>) = 0
        OBVIOUS
      <4> QED BY ONLY <2>2, <4>1
    <3> QED BY ONLY <3>1, <3>2
  <2> QED BY <2>1, <2>2
<1>8. CASE HandleLeftover
  BY <1>8 DEF HandleLeftover, pass, session
<1>9. CASE Start \/ Summarize \/ EndRun \/ Kill \/ UNCHANGED vars
  BY <1>9 DEF Start, Exit, Summarize, EndRun, Kill, vars, pass, session
<1>10. ASSUME NEW ok \in BOOLEAN,
              Confirm(ok) \/ OpenRoot(ok) \/ Similar(ok) \/ Record(ok) \/ WritePlan(ok)
       PROVE  OutcomesOK'
  BY <1>10 DEF Confirm, OpenRoot, Similar, Record, WritePlan, Exit, pass, session
<1> QED BY <1>1, <1>2, <1>3, <1>4, <1>5, <1>6, <1>7, <1>8, <1>9, <1>10 DEF Next, Program

LEMMA SummaryStep ==
  ASSUME LinesOK, StateOK, SummaryOK, [Next]_vars PROVE SummaryOK'
<1> DEFINE Told0 == \A i \in Printed("summary") :
                       pc \in Closing /\ outcomes = <<>> /\ out[i].total = total
<1>0. OutcomesOK /\ Told0 /\ out \in Seq(Event)
  BY DEF SummaryOK, OutcomesOK, Closing, StateOK, ReportOK
<1>1. OutcomesOK'
  BY <1>0, OutcomesStep
<1>2. CASE Invoke
  <2>1. (Printed("summary"))' = {}
    BY <1>2 DEF Invoke, Printed
  <2> QED BY <1>1, <2>1 DEF SummaryOK, OutcomesOK
<1>3. CASE ~Invoke /\ pc \in Closing
  <2>1. pc' \in Closing /\ UNCHANGED <<outcomes, total, out>>
    BY <1>3, ClosingSteps
  <2>2. (Printed("summary"))' = Printed("summary")
    BY <2>1 DEF Printed
  <2> QED BY <1>0, <1>1, <2>1, <2>2 DEF SummaryOK, OutcomesOK, Closing
<1>4. CASE ~Invoke /\ pc \notin Closing
  <2>1. Printed("summary") = {}
    BY <1>0, <1>4
  <2>2. CASE Summarize
    <3> DEFINE e == [type |-> "summary", total |-> total]
    <3>1. /\ pc' = "recording" /\ outcomes = <<>> /\ outcomes' = <<>> /\ total' = total
          /\ (out' = out \/ out' = Append(out, e))
      BY <1>0, <2>2 DEF Summarize, pass, OutcomesOK
    <3>2. e \in Event /\ e.total = total
      BY DEF StateOK, ReportOK, Event, SummaryEvent
    <3> HIDE DEF e
    <3>3. CASE out' = out
      <4>1. (Printed("summary"))' = {}
        BY <2>1, <3>3 DEF Printed
      <4> QED BY <1>1, <4>1 DEF SummaryOK, OutcomesOK
    <3>4. CASE out' = Append(out, e)
      <4>1. \A i \in (Printed("summary"))' : out'[i] = e
        BY <1>0, <2>1, <3>2, <3>4, Reported
      <4>2. \A i \in (Printed("summary"))' : out'[i].total = total'
        BY <3>1, <3>2, <4>1
      <4> QED BY <1>1, <3>1, <4>2 DEF SummaryOK, OutcomesOK
    <3> QED BY <3>1, <3>3, <3>4
  <2>3. ASSUME NEW e \in Event, e.type # "summary", out' = Append(out, e) PROVE (Printed("summary"))' = {}
    BY <1>0, <2>1, <2>3, Reported
  <2>4. CASE ~Summarize
    <3>1. out' = out => (Printed("summary"))' = {}
      BY <2>1 DEF Printed
    <3>2. Quiet => (Printed("summary"))' = {}
      <4>1. error.type # "summary"
        BY DEF error
      <4> QED BY <2>3, <3>1, <4>1, ErrorTyped DEF Quiet
    <3>3. ASSUME NEW g, NEW e, ShowGroup(g, e) PROVE (Printed("summary"))' = {}
      <4>1. e \in Event /\ e.type = "group" /\ out' = Append(out, e)
        BY <3>3, GroupCounted DEF ShowGroup, GroupLine
      <4> QED BY <2>3, <4>1
    <3>4. EndMatch => (Printed("summary"))' = {}
      <4> SUFFICES ASSUME EndMatch PROVE (Printed("summary"))' = {}
        OBVIOUS
      <4> DEFINE e == [type |-> "folder", roots |-> Head(matches).roots, action |-> outcomes]
      <4>1. matches # <<>> /\ out' = Append(out, e)
        BY DEF EndMatch, PrintFolderMatch
      <4>2. e \in Event /\ e.type # "summary"
        <5>1. Head(matches) \in Match
          BY <4>1, SeqParts DEF StateOK, PassOK
        <5> QED BY <5>1 DEF StateOK, PassOK, Event, FolderEvent, Match
      <4> HIDE DEF e
      <4> QED BY <2>3, <4>1, <4>2
    <3>5. HandlePair => out' = out
      BY DEF HandlePair
    <3>6. (Printed("summary"))' = {}
      BY <1>4, <2>4, <3>1, <3>2, <3>3, <3>4, <3>5, StepKinds
    <3> QED BY <1>1, <3>6 DEF SummaryOK, OutcomesOK
  <2> QED BY <2>2, <2>4
<1> QED BY <1>2, <1>3, <1>4
-----------------------------------------------------------------------------
(* The output: each group is shown once.                                     *)

\* What the lines show of the groups and folders does not change.
Unshown == /\ UNCHANGED <<incoming, collected, covered, matches, session>>
           /\ \/ out' = out
              \/ \E e \in Event : e.type \notin {"group", "folder"} /\ out' = Append(out, e)

LEMMA UnshownKeeps ==
  ASSUME StateOK, Unshown
  PROVE  /\ ShownRoots' = ShownRoots
         /\ \A g : LinesOf(g)' = LinesOf(g) /\ (Waiting(g)' <=> Waiting(g))
                   /\ (FullyCovered(g)' <=> FullyCovered(g))
<1>1. /\ (Printed("group"))' = Printed("group") /\ (Printed("folder"))' = Printed("folder")
      /\ \A i \in Printed("group") \cup Printed("folder") : out'[i] = out[i]
  <2>1. CASE out' = out
    BY <2>1 DEF Printed
  <2>2. ASSUME NEW e \in Event, e.type \notin {"group", "folder"}, out' = Append(out, e)
        PROVE  /\ (Printed("group"))' = Printed("group") /\ (Printed("folder"))' = Printed("folder")
               /\ \A i \in Printed("group") \cup Printed("folder") : out'[i] = out[i]
    <3>1. out \in Seq(Event)
      BY DEF StateOK, ReportOK
    <3>2. Printed("group") \cup Printed("folder") \subseteq DOMAIN out
      BY DEF Printed
    <3> QED BY <2>2, <3>1, <3>2, Reported
  <2> QED BY <2>1, <2>2 DEF Unshown
<1>2. ShownRoots' = ShownRoots
  BY <1>1 DEF ShownRoots
<1>3. \A g : LinesOf(g)' = LinesOf(g)
  BY <1>1 DEF LinesOf
<1>4. \A g : (Waiting(g)' <=> Waiting(g)) /\ (FullyCovered(g)' <=> FullyCovered(g))
  BY DEF Unshown, Waiting, FullyCovered
<1> QED BY <1>2, <1>3, <1>4

\* How such a step moves on.
MovesOn ==
    /\ pc' \in Early => pc \in Early /\ out' = out
    /\ pc' \in Early \cup {"scanning", "finding"} => pc \in Early \cup {"scanning", "finding"}
    /\ pc' \notin {"matching", "ended"} \/ exit' # "none" => matches = <<>>
    /\ pc' \in Early \cup {"similar", "summary", "recording", "writing", "exiting"}
          \/ exit' # "none" \/ ~opt.find_folders => collected = <<>>
    /\ pc' \in {"scanning", "finding", "matching"} =>
          pc \in {"scanning", "finding", "matching"} \/ incoming = Duplicates(before)
    /\ pc' # "ended" \/ exit' # "none" => pc # "ended" \/ exit # "none"

LEMMA UnshownStep ==
  ASSUME StateOK, ShownOK, Unshown, MovesOn PROVE ShownOK'
<1>1. /\ ShownRoots' = ShownRoots
      /\ \A g : LinesOf(g)' = LinesOf(g) /\ (Waiting(g)' <=> Waiting(g))
                /\ (FullyCovered(g)' <=> FullyCovered(g))
  BY UnshownKeeps
<1>2. UNCHANGED <<incoming, collected, covered, matches, before, opt>>
  BY DEF Unshown, session
<1>3. (covered = ShownRoots \cup UNION {m.roots : m \in Range(matches)})'
  BY <1>1, <1>2 DEF ShownOK
<1>4. /\ pc' \in Early => out' = <<>> /\ incoming' = Duplicates(before')
      /\ pc' \in Early \cup {"scanning", "finding"} => covered' = {}
      /\ pc' \notin {"matching", "ended"} \/ exit' # "none" => matches' = <<>>
      /\ pc' \in Early \cup {"similar", "summary", "recording", "writing", "exiting"}
            \/ exit' # "none" \/ ~opt'.find_folders => collected' = <<>>
  BY <1>2 DEF ShownOK, MovesOn
<1>5. /\ \A i, j \in DOMAIN collected' : collected'[i] = collected'[j] => i = j
      /\ Range(collected') \cap incoming' = {}
  BY <1>2 DEF ShownOK
<1>6. pc' \in {"scanning", "finding", "matching"} /\ opt'.find_folders =>
         \A g \in Duplicates(before') : Waiting(g)'
  BY <1>1, <1>2 DEF ShownOK, MovesOn, Waiting
<1>7. pc' # "ended" \/ exit' # "none" =>
         \A g \in Duplicates(before') :
            Cardinality(LinesOf(g)') = IF Waiting(g)' \/ FullyCovered(g)' THEN 0 ELSE 1
  BY <1>1, <1>2 DEF ShownOK, MovesOn
<1> QED BY <1>3, <1>4, <1>5, <1>6, <1>7 DEF ShownOK

LEMMA UnshownSteps ==
  ASSUME StateOK, ExitOK, ShownOK, [Next]_vars
  PROVE  \/ Invoke \/ (\E g \in incoming : ReceiveGroup(g)) \/ HandleLeftover
         \/ FindFolders \/ EndMatch
         \/ Unshown /\ MovesOn
<1> USE DEF Early
<1>0. exit # "none" => pc = "ended"
  BY DEF ExitOK
<1> DEFINE Facts ==
      /\ pc \in Early => out = <<>> /\ incoming = Duplicates(before)
      /\ pc \notin {"matching", "ended"} \/ exit # "none" => matches = <<>>
      /\ pc \in Early \cup {"similar", "summary", "recording", "writing", "exiting"}
            \/ exit # "none" \/ ~opt.find_folders => collected = <<>>
<1>00. Facts
  BY DEF ShownOK
<1>1. Start => MovesOn
  BY <1>0, <1>00 DEF Start, Exit, report, MovesOn
<1>2. ReceiveError \/ ReceiveFinished \/ FindFails => MovesOn
  BY <1>0, <1>00 DEF ReceiveError, ReceiveFinished, FindFails, MovesOn
<1>3. HandlePair \/ RefusePair \/ EndMatches \/ Summarize => MovesOn
  BY <1>0, <1>00 DEF HandlePair, RefusePair, EndMatches, Summarize, MovesOn
<1>4. EndRun \/ Kill \/ UNCHANGED vars => MovesOn
  BY <1>0, <1>00 DEF EndRun, Exit, Kill, vars, report, MovesOn
<1>5. ASSUME NEW ok \in BOOLEAN, Confirm(ok) \/ OpenRoot(ok) PROVE MovesOn
  BY <1>0, <1>00, <1>5 DEF Confirm, OpenRoot, Exit, report, MovesOn
<1>6. ASSUME NEW ok \in BOOLEAN, Similar(ok) \/ Record(ok) \/ WritePlan(ok) PROVE MovesOn
  BY <1>0, <1>00, <1>6 DEF Similar, Record, WritePlan, MovesOn
<1> DEFINE e == [type |-> "summary", total |-> total]
           Silent == /\ UNCHANGED <<incoming, collected, covered, matches, session>>
                     /\ out' = out \/ out' = Append(out, error) \/ out' = Append(out, e)
<1>7. Start \/ ReceiveError \/ ReceiveFinished \/ FindFails => Silent
  BY DEF Start, ReceiveError, ReportError, ReceiveFinished, FindFails, pass, report, error
<1>8. HandlePair \/ RefusePair \/ EndMatches \/ Summarize => Silent
  BY DEF HandlePair, RefusePair, EndMatches, Summarize, pass, report, error
<1>9. EndRun \/ Kill \/ UNCHANGED vars => Silent
  BY DEF EndRun, Kill, vars, pass, report
<1>10. ASSUME NEW ok \in BOOLEAN,
              Confirm(ok) \/ OpenRoot(ok) \/ Similar(ok) \/ Record(ok) \/ WritePlan(ok)
       PROVE  Silent
  BY <1>10 DEF Confirm, OpenRoot, Similar, Record, WritePlan, pass, report, error
<1>11. Silent => Unshown
  <2>1. e \in Event /\ e.type \notin {"group", "folder"}
    BY DEF StateOK, ReportOK, Event, SummaryEvent
  <2>2. error \in Event /\ error.type \notin {"group", "folder"}
    BY ErrorTyped DEF error
  <2> HIDE DEF e
  <2> QED BY <2>1, <2>2 DEF Unshown
<1> HIDE DEF Silent, Facts
<1> QED BY <1>1, <1>2, <1>3, <1>4, <1>5, <1>6, <1>7, <1>8, <1>9, <1>10, <1>11 DEF Next, Program

\* A line for a group is the only change to the lines.
LEMMA LineAdded ==
  ASSUME StateOK, NEW g, NEW e, GroupLine(g, e), covered' = covered
  PROVE  /\ ShownRoots' = ShownRoots
         /\ \A h : (FullyCovered(h)' <=> FullyCovered(h)) /\ (h # g => LinesOf(h)' = LinesOf(h))
         /\ Cardinality(LinesOf(g)) = 0 => Cardinality(LinesOf(g)') = 1
<1> DEFINE x == Len(out) + 1
<1>1. e \in Event /\ e.type = "group" /\ e.group = g /\ out' = Append(out, e) /\ out \in Seq(Event)
  BY DEF GroupLine, GroupEvent, Event, StateOK, ReportOK
<1>2. /\ out'[x] = e /\ x \notin DOMAIN out /\ \A i \in DOMAIN out : out'[i] = out[i]
      /\ (Printed("group"))' = Printed("group") \cup {x}
      /\ (Printed("folder"))' = Printed("folder")
  BY <1>1, Reported
<1>3. Printed("group") \subseteq DOMAIN out /\ Printed("folder") \subseteq DOMAIN out
  BY DEF Printed
<1> HIDE DEF x
<1>4. ShownRoots' = ShownRoots
  BY <1>2, <1>3 DEF ShownRoots
<1>5. \A h : h # g => LinesOf(h)' = LinesOf(h)
  BY <1>1, <1>2, <1>3 DEF LinesOf
<1>6. LinesOf(g)' = LinesOf(g) \cup {x}
  BY <1>1, <1>2, <1>3 DEF LinesOf
<1>7. ASSUME Cardinality(LinesOf(g)) = 0 PROVE Cardinality(LinesOf(g)') = 1
  <2>1. IsFiniteSet(LinesOf(g))
    BY <1>1, PrintedTyped, FS_Subset DEF LinesOf
  <2>2. LinesOf(g) = {}
    BY <1>7, <2>1, FS_EmptySet
  <2>3. LinesOf(g)' = {x}
    BY <1>6, <2>2
  <2> QED BY <2>3, FS_Singleton
<1>8. \A h : FullyCovered(h)' <=> FullyCovered(h)
  BY DEF FullyCovered
<1> QED BY <1>4, <1>5, <1>7, <1>8

LEMMA ReceiveStep ==
  ASSUME LinesOK, StateOK, ExitOK, ShownOK, NEW g \in incoming, ReceiveGroup(g)
  PROVE  ShownOK'
<1>0. /\ pc = "scanning" /\ pc' = pc /\ incoming' = incoming \ {g} /\ exit' = exit /\ exit = "none"
      /\ UNCHANGED <<matches, covered, before, opt>>
  BY DEF ReceiveGroup, pass, session, ExitOK
<1>1. /\ covered = ShownRoots \cup UNION {m.roots : m \in Range(matches)}
      /\ covered = {} /\ matches = <<>> /\ (~opt.find_folders => collected = <<>>)
      /\ \A i, j \in DOMAIN collected : collected[i] = collected[j] => i = j
      /\ Range(collected) \cap incoming = {}
      /\ opt.find_folders => \A h \in Duplicates(before) : Waiting(h)
      /\ \A h \in Duplicates(before) :
            Cardinality(LinesOf(h)) = IF Waiting(h) \/ FullyCovered(h) THEN 0 ELSE 1
  BY <1>0 DEF ShownOK
<1>2. incoming \subseteq Duplicates(before) /\ collected \in Seq(Duplicates(before))
  BY DEF StateOK, GroupsOK
<1>3. g \in Duplicates(before) /\ g \in SUBSET File /\ g # {} /\ Waiting(g)
  BY <1>2, DuplicateFacts DEF Waiting
<1>4. CASE opt.find_folders
  <2>1. out' = out /\ collected' = Append(collected, g)
    BY <1>4 DEF ReceiveGroup, report
  <2>2. /\ DOMAIN collected' = DOMAIN collected \cup {Len(collected) + 1}
        /\ collected'[Len(collected) + 1] = g /\ Len(collected) + 1 \notin DOMAIN collected
        /\ \A i \in DOMAIN collected : collected'[i] = collected[i]
    <3> DEFINE D == Duplicates(before)
    <3> HIDE DEF D
    <3>1. collected \in Seq(D) /\ g \in D
      BY <1>2, <1>3 DEF D
    <3> QED BY <2>1, <3>1, AppendSeq
  <2>3. Range(collected') = Range(collected) \cup {g} /\ g \notin Range(collected)
    BY <1>1, <2>2 DEF Range
  <2>4. \A h : Waiting(h)' <=> Waiting(h)
    BY <1>0, <2>3 DEF Waiting
  <2>5. \A i, j \in DOMAIN collected' : collected'[i] = collected'[j] => i = j
    BY <1>1, <2>2, <2>3 DEF Range
  <2>6. Range(collected') \cap incoming' = {}
    BY <1>0, <1>1, <2>3
  <2>7. /\ ShownRoots' = ShownRoots
        /\ \A h : LinesOf(h)' = LinesOf(h) /\ (FullyCovered(h)' <=> FullyCovered(h))
    BY <1>0, <2>1 DEF ShownRoots, Printed, LinesOf, FullyCovered
  <2>8. \A h \in Duplicates(before') :
           /\ Waiting(h)'
           /\ Cardinality(LinesOf(h)') = IF Waiting(h)' \/ FullyCovered(h)' THEN 0 ELSE 1
    BY <1>0, <1>1, <1>4, <2>4, <2>7
  <2>9. (covered = ShownRoots \cup UNION {m.roots : m \in Range(matches)})'
    BY <1>0, <1>1, <2>7
  <2> QED BY <1>0, <1>1, <1>4, <2>5, <2>6, <2>8, <2>9 DEF ShownOK, Early
<1>5. CASE ~opt.find_folders
  <2>1. HandleGroup(g) /\ collected' = collected
    BY <1>5 DEF ReceiveGroup
  <2>2. PICK e : GroupLine(g, e)
    BY <1>3, <2>1, GroupSteps DEF StateOK
  <2>3. /\ ShownRoots' = ShownRoots
        /\ \A h : (FullyCovered(h)' <=> FullyCovered(h)) /\ (h # g => LinesOf(h)' = LinesOf(h))
        /\ Cardinality(LinesOf(g)) = 0 => Cardinality(LinesOf(g)') = 1
    BY <1>0, <2>2, LineAdded
  <2>4. Range(collected) = {} /\ collected = <<>>
    BY <1>1, <1>5 DEF Range
  <2>5. \A h : Waiting(h)' <=> Waiting(h) /\ h # g
    BY <1>0, <2>1, <2>4 DEF Waiting
  <2>6. ~FullyCovered(g) /\ Cardinality(LinesOf(g)') = 1
    <3>1. ~FullyCovered(g)
      BY <1>1, <1>3 DEF FullyCovered
    <3> QED BY <1>1, <1>3, <2>3, <3>1
  <2>7. \A h \in Duplicates(before') :
           Cardinality(LinesOf(h)') = IF Waiting(h)' \/ FullyCovered(h)' THEN 0 ELSE 1
    BY <1>0, <1>1, <2>3, <2>5, <2>6
  <2>8. (covered = ShownRoots \cup UNION {m.roots : m \in Range(matches)})'
    BY <1>0, <1>1, <2>3
  <2>9. Range(collected') \cap incoming' = {}
    BY <2>1, <2>4
  <2> QED BY <1>0, <1>1, <1>5, <2>1, <2>7, <2>8, <2>9 DEF ShownOK, Early
<1> QED BY <1>4, <1>5

LEMMA LeftoverStep ==
  ASSUME LinesOK, StateOK, ExitOK, ShownOK, HandleLeftover PROVE ShownOK'
<1>0. /\ pc = "leftover" /\ pc' \in {"leftover", "similar"} /\ exit' = exit /\ exit = "none"
      /\ UNCHANGED <<incoming, matches, covered, before, opt>>
  BY DEF HandleLeftover, pass, session, ExitOK
<1>1. /\ covered = ShownRoots \cup UNION {m.roots : m \in Range(matches)}
      /\ matches = <<>> /\ (~opt.find_folders => collected = <<>>)
      /\ \A i, j \in DOMAIN collected : collected[i] = collected[j] => i = j
      /\ Range(collected) \cap incoming = {}
      /\ \A h \in Duplicates(before) :
            Cardinality(LinesOf(h)) = IF Waiting(h) \/ FullyCovered(h) THEN 0 ELSE 1
  BY <1>0 DEF ShownOK
<1>2. collected \in Seq(Duplicates(before))
  BY DEF StateOK, GroupsOK
<1>3. CASE collected = <<>>
  <2>1. collected' = collected /\ out' = out
    BY <1>3 DEF HandleLeftover, report
  <2>2. Unshown
    BY <1>0, <2>1 DEF Unshown, HandleLeftover
  <2>3. MovesOn
    BY <1>0, <1>1, <1>3 DEF MovesOn, Early
  <2> QED BY <2>2, <2>3, UnshownStep
<1>4. ASSUME collected # <<>>, NEW g, g = Head(collected), NEW rest, rest = Tail(collected)
      PROVE  ShownOK'
  <2> DEFINE D == Duplicates(before)
  <2>1. collected' = rest /\ pc' = "leftover"
        /\ (IF FullyCovered(g) THEN UNCHANGED report ELSE HandleGroup(g))
    BY <1>0, <1>4 DEF HandleLeftover
  <2>2. g \in D /\ g = collected[1] /\ 1 \in DOMAIN collected
    <3> HIDE DEF D
    <3>1. collected \in Seq(D)
      BY <1>2 DEF D
    <3> QED BY <1>4, <3>1, SeqParts
  <2>3. g \in SUBSET File /\ Waiting(g)
    BY <2>2, DuplicateFacts DEF Waiting, Range
  <2>4. /\ DOMAIN rest = 1..(Len(collected) - 1)
        /\ \A i \in DOMAIN rest : rest[i] = collected[i + 1] /\ i + 1 \in DOMAIN collected
        /\ \A i \in DOMAIN collected : i # 1 => i - 1 \in DOMAIN rest /\ (i - 1) + 1 = i
    <3> HIDE DEF D
    <3>1. collected \in Seq(D)
      BY <1>2 DEF D
    <3> QED BY <1>4, <3>1
  <2> HIDE DEF D
  <2>5. Range(collected) = Range(rest) \cup {g} /\ g \notin Range(rest)
    <3>1. \A i \in DOMAIN rest : rest[i] # g
      BY <1>1, <2>2, <2>4
    <3>2. \A i \in DOMAIN collected : collected[i] = g \/ \E j \in DOMAIN rest : rest[j] = collected[i]
      BY <2>2, <2>4
    <3> QED BY <2>2, <2>4, <3>1, <3>2 DEF Range
  <2>6. \A i, j \in DOMAIN rest : rest[i] = rest[j] => i = j
    BY <1>1, <2>4
  <2>7. \A h : Waiting(h)' <=> Waiting(h) /\ h # g
    <3>1. g \notin incoming
      BY <1>1, <2>5
    <3> QED BY <1>0, <2>1, <2>5, <3>1 DEF Waiting
  <2>8. /\ ShownRoots' = ShownRoots
        /\ \A h : (FullyCovered(h)' <=> FullyCovered(h)) /\ (h # g => LinesOf(h)' = LinesOf(h))
        /\ Cardinality(LinesOf(g)') = IF FullyCovered(g) THEN 0 ELSE 1
    <3>1. Cardinality(LinesOf(g)) = 0
      BY <1>1, <2>2, <2>3 DEF D
    <3>2. CASE FullyCovered(g)
      <4>1. out' = out
        BY <2>1, <3>2 DEF report
      <4>2. ShownRoots' = ShownRoots /\ \A h : LinesOf(h)' = LinesOf(h)
        BY <4>1 DEF ShownRoots, Printed, LinesOf
      <4>3. \A h : FullyCovered(h)' <=> FullyCovered(h)
        BY <1>0 DEF FullyCovered
      <4>4. Cardinality(LinesOf(g)') = 0
        BY ONLY <3>1, <4>2
      <4> QED BY ONLY <3>2, <4>2, <4>3, <4>4
    <3>3. CASE ~FullyCovered(g)
      <4>1. PICK e : GroupLine(g, e)
        BY <2>1, <2>3, <3>3, GroupSteps DEF StateOK
      <4>2. covered' = covered
        BY <1>0
      <4>3. /\ ShownRoots' = ShownRoots
            /\ \A h : (FullyCovered(h)' <=> FullyCovered(h)) /\ (h # g => LinesOf(h)' = LinesOf(h))
            /\ Cardinality(LinesOf(g)) = 0 => Cardinality(LinesOf(g)') = 1
        BY <4>1, <4>2, LineAdded
      <4> QED BY ONLY <3>1, <3>3, <4>3
    <3> QED BY <3>2, <3>3
  <2>9. \A h \in Duplicates(before') :
           Cardinality(LinesOf(h)') = IF Waiting(h)' \/ FullyCovered(h)' THEN 0 ELSE 1
    <3>1. Duplicates(before') = Duplicates(before)
      BY <1>0
    <3>2. \A h \in Duplicates(before) :
             Cardinality(LinesOf(h)) = IF Waiting(h) \/ FullyCovered(h) THEN 0 ELSE 1
      BY <1>1
    <3> SUFFICES ASSUME NEW h \in Duplicates(before')
                 PROVE  Cardinality(LinesOf(h)') = IF Waiting(h)' \/ FullyCovered(h)' THEN 0 ELSE 1
      OBVIOUS
    <3>3. CASE h = g
      <4>1. Cardinality(LinesOf(h)') = IF FullyCovered(h) THEN 0 ELSE 1
        BY ONLY <2>8, <3>3
      <4>2. ~Waiting(h)' /\ (FullyCovered(h)' <=> FullyCovered(h))
        BY ONLY <2>7, <2>8, <3>3
      <4> QED BY ONLY <4>1, <4>2
    <3>4. CASE h # g
      <4>1. /\ LinesOf(h)' = LinesOf(h) /\ (FullyCovered(h)' <=> FullyCovered(h))
            /\ (Waiting(h)' <=> Waiting(h))
        BY ONLY <2>7, <2>8, <3>4
      <4>2. Cardinality(LinesOf(h)) = IF Waiting(h) \/ FullyCovered(h) THEN 0 ELSE 1
        BY ONLY <3>1, <3>2
      <4>3. Cardinality(LinesOf(h)') = Cardinality(LinesOf(h))
        BY ONLY <4>1
      <4> QED BY ONLY <4>1, <4>2, <4>3
    <3> QED BY <3>3, <3>4
  <2>10. (covered = ShownRoots \cup UNION {m.roots : m \in Range(matches)})'
    BY <1>0, <1>1, <2>8
  <2>11. /\ Range(collected') \cap incoming' = {}
         /\ \A i, j \in DOMAIN collected' : collected'[i] = collected'[j] => i = j
    BY <1>0, <1>1, <2>1, <2>5, <2>6
  <2>12. opt.find_folders
    BY <1>1, <1>4
  <2> QED BY <1>0, <1>1, <2>1, <2>9, <2>10, <2>11, <2>12 DEF ShownOK, Early
<1> QED BY <1>3, <1>4

\* While the folder pass is at work every group is still to be shown.
LEMMA FindFoldersStep ==
  ASSUME ExitOK, SummaryOK, ShownOK, FindFolders PROVE ShownOK'
<1>0. /\ pc = "finding" /\ pc' = "matching" /\ exit = "none" /\ exit' = "none" /\ opt.find_folders
      /\ UNCHANGED <<incoming, collected, before, opt, out>>
      /\ covered' = UNION {m.roots : m \in Range(matches')}
  BY DEF FindFolders, session, report, ExitOK, SummaryOK
<1>1. /\ covered = ShownRoots \cup UNION {m.roots : m \in Range(matches)} /\ covered = {}
      /\ \A i, j \in DOMAIN collected : collected[i] = collected[j] => i = j
      /\ Range(collected) \cap incoming = {}
      /\ \A h \in Duplicates(before) : Waiting(h)
      /\ \A h \in Duplicates(before) :
            Cardinality(LinesOf(h)) = IF Waiting(h) \/ FullyCovered(h) THEN 0 ELSE 1
  BY <1>0 DEF ShownOK
<1>2. ShownRoots' = {} /\ \A h : LinesOf(h)' = LinesOf(h) /\ (Waiting(h)' <=> Waiting(h))
  BY <1>0, <1>1 DEF ShownRoots, LinesOf, Printed, Waiting
<1>3. \A h \in Duplicates(before') :
         /\ Waiting(h)'
         /\ Cardinality(LinesOf(h)') = IF Waiting(h)' \/ FullyCovered(h)' THEN 0 ELSE 1
  BY <1>0, <1>1, <1>2
<1>4. (covered = ShownRoots \cup UNION {m.roots : m \in Range(matches)})'
  BY <1>0, <1>2
<1> QED BY <1>0, <1>1, <1>3, <1>4 DEF ShownOK, Early

LEMMA EndMatchStep ==
  ASSUME StateOK, ExitOK, SummaryOK, ShownOK, EndMatch PROVE ShownOK'
<1>0. /\ pc = "matching" /\ pc' = "matching" /\ exit = "none" /\ exit' = "none" /\ opt.find_folders
      /\ UNCHANGED <<incoming, collected, covered, before, opt>>
      /\ matches # <<>> /\ matches' = Tail(matches)
  BY DEF EndMatch, session, ExitOK, SummaryOK
<1>1. /\ covered = ShownRoots \cup UNION {m.roots : m \in Range(matches)}
      /\ \A i, j \in DOMAIN collected : collected[i] = collected[j] => i = j
      /\ Range(collected) \cap incoming = {}
      /\ \A h \in Duplicates(before) : Waiting(h)
      /\ \A h \in Duplicates(before) :
            Cardinality(LinesOf(h)) = IF Waiting(h) \/ FullyCovered(h) THEN 0 ELSE 1
  BY <1>0 DEF ShownOK
<1>2. PICK m : m = Head(matches) /\ m \in Match
  BY <1>0, SeqParts DEF StateOK, PassOK
<1>3. Range(matches) = {m} \cup Range(matches')
  <2>1. /\ 1 \in DOMAIN matches /\ matches[1] = m
        /\ \A i \in DOMAIN matches' : matches'[i] = matches[i + 1] /\ i + 1 \in DOMAIN matches
        /\ \A i \in DOMAIN matches : i # 1 => i - 1 \in DOMAIN matches' /\ (i - 1) + 1 = i
    <3> DEFINE M == Match
    <3> HIDE DEF M
    <3>1. matches \in Seq(M)
      BY DEF StateOK, PassOK, M
    <3> QED BY <1>0, <1>2, <3>1
  <2>2. \A i \in DOMAIN matches : matches[i] = m \/ \E j \in DOMAIN matches' : matches'[j] = matches[i]
    BY <2>1
  <2> QED BY <2>1, <2>2 DEF Range
<1>4. PICK e \in Event : e.type = "folder" /\ e.roots = m.roots /\ out' = Append(out, e)
  <2> DEFINE e == [type |-> "folder", roots |-> m.roots, action |-> outcomes]
  <2>1. e \in Event /\ e.type = "folder" /\ e.roots = m.roots
    BY <1>2 DEF StateOK, PassOK, Event, FolderEvent, Match
  <2>2. out' = Append(out, e)
    BY <1>2 DEF EndMatch, PrintFolderMatch
  <2> HIDE DEF e
  <2> QED BY <2>1, <2>2
<1>5. PICK x : /\ out'[x] = e /\ x \notin DOMAIN out /\ \A i \in DOMAIN out : out'[i] = out[i]
               /\ (Printed("group"))' = Printed("group")
               /\ (Printed("folder"))' = Printed("folder") \cup {x}
  <2>1. out \in Seq(Event)
    BY DEF StateOK, ReportOK
  <2> QED BY <1>4, <2>1, Reported
<1>6. Printed("group") \subseteq DOMAIN out /\ Printed("folder") \subseteq DOMAIN out
  BY DEF Printed
<1>7. ShownRoots' = ShownRoots \cup m.roots
  <2>1. ShownRoots' = UNION {out'[i].roots : i \in Printed("folder") \cup {x}}
    BY <1>5 DEF ShownRoots
  <2>2. \A i \in Printed("folder") : out'[i].roots = out[i].roots
    BY ONLY <1>5, <1>6
  <2>3. out'[x].roots = m.roots
    BY ONLY <1>4, <1>5
  <2> QED BY <2>1, <2>2, <2>3 DEF ShownRoots
<1>8. \A h : LinesOf(h)' = LinesOf(h) /\ (Waiting(h)' <=> Waiting(h))
             /\ (FullyCovered(h)' <=> FullyCovered(h))
  BY <1>0, <1>5, <1>6 DEF LinesOf, Waiting, FullyCovered
<1>9. \A h \in Duplicates(before') :
         /\ Waiting(h)'
         /\ Cardinality(LinesOf(h)') = IF Waiting(h)' \/ FullyCovered(h)' THEN 0 ELSE 1
  BY <1>0, <1>1, <1>8
<1>10. (covered = ShownRoots \cup UNION {n.roots : n \in Range(matches)})'
  <2>1. UNION {n.roots : n \in Range(matches)} = m.roots \cup UNION {n.roots : n \in Range(matches')}
    BY <1>3
  <2> QED BY <1>0, <1>1, <1>7, <2>1
<1> QED BY <1>0, <1>1, <1>9, <1>10 DEF ShownOK, Early

\* At the start nothing is shown and every group is in the scan.
LEMMA NothingShown ==
  ASSUME pc = "ready", out = <<>>, incoming = Duplicates(before), collected = <<>>,
         matches = <<>>, covered = {}
  PROVE  ShownOK
<1>1. Range(collected) = {} /\ Range(matches) = {} /\ DOMAIN collected = {}
  BY DEF Range
<1>2. Printed("group") = {} /\ Printed("folder") = {}
  BY DEF Printed
<1>3. ShownRoots = {} /\ \A g : LinesOf(g) = {}
  BY <1>2 DEF ShownRoots, LinesOf
<1>4. \A g \in Duplicates(before) : Waiting(g) /\ Cardinality(LinesOf(g)) = 0
  BY <1>3, FS_EmptySet DEF Waiting
<1>5. covered = ShownRoots \cup UNION {m.roots : m \in Range(matches)}
  BY <1>1, <1>3
<1> QED BY <1>1, <1>4, <1>5 DEF ShownOK, Early

LEMMA ShownStep ==
  ASSUME LinesOK, StateOK, ExitOK, SummaryOK, ShownOK, [Next]_vars PROVE ShownOK'
<1>1. CASE Invoke
  <2>1. /\ pc' = "ready" /\ out' = <<>> /\ incoming' = Duplicates(before') /\ collected' = <<>>
        /\ matches' = <<>> /\ covered' = {}
    BY <1>1 DEF Invoke
  <2>2. Range(collected') = {} /\ Range(matches') = {} /\ DOMAIN collected' = {}
    BY <2>1 DEF Range
  <2>3. (Printed("group"))' = {} /\ (Printed("folder"))' = {}
    BY <2>1 DEF Printed
  <2>4. ShownRoots' = {} /\ \A g : LinesOf(g)' = {}
    BY <2>3 DEF ShownRoots, LinesOf
  <2>5. \A g \in Duplicates(before') : Waiting(g)' /\ Cardinality(LinesOf(g)') = 0
    BY <2>1, <2>4, FS_EmptySet DEF Waiting
  <2>6. (covered = ShownRoots \cup UNION {m.roots : m \in Range(matches)})'
    BY <2>1, <2>2, <2>4
  <2> QED BY <2>1, <2>2, <2>5, <2>6 DEF ShownOK, Early
<1>2. (\E g \in incoming : ReceiveGroup(g)) => ShownOK'
  BY ReceiveStep
<1>3. HandleLeftover => ShownOK'
  BY LeftoverStep
<1>4. FindFolders => ShownOK'
  BY FindFoldersStep
<1>5. EndMatch => ShownOK'
  BY EndMatchStep
<1>6. Unshown /\ MovesOn => ShownOK'
  BY UnshownStep
<1> QED BY <1>1, <1>2, <1>3, <1>4, <1>5, <1>6, UnshownSteps
-----------------------------------------------------------------------------
(* The output is true.                                                       *)

OutputOK == RunOK /\ ExitOK /\ AddsUp /\ SummaryOK /\ ShownOK

LEMMA OutputInit == Init => OutputOK
<1> SUFFICES ASSUME Init PROVE OutputOK
  OBVIOUS
<1>1. /\ pc = "ready" /\ out = <<>> /\ outcomes = <<>> /\ pairs = <<>> /\ matches = <<>>
      /\ covered = {} /\ collected = <<>> /\ incoming = Duplicates(before) /\ plan = {}
      /\ had_errors = FALSE /\ exit = "none" /\ total = [bytes |-> 0, files |-> 0]
  BY DEF Init
<1>2. ExitOK
  BY <1>1 DEF ExitOK
<1>3. SummaryOK
  <2>1. Printed("summary") = {}
    BY <1>1 DEF Printed
  <2> QED BY <1>1, <2>1 DEF SummaryOK
<1> QED BY <1>1, <1>2, <1>3, RunInit, NoLines, NothingShown DEF OutputOK

LEMMA OutputStep == OutputOK /\ [Next]_vars => OutputOK'
<1> SUFFICES ASSUME OutputOK, [Next]_vars PROVE OutputOK'
  OBVIOUS
<1>1. LinesOK /\ FlawsOK /\ StateOK
  BY DEF OutputOK, RunOK
<1> QED BY <1>1, RunStep, ExitStep, AddsStep, SummaryStep, ShownStep DEF OutputOK

LEMMA TypesHere == ASSUME LinesOK, StateOK, HistoryOK PROVE TypeOK
<1>1. /\ inode \in [File -> File \cup {Gone}] /\ archived \subseteq File
      /\ opt \in CommandLines
  BY DEF StateOK, TreeOK, Tree, LinesOK, AcceptedLines
<1>2. incoming \subseteq SUBSET File /\ collected \in Seq(SUBSET File)
  <2>1. Duplicates(before) \subseteq SUBSET File
    BY DuplicateFacts DEF StateOK, BeforeOK
  <2> DEFINE D == Duplicates(before)
             F == SUBSET File
  <2>2. collected \in Seq(D) /\ incoming \subseteq D
    BY DEF StateOK, GroupsOK
  <2> HIDE DEF D, F
  <2>3. D \subseteq F
    BY <2>1 DEF D, F
  <2>4. collected \in Seq(F) /\ incoming \subseteq F
    BY ONLY <2>2, <2>3
  <2> QED BY <2>4 DEF F
<1>3. \A m \in Range(matches) : m.roots \subseteq Folder
  <2>1. \A i \in DOMAIN matches : matches[i] \in Match
    BY SeqParts DEF StateOK, PassOK
  <2> QED BY <2>1 DEF Range, Match
<1>4. pairs \in Seq(Folder \X Folder)
  <2> DEFINE P == {p \in Folder \X Folder : Partnered(p)}
             F == Folder \X Folder
  <2>1. pairs \in Seq(P) /\ P \subseteq F
    BY DEF StateOK, PassOK
  <2> HIDE DEF P, F
  <2>2. pairs \in Seq(F)
    BY ONLY <2>1
  <2> QED BY <2>2 DEF F
<1>5. \A r \in Range(rows) : r.path \in File /\ r.bytes \in Nat /\ r.succeeded \in BOOLEAN
  <2>1. \A i \in DOMAIN rows : rows[i] \in ActionRow
    BY SeqParts DEF StateOK, ReportOK
  <2> QED BY <2>1 DEF Range, ActionRow
<1>6. total.bytes \in Nat /\ total.files \in Nat
  BY DEF StateOK, ReportOK
<1>7. plan \subseteq SUBSET File /\ plan_file \subseteq SUBSET File
  BY DEF StateOK, GroupsOK
<1>8. Len(history) <= begun
  <2>1. before.recorded \in Nat /\ begun \in Nat
    BY DEF StateOK, BeforeOK, PlaceOK
  <2>2. before.recorded < begun
        /\ (Len(history) = before.recorded \/ Len(history) = before.recorded + 1)
    BY DEF HistoryOK
  <2> QED BY ONLY <2>1, <2>2
<1> QED BY <1>1, <1>2, <1>3, <1>4, <1>5, <1>6, <1>7, <1>8 DEF TypeOK, StateOK, PlaceOK

LEMMA AddsUpHere == ASSUME AddsUp, SummaryOK, StateOK PROVE OutputAddsUp
<1> SUFFICES ASSUME NEW i \in Printed("summary")
             PROVE  /\ out[i].total.files = Sum(GroupFiles, Printed("group"))
                                              + Sum(FolderFiles, Printed("folder"))
                    /\ ~opt.find_folders => out[i].total.bytes = Sum(GroupBytes, Printed("group"))
  BY DEF OutputAddsUp, GroupFiles, FolderFiles, GroupBytes
<1>1. outcomes = <<>> /\ out[i].total = total
  BY DEF SummaryOK
<1>2. Moved(outcomes) = 0
  BY <1>1, MovedNothing
<1>3. total.files = Sum(GroupFiles, Printed("group")) + Sum(FolderFiles, Printed("folder"))
                      + Moved(outcomes)
      /\ (~opt.find_folders => total.bytes = Sum(GroupBytes, Printed("group")))
  BY DEF AddsUp
<1>4. Sum(GroupFiles, Printed("group")) \in Nat /\ Sum(FolderFiles, Printed("folder")) \in Nat
  BY SumTypes DEF StateOK, ReportOK, AddsUp
<1> QED BY <1>1, <1>2, <1>3, <1>4

LEMMA ShownHere == ASSUME ShownOK, ExitOK PROVE EveryGroupShown
<1> SUFFICES ASSUME exit # "none", NEW g \in Duplicates(before) \ incoming
             PROVE  Cardinality(LinesOf(g))
                      = IF g \subseteq UNION {FilesIn[d] : d \in ShownRoots} THEN 0 ELSE 1
  BY DEF EveryGroupShown, LinesOf, ShownRoots
<1>1. matches = <<>> /\ collected = <<>> /\ covered = ShownRoots \cup UNION {m.roots : m \in Range(matches)}
  BY DEF ShownOK
<1>2. covered = ShownRoots /\ ~Waiting(g)
  BY <1>1 DEF Range, Waiting
<1>3. Cardinality(LinesOf(g)) = IF Waiting(g) \/ FullyCovered(g) THEN 0 ELSE 1
  BY DEF ShownOK
<1> QED BY <1>2, <1>3 DEF FullyCovered

\* Whatever a run is asked for and however it goes: its totals are those of the
\* tree and of the lines before the summary, and when it ends every group the scan
\* has sent was shown once, by itself or under the folder matches that hold it.
THEOREM OutputAlwaysTrue == Spec => []OutputTrue
<1>1. OutputOK => OutputTrue
  <2> SUFFICES ASSUME OutputOK PROVE OutputTrue
    OBVIOUS
  <2>1. LinesOK /\ StateOK /\ HistoryOK /\ DoneOK
    BY DEF OutputOK, RunOK
  <2>2. CountedOnce
    BY <2>1 DEF DoneOK, CountedOnce
  <2> QED BY <2>1, <2>2, TypesHere, AddsUpHere, ShownHere DEF OutputOK, OutputTrue
<1> QED BY <1>1, OutputInit, OutputStep, PTL DEF Spec
=============================================================================
