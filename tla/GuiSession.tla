----------------------------- MODULE GuiSession -----------------------------
(***************************************************************************)
(* A session of the graphical application: what the user does on the page  *)
(* (ui/app.js), the commands the page invokes (commands.rs, payload.rs),   *)
(* the scan threads that stream events to it, the scan profiles on disk    *)
(* (profiles.rs) and a second instance that uses the same profiles.  The   *)
(* commands are synchronous: the application answers them one by one, in   *)
(* the order the page has invoked them, while the user goes on clicking.   *)
(* A command is answered in one step; saving profiles takes several.       *)
(*                                                                         *)
(* A file is the number of its path in sorted order; what a scan and one   *)
(* action do to the disk in detail is in ScanPipeline and ActionLayer, and *)
(* acting on folders in FolderPass.                                        *)
(***************************************************************************)
EXTENDS Perceptual

CONSTANTS File,        \* the paths below the scan root
          Initial,     \* what each file holds at first
          Photo,       \* the files of category photo, the others are documents
          Age,         \* the age of each file's mtime
          Protections, \* what can be typed as protected folders: sets of files
          Orders,      \* the orders a traversal finds the photos in
          Looks,       \* what contents can look like: hashes, or Unreadable
          MaxDistance, \* max_hamming_distance
          Kinds,       \* the actions the user takes
          Profile, Preset,      \* names and options of scan profiles
          Torn,                 \* a profiles file that does not parse
          Unreadable, Gone, None, Loading,
          Sessions              \* what a session is set up with, and its bounds

ASSUME FileAssumption ==
    /\ File \subseteq Nat /\ IsFiniteSet(File) /\ Photo \subseteq File
    /\ {Gone, None, Loading} \cap File = {}
ASSUME ProtectionsAssumption == Protections \subseteq SUBSET File
ASSUME OrdersAssumption ==
    \A order \in Orders : /\ order \in [1..Cardinality(Photo) -> Photo]
                           /\ \A i, j \in 1..Cardinality(Photo) : order[i] = order[j] => i = j
ASSUME KindsAssumption == Kinds \subseteq {"delete", "hardlink", "copy"}
ASSUME SessionsAssumption ==
    Sessions \subseteq [rule : {"alphabetical", "newest"}, mode : {"exact", "similar"},
                        refs : SUBSET File, budget : [{"scans", "clicks", "saves", "kills", "others"} -> Nat]]

VARIABLES
    inode,     \* the file each path names: itself, another's, or Gone
    threads,   \* the scan threads
    events,    \* emitted scan-events the page has not handled
    calls,     \* invoked commands that are not answered
    state,     \* the state object of the page
    scan,      \* the number of scans started
    store,     \* scan_profiles.json
    io,        \* where each instance is in saving profiles
    history,   \* what has happened that excuses something, see below
    budget     \* what is left of the bounds

disk == <<inode>>
profile_store == <<store, io>>
vars == <<disk, threads, events, calls, state, scan, profile_store, history, budget>>

Category(f) == IF f \in Photo THEN "photo" ELSE "document"
Content == {Initial[f] : f \in File}
Holding(c) == {f \in File : inode[f] # Gone /\ Initial[inode[f]] = c}
InOrder(S) ==
    CHOOSE s \in [1..Cardinality(S) -> S] :
       \A i, j \in 1..Cardinality(S) : i < j => s[i] < s[j]

Keys == 1..Cardinality(Content)
NoChoice == [k \in Keys |-> None]
NoProfiles == [n \in Profile |-> None]
Idle == [stage |-> "idle"]

\* A page that has just been loaded asks for the profiles (loadScanProfiles).
FreshPage ==
    [scanning |-> FALSE, groups |-> <<>>, folderMatches |-> 0, similarGroups |-> {},
     typeFilter |-> {"photo", "document"},
     keepChoice |-> NoChoice, keepRule |-> "alphabetical", ruleKeepChoice |-> NoChoice,
     referencePaths |-> {}, matchMode |-> "exact", scanProfiles |-> NoProfiles]
Startup == <<[command |-> "list_scan_profiles"]>>

Init ==
    /\ inode = [f \in File |-> f]
    /\ threads = {} /\ events = <<>> /\ calls = Startup
    /\ \E s \in Sessions :
          /\ state = [FreshPage EXCEPT !.keepRule = s.rule, !.matchMode = s.mode,
                                         !.referencePaths = s.refs]
          /\ budget = s.budget
    /\ scan = 0 /\ store = NoProfiles /\ io = [app |-> Idle, other |-> Idle]
    /\ history = [moved |-> FALSE, lookup_failed |-> FALSE, disturbed |-> FALSE,
                  images |-> {}, wanted |-> NoProfiles]

Spend(what) == budget[what] > 0 /\ budget' = [budget EXCEPT ![what] = @ - 1]
Click == Spend("clicks")
Invoke(call) == calls' = Append(calls, call)
Choosing == \E c \in ToSet(calls) : c.command = "choose_keep"
-----------------------------------------------------------------------------
(* The user.                                                               *)

\* The button is disabled while a scan runs.
CanStart == ~state.scanning

\* Mutant: the groups are left for the events to replace.
ClearedButGroups ==
    [state EXCEPT !.scanning = TRUE, !.folderMatches = 0, !.similarGroups = {},
                  !.keepChoice = NoChoice, !.ruleKeepChoice = NoChoice]

Cleared ==
    [state EXCEPT !.scanning = TRUE, !.groups = <<>>, !.folderMatches = 0, !.similarGroups = {},
                  !.keepChoice = NoChoice, !.ruleKeepChoice = NoChoice]

\* startScan.
StartScan ==
    /\ CanStart /\ Spend("scans")
    /\ scan' = scan + 1
    /\ state' = Cleared
    /\ Invoke([command |-> "start_scan", scan |-> scan + 1])
    /\ history' = [history EXCEPT !.moved = Choosing, !.lookup_failed = FALSE, !.images = {}]
    /\ UNCHANGED <<disk, threads, events, profile_store>>

\* baseReviewItems: the key of a group is its place among those shown.
Visible == {i \in DOMAIN state.groups : Category(state.groups[i].paths[1]) \in state.typeFilter}
Shown == [k \in 1..Cardinality(Visible) |-> state.groups[InOrder(Visible)[k]]]

\* "Show in review": the choices made so far stay where they are.
ToggleType(category) ==
    /\ Click
    /\ state' = [state EXCEPT !.typeFilter = IF category \in @ THEN @ \ {category}
                                             ELSE @ \cup {category}]
    /\ history' = [history EXCEPT !.moved = \/ @ \/ Choosing
                                           \/ NoChoice # state.keepChoice
                                           \/ NoChoice # state.ruleKeepChoice]
    /\ UNCHANGED <<disk, threads, events, calls, scan, profile_store>>

ToggleKeepNewest ==
    /\ Click
    /\ state' = [state EXCEPT !.keepRule = IF @ = "newest" THEN "alphabetical" ELSE "newest",
                              !.ruleKeepChoice = NoChoice]
    /\ UNCHANGED <<disk, threads, events, calls, scan, profile_store, history>>

TypeProtected(refs) ==
    /\ refs # state.referencePaths /\ Click
    /\ state' = [state EXCEPT !.referencePaths = refs]
    /\ UNCHANGED <<disk, threads, events, calls, scan, profile_store, history>>

\* ensureRuleKeepChoice asks once for each key whose group is displayed.
NeedsRule(k) ==
    /\ state.keepRule # "alphabetical" \/ state.referencePaths # {}
    /\ state.keepChoice[k] = None /\ state.ruleKeepChoice[k] = None

Display(k) ==
    /\ k \in DOMAIN Shown /\ NeedsRule(k)
    /\ state' = [state EXCEPT !.ruleKeepChoice[k] = Loading]
    /\ Invoke([command |-> "choose_keep", key |-> k, paths |-> Shown[k].paths,
               rule |-> state.keepRule, refs |-> state.referencePaths])
    /\ UNCHANGED <<disk, threads, events, scan, profile_store, history, budget>>

\* fileReviewMain: a badge that was clicked, then the rule's answer, then the
\* first path.
KeepPath(k) ==
    IF state.keepChoice[k] # None THEN state.keepChoice[k]
    ELSE IF state.ruleKeepChoice[k] \in File THEN state.ruleKeepChoice[k]
    ELSE Shown[k].paths[1]

ChooseKeep(k) ==
    /\ k \in DOMAIN Shown /\ ~NeedsRule(k) /\ Click
    /\ \E f \in ToSet(Shown[k].paths) : state' = [state EXCEPT !.keepChoice[k] = f]
    /\ UNCHANGED <<disk, threads, events, calls, scan, profile_store, history>>

\* applyAction: the kept path first, and the rest of the group.
ApplyAction(k) ==
    /\ k \in DOMAIN Shown /\ ~NeedsRule(k) /\ Click
    /\ \E kind \in Kinds :
          LET keep == KeepPath(k)
          IN  Invoke([command |-> "run_action", kind |-> kind, refs |-> state.referencePaths,
                      paths |-> <<keep>> \o InOrder(ToSet(Shown[k].paths) \ {keep}),
                      group |-> ToSet(Shown[k].paths), moved |-> history.moved])
    /\ UNCHANGED <<disk, threads, events, state, scan, profile_store, history>>

\* saveScanProfile and deleteScanProfile.
ChangeProfile(name, preset) ==
    /\ Spend("saves")
    /\ Invoke([command |-> "change_profile", name |-> name, preset |-> preset])
    /\ UNCHANGED <<disk, threads, events, state, scan, profile_store, history>>

User ==
    \/ StartScan \/ ToggleKeepNewest
    \/ \E category \in {"photo", "document"} : ToggleType(category)
    \/ \E refs \in Protections : TypeProtected(refs)
    \/ \E k \in Keys : Display(k) \/ ChooseKeep(k) \/ ApplyAction(k)
    \/ \E name \in Profile, preset \in Preset \cup {None} : ChangeProfile(name, preset)
-----------------------------------------------------------------------------
(* A scan thread.                                                          *)

Emit(event) == events' = Append(events, event)

\* scan: a root that is no directory is reported, and that is all.
OpenRoot(t, ok) ==
    /\ t.phase = "opening"
    /\ IF ok THEN threads' = (threads \ {t}) \cup {[t EXCEPT !.phase = "scanning"]}
                  /\ UNCHANGED events
             ELSE threads' = threads \ {t} /\ Emit([type |-> "error", scan |-> t.scan])
    /\ UNCHANGED <<disk, calls, state, scan, profile_store, history, budget>>

\* The files of one content that the scan has not sent yet.
Duplicates(t, c) == Holding(c) \ t.sent

EmitGroup(t, c) ==
    /\ t.phase = "scanning" /\ c \notin t.done /\ Cardinality(Duplicates(t, c)) >= 2
    /\ threads' = (threads \ {t}) \cup
                  {[t EXCEPT !.done = @ \cup {c}, !.sent = @ \cup Duplicates(t, c)]}
    /\ Emit([type |-> "duplicate_group", scan |-> t.scan, paths |-> InOrder(Duplicates(t, c))])
    /\ UNCHANGED <<disk, calls, state, scan, profile_store, history, budget>>

\* A file cannot be read: the groups of its content may never come.
EmitError(t) ==
    /\ t.phase = "scanning" /\ ~t.failed
    /\ threads' = (threads \ {t}) \cup {[t EXCEPT !.failed = TRUE]}
    /\ Emit([type |-> "error", scan |-> t.scan])
    /\ UNCHANGED <<disk, calls, state, scan, profile_store, history, budget>>

EmitFinished(t) ==
    /\ t.phase = "scanning"
    /\ t.failed \/ \A c \in Content \ t.done : Cardinality(Duplicates(t, c)) < 2
    /\ threads' = threads \ {t}
    /\ Emit([type |-> "finished", scan |-> t.scan])
    /\ UNCHANGED <<disk, calls, state, scan, profile_store, history, budget>>

ScanThread ==
    \E t \in threads :
       \/ \E ok \in BOOLEAN : OpenRoot(t, ok)
       \/ \E c \in Content : EmitGroup(t, c)
       \/ EmitError(t) \/ EmitFinished(t)
-----------------------------------------------------------------------------
(* The page handles an event.                                              *)

AskFolders(s) == [command |-> "find_duplicate_folders", scan |-> s]
AskSimilar(s) == [command |-> "find_similar_images", scan |-> s]

\* onScanFinished: folders if there are groups, then similar images.
Lookups(s) ==
    IF state.groups # <<>> THEN <<AskFolders(s)>>
    ELSE IF state.matchMode = "similar" THEN <<AskSimilar(s)>> ELSE <<>>

\* Mutant: a scan that has found nothing goes on.
FinishedWithGroups == IF state.groups # <<>> THEN [state EXCEPT !.scanning = FALSE] ELSE state

Finished == [state EXCEPT !.scanning = FALSE]

HandleEvent ==
    /\ events # <<>> /\ events' = Tail(events)
    /\ LET event == Head(events)
       IN  CASE event.type = "duplicate_group" ->
                  /\ state' = [state EXCEPT !.groups =
                                 Append(@, [scan |-> event.scan, paths |-> event.paths])]
                  /\ UNCHANGED calls
             [] event.type = "error" -> UNCHANGED <<state, calls>>
             [] event.type = "finished" ->
                  /\ state' = Finished
                  /\ calls' = calls \o Lookups(event.scan)
    /\ UNCHANGED <<disk, threads, scan, profile_store, history, budget>>
-----------------------------------------------------------------------------
(* The application answers the first command.                              *)

Command(name) == calls # <<>> /\ Head(calls).command = name
Answered == calls' = Tail(calls)

\* start_scan returns as soon as the thread is there; options that are not
\* understood never reach it.
AnswerStart(ok) ==
    /\ Command("start_scan") /\ Answered
    /\ IF ok THEN /\ threads' = threads \cup {[scan |-> Head(calls).scan, phase |-> "opening",
                                               done |-> {}, sent |-> {}, failed |-> FALSE]}
                  /\ UNCHANGED state
             ELSE state' = [state EXCEPT !.scanning = FALSE] /\ UNCHANGED threads
    /\ UNCHANGED <<disk, events, scan, profile_store, history, budget>>

\* The first of the paths that is in S.
FirstIn(paths, S) ==
    paths[CHOOSE i \in DOMAIN paths : paths[i] \in S /\ \A j \in 1..(i - 1) : paths[j] \notin S]

\* choose_keep: the first protected member, the newest member that is there, or
\* the first.
Chosen(paths, rule, refs) ==
    LET protected == ToSet(paths) \cap refs
        there == {f \in ToSet(paths) : inode[f] # Gone}
        newest == {f \in there : \A g \in there : Age[inode[f]] <= Age[inode[g]]}
    IN  IF protected # {} THEN FirstIn(paths, protected)
        ELSE IF rule = "newest" /\ newest # {} THEN FirstIn(paths, newest) ELSE paths[1]

AnswerChooseKeep ==
    /\ Command("choose_keep") /\ Answered
    /\ LET call == Head(calls)
       IN  state' = [state EXCEPT !.ruleKeepChoice[call.key] =
                                    Chosen(call.paths, call.rule, call.refs)]
    /\ UNCHANGED <<disk, threads, events, scan, profile_store, history, budget>>

\* action::plan keeps the first path, or the first protected one.
Kept(paths, refs) == Chosen(paths, "alphabetical", refs)

\* Mutant: everything that is not protected.
PlannedAll(paths, refs) == ToSet(paths) \ refs

Planned(paths, refs) ==
    LET kept == Kept(paths, refs)
    IN  {f \in ToSet(paths) \ ({kept} \cup refs) : inode[f] = Gone \/ inode[f] # inode[kept]}

\* run_action: any of the planned actions can fail.
AnswerRunAction ==
    /\ Command("run_action") /\ Answered
    /\ LET call == Head(calls)
           kept == Kept(call.paths, call.refs)
           able == {f \in Planned(call.paths, call.refs) :
                      IF call.kind = "hardlink" THEN inode[kept] # Gone ELSE inode[f] # Gone}
       IN  \E done \in SUBSET able :
             inode' = [f \in File |->
                         IF f \notin done \/ call.kind = "copy" THEN inode[f]
                         ELSE IF call.kind = "hardlink" THEN inode[kept] ELSE Gone]
    /\ UNCHANGED <<threads, events, state, scan, profile_store, history, budget>>

\* find_duplicate_folders can fail, as when the root is gone.
AnswerFolders(ok) ==
    /\ Command("find_duplicate_folders")
    /\ state' = IF ok THEN [state EXCEPT !.folderMatches = Head(calls).scan] ELSE state
    /\ history' = IF ok THEN history ELSE [history EXCEPT !.lookup_failed = TRUE]
    /\ calls' = Tail(calls) \o
                (IF state.matchMode = "similar" THEN <<AskSimilar(Head(calls).scan)>> ELSE <<>>)
    /\ UNCHANGED <<disk, threads, events, scan, profile_store, budget>>

\* hash_image: whatever cannot be opened or decoded has no hash.
HashImage(looks, f) == IF inode[f] = Gone THEN Unreadable ELSE looks[Initial[inode[f]]]

\* find_similar_images looks at the photos that are there and can be decoded,
\* in the order of a traversal.
AnswerSimilar ==
    /\ Command("find_similar_images") /\ Answered
    /\ \E looks \in Looks, order \in Orders :
          LET decoded == {i \in DOMAIN order : HashImage(looks, order[i]) # Unreadable}
              image(n) == order[InOrder(decoded)[n]]
              hashed == [n \in 1..Cardinality(decoded) |->
                           [path |-> image(n), hash |-> HashImage(looks, image(n))]]
          IN  /\ state' = [state EXCEPT !.similarGroups = Cluster(hashed, MaxDistance)]
              /\ history' = [history EXCEPT !.images = ToSet(hashed)]
    /\ UNCHANGED <<disk, threads, events, scan, profile_store, budget>>

SimilarFails ==
    /\ Command("find_similar_images") /\ Answered
    /\ UNCHANGED <<disk, threads, events, state, scan, profile_store, history, budget>>

\* list_scan_profiles; a file that does not parse is an error, nothing is listed.
AnswerList ==
    /\ Command("list_scan_profiles") /\ Answered
    /\ state' = IF store = Torn THEN state ELSE [state EXCEPT !.scanProfiles = store]
    /\ UNCHANGED <<disk, threads, events, scan, profile_store, history, budget>>
-----------------------------------------------------------------------------
(* Saving profiles: upsert and remove read the file, change the list and   *)
(* write it back, and writing empties the file first.  An empty file is    *)
(* one without profiles, and nothing is locked.                            *)

\* Mutant: what is written is the list the page shows, with the change.
LoadListed(p, change) ==
    /\ io[p] = Idle /\ store # Torn
    /\ io' = [io EXCEPT ![p] = [stage |-> "loaded", change |-> change,
                                list |-> [state.scanProfiles EXCEPT ![change.name] = change.preset]]]
    /\ history' = [history EXCEPT !.disturbed = @ \/ \E q \in DOMAIN io : io[q] # Idle]
    /\ UNCHANGED store

Load(p, change) ==
    /\ io[p] = Idle /\ store # Torn
    /\ io' = [io EXCEPT ![p] = [stage |-> "loaded", change |-> change,
                                list |-> [store EXCEPT ![change.name] = change.preset]]]
    /\ history' = [history EXCEPT !.disturbed = @ \/ \E q \in DOMAIN io : io[q] # Idle]
    /\ UNCHANGED store

Truncate(p) ==
    /\ io[p].stage = "loaded"
    /\ io' = [io EXCEPT ![p].stage = "truncated"]
    /\ store' = NoProfiles
    /\ UNCHANGED history

\* A write that fails leaves nothing or a part of the text.
Write(p, ok) ==
    /\ io[p].stage = "truncated"
    /\ io' = [io EXCEPT ![p] = Idle]
    /\ IF ok
       THEN /\ store' = io[p].list
            /\ history' = [history EXCEPT !.wanted[io[p].change.name] = io[p].change.preset]
       ELSE /\ store' \in {NoProfiles, Torn}
            /\ history' = [history EXCEPT !.disturbed = TRUE]

\* save_scan_profile and delete_scan_profile answer with the whole list.
AnswerProfile ==
    /\ Command("change_profile")
    /\ \/ /\ store = Torn /\ io.app = Idle
          /\ Answered /\ UNCHANGED <<profile_store, state, history>>
       \/ /\ Load("app", [name |-> Head(calls).name, preset |-> Head(calls).preset])
          /\ UNCHANGED <<calls, state>>
       \/ Truncate("app") /\ UNCHANGED <<calls, state>>
       \/ /\ Write("app", TRUE) /\ Answered
          /\ state' = [state EXCEPT !.scanProfiles = io.app.list]
       \/ Write("app", FALSE) /\ Answered /\ UNCHANGED state
    /\ UNCHANGED <<disk, threads, events, scan, budget>>

Application ==
    \/ \E ok \in BOOLEAN : AnswerStart(ok) \/ AnswerFolders(ok)
    \/ AnswerChooseKeep \/ AnswerRunAction \/ AnswerSimilar \/ SimilarFails
    \/ AnswerList \/ AnswerProfile

\* The other instance changes a profile of its own.
OtherInstance ==
    /\ \/ /\ Spend("others")
          /\ \E name \in Profile, preset \in Preset \cup {None} :
                Load("other", [name |-> name, preset |-> preset])
       \/ Truncate("other") /\ UNCHANGED budget
       \/ \E ok \in BOOLEAN : Write("other", ok) /\ UNCHANGED budget
    /\ UNCHANGED <<disk, threads, events, calls, state, scan>>

\* The application dies and is started again: only the disk is left.
Restart ==
    /\ Spend("kills")
    /\ threads' = {} /\ events' = <<>> /\ calls' = Startup
    /\ state' = FreshPage
    /\ io' = [io EXCEPT !.app = Idle]
    /\ history' = [history EXCEPT !.moved = FALSE, !.lookup_failed = FALSE, !.images = {},
                                  !.disturbed = @ \/ io.app.stage = "truncated"]
    /\ UNCHANGED <<disk, scan, store>>

Next == User \/ ScanThread \/ HandleEvent \/ Application \/ OtherInstance \/ Restart

Spec == Init /\ [][Next]_vars

\* The scan thread and the event loop of the page keep running.
FairSpec == Spec /\ WF_vars(ScanThread) /\ WF_vars(HandleEvent)
-----------------------------------------------------------------------------
(* Properties.                                                             *)

TypeOK ==
    /\ inode \in [File -> File \cup {Gone}] /\ scan \in Nat
    /\ \A t \in threads : t.phase \in {"opening", "scanning"} /\ t.sent \subseteq File
    /\ Cardinality(threads) <= 1
    /\ state.keepChoice \in [Keys -> File \cup {None}]
    /\ state.ruleKeepChoice \in [Keys -> File \cup {None, Loading}]
    /\ Len(state.groups) <= Cardinality(Content)
    /\ store \in [Profile -> Preset \cup {None}] \cup {Torn}
    /\ state.scanProfiles \in [Profile -> Preset \cup {None}]

\* The list of groups never mixes two scans, however late the events of the
\* first one are handled: they carry nothing that tells one scan from another,
\* and only the disabled button keeps them apart (ADR-0004, startScan).
ListsOfThisScan ==
    /\ \A i \in DOMAIN state.groups : state.groups[i].scan = scan
    /\ \A i, j \in DOMAIN state.groups :
          i = j \/ ToSet(state.groups[i].paths) \cap ToSet(state.groups[j].paths) = {}

\* Folder matches of an earlier scan can arrive late and be shown for a while,
\* but not after the lookup of this scan has been answered.
MatchesSettle ==
    (/\ ~state.scanning /\ state.groups # <<>> /\ ~history.lookup_failed
     /\ \A c \in ToSet(calls) : c.command # "find_duplicate_folders")
       => state.folderMatches = scan

\* The path that run_action keeps is one of the group it acts on, unless the
\* type filter has moved the groups to other keys since the choice was made, or
\* a choice of an earlier scan was answered late (applyAction, choose_keep).
ChoicesStay ==
    \A c \in ToSet(calls) : c.command = "run_action" =>
       c.moved \/ c.paths[1] \in c.group

\* What the page shows and sends belongs to one scan, in whatever order events
\* and answers of two scans arrive.
PageTrue == TypeOK /\ ListsOfThisScan /\ MatchesSettle /\ ChoicesStay

\* Acting on groups, also on those that were acted on before, loses a content
\* only where the kept file of the request is gone or of another content
\* (ADR-0009).
LossNeedsStrangeKeep ==
    [][inode' # inode =>
         LET kept == Kept(Head(calls).paths, Head(calls).refs)
         IN  \A c \in Content : (Holding(c) # {} /\ Holding(c)' = {}) =>
                inode[kept] = Gone \/ Initial[inode[kept]] # c]_vars

\* What is shown as similar images are the connected parts of the images, in whatever
\* order the traversal has found them (ADR-0030).
SimilarExact ==
    [][state'.similarGroups # state.similarGroups =>
         state'.similarGroups \in {{}, Connected(history'.images, MaxDistance)}]_vars

\* As long as no write fails or dies and no two instances save at a time, the
\* profiles on disk are what the saves and deletes of both have made them
\* (ADR-0029).
ProfilesTrue ==
    (~history.disturbed /\ \A p \in DOMAIN io : io[p] = Idle) => store = history.wanted

\* A scan whose root could be opened ends on the page too, unless the process
\* dies: Finished arrives whatever the user clicks meanwhile (start_scan).
ScanEnds ==
    (\E t \in threads : t.phase = "scanning") ~> ~state.scanning
-----------------------------------------------------------------------------
(* Statements of comments that do not hold of the code.                    *)

\* What run_action's comment says of its first path.
KeepFromGroup ==
    \A c \in ToSet(calls) : c.command = "run_action" => c.paths[1] \in c.group
=============================================================================
