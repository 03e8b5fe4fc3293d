---------------------------- MODULE TeamsListing ----------------------------
(***************************************************************************)
(* The list of Teams recordings a user can import: two paths run side by   *)
(* side.  One reads the calendar's join links and looks their meetings up, *)
(* a few at a time; the other walks the recordings folder of OneDrive,     *)
(* while the user may move files about.                                    *)
(***************************************************************************)
EXTENDS Naturals, Sequences, FiniteSets

CONSTANTS
    Folders,        \* the tree of folders under the recordings folder
    TopFolder,
    FolderIn,       \* the folder each one lies in (TopFolder: itself)
    Mp4s,           \* video files
    FirstHomes,     \* where they may lie at the start
    Elsewhere,      \* outside the recordings folder
    JoinLinks,      \* links the calendar may hold
    MeetingOf,      \* the meeting each link resolves to, or NoMeeting
    NoMeeting,
    Taped,          \* the recordings of each meeting
    Lookups,        \* concurrentMeetingLookups (5)
    MaxMeetings,    \* links looked up (35)
    MaxFiles,       \* files a walk stops at (50)
    MaxDepth,       \* folders below the recordings folder (8)
    MaxMoves        \* bound of the model: files moved during the walk

Meetings == {MeetingOf[l] : l \in JoinLinks} \ {NoMeeting}

ASSUME ListingAssumption ==
    /\ TopFolder \in Folders /\ FolderIn \in [Folders -> Folders] /\ FolderIn[TopFolder] = TopFolder
    /\ FirstHomes \subseteq [Mp4s -> Folders \cup {Elsewhere}] /\ Folders \cap Mp4s = {} /\ Elsewhere \notin Folders
    /\ DOMAIN MeetingOf = JoinLinks /\ Meetings \subseteq DOMAIN Taped
    /\ {Lookups, MaxMeetings, MaxFiles} \subseteq Nat \ {0} /\ {MaxDepth, MaxMoves} \subseteq Nat
    /\ IsFiniteSet(Folders)      \* a tree: what holds the top and its folders' folders holds all
    /\ \A fs \in SUBSET Folders :
         TopFolder \in fs /\ (\A d \in Folders : FolderIn[d] \in fs => d \in fs) => fs = Folders

VARIABLES
    home,           \* where each file lies
    moves,          \* files moved so far
    graph,          \* the calendar path: calendar, looking, done, failed
    lookup,         \* each link: absent, queued, running, done
    taped,          \* recordings found through each link
    drive,          \* the OneDrive path: resolving, walking, done, absent, failed
    stack,          \* the recursion of walk: folder, read or not, children left
    found,          \* files listed so far
    answer,         \* what the caller gets
    skipped         \* ghost: a folder or a link was passed over, or the walk was cut short

graphVars   == <<graph, lookup, taped>>
driveVars   == <<drive, stack, found>>
listingVars == <<home, moves, graphVars, driveVars, answer, skipped>>

NoAnswerYet == [status |-> "none", graph |-> {}, drive |-> << >>]
Top == stack[Len(stack)]
Frame(f) == [folder |-> f, read |-> FALSE, left |-> {}]
Up == SubSeq(stack, 1, Len(stack) - 1)
Depth == Len(stack) - 1
Listed == {found[i] : i \in DOMAIN found}

ListingInit ==
    /\ home \in FirstHomes /\ moves = 0
    /\ graph = "calendar" /\ lookup = [l \in JoinLinks |-> "absent"] /\ taped = [l \in JoinLinks |-> {}]
    /\ drive = "resolving" /\ stack = << >> /\ found = << >>
    /\ answer = NoAnswerYet /\ skipped = FALSE

-----------------------------------------------------------------------------
(* listRecordingsViaCalendarAndOnlineMeetings *)
GraphOnly == UNCHANGED <<home, moves, driveVars, answer>>

\* the pages of calendarView; past MaxMeetings, which links are dropped is the map's choice
CalendarRead ==
    /\ graph = "calendar"
    /\ \E links \in SUBSET JoinLinks, picked \in SUBSET JoinLinks :
         /\ picked \subseteq links
         /\ Cardinality(picked) = (IF Cardinality(links) > MaxMeetings THEN MaxMeetings ELSE Cardinality(links))
         /\ lookup' = [l \in JoinLinks |-> IF l \in picked THEN "queued" ELSE "absent"]
         /\ skipped' = (skipped \/ picked # JoinLinks)
    /\ graph' = "looking"
    /\ UNCHANGED taped /\ GraphOnly

CalendarFails ==
    /\ graph = "calendar" /\ graph' = "failed"
    /\ UNCHANGED <<lookup, taped, skipped>> /\ GraphOnly

\* a place in the semaphore
LookupStart(l) ==
    /\ lookup[l] = "queued" /\ Cardinality({m \in JoinLinks : lookup[m] = "running"}) < Lookups
    /\ lookup' = [lookup EXCEPT ![l] = "running"]
    /\ UNCHANGED <<graph, taped, skipped>> /\ GraphOnly

\* lookupMeetingRecordings: an error is logged and counts as no recordings
LookupEnd(l) ==
    /\ lookup[l] = "running"
    /\ lookup' = [lookup EXCEPT ![l] = "done"]
    /\ \/ /\ MeetingOf[l] # NoMeeting
          /\ taped' = [taped EXCEPT ![l] = Taped[MeetingOf[l]]] /\ skipped' = skipped
       \/ taped' = taped /\ skipped' = (skipped \/ MeetingOf[l] # NoMeeting)
    /\ UNCHANGED graph /\ GraphOnly

GraphDone ==
    /\ graph = "looking" /\ \A l \in JoinLinks : lookup[l] \in {"absent", "done"}
    /\ graph' = "done"
    /\ UNCHANGED <<lookup, taped, skipped>> /\ GraphOnly

-----------------------------------------------------------------------------
(* listOneDriveTeamsRecordingFilesDetailed *)
DriveOnly == UNCHANGED <<home, moves, graphVars, answer>>

\* the folder's name is tried, then the root is scanned for it
FolderResolved ==
    /\ drive = "resolving"
    /\ \/ drive' = "walking" /\ stack' = <<Frame(TopFolder)>> /\ skipped' = skipped
       \/ drive' = "absent" /\ stack' = stack /\ skipped' = TRUE
    /\ UNCHANGED found /\ DriveOnly

Children(f) == {m \in Mp4s : home[m] = f} \cup {d \in Folders \ {TopFolder} : FolderIn[d] = f}

WalkRead ==
    /\ drive = "walking" /\ ~Top.read
    /\ stack' = [stack EXCEPT ![Len(stack)] =
                [folder |-> Top.folder, read |-> TRUE, left |-> Children(Top.folder)]]
    /\ UNCHANGED <<drive, found, skipped>> /\ DriveOnly

\* an error of the top folder ends the walk without a list; one below it is ignored,
\* like a refusal anywhere
WalkReadFails(refused) ==
    /\ drive = "walking" /\ ~Top.read
    /\ skipped' = TRUE
    /\ stack' = Up
    /\ IF Len(stack) > 1 THEN UNCHANGED <<drive, found>>
       ELSE IF refused THEN drive' = "done" /\ found' = found
       ELSE drive' = "failed" /\ found' = << >>
    /\ DriveOnly

\* mutant: ids listed before are listed again
SeenNever(m) == FALSE

Seen(m) == m \in Listed

Take(x) == stack' = [stack EXCEPT ![Len(stack)].left = @ \ {x}]

WalkFolder(d) ==
    /\ drive = "walking" /\ Top.read /\ d \in Top.left \cap Folders
    /\ IF Depth < MaxDepth
       THEN stack' = Append([stack EXCEPT ![Len(stack)].left = @ \ {d}], Frame(d)) /\ skipped' = skipped
       ELSE Take(d) /\ skipped' = TRUE
    /\ UNCHANGED <<drive, found>> /\ DriveOnly

\* past MaxFiles the walk leaves this folder only: those above go on with their next file
WalkFile(m) ==
    /\ drive = "walking" /\ Top.read /\ m \in Top.left \cap Mp4s
    /\ IF Seen(m) THEN Take(m) /\ UNCHANGED <<drive, found, skipped>>
       ELSE /\ found' = Append(found, m)
            /\ IF Len(found) + 1 >= MaxFiles
               THEN stack' = Up /\ skipped' = TRUE /\ drive' = IF Len(stack) = 1 THEN "done" ELSE drive
               ELSE Take(m) /\ UNCHANGED <<drive, skipped>>
    /\ DriveOnly

WalkUp ==
    /\ drive = "walking" /\ Top.read /\ Top.left = {}
    /\ stack' = Up
    /\ drive' = IF Len(stack) = 1 THEN "done" ELSE drive
    /\ UNCHANGED <<found, skipped>> /\ DriveOnly

\* the user tidies up
FileMoved(m, f) ==
    /\ moves < MaxMoves /\ home[m] # f
    /\ home' = [home EXCEPT ![m] = f] /\ moves' = moves + 1
    /\ UNCHANGED <<graphVars, driveVars, answer, skipped>>

\* ListRecordingsDetailed waits for both; only the calendar's failure is the caller's
Answered ==
    /\ answer.status = "none" /\ graph \in {"done", "failed"} /\ drive \in {"done", "absent", "failed"}
    /\ answer' = IF graph = "failed" THEN [NoAnswerYet EXCEPT !.status = "error"]
                 ELSE [status |-> "list", graph |-> UNION {taped[l] : l \in JoinLinks}, drive |-> found]
    /\ UNCHANGED <<home, moves, graphVars, driveVars, skipped>>

ListingNext ==
    \/ CalendarRead \/ CalendarFails \/ GraphDone \/ FolderResolved \/ WalkRead \/ WalkUp \/ Answered
    \/ \E l \in JoinLinks : LookupStart(l) \/ LookupEnd(l)
    \/ \E refused \in BOOLEAN : WalkReadFails(refused)
    \/ \E d \in Folders : WalkFolder(d)
    \/ \E m \in Mp4s : WalkFile(m) \/ \E f \in Folders \cup {Elsewhere} : FileMoved(m, f)

ListingSpec == ListingInit /\ [][ListingNext]_listingVars

-----------------------------------------------------------------------------
ListingTypeOK ==
    /\ home \in [Mp4s -> Folders \cup {Elsewhere}] /\ moves \in 0..MaxMoves
    /\ graph \in {"calendar", "looking", "done", "failed"}
    /\ lookup \in [JoinLinks -> {"absent", "queued", "running", "done"}]
    /\ drive \in {"resolving", "walking", "done", "absent", "failed"}
    /\ Listed \subseteq Mp4s /\ answer.status \in {"none", "error", "list"} /\ skipped \in BOOLEAN
    /\ \A i \in DOMAIN stack : stack[i].folder \in Folders /\ stack[i].left \subseteq Folders \cup Mp4s

\* A file the user moves ahead of the walk is met twice and listed once.
ListedOnce == Cardinality(Listed) = Len(found)

(***************************************************************************)
(* A walk that passed nothing over and met no move lists every file of the *)
(* tree, and every recording of every link of the calendar is in the       *)
(* answer: the two paths and the pool of look-ups lose nothing.            *)
(***************************************************************************)
NothingMissed ==
    (answer.status = "list" /\ ~skipped /\ moves = 0) =>
        /\ {answer.drive[i] : i \in DOMAIN answer.drive} = {m \in Mp4s : home[m] \in Folders}
        /\ answer.graph = UNION {Taped[m] : m \in Meetings}

(***************************************************************************)
(* The walk stops: past MaxFiles, at most one more file for each folder    *)
(* that was still open.                                                    *)
(***************************************************************************)
WalkStops == Len(found) <= MaxFiles + Cardinality(Folders) - 1

\* Every recording within the limits is listed, once, and the walk ends
\* (msgraph/client.go:691-765).
ListingRight == ListedOnce /\ NothingMissed /\ WalkStops
=============================================================================
