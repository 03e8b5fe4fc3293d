---------------------------- MODULE QuestionFeed ----------------------------
(***************************************************************************)
(* The questions of one session and the browsers that show them.  A        *)
(* request stores its rows first and tells the hub afterwards; the hub is  *)
(* one loop over registrations and broadcasts; a browser answers           *)
(* "created" with a fetch of the whole list and "deleted" with a fade, and *)
(* a browser that connects again fetches nothing.                          *)
(***************************************************************************)
EXTENDS Naturals, Sequences, FiniteSets, SequencesExt

CONSTANTS
    Questions,      \* rows of questions
    ParentOf,       \* the question each one replies to, or NoParent
    NoParent,
    OldQuestions,   \* those already there
    Clerks,         \* requests, one each: an ask or a deletion
    Viewers,        \* browsers on the session's page
    Lines,          \* WebSocket connections, each dialled once
    NoLine,
    QuestionsMax,   \* auth.Config.MaxQuestionsPerSession
    QueueSize,      \* the hub's broadcast channel (256)
    BufferSize,     \* a connection's send channel (256)
    MaxFetches      \* bound of the model: list requests of a viewer under way

ASSUME FeedAssumption ==
    /\ OldQuestions \subseteq Questions
    /\ NoParent \notin Questions /\ NoLine \notin Lines
    /\ ParentOf \in [Questions -> Questions \cup {NoParent}]
    /\ \A q \in Questions : ParentOf[q] # NoParent => ParentOf[ParentOf[q]] = NoParent
    /\ {QuestionsMax, QueueSize, BufferSize, MaxFetches} \subseteq Nat \ {0}

VARIABLES
    asked,          \* the rows of questions
    fresh,          \* ids nobody used yet
    clerk,          \* each request: how far it is, and the ids it will tell of
    queue,          \* hub.broadcast
    line,           \* each connection: who dialled, its pumps, its send channel
    current,        \* the connection a browser holds
    shown,          \* the list it shows
    asking,         \* list requests sent and not yet read from the database
    replies,        \* lists read and not yet applied, in the order of the reads
    fading,         \* ids shown as tombstones
    muddled,        \* ghost: browsers that may have missed something since their last good list
    hushed,         \* ghost: rows whose request ended without a broadcast
    untold,         \* ghost: rows a deletion removed and did not name
    recloses        \* ghost: closes of a channel that was closed (a panic of the hub)

boardVars == <<asked, fresh, clerk, hushed, untold>>
pageVars  == <<shown, asking, replies, fading>>
lineVars  == <<line, current, recloses>>
feedVars  == <<boardVars, queue, lineVars, pageVars, muddled>>

NoTask == [at |-> "idle", q |-> NoParent, ids |-> {}]
Unused   == [at |-> "unused", registered |-> FALSE, open |-> TRUE, buffer |-> << >>]

FeedInit ==
    /\ asked = OldQuestions /\ fresh = Questions \ OldQuestions
    /\ clerk = [c \in Clerks |-> NoTask] /\ queue = << >>
    /\ line = [k \in Lines |-> Unused] /\ current = [v \in Viewers |-> NoLine]
    /\ shown = [v \in Viewers |-> {}] /\ asking = [v \in Viewers |-> 0]
    /\ replies = [v \in Viewers |-> << >>] /\ fading = [v \in Viewers |-> {}]
    /\ muddled = Viewers /\ hushed = {} /\ untold = {} /\ recloses = 0

-----------------------------------------------------------------------------
(* The requests: SessionAsk, AskSessionQuestion, DeleteSessionQuestion. *)
Replies(q) == {r \in asked : ParentOf[r] = q}
Ended(c) == [clerk EXCEPT ![c] = [NoTask EXCEPT !.at = "done"]]
BoardOnly == UNCHANGED <<queue, pageVars, muddled>> /\ UNCHANGED lineVars

\* the parent and the limit are looked up long before the row is written
AskLook(c, q) ==
    /\ clerk[c].at = "idle" /\ q \in fresh
    /\ ParentOf[q] \in asked \cup {NoParent}
    /\ Cardinality(asked) < QuestionsMax
    /\ fresh' = fresh \ {q}
    /\ clerk' = [clerk EXCEPT ![c] = [at |-> "insert", q |-> q, ids |-> {q}]]
    /\ UNCHANGED <<asked, hushed, untold>> /\ BoardOnly

\* CreateQuestion: a parent deleted meanwhile is a foreign key violation (404)
AskInsert(c) ==
    /\ clerk[c].at = "insert"
    /\ \/ /\ ParentOf[clerk[c].q] \in asked \cup {NoParent}
          /\ asked' = asked \cup {clerk[c].q}
          /\ clerk' = [clerk EXCEPT ![c].at = "answer"]
       \/ asked' = asked /\ clerk' = Ended(c)
    /\ UNCHANGED <<fresh, hushed, untold>> /\ BoardOnly

\* GenerateAnswer and CreateAnswer; a refusal or an error ends the request and leaves the row
AskAnswer(c) ==
    /\ clerk[c].at = "answer"
    /\ \/ /\ clerk[c].q \in asked
          /\ clerk' = [clerk EXCEPT ![c].at = "tell"] /\ hushed' = hushed
       \/ clerk' = Ended(c) /\ hushed' = hushed \cup {clerk[c].q}
    /\ UNCHANGED <<asked, fresh, untold>> /\ BoardOnly

\* GetQuestionAndReplyIDs
DeleteLook(c, q) ==
    /\ clerk[c].at = "idle" /\ q \in asked /\ ParentOf[q] = NoParent
    /\ clerk' = [clerk EXCEPT ![c] = [at |-> "remove", q |-> q, ids |-> {q} \cup Replies(q)]]
    /\ UNCHANGED <<asked, fresh, hushed, untold>> /\ BoardOnly

\* DeleteQuestionAndOrchestrationEvidenceByID: the replies there are now go with the root
DeleteRemove(c) ==
    LET gone == {clerk[c].q} \cup Replies(clerk[c].q) IN
    /\ clerk[c].at = "remove"
    /\ \/ /\ clerk[c].q \in asked
          /\ asked' = asked \ gone
          /\ untold' = untold \cup (gone \ clerk[c].ids)
          /\ clerk' = [clerk EXCEPT ![c].at = "announce"]
       \/ UNCHANGED <<asked, untold>> /\ clerk' = Ended(c)
    /\ UNCHANGED <<fresh, hushed>> /\ BoardOnly

\* Broadcast...: the channel takes it, or the request waits
Tell(c, kind) ==
    /\ clerk[c].at = (IF kind = "created" THEN "tell" ELSE "announce")
    /\ Len(queue) < QueueSize
    /\ queue' = Append(queue, [kind |-> kind, ids |-> clerk[c].ids])
    /\ clerk' = Ended(c)
    /\ UNCHANGED <<asked, fresh, hushed, untold, pageVars, muddled>> /\ UNCHANGED lineVars

AskTell(c)    == Tell(c, "created")
DeleteTell(c) == Tell(c, "deleted")

-----------------------------------------------------------------------------
(* The hub's loop. *)
\* mutant: whatever the map says
AnyLine(k) == TRUE

\* the second "if ok" of the unregister case
StillMember(k) == line[k].registered

Registered == {k \in Lines : line[k].registered}
Has(v, k) == current[v] = k
Spoiled(v, broken) == IF v \in broken THEN [i \in DOMAIN replies[v] |-> [replies[v][i] EXCEPT !.stale = TRUE]]
                      ELSE replies[v]
\* these browsers missed something: lists read before are no remedy
Muddle(broken) == /\ muddled' = muddled \cup broken
                  /\ replies' = [v \in Viewers |-> Spoiled(v, broken)]

HubRegister(k) ==
    /\ line[k].at = "dialling"
    /\ line' = [line EXCEPT ![k].at = "live", ![k].registered = TRUE]
    /\ UNCHANGED <<boardVars, queue, current, recloses, pageVars, muddled>>

HubUnregister(k) ==
    /\ line[k].at = "failing"
    /\ line' = [line EXCEPT ![k] = IF StillMember(k)
                                   THEN [@ EXCEPT !.at = "dead", !.registered = FALSE, !.open = FALSE]
                                   ELSE [@ EXCEPT !.at = "dead"]]
    /\ recloses' = IF StillMember(k) /\ ~line[k].open THEN recloses + 1 ELSE recloses
    /\ UNCHANGED <<boardVars, queue, current, pageVars, muddled>>

\* a connection whose channel is full is closed and forgotten
HubBroadcast ==
    LET full == {k \in Registered : Len(line[k].buffer) = BufferSize}
        missed == {v \in Viewers : current[v] \notin Registered \ full}
    IN
    /\ queue # << >>
    /\ queue' = Tail(queue)
    /\ line' = [k \in Lines |-> CASE k \in full -> [line[k] EXCEPT !.registered = FALSE, !.open = FALSE]
                                  [] k \in Registered \ full -> [line[k] EXCEPT !.buffer = Append(@, Head(queue))]
                                  [] OTHER -> line[k]]
    /\ Muddle(missed)
    /\ UNCHANGED <<boardVars, current, recloses, shown, asking, fading>>

-----------------------------------------------------------------------------
(* A connection's pumps and its end. *)
\* the page is opened: the list is fetched and the socket dialled, side by side
OpenPage(v, k) ==
    /\ current[v] = NoLine /\ v \in muddled /\ shown[v] = {} /\ asking[v] = 0 /\ replies[v] = << >>
    /\ line[k].at = "unused"
    /\ current' = [current EXCEPT ![v] = k]
    /\ line' = [line EXCEPT ![k].at = "dialling"]
    /\ asking' = [asking EXCEPT ![v] = 1]
    /\ UNCHANGED <<boardVars, queue, recloses, shown, replies, fading, muddled>>

\* ws.onclose dials again, and onopen fetches nothing
Reconnect(v, k) ==
    /\ current[v] = NoLine /\ line[k].at = "unused"
    /\ \E old \in Lines : line[old].at \in {"failing", "dead"}
    /\ current' = [current EXCEPT ![v] = k]
    /\ line' = [line EXCEPT ![k].at = "dialling"]
    /\ UNCHANGED <<boardVars, queue, recloses, pageVars, muddled>>

\* the network fails, or the closed channel is drained and writePump hangs up:
\* readPump ends and asks to be unregistered
LineLost(v, k) ==
    /\ Has(v, k) /\ line[k].at = "live"
    /\ current' = [current EXCEPT ![v] = NoLine]
    /\ line' = [line EXCEPT ![k].at = "failing", ![k].buffer = << >>]
    /\ Muddle(IF line[k].buffer # << >> THEN {v} ELSE {})
    /\ UNCHANGED <<boardVars, queue, recloses, shown, asking, fading>>

\* handleWebSocketMessage
Delivered(v, k) ==
    /\ Has(v, k) /\ line[k].at = "live" /\ line[k].buffer # << >>
    /\ line' = [line EXCEPT ![k].buffer = Tail(@)]
    /\ LET m == Head(line[k].buffer) IN
       \/ m.kind = "created" /\ asking[v] < MaxFetches
          /\ asking' = [asking EXCEPT ![v] = @ + 1] /\ fading' = fading
       \/ m.kind = "deleted"
          /\ fading' = [fading EXCEPT ![v] = @ \cup m.ids] /\ asking' = asking
    /\ UNCHANGED <<boardVars, queue, current, recloses, shown, replies, muddled>>

-----------------------------------------------------------------------------
(* The browser's list. *)
\* GetSessionQuestions reads; a request that fails is dropped in silence
ListRead(v) ==
    /\ asking[v] > 0
    /\ asking' = [asking EXCEPT ![v] = @ - 1]
    /\ replies' = [replies EXCEPT ![v] = Append(@, [rows |-> asked, stale |-> FALSE])]
    /\ UNCHANGED <<boardVars, queue, lineVars, shown, fading, muddled>>

ListLost(v) ==
    /\ asking[v] > 0
    /\ asking' = [asking EXCEPT ![v] = @ - 1]
    /\ Muddle({v})
    /\ UNCHANGED <<boardVars, queue, lineVars, shown, fading>>

\* fetchSessionQuestions: the answers come in any order and the last one stays
ListApplied(v, i) ==
    /\ i \in DOMAIN replies[v]
    /\ shown' = [shown EXCEPT ![v] = replies[v][i].rows]
    /\ muddled' = IF replies[v][i].stale THEN muddled \cup {v} ELSE muddled \ {v}
    /\ replies' = [replies EXCEPT ![v] = RemoveAt([j \in DOMAIN @ |-> IF j < i THEN [@[j] EXCEPT !.stale = TRUE] ELSE @[j]], i)]
    /\ UNCHANGED <<boardVars, queue, lineVars, asking, fading>>

Without(rows, ids) == rows \ ids

\* ten seconds later; a list read before the deletion would bring the rows back
FadeEnds(v) ==
    /\ fading[v] # {}
    /\ shown' = [shown EXCEPT ![v] = Without(@, fading[v])]
    /\ replies' = [replies EXCEPT ![v] = [i \in DOMAIN @ |-> [rows |-> @[i].rows,
                                            stale |-> @[i].stale \/ @[i].rows \cap fading[v] # {}]]]
    /\ fading' = [fading EXCEPT ![v] = {}]
    /\ UNCHANGED <<boardVars, queue, lineVars, asking, muddled>>

FeedNext ==
    \/ \E c \in Clerks : \/ \E q \in Questions : AskLook(c, q) \/ DeleteLook(c, q)
                         \/ AskInsert(c) \/ AskAnswer(c) \/ AskTell(c) \/ DeleteRemove(c) \/ DeleteTell(c)
    \/ \E k \in Lines : HubRegister(k) \/ HubUnregister(k)
    \/ HubBroadcast
    \/ \E v \in Viewers : \/ \E k \in Lines : OpenPage(v, k) \/ Reconnect(v, k) \/ LineLost(v, k) \/ Delivered(v, k)
                          \/ ListRead(v) \/ ListLost(v) \/ FadeEnds(v)
                          \/ \E i \in 1..MaxFetches + 2 : ListApplied(v, i)

FeedSpec == FeedInit /\ [][FeedNext]_feedVars

-----------------------------------------------------------------------------
FeedTypeOK ==
    /\ asked \subseteq Questions /\ fresh \subseteq Questions /\ asked \cap fresh = {}
    /\ \A c \in Clerks : clerk[c].ids \subseteq Questions /\ (clerk[c].at \in {"idle", "done"} \/ clerk[c].q \in Questions)
    /\ Len(queue) <= QueueSize
    /\ \A k \in Lines : Len(line[k].buffer) <= BufferSize /\ (line[k].registered => line[k].open)
    /\ current \in [Viewers -> Lines \cup {NoLine}]
    /\ \A v \in Viewers : /\ shown[v] \subseteq Questions /\ fading[v] \subseteq Questions
                          /\ asking[v] \in 0..MaxFetches
    /\ muddled \subseteq Viewers /\ hushed \subseteq Questions /\ untold \subseteq Questions

(***************************************************************************)
(* The hub never closes a connection's channel twice: a full channel that  *)
(* it closed itself is unregistered later by that connection's own reader  *)
(* (close of a closed channel would end the process with every session's   *)
(* connections).                                                           *)
(***************************************************************************)
HubSurvives == recloses = 0

AtRest(v) ==
    /\ \A c \in Clerks : clerk[c].at \in {"idle", "done"}
    /\ queue = << >> /\ current[v] # NoLine /\ line[current[v]].at = "live"
    /\ line[current[v]].buffer = << >> /\ asking[v] = 0 /\ replies[v] = << >> /\ fading[v] = {}

(***************************************************************************)
(* Once nothing is under way, a browser that missed nothing since its last *)
(* good list shows the questions there are, but for those whose request    *)
(* ended in silence and those a deletion removed and did not name.  Asks   *)
(* and deletions run in any order, lists overtake one another, and         *)
(* connections come and go.                                                *)
(***************************************************************************)
ShownIsAsked ==
    \A v \in Viewers \ muddled : AtRest(v) =>
        shown[v] \ (hushed \cup untold) = asked \ hushed

\* The hub survives its clients, and a list at rest shows the questions that are asked
\* (websocket.go:65-130, App.jsx:2600-2640).
FeedSound == HubSurvives /\ ShownIsAsked

(***************************************************************************)
(* What a deletion removes is what it tells: deleted_ids holds "root +     *)
(* replies" (the comment of BroadcastQuestionDeleted).                     *)
(***************************************************************************)
DeletionTellsAll == untold = {}
=============================================================================
