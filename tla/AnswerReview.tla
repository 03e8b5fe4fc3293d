---------------------------- MODULE AnswerReview ----------------------------
(***************************************************************************)
(* The answers of a session's questions and the creator's panel: an asked *)
(* question gets an AI answer, an editor replaces it by a manual one       *)
(* (CreateSessionAnswer), has a draft generated for an unanswered question *)
(* (CreateOrchestrationDraftAnswer), drops it or confirms it, deletes the  *)
(* question, and re-evaluates the recommendations of the panel             *)
(* (SyncOrchestrationRecommendations).  Each request reads what it decides *)
(* on and writes later, over several statements without a transaction.     *)
(***************************************************************************)
EXTENDS Naturals, Sequences, FiniteSets, SequencesExt

CONSTANTS
    Questions,      \* top-level questions of the session
    Clerks,         \* requests of the session's editors, one each
    MaxDrafts,      \* ORCHESTRATION_DRAFT_MAX_CONCURRENT_PER_SESSION
    NoAnswer        \* "no row" of GetLatestAnswerByQuestionID

ASSUME ReviewAssumption ==
    /\ Questions \cap Clerks = {}
    /\ NoAnswer \notin Questions \cup Clerks
    /\ MaxDrafts \in Nat \ {0}

VARIABLES
    thread,         \* the answers of each question, oldest first; an answer is
                    \* named by the request that wrote it, an AI answer by its question
    published,      \* questions.id rows
    asking,         \* questions whose ask has not stored its answer yet
    confirmed,      \* answers.confirmed
    duty,           \* each request: what it does, how far it is, what it read
    panel,          \* orchestration_recommendations rows
    overtaken,      \* ghost: answers confirmed, drafts overtaken, while a request was under way
    blurred         \* ghost: the syncs that overlapped another one or a deletion

reviewVars == <<thread, published, asking, confirmed, duty, panel, overtaken, blurred>>

AnswerIds == Questions \cup Clerks
Advice == {"unanswered_question", "review_draft_answer"}
Recommendations == [by : Clerks, advice : Advice, on : Questions]

Waiting == [op |-> "none", at |-> "start", on |-> NoAnswer, seen |-> NoAnswer,
            todo |-> {}, found |-> {}]

ReviewTypeOK ==
    /\ thread \in [Questions -> Seq(AnswerIds)]
    /\ published \subseteq Questions /\ asking \subseteq Questions
    /\ confirmed \subseteq AnswerIds /\ overtaken \subseteq AnswerIds
    /\ duty \in [Clerks -> [op : {"none", "manual", "draft", "drop", "confirm", "delete", "sync"},
                            at : {"start", "delete", "write", "look", "clear", "insert", "over"},
                            on : AnswerIds \cup {NoAnswer}, seen : AnswerIds \cup {NoAnswer},
                            todo : SUBSET Questions, found : SUBSET Recommendations]]
    /\ panel \subseteq Recommendations
    /\ blurred \subseteq Clerks

ReviewInit ==
    /\ thread = [q \in Questions |-> << >>]
    /\ published = Questions /\ asking = Questions
    /\ confirmed = {} /\ overtaken = {}
    /\ duty = [c \in Clerks |-> Waiting]
    /\ panel = {} /\ blurred = {}

-----------------------------------------------------------------------------
IsDraft(a) == a \in Clerks /\ duty[a].op = "draft"
IsManual(a) == a \in Clerks /\ duty[a].op = "manual"

\* GetLatestAnswerByQuestionID: the newest row
LatestAnswer(q) == IF thread[q] = << >> THEN NoAnswer ELSE Last(thread[q])

\* isAIDraftPendingReview: any unconfirmed answer a model wrote
PendingReview(a) == a \notin confirmed /\ ~IsManual(a)

\* mutant: a confirmed draft is replaced too
ReplaceableAnyDraft(a) == IsDraft(a)

\* the guard of the drafts: only an unconfirmed draft is ever replaced or dropped
Replaceable(a) == IsDraft(a) /\ a \notin confirmed

Standing(a) == \E q \in published : Contains(thread[q], a)
QuestionOf(a) == CHOOSE q \in Questions : Contains(thread[q], a)

Enter(c, op, at, on, seen) ==
    duty' = [duty EXCEPT ![c] = [Waiting EXCEPT !.op = op, !.at = at, !.on = on, !.seen = seen]]
Go(c, at) == duty' = [duty EXCEPT ![c].at = at]

\* DeleteAnswer of the row the request read: nothing when it is gone
DeleteAnswer(a) ==
  [q \in Questions |-> IF Contains(thread[q], a)
                       THEN RemoveAt(thread[q], CHOOSE i \in DOMAIN thread[q] : thread[q][i] = a)
                       ELSE thread[q]]
\* CreateAnswer: the foreign key refuses a deleted question
CreateAnswer(q, a) ==
    thread' = IF q \in published THEN [thread EXCEPT ![q] = Append(@, a)] ELSE thread

\* the drafts being generated for a question another answer is given to
Generating == {c \in Clerks : duty[c].op = "draft" /\ duty[c].at \in {"delete", "write"}}
GeneratingFor(q) == {c \in Generating : duty[c].on = q}

PanelUntouched == UNCHANGED <<panel, blurred>>

AskStoresAnswer(q) ==
    /\ q \in asking
    /\ asking' = asking \ {q}
    /\ CreateAnswer(q, q)
    /\ overtaken' = overtaken \cup GeneratingFor(q)
    /\ UNCHANGED <<published, confirmed, duty>> /\ PanelUntouched

-----------------------------------------------------------------------------
(* CreateSessionAnswer: read the answer, delete it, create the manual one. *)
ManualRead(c, q) ==
    /\ duty[c].op = "none" /\ q \in published
    /\ Enter(c, "manual", IF LatestAnswer(q) = NoAnswer THEN "write" ELSE "delete",
             q, LatestAnswer(q))
    /\ UNCHANGED <<thread, published, asking, confirmed, overtaken>> /\ PanelUntouched

ManualDelete(c) ==
    /\ duty[c].op = "manual" /\ duty[c].at = "delete"
    /\ thread' = DeleteAnswer(duty[c].seen)
    /\ Go(c, "write")
    /\ UNCHANGED <<published, asking, confirmed, overtaken>> /\ PanelUntouched

ManualWrite(c) ==
    /\ duty[c].op = "manual" /\ duty[c].at = "write"
    /\ CreateAnswer(duty[c].on, c)
    /\ Go(c, "over")
    /\ overtaken' = overtaken \cup GeneratingFor(duty[c].on)
    /\ UNCHANGED <<published, asking, confirmed>> /\ PanelUntouched

-----------------------------------------------------------------------------
(* CreateOrchestrationDraftAnswer.  The draft it replaces is deleted       *)
(* before the generation; the row is created after it, without a look.     *)
\* mutant: no conflict with a standing answer
MayDraftAlways(q) == TRUE
MayDraft(q) == LatestAnswer(q) = NoAnswer \/ Replaceable(LatestAnswer(q))

DraftRead(c, q) ==
    /\ duty[c].op = "none" /\ q \in published
    /\ Cardinality(Generating) < MaxDrafts
    /\ MayDraft(q)
    /\ Enter(c, "draft", IF LatestAnswer(q) = NoAnswer THEN "write" ELSE "delete",
             q, LatestAnswer(q))
    /\ overtaken' = overtaken \cup {d \in {c} : LatestAnswer(q) \in overtaken}
    /\ UNCHANGED <<thread, published, asking, confirmed>> /\ PanelUntouched

DraftReplace(c) ==
    /\ duty[c].op = "draft" /\ duty[c].at = "delete"
    /\ thread' = DeleteAnswer(duty[c].seen)
    /\ Go(c, "write")
    /\ UNCHANGED <<published, asking, confirmed, overtaken>> /\ PanelUntouched

DraftWrite(c) ==
    /\ duty[c].op = "draft" /\ duty[c].at = "write"
    /\ CreateAnswer(duty[c].on, c)
    /\ Go(c, "over")
    /\ UNCHANGED <<published, asking, confirmed, overtaken>> /\ PanelUntouched

\* DeleteOrchestrationDraftAnswer: checked, then deleted
DropRead(c, a) ==
    /\ duty[c].op = "none" /\ Standing(a) /\ Replaceable(a)
    /\ Enter(c, "drop", "delete", QuestionOf(a), a)
    /\ UNCHANGED <<thread, published, asking, confirmed, overtaken>> /\ PanelUntouched

DropDelete(c) ==
    /\ duty[c].op = "drop" /\ duty[c].at = "delete"
    /\ thread' = DeleteAnswer(duty[c].seen)
    /\ Go(c, "over")
    /\ UNCHANGED <<published, asking, confirmed, overtaken>> /\ PanelUntouched

\* a request whose client went away, or whose next statement failed, stops where it is
GivesUp(c) ==
    /\ duty[c].at \in {"delete", "write", "look", "clear", "insert"}
    /\ Go(c, "over")
    /\ UNCHANGED <<thread, published, asking, confirmed, overtaken>> /\ PanelUntouched

-----------------------------------------------------------------------------
(* UpdateAnswerConfirmed: any answered row, in both directions.            *)
ConfirmRead(c, a) ==
    /\ duty[c].op = "none" /\ Standing(a)
    /\ Enter(c, "confirm", "write", QuestionOf(a), a)
    /\ UNCHANGED <<thread, published, asking, confirmed, overtaken>> /\ PanelUntouched

ConfirmWrite(c, yes) ==
    LET a == duty[c].seen IN
    /\ duty[c].op = "confirm" /\ duty[c].at = "write"
    /\ confirmed' = IF ~Standing(a) THEN confirmed
                    ELSE IF yes THEN confirmed \cup {a} ELSE confirmed \ {a}
    /\ overtaken' = IF \E d \in Clerks : duty[d].seen = a /\ duty[d].at = "delete"
                    THEN overtaken \cup {a} ELSE overtaken
    /\ Go(c, "over")
    /\ UNCHANGED <<thread, published, asking>> /\ PanelUntouched

Syncing == {c \in Clerks : duty[c].op = "sync" /\ duty[c].at # "over"}

\* DeleteSessionQuestion: the transaction also purges the panel's rows on the question
PurgeEvidence(q) == {r \in panel : r.on # q}

DeleteRead(c, q) ==
    /\ duty[c].op = "none" /\ q \in published
    /\ Enter(c, "delete", "write", q, NoAnswer)
    /\ UNCHANGED <<thread, published, asking, confirmed, overtaken>> /\ PanelUntouched

DeleteWrite(c) ==
    LET q == duty[c].on IN
    /\ duty[c].op = "delete" /\ duty[c].at = "write"
    /\ published' = published \ {q}
    /\ thread' = [thread EXCEPT ![q] = << >>]
    /\ panel' = PurgeEvidence(q)
    /\ blurred' = blurred \cup Syncing
    /\ Go(c, "over")
    /\ UNCHANGED <<asking, confirmed, overtaken>>

-----------------------------------------------------------------------------
(* SyncSessionRecommendations: the questions are listed, looked at one by  *)
(* one, the panel is cleared and the rows inserted one by one.             *)
SyncList(c) ==
    /\ duty[c].op = "none"
    /\ duty' = [duty EXCEPT ![c] = [Waiting EXCEPT !.op = "sync", !.at = "look", !.todo = published]]
    /\ blurred' = IF Syncing = {} THEN blurred ELSE blurred \cup Syncing \cup {c}
    /\ UNCHANGED <<thread, published, asking, confirmed, overtaken, panel>>

Advised(c, q) ==
    {[by |-> c, advice |-> "unanswered_question", on |-> q] : a \in {LatestAnswer(q)} \cap {NoAnswer}}
    \cup {[by |-> c, advice |-> "review_draft_answer", on |-> q] :
             a \in {b \in {LatestAnswer(q)} \ {NoAnswer} : PendingReview(b)}}

SyncLook(c, q) ==
    /\ duty[c].op = "sync" /\ duty[c].at = "look" /\ q \in duty[c].todo
    /\ duty' = [duty EXCEPT ![c].todo = @ \ {q}, ![c].found = @ \cup Advised(c, q)]
    /\ UNCHANGED <<thread, published, asking, confirmed, overtaken>> /\ PanelUntouched

\* DeleteOrchestrationRecommendationsBySessionID
Cleared == {}

SyncClear(c) ==
    /\ duty[c].op = "sync" /\ duty[c].at = "look" /\ duty[c].todo = {}
    /\ panel' = Cleared
    /\ Go(c, IF duty[c].found = {} THEN "over" ELSE "insert")
    /\ UNCHANGED <<thread, published, asking, confirmed, overtaken, blurred>>

SyncInsert(c, r) ==
    /\ duty[c].op = "sync" /\ duty[c].at = "insert" /\ r \in duty[c].found
    /\ panel' = panel \cup {r}
    /\ duty' = [duty EXCEPT ![c].found = @ \ {r},
                            ![c].at = IF duty[c].found = {r} THEN "over" ELSE @]
    /\ UNCHANGED <<thread, published, asking, confirmed, overtaken, blurred>>

-----------------------------------------------------------------------------
ReviewNext ==
    \/ \E q \in Questions : AskStoresAnswer(q)
    \/ \E c \in Clerks :
         \/ \E q \in Questions :
              ManualRead(c, q) \/ DraftRead(c, q) \/ DeleteRead(c, q) \/ SyncLook(c, q)
         \/ \E a \in AnswerIds : DropRead(c, a) \/ ConfirmRead(c, a)
         \/ \E yes \in BOOLEAN : ConfirmWrite(c, yes)
         \/ \E r \in Recommendations : SyncInsert(c, r)
         \/ ManualDelete(c) \/ ManualWrite(c) \/ DraftReplace(c) \/ DraftWrite(c)
         \/ DropDelete(c) \/ DeleteWrite(c) \/ SyncList(c) \/ SyncClear(c) \/ GivesUp(c)

ReviewSpec == ReviewInit /\ [][ReviewNext]_reviewVars

-----------------------------------------------------------------------------
(* What an editor confirmed is lost only on purpose: with its question, or *)
(* to a manual answer.  The drafts' requests never take it away, unless    *)
(* the confirmation came between their look and their deletion             *)
(* (session_orchestration_draft.go: "Removes an unconfirmed orchestration  *)
(* draft only").                                                           *)
ConfirmedStays ==
    [][\A q \in Questions : \A a \in confirmed \ overtaken :
          Contains(thread[q], a) /\ ~Contains(thread'[q], a) =>
             \/ q \notin published'
             \/ \E c \in Clerks : duty[c].op = "manual" /\ duty[c].at = "delete" /\ duty[c].seen = a
      ]_reviewVars

\* The same without the excuse, as the comment states it.
DraftRequestsSpareConfirmed ==
    [][\A q \in Questions : \A a \in confirmed :
          Contains(thread[q], a) /\ ~Contains(thread'[q], a) =>
             \/ q \notin published'
             \/ \E c \in Clerks : duty[c].op = "manual" /\ duty[c].at = "delete" /\ duty[c].seen = a
      ]_reviewVars

(* A draft is only ever generated for a question without a standing answer *)
(* (the 409 of generateOrchestrationDraftAnswer): no draft stands behind   *)
(* another answer, which it would hide from the participants, unless that  *)
(* answer was given while the draft was being generated.                   *)
NoAnswerShadowed ==
    \A q \in Questions : \A i \in DOMAIN thread[q] :
        IsDraft(thread[q][i]) /\ thread[q][i] \notin overtaken =>
            \A j \in 1..(i - 1) : IsDraft(thread[q][j])

(* The panel never shows a deleted question, nor one question twice, once  *)
(* a sync has run by itself: deletion and sync together keep it so         *)
(* (DeleteQuestionAndOrchestrationEvidenceByID, SyncSessionRecommendations).*)
PanelAgrees ==
    \A r \in panel : r.by \notin blurred =>
        /\ r.on \in published
        /\ \A s \in panel : s.on = r.on /\ s.by \notin blurred => s = r

(* Answers, drafts and the panel built from them agree.                    *)
ReviewAgrees == NoAnswerShadowed /\ PanelAgrees
=============================================================================
