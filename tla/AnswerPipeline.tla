--------------------------- MODULE AnswerPipeline ---------------------------
(***************************************************************************)
(* How an answer is generated and checked: one round of the model, one     *)
(* retry when it cites nothing that was retrieved, a judge that the hour's *)
(* quota may skip, one retry when the judge refuses.  Every round leaves a *)
(* row of telemetry in a bounded buffer; a flusher writes the rows to the  *)
(* table the quota is counted from.                                        *)
(***************************************************************************)
EXTENDS Naturals, Sequences, FiniteSets

CONSTANTS
    Asks,           \* questions of one user within one hour
    Retrieved,      \* chunks the retrieval may hand over
    Stray,          \* a chunk id the model invents
    JudgeMax,       \* GUARDRAIL_JUDGE_MAX_PER_USER_PER_HOUR
    RowsMax,        \* bufferCap (1024)
    MaxLosses       \* bound of the model: failed inserts and restarts

ASSUME PipelineAssumption ==
    /\ Stray \notin Retrieved
    /\ {JudgeMax, RowsMax} \subseteq Nat \ {0} /\ MaxLosses \in Nat

VARIABLES
    query,          \* each question: its path, its chunks, how far it is, the answer so far
    stored,         \* the rows of answers written
    rows,           \* guardrails.buffer
    batch,          \* the rows the flusher took and has not inserted yet
    counted,        \* judge rows in llm_call_log
    losses,         \* failed inserts and restarts so far
    judged,         \* ghost: judge rounds logged
    gone,           \* ghost: judge rows dropped, not inserted or forgotten
    lagged          \* ghost: a quota check passed that could not see every round

pipeVars == <<query, stored, rows, batch, counted, losses, judged, gone, lagged>>
tapeVars == <<rows, batch, counted, losses, judged, gone>>

Statuses == {"answered", "not_covered", "error"}
Ids == Retrieved \cup {Stray}
Blank == [at |-> "idle", path |-> "ask", chunks |-> {}, status |-> "error", cites |-> {}, vouch |-> "none"]

PipelineInit ==
    /\ query = [a \in Asks |-> Blank] /\ stored = {}
    /\ rows = << >> /\ batch = << >> /\ counted = 0 /\ losses = 0
    /\ judged = 0 /\ gone = 0 /\ lagged = FALSE

-----------------------------------------------------------------------------
(* Telemetry: LogLLMCall, the flusher, and what a restart forgets.         *)
Judges(s) == Cardinality({i \in DOMAIN s : s[i] = "judge"})

\* a full buffer drops its oldest row
Appended(row) == Append(IF Len(rows) >= RowsMax THEN Tail(rows) ELSE rows, row)

LogLLMCall(row) ==
    /\ rows' = Appended(row)
    /\ gone' = gone + Judges(rows) + Judges(<<row>>) - Judges(Appended(row))
    /\ judged' = judged + Judges(<<row>>)
    /\ UNCHANGED <<batch, counted, losses>>

Remaining == << >>

DrainTake ==
    /\ batch = << >> /\ rows # << >>
    /\ batch' = rows /\ rows' = Remaining
    /\ UNCHANGED <<query, stored, counted, losses, judged, gone, lagged>>

\* InsertLLMCallRow; a row that fails is not buffered again
DrainInsert ==
    /\ batch # << >>
    /\ batch' = Tail(batch)
    /\ \/ counted' = counted + Judges(<<Head(batch)>>) /\ UNCHANGED <<losses, gone>>
       \/ /\ losses < MaxLosses /\ losses' = losses + 1
          /\ gone' = gone + Judges(<<Head(batch)>>) /\ UNCHANGED counted
    /\ UNCHANGED <<query, stored, rows, judged, lagged>>

\* the server goes down: guardrails.Stop is called from nowhere
Restarted ==
    /\ losses < MaxLosses /\ losses' = losses + 1
    /\ rows' = << >> /\ batch' = << >>
    /\ gone' = gone + Judges(rows) + Judges(batch)
    /\ query' = [a \in Asks |-> IF query[a].at = "idle" THEN query[a] ELSE [Blank EXCEPT !.at = "over"]]
    /\ UNCHANGED <<stored, counted, judged, lagged>>

-----------------------------------------------------------------------------
(* GenerateAnswer                                                          *)
Moves(a, at) == query' = [query EXCEPT ![a].at = at]
AskOver(a) == query' = [query EXCEPT ![a] = [Blank EXCEPT !.at = "over"]]
Kept == UNCHANGED <<stored, lagged>>

\* normalizeQAResponse: an odd status is an error, and doubt is "not covered" without citations
Normalized(status, sure, cites) ==
    IF ~sure \/ status = "not_covered" THEN [status |-> "not_covered", cites |-> {}]
    ELSE [status |-> status, cites |-> cites]

\* "answered" must cite one of the chunks that were handed over
CheckCitations(cites, chunks) == chunks = {} \/ cites \cap chunks # {}

\* the question is read, refused at once, or answered without a round when nothing was retrieved
AskBegin(a, path, chunks) ==
    /\ query[a].at = "idle"
    /\ query' = [query EXCEPT ![a] = [Blank EXCEPT !.path = path, !.chunks = chunks,
                  !.status = IF chunks = {} THEN "not_covered" ELSE "error",
                  !.at = IF chunks = {} THEN "store" ELSE "round"]]
    /\ UNCHANGED tapeVars /\ Kept

InputRefused(a) ==
    /\ query[a].at = "idle" /\ AskOver(a)
    /\ LogLLMCall("other") /\ Kept

\* callOpenAIForQA: a reply that parses replaces the answer so far
Round(a, from, to, failedTo) ==
    /\ query[a].at = from
    /\ \/ \E status \in Statuses, sure \in BOOLEAN, cites \in SUBSET Ids :
            LET qa == Normalized(status, sure, cites) IN
            query' = [query EXCEPT ![a].at = to, ![a].status = qa.status, ![a].cites = qa.cites]
       \/ Moves(a, failedTo)
    /\ Kept

\* a transport error logs nothing, a reply that does not parse logs its row
AskRound(a) ==
    \/ Round(a, "round", "cited", "store") /\ LogLLMCall("other")
    \/ query[a].at = "round" /\ Moves(a, "store") /\ UNCHANGED tapeVars /\ Kept

CiteCheck(a) ==
    /\ query[a].at = "cited"
    /\ Moves(a, IF query[a].status # "answered" THEN "store"
                ELSE IF CheckCitations(query[a].cites, query[a].chunks) THEN "quota"
                ELSE "recite")
    /\ UNCHANGED tapeVars /\ Kept

CitationRetry(a) ==
    \/ Round(a, "recite", "recited", "recited") /\ LogLLMCall("other")
    \/ query[a].at = "recite" /\ Moves(a, "recited") /\ UNCHANGED tapeVars /\ Kept

\* mutant: the retry's answer is not checked again
NotCheckedAgain(cites, chunks) == TRUE

CitedAgain(cites, chunks) == CheckCitations(cites, chunks)

\* a refusal logs its row
Refused(a) ==
    /\ query' = [query EXCEPT ![a] = [Blank EXCEPT !.at = "refused", !.path = query[a].path]]
    /\ LogLLMCall("other") /\ Kept

CiteRecheck(a) ==
    /\ query[a].at = "recited"
    /\ IF query[a].status = "answered" /\ ~CitedAgain(query[a].cites, query[a].chunks) THEN Refused(a)
       ELSE /\ Moves(a, IF query[a].status = "answered" THEN "quota" ELSE "store")
            /\ UNCHANGED tapeVars /\ Kept

\* the asks that passed the check and may still call the judge
Judging == {a \in Asks : query[a].at \in {"judge", "reground", "regrounded", "rejudge"}}

QuotaLeft(n) == n < JudgeMax

\* CheckJudgeQuota counts the table; without quota the answer passes with its citations.
\* (A count that fails lets the judge run: the table is then as good as empty.)
QuotaCheck(a) ==
    /\ query[a].at = "quota"
    /\ IF QuotaLeft(counted)
       THEN /\ Moves(a, "judge")
            /\ lagged' = (lagged \/ Judging # {} \/ judged # counted)
            /\ UNCHANGED tapeVars
       ELSE /\ query' = [query EXCEPT ![a].at = "store", ![a].vouch = "skipped"]
            /\ LogLLMCall("other") /\ UNCHANGED lagged
    /\ UNCHANGED stored

\* CheckGrounding: an error of the judge counts as its consent
Verdict(a, from, to) ==
    /\ query[a].at = from
    /\ \/ query' = [query EXCEPT ![a].at = "store", ![a].vouch = "judged"] /\ LogLLMCall("judge")
       \/ Moves(a, to) /\ LogLLMCall("judge")
       \/ query' = [query EXCEPT ![a].at = "store", ![a].vouch = "skipped"] /\ UNCHANGED tapeVars
    /\ Kept

JudgeRound(a) == Verdict(a, "judge", "reground")
Rejudge(a)    == Verdict(a, "rejudge", "rejected")

RejudgeRefused(a) == query[a].at = "rejected" /\ Refused(a)

\* the retry's answer goes to the judge again, unless it cites nothing at all
GroundingRetry(a) ==
    \/ Round(a, "reground", "regrounded", "regrounded") /\ LogLLMCall("other")
    \/ query[a].at = "reground" /\ Moves(a, "regrounded") /\ UNCHANGED tapeVars /\ Kept

Regrounded(a) ==
    /\ query[a].at = "regrounded"
    /\ query' = [query EXCEPT ![a].at = IF query[a].status = "answered" /\ query[a].cites # {} THEN "rejudge" ELSE "store",
                          ![a].vouch = "retried"]
    /\ UNCHANGED tapeVars /\ Kept

-----------------------------------------------------------------------------
(* The callers.                                                            *)
Written(a, status) == stored \cup {[of |-> a, status |-> status, cites |-> query[a].cites, given |-> query[a].chunks, vouch |-> query[a].vouch]}

\* ScrubText may log a row; CreateAnswer may fail
Store(a) ==
    /\ query[a].at = "store" /\ AskOver(a)
    /\ stored' = Written(a, query[a].status) \/ stored' = stored
    /\ LogLLMCall("other") \/ UNCHANGED tapeVars
    /\ UNCHANGED lagged

\* SessionAsk and the MCP tool keep no row; a spoken question gets an empty error
StoreRefusal(a) ==
    /\ query[a].at = "refused" /\ AskOver(a)
    /\ stored' = IF query[a].path = "voice" THEN Written(a, "error") ELSE stored
    /\ UNCHANGED tapeVars /\ UNCHANGED lagged

PipelineNext ==
    \/ DrainTake \/ DrainInsert \/ Restarted
    \/ \E a \in Asks :
         \/ \E path \in {"ask", "voice"}, chunks \in SUBSET Retrieved : AskBegin(a, path, chunks)
         \/ InputRefused(a) \/ AskRound(a) \/ CiteCheck(a) \/ CitationRetry(a) \/ CiteRecheck(a)
         \/ QuotaCheck(a) \/ JudgeRound(a) \/ GroundingRetry(a) \/ Regrounded(a) \/ Rejudge(a)
         \/ RejudgeRefused(a) \/ Store(a) \/ StoreRefusal(a)

PipelineSpec == PipelineInit /\ [][PipelineNext]_pipeVars

-----------------------------------------------------------------------------
PipelineTypeOK ==
    /\ \A a \in Asks : query[a].chunks \subseteq Retrieved /\ query[a].status \in Statuses /\ query[a].cites \subseteq Ids
    /\ \A r \in stored : r.of \in Asks /\ r.status \in Statuses
    /\ Len(rows) <= RowsMax /\ Len(batch) <= RowsMax
    /\ {counted, losses, judged, gone} \subseteq Nat /\ lagged \in BOOLEAN

(***************************************************************************)
(* An answer that is kept as "answered" cites a chunk that was handed to   *)
(* the model, and the judge consented or did not run - but for one that    *)
(* came out of the grounding retry (qa.go:510-640).                        *)
(***************************************************************************)
AnswersVouched ==
    \A r \in stored : r.status = "answered" /\ r.vouch # "retried" =>
        r.vouch \in {"judged", "skipped"} /\ (r.vouch = "skipped" => r.cites # {})

(***************************************************************************)
(* Every round of the judge is in the table, on its way there, or lost,    *)
(* once: the quota is counted from rows that neither multiply nor vanish   *)
(* unnoticed (log.go).                                                     *)
(***************************************************************************)
JudgeRowsAddUp == judged = counted + Judges(rows) + Judges(batch) + gone

(***************************************************************************)
(* The hour's judge rounds exceed the quota by one (the second round of    *)
(* the ask that passed the check), unless a check passed while rounds were *)
(* under way, unflushed or lost (grounding.go, CheckJudgeQuota).           *)
(***************************************************************************)
QuotaHolds == ~lagged => judged <= JudgeMax + 1

\* What is given out as an answer was vouched for, and the telemetry it left adds up
\* to the quota it is counted against (qa.go:509-640, grounding.go:118-150).
GuardsHold == AnswersVouched /\ JudgeRowsAddUp /\ QuotaHolds

(***************************************************************************)
(* "An `answered` response that cites zero retrieved chunks is ungrounded  *)
(* by definition" and is refused after one retry (output.go:3-9).          *)
(***************************************************************************)
AnsweredCites ==
    \A r \in stored : r.status = "answered" => CheckCitations(r.cites, r.given)
=============================================================================
