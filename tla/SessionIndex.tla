----------------------------- MODULE SessionIndex -----------------------------
(***************************************************************************)
(* The index of a session and the questions asked of it.  IndexSession is  *)
(* started by every change of the content, by a request and by askers; its *)
(* runs are not kept apart.  It reads the sources, writes a row for each   *)
(* chunk, clears the vectors of the session and inserts those of what it   *)
(* read.  An asker looks for an earlier answer, retrieves, and stores the  *)
(* answer.  A source stands for its chunks.                                *)
(***************************************************************************)
EXTENDS Naturals, FiniteSets

CONSTANTS
  Texts,           \* materials and links that may have a text to index
  LinkTexts,       \* the links among them
  Metadata,        \* the chunk that describes the session itself
  Subject,         \* the source that answers the question
  Builders,        \* goroutines and requests that run IndexSession
  Askers,          \* requests that ask the one question, on the web or over MCP
  MaxQuestions,    \* MAX_QUESTIONS_PER_SESSION
  MaxSlips         \* bound of the model: failing statements and calls

Indexers == Builders \union Askers
Numbers == 1..(MaxQuestions + Cardinality(Askers) - 1)

ASSUME SessionIndexAssumption ==
  /\ LinkTexts \subseteq Texts /\ Subject \in Texts /\ Metadata \notin Texts
  /\ Builders \intersect Askers = {} /\ IsFiniteSet(Askers)
  /\ MaxQuestions \in Nat \ {0} /\ MaxSlips \in Nat

VARIABLES
  text,      \* of a source: "none", "there", "leaving" while it is deleted, "deleted"
  chunkRows, \* sources with rows in session_chunks
  vectors,   \* sources with rows in session_chunk_embeddings
  indexing,  \* the runs of IndexSession: step, what was read, the rows left to embed
  ask,       \* the requests of the askers
  questions, \* number of the questions stored; all ask the same
  answers,   \* the latest answer to each
  fresher,   \* questions whose answer is older than index_updated_at
  slips,
  dropped,   \* history: texts whose vector a clear, a wipe or a failure took
  echoed,    \* history: sources a run had read when their chunks were deleted
  blind      \* history: questions answered after the index had moved on

indexVars == <<text, chunkRows, vectors, indexing, ask, questions, answers, fresher,
               slips, dropped, echoed, blind>>

HasIndexableText == {s \in Texts : text[s] \in {"there", "leaving"}}
NoRun == [step |-> "idle", read |-> {}, rows |-> {}]
NotAsking == [step |-> "idle", via |-> "web", number |-> 0, retry |-> FALSE, saw |-> FALSE, moved |-> FALSE]

Free(i) == indexing[i].step \in {"idle", "failed"}

\* Only an asker looks at the error of its run.
Failed(i) ==
  /\ indexing' = [indexing EXCEPT ![i] = [NoRun EXCEPT !.step = IF i \in Askers THEN "failed" ELSE "idle"]]
  /\ dropped' = dropped \union HasIndexableText
RunTo(i, step) == indexing' = [indexing EXCEPT ![i].step = step]
Slip == slips < MaxSlips /\ slips' = slips + 1

\* mutant: index_updated_at stays
TouchStatus == UNCHANGED <<fresher, ask>>

\* setSessionIndexStatus; askers between retrieval and answer do not hear of it.
TouchIndex ==
  /\ fresher' = {n \in Numbers : answers[n] # "none"}
  /\ ask' = [k \in Askers |-> IF ask[k].step \in {"again", "count", "create", "answer"}
                              THEN [ask[k] EXCEPT !.moved = TRUE] ELSE ask[k]]

-----------------------------------------------------------------------------
(* Content: a change triggers a run, the deletion of a material does not *)

TriggerIndex(b) ==
  /\ b \in Builders /\ Free(b)
  /\ indexing' = [indexing EXCEPT ![b] = [NoRun EXCEPT !.step = "begin"]]

AddText(s, b) ==
  /\ text[s] = "none"
  /\ text' = [text EXCEPT ![s] = "there"]
  /\ TriggerIndex(b)
  /\ UNCHANGED <<chunkRows, vectors, ask, questions, answers, fresher, slips, dropped, echoed, blind>>

\* A row that is deleted can not be given a vector any more.
WithoutRows(S) == [i \in Indexers |-> [indexing[i] EXCEPT !.rows = @ \ S]]

\* mutant: the vectors do not go with their chunks
KeepVectors(s) == chunkRows' = chunkRows \ {s} /\ UNCHANGED <<vectors, indexing>>

\* DeleteSessionChunksBySource
DeleteChunks(s) ==
  /\ chunkRows' = chunkRows \ {s}
  /\ vectors' = vectors \ {s}
  /\ indexing' = WithoutRows({s})

DeleteTextChunks(s) ==
  /\ text[s] = "there"
  /\ text' = [text EXCEPT ![s] = "leaving"]
  /\ DeleteChunks(s)
  /\ echoed' = IF \E i \in Indexers : s \in indexing[i].read THEN echoed \union {s} ELSE echoed
  /\ UNCHANGED <<ask, questions, answers, fresher, slips, dropped, blind>>

DeleteMaterialText(s) ==
  /\ text[s] = "leaving" /\ s \notin LinkTexts
  /\ text' = [text EXCEPT ![s] = "deleted"]
  /\ UNCHANGED <<chunkRows, vectors, indexing, ask, questions, answers, fresher, slips, dropped, echoed, blind>>

DeleteLinkText(s, b) ==
  /\ text[s] = "leaving" /\ s \in LinkTexts
  /\ text' = [text EXCEPT ![s] = "deleted"]
  /\ TriggerIndex(b)
  /\ UNCHANGED <<chunkRows, vectors, ask, questions, answers, fresher, slips, dropped, echoed, blind>>

-----------------------------------------------------------------------------
(* IndexSession *)

IndexBegin(i) ==
  /\ indexing[i].step = "begin"
  /\ RunTo(i, "read")
  /\ TouchIndex
  /\ UNCHANGED <<text, chunkRows, vectors, questions, answers, slips, dropped, echoed, blind>>

\* A failure leaves the session "building".
IndexRead(i) ==
  /\ indexing[i].step = "read"
  /\ \/ /\ indexing' = [indexing EXCEPT ![i] = [step |-> "upsert", read |-> HasIndexableText \union {Metadata},
                                                rows |-> {}]]
        /\ echoed' = echoed \union {s \in Texts : text[s] = "leaving"}
        /\ UNCHANGED <<slips, dropped>>
     \/ Slip /\ Failed(i) /\ UNCHANGED echoed
  /\ UNCHANGED <<text, chunkRows, vectors, ask, questions, answers, fresher, blind>>

UpsertChunks(i) ==
  /\ indexing[i].step = "upsert"
  /\ \/ /\ chunkRows' = chunkRows \union indexing[i].read
        /\ indexing' = [indexing EXCEPT ![i] = [step |-> "clear", read |-> {}, rows |-> indexing[i].read]]
        /\ UNCHANGED <<slips, dropped>>
     \/ /\ Slip /\ Failed(i)
        /\ \E done \in SUBSET indexing[i].read : chunkRows' = chunkRows \union done
  /\ UNCHANGED <<text, vectors, ask, questions, answers, fresher, echoed, blind>>

ClearVectors(i) ==
  /\ indexing[i].step = "clear"
  /\ vectors' = {}
  /\ dropped' = dropped \union ((vectors \ indexing[i].rows) \intersect Texts)
  /\ RunTo(i, "embed")
  /\ UNCHANGED <<text, chunkRows, ask, questions, answers, fresher, slips, echoed, blind>>

Embed(i) ==
  /\ indexing[i].step = "embed"
  /\ \/ /\ RunTo(i, "insert")
        /\ UNCHANGED <<ask, fresher, slips, dropped>>
     \/ Slip /\ Failed(i) /\ TouchIndex
  /\ UNCHANGED <<text, chunkRows, vectors, questions, answers, echoed, blind>>

Inserted(i, s) == indexing' = [indexing EXCEPT ![i].rows = @ \ {s}]

InsertVector(i, s) ==
  /\ indexing[i].step = "insert" /\ s \in indexing[i].rows
  /\ vectors' = vectors \union {s}
  /\ Inserted(i, s)
  /\ dropped' = dropped \ {s}
  /\ UNCHANGED <<text, chunkRows, ask, questions, answers, fresher, slips, echoed, blind>>

IndexReady(i) ==
  /\ indexing[i].step = "insert" /\ indexing[i].rows = {}
  /\ indexing' = [indexing EXCEPT ![i] = NoRun]
  /\ TouchIndex
  /\ UNCHANGED <<text, chunkRows, vectors, questions, answers, slips, dropped, echoed, blind>>

\* Reindex requests, and askers that find nothing, delete everything first.
WipeIndex ==
  /\ vectors' = {} /\ chunkRows' = {}
  /\ dropped' = dropped \union (Texts \intersect (vectors \union UNION {indexing[i].rows : i \in Indexers}))

SessionReindex(b) ==
  /\ Free(b)
  /\ WipeIndex
  /\ indexing' = [WithoutRows(Texts \union {Metadata}) EXCEPT ![b] = [NoRun EXCEPT !.step = "begin"]]
  /\ UNCHANGED <<text, ask, questions, answers, fresher, slips, echoed, blind>>

-----------------------------------------------------------------------------
(* SessionAsk and its MCP twin *)

Latest == IF questions = 0 THEN "none" ELSE answers[questions]

\* The MCP tool returns any earlier answer.
RetriesStale(via) == via = "web" /\ Latest = "not_covered" /\ questions \in fresher

FindExistingQuestion(k, via) ==
  /\ ask[k].step = "idle"
  /\ Latest = "none" \/ RetriesStale(via)
  /\ ask' = [ask EXCEPT ![k] = [NotAsking EXCEPT !.step = "ensure", !.via = via, !.retry = Latest # "none",
                                                  !.number = IF Latest = "none" THEN 0 ELSE questions]]
  /\ UNCHANGED <<text, chunkRows, vectors, indexing, questions, answers, fresher, slips, dropped, echoed, blind>>

EnsureSessionIndex(k) ==
  /\ ask[k].step = "ensure"
  /\ indexing' = [indexing EXCEPT ![k] = IF vectors = {} THEN [NoRun EXCEPT !.step = "begin"] ELSE NoRun]
  /\ ask' = [ask EXCEPT ![k].step = "retrieve"]
  /\ UNCHANGED <<text, chunkRows, vectors, questions, answers, fresher, slips, dropped, echoed, blind>>

GiveUpAsking(k) == ask' = [ask EXCEPT ![k] = NotAsking]

\* Nothing was retrieved, or (not asked by the MCP tool) a source has no chunks:
\* one more run, and one more look.
UnindexedSource == \E s \in HasIndexableText : s \notin chunkRows

RetrieveTopK(k) ==
  /\ ask[k].step = "retrieve" /\ Free(k)
  /\ IF indexing[k].step = "failed" /\ ask[k].via = "mcp"
     THEN GiveUpAsking(k) /\ UNCHANGED <<chunkRows, vectors, indexing, dropped>>
     ELSE LET look(step) == ask' = [ask EXCEPT ![k] = [@ EXCEPT !.step = step, !.saw = Subject \in vectors]]
          IN  \/ /\ vectors = {} /\ HasIndexableText # {}
                 /\ look("again")
                 /\ WipeIndex
                 /\ indexing' = [WithoutRows(Texts \union {Metadata})
                                   EXCEPT ![k] = [NoRun EXCEPT !.step = "begin"]]
              \/ /\ ~(vectors = {} /\ HasIndexableText # {})
                 /\ UNCHANGED <<chunkRows, vectors, dropped>>
                 /\ IF ask[k].via = "web" /\ UnindexedSource
                    THEN /\ look("again")
                         /\ indexing' = [indexing EXCEPT ![k] = [NoRun EXCEPT !.step = "begin"]]
                    ELSE look("count") /\ UNCHANGED indexing
  /\ UNCHANGED <<text, questions, answers, fresher, slips, echoed, blind>>

RetrieveAgain(k) ==
  /\ ask[k].step = "again" /\ Free(k)
  /\ ask' = [ask EXCEPT ![k] = IF indexing[k].step = "failed" THEN [@ EXCEPT !.step = "count"]
                               ELSE [@ EXCEPT !.step = "count", !.saw = Subject \in vectors, !.moved = FALSE]]
  /\ UNCHANGED <<text, chunkRows, vectors, indexing, questions, answers, fresher, slips, dropped, echoed, blind>>

BelowQuestionLimit == questions < MaxQuestions

\* A retried answer needs no new question and does not count.
CountQuestions(k) ==
  /\ ask[k].step = "count"
  /\ IF ask[k].retry THEN ask' = [ask EXCEPT ![k].step = "answer"]
     ELSE IF BelowQuestionLimit THEN ask' = [ask EXCEPT ![k].step = "create"]
     ELSE GiveUpAsking(k)
  /\ UNCHANGED <<text, chunkRows, vectors, indexing, questions, answers, fresher, slips, dropped, echoed, blind>>

CreateQuestion(k) ==
  /\ ask[k].step = "create"
  /\ questions' = questions + 1
  /\ ask' = [ask EXCEPT ![k] = [@ EXCEPT !.step = "answer", !.number = questions + 1]]
  /\ UNCHANGED <<text, chunkRows, vectors, indexing, answers, fresher, slips, dropped, echoed, blind>>

\* The model answers from what was retrieved; a refusal stores nothing.
StoreAnswer(k) ==
  /\ ask[k].step = "answer"
  /\ \/ /\ answers' = [answers EXCEPT ![ask[k].number] = IF ask[k].saw THEN "answered" ELSE "not_covered"]
        /\ fresher' = fresher \ {ask[k].number}
        /\ blind' = IF ask[k].moved THEN blind \union {ask[k].number} ELSE blind \ {ask[k].number}
     \/ UNCHANGED <<answers, fresher, blind>>
  /\ GiveUpAsking(k)
  /\ UNCHANGED <<text, chunkRows, vectors, indexing, questions, slips, dropped, echoed>>

-----------------------------------------------------------------------------
IndexInit ==
  /\ text = [s \in Texts |-> "none"]
  /\ chunkRows = {} /\ vectors = {}
  /\ indexing = [i \in Indexers |-> NoRun]
  /\ ask = [k \in Askers |-> NotAsking]
  /\ questions = 0
  /\ answers = [n \in Numbers |-> "none"]
  /\ fresher = {} /\ dropped = {} /\ echoed = {} /\ blind = {}
  /\ slips = 0

IndexNext ==
  \/ \E s \in Texts :
       \/ DeleteTextChunks(s) \/ DeleteMaterialText(s)
       \/ \E b \in Builders : AddText(s, b) \/ DeleteLinkText(s, b)
  \/ \E b \in Builders : SessionReindex(b)
  \/ \E i \in Indexers :
       \/ IndexBegin(i) \/ IndexRead(i) \/ UpsertChunks(i) \/ ClearVectors(i) \/ Embed(i) \/ IndexReady(i)
       \/ \E s \in Texts \union {Metadata} : InsertVector(i, s)
  \/ \E k \in Askers :
       \/ \E via \in {"web", "mcp"} : FindExistingQuestion(k, via)
       \/ EnsureSessionIndex(k) \/ RetrieveTopK(k) \/ RetrieveAgain(k)
       \/ CountQuestions(k) \/ CreateQuestion(k) \/ StoreAnswer(k)

IndexSpec == IndexInit /\ [][IndexNext]_indexVars

-----------------------------------------------------------------------------
IndexTypeOK ==
  /\ text \in [Texts -> {"none", "there", "leaving", "deleted"}]
  /\ chunkRows \subseteq Texts \union {Metadata}
  /\ vectors \subseteq chunkRows
  /\ indexing \in [Indexers -> [step : {"idle", "begin", "read", "upsert", "clear", "embed", "insert",
                                        "failed"},
                                read : SUBSET (Texts \union {Metadata}), rows : SUBSET chunkRows]]
  /\ ask \in [Askers -> [step : {"idle", "ensure", "retrieve", "again", "count", "create", "answer"},
                         via : {"web", "mcp"},
                         number : Numbers \union {0}, retry : BOOLEAN, saw : BOOLEAN, moved : BOOLEAN]]
  /\ questions \in Numbers \union {0}
  /\ answers \in [Numbers -> {"none", "answered", "not_covered"}]
  /\ fresher \subseteq Numbers /\ blind \subseteq Numbers
  /\ dropped \subseteq Texts /\ echoed \subseteq Texts
  /\ slips \in 0..MaxSlips

Quiet == \A i \in Indexers : Free(i)

\* When no run is left, every source has its vectors, but for those that a clear
\* or a wipe of another run, or a failure, took (index.go:20-240).
QuietIndexIsWhole == Quiet => HasIndexableText \ {s \in Texts : text[s] = "leaving"} \subseteq vectors \union dropped

\* A source that is deleted is retrieved no more, unless a run had read it
\* (session_materials.go:807-816, session_links.go:203-214).
DeletedIsForgotten == \A s \in vectors \intersect Texts : text[s] = "deleted" => s \in echoed

\* The answer "not covered" to a question that the index now covers is tried again,
\* if the index did not move between the retrieval and the answer
\* (session_ask.go:148-160).
NotCoveredIsRetried ==
  /\ Quiet /\ questions # 0 /\ questions \notin blind
  /\ answers[questions] = "not_covered" /\ Subject \in vectors
  => questions \in fresher

\* What can be found and what was answered follow the texts of the session.
IndexFollowsTexts == QuietIndexIsWhole /\ DeletedIsForgotten /\ NotCoveredIsRetried
===============================================================================
