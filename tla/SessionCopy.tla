----------------------------- MODULE SessionCopy -----------------------------
(***************************************************************************)
(* A session is copied, or imported from a template, category by category. *)
(* A failed row is reported and the rest goes on; a failed transcript or   *)
(* frame is critical: a copy is then rolled back, an import marked failed. *)
(* A copy runs inside its request ("sync") or behind a job ("async"); an   *)
(* import always behind a job ("template").                                *)
(***************************************************************************)
EXTENDS Naturals, FiniteSets, Sequences

CONSTANTS
  Pieces,     \* what the source holds, besides its one artifact
  SortOf,     \* "file", "material", "link", "video" or "transcript" of a piece
  Eldest,     \* the oldest of the source's videos
  MainVideo,  \* the one whose role is primary
  Base,       \* the artifact that materials and videos hang on
  FaultBound  \* bound of the model: calls that fail

Sorts == <<"artifact", "file", "material", "link", "video", "transcript">>

ASSUME SessionCopyAssumption ==
  /\ IsFiniteSet(Pieces) /\ Base \notin Pieces /\ FaultBound \in Nat
  /\ SortOf \in [Pieces -> {Sorts[n] : n \in 2..6}]

VARIABLES
  mode,      \* how the copy runs
  stage,     \* what is imported next: 0 nothing yet, 1..6 a sort, 7 the frame, 8 the answer, 9 over
  seen,      \* the pieces the copy knows of
  clone,     \* the new session: "none", "open", "removed"
  copies,    \* the rows it holds
  partial,   \* PartialFailures, and the elements marked failed
  verdict,   \* the answer or the job's state
  abandoned, \* the client of a synchronous copy went away: its context is cancelled
  unnoticed, \* history: pieces lost without a trace
  stuck,     \* history: the rollback could not delete the row
  faults

copyVars == <<mode, stage, seen, clone, copies, partial, verdict, abandoned, unnoticed, stuck, faults>>

PiecesOf(s) == {p \in Pieces : SortOf[p] = s}
Fail(n) == faults' = faults + n /\ faults + n <= FaultBound
Ok == UNCHANGED faults
Ends(v) == stage' = 9 /\ verdict' = v

-----------------------------------------------------------------------------
\* What the source holds is read once; only the artifacts' read is looked at.
LoadSource ==
  /\ mode \in {"sync", "async"} /\ stage = 0 /\ clone = "none" /\ seen = {}
  /\ \/ /\ abandoned \/ Fail(1)
        /\ abandoned => Ok
        /\ Ends("failed")
        /\ UNCHANGED <<seen, unnoticed>>
     \/ /\ ~abandoned
        /\ \E lost \in SUBSET ({SortOf[p] : p \in Pieces} \ {"transcript"}) :
             /\ Fail(Cardinality(lost))
             /\ seen' = {Base} \union {p \in Pieces : SortOf[p] \notin lost \union {"transcript"}}
             /\ unnoticed' = {p \in Pieces : SortOf[p] \in lost}
        /\ UNCHANGED <<stage, verdict>>
  /\ UNCHANGED <<mode, clone, copies, partial, abandoned, stuck>>

\* An import's row comes first, so that it stays whatever fails.
ImportSessionRow ==
  /\ clone = "none" /\ stage = 0 /\ (mode = "template" \/ seen # {})
  /\ \/ abandoned /\ Ok /\ Ends("failed") /\ UNCHANGED clone
     \/ ~abandoned /\ Fail(1) /\ Ends("failed") /\ UNCHANGED clone
     \/ ~abandoned /\ Ok /\ clone' = "open" /\ stage' = (IF mode = "template" THEN 0 ELSE 1) /\ UNCHANGED verdict
  /\ UNCHANGED <<mode, seen, copies, partial, abandoned, unnoticed, stuck>>

\* buildSourceData: an element that cannot be fetched is marked failed, if that write succeeds.
FetchElements ==
  /\ mode = "template" /\ stage = 0 /\ clone # "none"
  /\ \E lost \in SUBSET Pieces, unmarked \in SUBSET Pieces :
       /\ unmarked \subseteq lost
       /\ Fail(Cardinality(lost) + Cardinality(unmarked))
       /\ seen' = {Base} \union (Pieces \ lost)
       /\ partial' = IF lost = unmarked THEN partial ELSE partial \union {"elements"}
       /\ unnoticed' = unmarked
  /\ stage' = 1
  /\ UNCHANGED <<mode, clone, copies, verdict, abandoned, stuck>>

\* mutant: a row that fails is only logged
OnlyLogged(s, failed) == partial' = partial

recordPartialFailure(s, failed) == partial' = IF failed = {} THEN partial ELSE partial \union {s}

HangsOn(s) == IF s \in {"material", "video"} THEN {Base} \subseteq copies ELSE TRUE
Wanted(s) == {p \in seen : IF p = Base THEN s = "artifact" ELSE SortOf[p] = s /\ HangsOn(s)}

\* The first video becomes primary, and there can be only one.
Refused(s, made) == IF s = "video" /\ Eldest \in made /\ MainVideo # Eldest THEN {MainVideo} ELSE {}

ImportRows ==
  LET s == Sorts[stage] IN
  /\ stage \in 1..5
  /\ \E broken \in SUBSET Wanted(s) :
       LET failed == broken \union (Refused(s, Wanted(s) \ broken) \intersect Wanted(s))
       IN  /\ IF abandoned \/ clone = "removed" THEN broken = Wanted(s) /\ Ok ELSE Fail(Cardinality(broken))
           /\ copies' = IF clone = "removed" THEN {} ELSE copies \union (Wanted(s) \ failed)
           /\ recordPartialFailure(s, failed)
  /\ stage' = stage + 1
  /\ UNCHANGED <<mode, seen, clone, verdict, abandoned, unnoticed, stuck>>

\* The rollback uses the context of the copy, and its delete may fail as well.
Rollback ==
  \/ stuck' = TRUE /\ UNCHANGED <<clone, copies>>
  \/ ~abandoned /\ clone' = "removed" /\ copies' = {} /\ UNCHANGED stuck

\* An import that fails keeps its session.
Critical ==
  /\ Ends("failed")
  /\ IF mode = "template" \/ clone = "removed" THEN UNCHANGED <<clone, copies, stuck>> ELSE Rollback
  /\ UNCHANGED <<partial, unnoticed>>

\* A list of transcripts that cannot be read counts as an empty one.
ImportTranscripts ==
  LET from == IF mode = "template" THEN Wanted("transcript") ELSE PiecesOf("transcript")
  IN
  /\ stage = 6
  /\ \/ /\ mode # "template" /\ (abandoned \/ Fail(1)) /\ (abandoned => Ok)
        /\ unnoticed' = unnoticed \union from
        /\ stage' = 7 /\ UNCHANGED <<verdict, clone, copies, stuck, partial>>
     \/ /\ from # {} /\ ~abandoned
        /\ IF clone = "removed" THEN Ok ELSE Fail(1)
        /\ Critical
     \/ /\ (from = {} \/ clone = "open") /\ ~abandoned /\ Ok
        /\ copies' = copies \union from
        /\ stage' = 7 /\ UNCHANGED <<verdict, clone, stuck, partial, unnoticed>>
  /\ UNCHANGED <<mode, seen, abandoned>>

\* An import's transcript segments follow the frame; their failure is an element's.
ImportSessionMetadata ==
  /\ stage = 7
  /\ \/ /\ IF abandoned \/ clone = "removed" THEN Ok ELSE Fail(1)
        /\ Critical
     \/ /\ ~abandoned /\ clone = "open" /\ stage' = 8
        /\ \/ Ok /\ UNCHANGED partial
           \/ mode = "template" /\ Fail(1) /\ partial' = partial \union {"elements"}
        /\ UNCHANGED <<verdict, clone, copies, stuck, unnoticed>>
  /\ UNCHANGED <<mode, seen, abandoned>>

\* hasFailedElement takes a job that cannot be read for one without failures;
\* a state that cannot be written leaves the job running.
Finish ==
  /\ stage = 8
  /\ \/ Ok /\ Ends(IF partial = {} THEN "succeeded" ELSE "partial") /\ UNCHANGED unnoticed
     \/ /\ mode = "template" /\ partial = {"elements"} /\ Fail(1)
        /\ Ends("succeeded") /\ unnoticed' = Pieces \ copies
     \/ mode # "sync" /\ Fail(1) /\ Ends("running") /\ UNCHANGED unnoticed
  /\ UNCHANGED <<mode, seen, clone, copies, partial, abandoned, stuck>>

\* The new session is listed from its first row on: its owner may delete it.
DeleteClone ==
  /\ clone = "open"
  /\ clone' = "removed" /\ copies' = {}
  /\ UNCHANGED <<mode, stage, seen, partial, verdict, abandoned, unnoticed, stuck, faults>>

ClientGoesAway ==
  /\ mode = "sync" /\ stage < 9 /\ ~abandoned
  /\ abandoned' = TRUE
  /\ UNCHANGED <<mode, stage, seen, clone, copies, partial, verdict, unnoticed, stuck, faults>>

ProcessDies ==
  /\ stage < 9 /\ stage' = 9
  /\ UNCHANGED <<mode, seen, clone, copies, partial, verdict, abandoned, unnoticed, stuck, faults>>

-----------------------------------------------------------------------------
CopyInit ==
  /\ mode \in {"sync", "async", "template"} /\ stage = 0
  /\ seen = {} /\ clone = "none" /\ copies = {} /\ partial = {}
  /\ verdict = "running" /\ abandoned = FALSE /\ unnoticed = {} /\ stuck = FALSE /\ faults = 0

CopyNext ==
  \/ LoadSource \/ ImportSessionRow \/ FetchElements \/ ImportRows \/ ImportTranscripts
  \/ ImportSessionMetadata \/ Finish \/ DeleteClone \/ ClientGoesAway \/ ProcessDies

CopySpec == CopyInit /\ [][CopyNext]_copyVars

-----------------------------------------------------------------------------
CopyTypeOK ==
  /\ mode \in {"sync", "async", "template"} /\ stage \in 0..9
  /\ seen \subseteq Pieces \union {Base} /\ copies \subseteq Pieces \union {Base} /\ unnoticed \subseteq Pieces
  /\ clone \in {"none", "open", "removed"}
  /\ verdict \in {"running", "succeeded", "partial", "failed"}
  /\ faults \in 0..FaultBound
  /\ clone # "open" => copies = {}

\* A copy that is reported as complete holds everything of its source, except what
\* a failed read kept from it (sessions.go:300-309, 503-563; worker.go:150-162).
CompleteMeansComplete ==
  verdict = "succeeded" /\ clone = "open" => Pieces \subseteq copies \union unnoticed

\* No session is left of a copy that failed, unless its delete failed with it
\* (sessions.go:310-313, 530-541).
FailedCopyIsUndone ==
  verdict = "failed" /\ mode # "template" /\ ~stuck => clone # "open"

\* What the answer to a copy says of the new session is true of it.
CopyIsAsReported == CompleteMeansComplete /\ FailedCopyIsUndone
==============================================================================
