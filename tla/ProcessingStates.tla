--------------------------- MODULE ProcessingStates ---------------------------
(***************************************************************************)
(* The vocabulary of session_processing_jobs: the states a recording's     *)
(* import goes through (internal/models/models.go), the sets of states     *)
(* that the SQL statements and the handlers test for.                      *)
(***************************************************************************)
EXTENDS Naturals, FiniteSets

\* The stages in which a worker is busy with the recording.
MidStages == {"fetching", "downloading", "parsing", "chunking", "embedding"}

\* mutants: a claim query that forgets one of the states a run parks a job in
ClaimableButTransient == {"queued", "waiting", "waiting_native_transcript"}
ClaimableButNative == {"queued", "failed_transient", "waiting"}

\* States a worker may take a job from (the claim query's IN list).
ClaimableStates ==
  {"queued", "failed_transient", "waiting", "waiting_native_transcript"}

\* States whose row CreateOrGetSessionProcessingJob leaves as it is.
KeptByUpsert == MidStages \union {"awaiting_whisper"}

\* States from which a re-attach re-queues the row ("gave up").
TerminalFailed == {"failed_permanent", "canceled"}

\* States RetrySessionProcessingJob accepts.
RetryableStates == {"failed_transient", "failed_permanent", "waiting"}

TerminalStates == TerminalFailed \union {"ready"}

States ==
  MidStages \union ClaimableStates \union TerminalStates \union {"awaiting_whisper"}

=============================================================================
