--------------------------- MODULE ImportRefinement ---------------------------
(* The worker pool implements ImportLifecycle. *)
EXTENDS SessionProcessing

\* How far the import of a recording is, read off its row alone.
PhaseOf(state) ==
  CASE state = "none"                                     -> "absent"
    [] state \in {"queued", "failed_transient", "waiting"} -> "pending"
    [] state = "waiting_native_transcript"                -> "polling"
    [] state \in MidStages                                -> "working"
    [] state = "awaiting_whisper"                         -> "handed_over"
    [] state = "ready"                                    -> "done"
    [] state = "canceled"                                 -> "canceled"
    [] OTHER                                              -> "failed"

\* The larger of the two limits.
RetryLimit ==
  IF MaxTransientAttempts > MaxWaitingAttempts THEN MaxTransientAttempts ELSE MaxWaitingAttempts

L == INSTANCE ImportLifecycle WITH
       Recordings <- Jobs,
       Budget     <- RetryLimit,
       TryCap     <- AttemptCap,
       phase      <- [j \in Jobs |-> PhaseOf(row[j].state)],
       tries      <- [j \in Jobs |-> row[j].attempt]

\* Imports in the pool go through the phases of the abstract specification only,
\* crashes of workers included: whatever the interleaving of two workers'
\* statements, an import starts only from rest, counts every try, is put aside
\* within its budget and, unless it is canceled, stays in the phase it ended in.
ImplementsLifecycle == L!LSpec
===============================================================================
