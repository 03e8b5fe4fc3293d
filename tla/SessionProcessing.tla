--------------------------- MODULE SessionProcessing ---------------------------
(***************************************************************************)
(* The import of meeting recordings: the session_processing_jobs table,    *)
(* the pool of workers that claim a row and run a provider's pipeline, the *)
(* reconciler that resets rows, the HTTP handlers that attach, retry and   *)
(* cancel, and the callback of a finished transcript job.                  *)
(*                                                                         *)
(* Every SQL statement is atomic and statements of different goroutines    *)
(* (or API processes) interleave.  A worker's pipeline decides on a list   *)
(* of statements and then executes them one at a time.                     *)
(***************************************************************************)
EXTENDS ProcessingStates, Sequences

CONSTANTS
  Jobs,                 \* recordings: the (session, source, meeting, instance) keys
  Sessions,
  Workers,              \* RunWorker goroutines, one in each API process
  Clients,              \* HTTP requests in flight
  Callbacks,            \* JobProcessor workers, which run OnTranscriptCompleted
  SessionOf,            \* the session of a recording
  SourceOf,             \* the provider of a recording
  ProviderOf,           \* sessions.source_provider
  MaxTransientAttempts,
  MaxWaitingAttempts,
  AttemptCap,           \* attempt_count is counted up to here (bound of the model)
  EndTimeKnown,         \* Meet recordings whose end time the API reports
  Faults,               \* what goes wrong: "crash" of a process, a lost "statement"
  NoJob                 \* not a recording

Sources == {"zoom", "teams", "google_meet"}

ASSUME ConstantsAssumption ==
  /\ SessionOf \in [Jobs -> Sessions]
  /\ SourceOf \in [Jobs -> Sources]
  /\ ProviderOf \in [Sessions -> Sources \union {"upload"}]
  /\ MaxTransientAttempts \in Nat
  /\ MaxWaitingAttempts \in Nat
  /\ AttemptCap \in Nat
  /\ AttemptCap > MaxTransientAttempts
  /\ AttemptCap > MaxWaitingAttempts
  /\ EndTimeKnown \subseteq Jobs
  /\ Faults \subseteq {"crash", "statement"}
  /\ NoJob \notin Jobs

VARIABLES
  row,        \* the table: row[j].state = "none" when the row does not exist
  mirror,     \* sessions.processing_state
  worker,     \* what each worker goroutine is doing
  recon,      \* the reconciler's list of rows still to reset and mirror
  client,     \* the request each handler goroutine is serving
  callback,   \* the OnTranscriptCompleted calls in progress
  pollOver,   \* Meet recordings older than MEET_TRANSCRIPT_POLL_MAX_AGE
  faulted     \* history: rows whose worker crashed or lost a statement

vars == <<row, mirror, worker, recon, client, callback, pollOver, faulted>>

-----------------------------------------------------------------------------
(* Rows *)

Absent == [state |-> "none", attempt |-> 0, due |-> FALSE, lock |-> "free", old |-> FALSE]

RowType ==
  [state   : States \union {"none"},
   attempt : 0..AttemptCap,
   due     : BOOLEAN,                    \* next_retry_at is NULL or in the past
   lock    : {"free", "held", "expired"},\* locked_at: NULL, recent, older than lockDuration
   old     : BOOLEAN]                    \* updated_at is before the stuck threshold

\* The row an enqueue creates or re-queues: attempt_count is left as it is.
Requeued(r) == [r EXCEPT !.state = "queued", !.due = TRUE, !.lock = "free", !.old = FALSE]

\* mutant: an Unlock that forgets locked_at
KeepsLock(r) == [r EXCEPT !.old = FALSE]

Unlocked(r) == [r EXCEPT !.lock = "free", !.old = FALSE]

\* UpdateSessionProcessingJobState writes a next_retry_at for these states and NULL otherwise.
Delayed == {"failed_transient", "waiting", "waiting_native_transcript"}

Updated(r, to, attempt) ==
  [r EXCEPT !.state = to, !.attempt = attempt, !.due = to \notin Delayed, !.old = FALSE]

\* mutant: a claim query that does not look at locked_at
ClaimableLocked(r) == r.state \in ClaimableStates /\ r.due

Claimable(r) == r.state \in ClaimableStates /\ r.due /\ r.lock \in {"free", "expired"}

Stuck(r) ==
  \/ r.state \in {"waiting", "failed_transient"}
  \/ r.state \in MidStages \union {"queued"} /\ r.old

-----------------------------------------------------------------------------
(* Pipelines *)

Stages == {"claimed", "fetch", "ingest", "transcript", "fallback", "download", "parse", "index"}

\* The order of the stages; only Zoom downloads its transcript as a stage of its own.
StageAfter(source, stage) ==
  CASE stage = "claimed"    -> "fetch"
    [] stage = "fetch"      -> "ingest"
    [] stage = "ingest"     -> "transcript"
    [] stage = "transcript" -> IF source = "zoom" THEN "download" ELSE "parse"
    [] stage = "download"   -> "parse"
    [] stage = "parse"      -> "index"
    [] OTHER                -> stage

\* The job states a pipeline writes when it enters a stage.
Entering(source, stage) ==
  CASE stage = "fetch"                                   -> <<"fetching">>
    [] stage = "ingest" /\ source = "google_meet"        -> <<"downloading">>
    [] stage = "transcript" /\ source = "teams"          -> <<"downloading">>
    [] stage = "transcript" /\ source = "google_meet"    -> <<"parsing">>
    [] stage = "download"                                -> <<"downloading">>
    [] stage = "parse" /\ source # "google_meet"         -> <<"parsing">>
    [] stage = "index"                                   -> <<"chunking", "embedding">>
    [] OTHER                                             -> <<>>

\* The ways a stage can fail: to be retried soon, to be retried later, or for good.
Failures(source, stage) ==
  CASE stage = "claimed"    -> {"permanent"}
    [] stage = "fetch"      -> IF source = "teams" THEN {"transient", "permanent"}
                               ELSE {"transient", "waiting", "permanent"}
    [] stage = "ingest"     -> {"transient", "permanent"}
    [] stage = "transcript" -> IF source = "google_meet" THEN {"transient"} ELSE {}
    [] stage = "fallback"   -> IF source = "google_meet" THEN {"waiting"}
                               ELSE {"waiting", "permanent"}
    [] stage = "download"   -> {"transient", "waiting", "permanent"}
    [] stage = "parse"      -> IF source = "google_meet" THEN {"transient", "permanent"}
                               ELSE {"permanent"}
    [] stage = "index"      -> {"transient", "permanent"}
    [] OTHER                -> {}

\* Statements of a worker.
SetState(to) == [op |-> "state", to |-> to]
SetMirror(to) == [op |-> "mirror", to |-> to]
Unlock == [op |-> "unlock", to |-> "none"]

Statements == [op : {"state", "mirror", "unlock"}, to : States \union {"none"}]

WriteEach(states) ==
  CASE Len(states) = 0 -> <<>>
    [] Len(states) = 1 -> <<SetState(states[1]), SetMirror(states[1])>>
    [] OTHER           -> <<SetState(states[1]), SetMirror(states[1]),
                            SetState(states[2]), SetMirror(states[2])>>

\* mutants: a state the table's readers do not know; one try too many
FailureStateUnknown(kind, attempt) ==
  CASE kind = "transient" /\ attempt <= MaxTransientAttempts -> "failed_transient"
    [] kind = "waiting" /\ attempt <= MaxWaitingAttempts     -> "waiting"
    [] OTHER                                                 -> "failed"

FailureStateOneMore(kind, attempt) ==
  CASE kind = "transient" /\ attempt <= MaxTransientAttempts + 1 -> "failed_transient"
    [] kind = "waiting" /\ attempt <= MaxWaitingAttempts + 1     -> "waiting"
    [] OTHER                                                     -> "failed_permanent"

\* setJobFailedTransient, setJobWaiting and setJobFailedPermanent: too many
\* attempts turn a retry into a permanent failure, but the caller mirrors the
\* state it asked for.
FailureState(kind, attempt) ==
  CASE kind = "transient" /\ attempt <= MaxTransientAttempts -> "failed_transient"
    [] kind = "waiting" /\ attempt <= MaxWaitingAttempts     -> "waiting"
    [] OTHER                                                 -> "failed_permanent"

FailureMirror(kind) ==
  CASE kind = "transient" -> "failed_transient"
    [] kind = "waiting"   -> "waiting"
    [] OTHER              -> "failed_permanent"

\* mutant: an error path that unlocks and mirrors without writing the state
LeaveUnwritten(to, mirrored) == <<Unlock, SetMirror(mirrored), Unlock>>

\* How a run ends early; the last Unlock is the one runOne defers.
Leave(to, mirrored) == <<SetState(to), Unlock, SetMirror(mirrored), Unlock>>

\* mutant: ready is written but not mirrored
FinishUnmirrored == <<SetState("ready"), Unlock, Unlock>>

Finish == <<SetState("ready"), SetMirror("ready"), Unlock, Unlock>>

-----------------------------------------------------------------------------
(* Workers *)

Idle == [job |-> NoJob, attempt |-> 0, stage |-> "idle", todo |-> <<>>]

Running(w, j) == worker[w].job = j

\* w has executed what it decided and has a decision to take.
Deciding(w, stage) == worker[w].stage = stage /\ worker[w].todo = <<>>

Source(w) == SourceOf[worker[w].job]

NextAttempt(n) == IF n < AttemptCap THEN n + 1 ELSE AttemptCap

Proceed(w, stage, todo) ==
  /\ worker' = [worker EXCEPT ![w].stage = stage, ![w].todo = todo]
  /\ UNCHANGED <<row, mirror, recon, client, callback, pollOver, faulted>>

\* ClaimNextSessionProcessingJob: the state is left as it is.
Claim(w, j) ==
  /\ worker[w] = Idle
  /\ Claimable(row[j])
  /\ row' = [row EXCEPT ![j].lock = "held", ![j].old = FALSE]
  /\ worker' = [worker EXCEPT ![w] =
       [job |-> j, attempt |-> NextAttempt(row[j].attempt), stage |-> "claimed", todo |-> <<>>]]
  /\ faulted' = faulted \ {j}
  /\ UNCHANGED <<mirror, recon, client, callback, pollOver>>

\* The stage succeeded; at "transcript" the provider's own transcript is there.
Advance(w) ==
  \E stage \in Stages \ {"fallback", "index"} :
    /\ Deciding(w, stage)
    /\ LET next == StageAfter(Source(w), stage)
       IN  Proceed(w, next, WriteEach(Entering(Source(w), next)))

Fail(w) ==
  \E stage \in Stages :
    /\ Deciding(w, stage)
    /\ \E kind \in Failures(Source(w), stage) :
         Proceed(w, "final", Leave(FailureState(kind, worker[w].attempt), FailureMirror(kind)))

\* Google Meet is still preparing the transcript: poll again later.
AwaitNative(w) ==
  /\ Deciding(w, "transcript")
  /\ Source(w) = "google_meet"
  /\ worker[w].job \notin pollOver
  /\ Proceed(w, "final", Leave("waiting_native_transcript", "waiting_native_transcript"))

\* There will be no transcript from the provider.
FallBack(w) ==
  /\ Deciding(w, "transcript")
  /\ Proceed(w, "fallback", <<>>)

\* A Whisper job is enqueued (or, for Meet, found) and will finish the import.
AwaitWhisper(w) ==
  /\ Deciding(w, "fallback")
  /\ Proceed(w, "final", Leave("awaiting_whisper", "awaiting_whisper"))

Complete(w) ==
  /\ Deciding(w, "index")
  /\ Proceed(w, "final", Finish)

\* What is left of the worker's list; after the deferred Unlock it is idle.
Rest(w) ==
  IF worker[w].stage = "final" /\ Len(worker[w].todo) = 1
  THEN Idle
  ELSE [worker[w] EXCEPT !.todo = Tail(@)]

NextIs(w, op) == worker[w].todo # <<>> /\ Head(worker[w].todo).op = op

ExecState(w) ==
  /\ NextIs(w, "state")
  /\ row' = [row EXCEPT ![worker[w].job] =
       Updated(@, Head(worker[w].todo).to, worker[w].attempt)]
  /\ worker' = [worker EXCEPT ![w] = Rest(w)]
  /\ UNCHANGED <<mirror, recon, client, callback, pollOver, faulted>>

ExecUnlock(w) ==
  /\ NextIs(w, "unlock")
  /\ row' = [row EXCEPT ![worker[w].job] = Unlocked(@)]
  /\ worker' = [worker EXCEPT ![w] = Rest(w)]
  /\ UNCHANGED <<mirror, recon, client, callback, pollOver, faulted>>

ExecMirror(w) ==
  /\ NextIs(w, "mirror")
  /\ mirror' = [mirror EXCEPT ![SessionOf[worker[w].job]] = Head(worker[w].todo).to]
  /\ worker' = [worker EXCEPT ![w] = Rest(w)]
  /\ UNCHANGED <<row, recon, client, callback, pollOver, faulted>>

\* The process dies, or a statement fails and its error is ignored.
Crash(w) ==
  /\ "crash" \in Faults
  /\ worker[w] # Idle
  /\ worker' = [worker EXCEPT ![w] = Idle]
  /\ faulted' = faulted \union {worker[w].job}
  /\ UNCHANGED <<row, mirror, recon, client, callback, pollOver>>

LoseStatement(w) ==
  /\ "statement" \in Faults
  /\ worker[w].todo # <<>>
  /\ worker' = [worker EXCEPT ![w] = Rest(w)]
  /\ faulted' = IF NextIs(w, "mirror") THEN faulted ELSE faulted \union {worker[w].job}
  /\ UNCHANGED <<row, mirror, recon, client, callback, pollOver>>

-----------------------------------------------------------------------------
(* Time.  A backoff (a minute and more) and the lock (fifteen minutes) are   *)
(* longer than resolving a token and than the last statements of a worker.   *)

BecomeDue(j) ==
  /\ row[j].state \in Delayed
  /\ ~row[j].due
  /\ \A w \in Workers : Running(w, j) => worker[w].stage # "final"
  /\ row' = [row EXCEPT ![j].due = TRUE]
  /\ UNCHANGED <<mirror, worker, recon, client, callback, pollOver, faulted>>

\* w has claimed its job and not entered a stage yet, or is on its way out.
Brief(w) == worker[w].stage \in {"claimed", "final"} \/ NextIs(w, "state")

InHand(j) ==
  row[j].state \in ClaimableStates /\ \E w \in Workers : Running(w, j) /\ Brief(w)

LockExpires(j) ==
  /\ row[j].lock = "held"
  /\ ~InHand(j)
  /\ row' = [row EXCEPT ![j].lock = "expired"]
  /\ UNCHANGED <<mirror, worker, recon, client, callback, pollOver, faulted>>

\* The stuck threshold (20 min) is longer than the lock (15 min).
GrowOld(j) ==
  /\ row[j].state \in MidStages \union {"queued"}
  /\ ~row[j].old
  /\ ~InHand(j)
  /\ row' = [row EXCEPT ![j].old = TRUE,
                        ![j].lock = IF @ = "held" THEN "expired" ELSE @]
  /\ UNCHANGED <<mirror, worker, recon, client, callback, pollOver, faulted>>

PollExpires(j) ==
  /\ j \in EndTimeKnown \ pollOver
  /\ pollOver' = pollOver \union {j}
  /\ UNCHANGED <<row, mirror, worker, recon, client, callback, faulted>>

-----------------------------------------------------------------------------
(* The reconciler.  It mirrors the state it read when it listed the rows. *)

ReconList ==
  /\ recon = {}
  /\ recon' = {[job |-> j, seen |-> row[j].state, reset |-> FALSE] :
                 j \in {i \in Jobs : Stuck(row[i])}}
  /\ recon' # {}
  /\ UNCHANGED <<row, mirror, worker, client, callback, pollOver, faulted>>

ReconReset(r) ==
  /\ r \in recon /\ \A q \in recon : ~q.reset
  /\ row' = [row EXCEPT ![r.job] = [@ EXCEPT !.due = TRUE, !.lock = "free", !.old = FALSE]]
  /\ recon' = (recon \ {r}) \union {[r EXCEPT !.reset = TRUE]}
  /\ UNCHANGED <<mirror, worker, client, callback, pollOver, faulted>>

ReconMirror(r) ==
  /\ r \in recon /\ r.reset
  /\ mirror' = [mirror EXCEPT ![SessionOf[r.job]] = r.seen]
  /\ recon' = recon \ {r}
  /\ UNCHANGED <<row, worker, client, callback, pollOver, faulted>>

ReconCrash ==
  /\ "crash" \in Faults
  /\ recon # {}
  /\ recon' = {}
  /\ UNCHANGED <<row, mirror, worker, client, callback, pollOver, faulted>>

-----------------------------------------------------------------------------
(* Requests.  An attach reads the row, then upserts it, then mirrors; a retry *)
(* and a cancel change the rows of the session's provider, then mirror.       *)

NoRequest == [op |-> "none", job |-> NoJob, session |-> "none", to |-> "none"]

\* Any other state of an existing row is answered "already imported".
AttachRead(c, j) ==
  /\ client[c] = NoRequest
  /\ row[j].state \in TerminalFailed \union {"none"}
  /\ client' = [client EXCEPT ![c] =
       [op |-> "upsert", job |-> j, session |-> SessionOf[j], to |-> "none"]]
  /\ UNCHANGED <<row, mirror, worker, recon, callback, pollOver, faulted>>

AttachUpsert(c) ==
  /\ client[c].op = "upsert"
  /\ LET j == client[c].job
         new == IF row[j].state \in KeptByUpsert THEN [row[j] EXCEPT !.old = FALSE]
                                                 ELSE Requeued(row[j])
     IN  /\ row' = [row EXCEPT ![j] = new]
         /\ client' = [client EXCEPT ![c] = [@ EXCEPT !.op = "mirror", !.to = new.state]]
  /\ UNCHANGED <<mirror, worker, recon, callback, pollOver, faulted>>

OfProvider(s) == {j \in Jobs : SessionOf[j] = s /\ SourceOf[j] = ProviderOf[s]}

Request(c, s, to) ==
  /\ client[c] = NoRequest
  /\ client' = [client EXCEPT ![c] =
       [op |-> "mirror", job |-> NoJob, session |-> s, to |-> to]]
  /\ UNCHANGED <<mirror, worker, recon, callback, pollOver, faulted>>

Retry(c, s) ==
  /\ Request(c, s, "queued")
  /\ row' = [j \in Jobs |->
       IF j \in OfProvider(s) /\ row[j].state \in RetryableStates
       THEN Requeued(row[j]) ELSE row[j]]

Cancel(c, s) ==
  /\ Request(c, s, "canceled")
  /\ row' = [j \in Jobs |->
       IF j \in OfProvider(s) /\ row[j].state # "none"
       THEN [row[j] EXCEPT !.state = "canceled", !.old = FALSE] ELSE row[j]]

RequestMirror(c) ==
  /\ client[c].op = "mirror"
  /\ mirror' = [mirror EXCEPT ![client[c].session] = client[c].to]
  /\ client' = [client EXCEPT ![c] = NoRequest]
  /\ UNCHANGED <<row, worker, recon, callback, pollOver, faulted>>

RequestDies(c) ==
  /\ "crash" \in Faults
  /\ client[c] # NoRequest
  /\ client' = [client EXCEPT ![c] = NoRequest]
  /\ UNCHANGED <<row, mirror, worker, recon, callback, pollOver, faulted>>

\* A template import creates a session together with its row, without mirroring.
TemplateImport(j) ==
  /\ row[j].state = "none"
  /\ row' = [row EXCEPT ![j] = Requeued(@)]
  /\ UNCHANGED <<mirror, worker, recon, client, callback, pollOver, faulted>>

-----------------------------------------------------------------------------
(* A transcript job of the session completed: every recording of the session  *)
(* read as awaiting_whisper becomes ready.                                    *)

NoCallback == [session |-> "none", list |-> {}, cur |-> NoJob]

CallbackList(k, s) ==
  /\ callback[k] = NoCallback
  /\ LET waiting == {j \in Jobs : SessionOf[j] = s /\ row[j].state = "awaiting_whisper"}
     IN  /\ waiting # {}
         /\ callback' = [callback EXCEPT ![k] =
              [session |-> s,
               list    |-> {[job |-> j, attempt |-> row[j].attempt] : j \in waiting},
               cur     |-> NoJob]]
  /\ UNCHANGED <<row, mirror, worker, recon, client, pollOver, faulted>>

CallbackFlip(k) ==
  /\ callback[k].cur = NoJob
  /\ \E r \in callback[k].list :
       /\ row' = [row EXCEPT ![r.job] = Updated(@, "ready", r.attempt)]
       /\ callback' = [callback EXCEPT ![k].list = @ \ {r}, ![k].cur = r.job]
  /\ UNCHANGED <<mirror, worker, recon, client, pollOver, faulted>>

CallbackUnlock(k) ==
  /\ callback[k].cur # NoJob
  /\ row' = [row EXCEPT ![callback[k].cur] = Unlocked(@)]
  /\ callback' = [callback EXCEPT ![k].cur = NoJob]
  /\ UNCHANGED <<mirror, worker, recon, client, pollOver, faulted>>

CallbackMirror(k) ==
  /\ callback[k].session # "none"
  /\ callback[k].list = {} /\ callback[k].cur = NoJob
  /\ mirror' = [mirror EXCEPT ![callback[k].session] = "ready"]
  /\ callback' = [callback EXCEPT ![k] = NoCallback]
  /\ UNCHANGED <<row, worker, recon, client, pollOver, faulted>>

CallbackDies(k) ==
  /\ "crash" \in Faults
  /\ callback[k] # NoCallback
  /\ callback' = [callback EXCEPT ![k] = NoCallback]
  /\ UNCHANGED <<row, mirror, worker, recon, client, pollOver, faulted>>

-----------------------------------------------------------------------------
Init ==
  /\ row = [j \in Jobs |-> Absent]
  /\ mirror = [s \in Sessions |-> "none"]
  /\ worker = [w \in Workers |-> Idle]
  /\ recon = {}
  /\ client = [c \in Clients |-> NoRequest]
  /\ callback = [k \in Callbacks |-> NoCallback]
  /\ pollOver = {}
  /\ faulted = {}

\* The decisions of a pipeline and the statements that carry them out.
Decide(w) ==
  Advance(w) \/ Fail(w) \/ AwaitNative(w) \/ FallBack(w) \/ AwaitWhisper(w) \/ Complete(w)

Execute(w) == ExecState(w) \/ ExecUnlock(w) \/ ExecMirror(w)

WorkerStep(w) ==
  (\E j \in Jobs : Claim(w, j)) \/ Decide(w) \/ Execute(w) \/ Crash(w) \/ LoseStatement(w)

Time == \E j \in Jobs : BecomeDue(j) \/ LockExpires(j) \/ GrowOld(j) \/ PollExpires(j)

Reconciler ==
  ReconList \/ (\E r \in recon : ReconReset(r) \/ ReconMirror(r)) \/ ReconCrash

ClientStep(c) ==
  \/ \E j \in Jobs : AttachRead(c, j)
  \/ AttachUpsert(c)
  \/ \E s \in Sessions : Retry(c, s) \/ Cancel(c, s)
  \/ RequestMirror(c)
  \/ RequestDies(c)

CallbackStep(k) ==
  \/ \E s \in Sessions : CallbackList(k, s)
  \/ CallbackFlip(k) \/ CallbackUnlock(k) \/ CallbackMirror(k) \/ CallbackDies(k)

Next ==
  \/ \E w \in Workers : WorkerStep(w)
  \/ Time
  \/ Reconciler
  \/ \E c \in Clients : ClientStep(c)
  \/ \E j \in Jobs : TemplateImport(j)
  \/ \E k \in Callbacks : CallbackStep(k)

Spec == Init /\ [][Next]_vars

\* Imports nobody touches once they are queued, without the reconciler.
UnattendedNext ==
  \/ \E w \in Workers : WorkerStep(w)
  \/ Time
  \/ \E j \in Jobs : TemplateImport(j)
  \/ \E k \in Callbacks : CallbackStep(k)

UnattendedSpec == Init /\ [][UnattendedNext]_vars

\* The same with requests to cancel.
PoolNext ==
  \/ UnattendedNext
  \/ \E c \in Clients :
       (\E s \in Sessions : Cancel(c, s)) \/ RequestMirror(c) \/ RequestDies(c)

PoolSpec == Init /\ [][PoolNext]_vars

\* A worker that has something to do does it; time passes; and the claim query
\* takes the rows in the order of next_retry_at, so a row that is due again and
\* again is not passed over for ever.
PoolFairness ==
  /\ \A w \in Workers : WF_vars(Decide(w) \/ Execute(w))
  /\ \A j \in Jobs :
       /\ SF_vars(\E w \in Workers : Claim(w, j))
       /\ WF_vars(BecomeDue(j))
       /\ WF_vars(GrowOld(j))
       /\ WF_vars(LockExpires(j))
       /\ WF_vars(PollExpires(j))

FairUnattendedSpec == UnattendedSpec /\ PoolFairness

\* Imports left to themselves, with the reconciler, whose ticker keeps firing.
ImportNext ==
  \/ \E w \in Workers : WorkerStep(w)
  \/ Time
  \/ Reconciler
  \/ \E j \in Jobs : TemplateImport(j)

ImportSpec ==
  /\ Init /\ [][ImportNext]_vars
  /\ PoolFairness
  /\ WF_vars(ReconList)
  /\ WF_vars(\E r \in recon : ReconReset(r) \/ ReconMirror(r))

-----------------------------------------------------------------------------
(* Properties *)

WorkerType ==
  {Idle} \union
  [job     : Jobs,
   attempt : 0..AttemptCap,
   stage   : Stages \union {"final"},
   todo    : Seq(Statements)]

ReconEntry == [job : Jobs, seen : States, reset : BOOLEAN]

RequestType ==
  {NoRequest} \union
  [op : {"upsert"}, job : Jobs, session : Sessions, to : {"none"}] \union
  [op : {"mirror"}, job : Jobs \union {NoJob}, session : Sessions, to : States]

CallbackType ==
  [session : Sessions \union {"none"},
   list    : SUBSET [job : Jobs, attempt : 0..AttemptCap],
   cur     : Jobs \union {NoJob}]

TypeOK ==
  /\ row \in [Jobs -> RowType]
  /\ mirror \in [Sessions -> States \union {"none"}]
  /\ worker \in [Workers -> WorkerType]
  /\ recon \subseteq ReconEntry
  /\ client \in [Clients -> RequestType]
  /\ callback \in [Callbacks -> CallbackType]
  /\ pollOver \subseteq Jobs
  /\ faulted \subseteq Jobs

\* w has still to write the state its run ends with.
WillFinish(w) == worker[w].stage = "final" => NextIs(w, "state")

\* A run that is over its last stage has a list that ends with the deferred
\* Unlock and writes no working state.
RunShape ==
  \A w \in Workers : worker[w].stage = "final" =>
    /\ worker[w].todo # <<>>
    /\ worker[w].todo[Len(worker[w].todo)] = Unlock
    /\ \A i \in 1..Len(worker[w].todo) :
         worker[w].todo[i].op = "state" => worker[w].todo[i].to \notin MidStages

\* What a worker is about to write keeps to the budget of its attempt.
WithinBudget(state, attempt) ==
  /\ state = "failed_transient" => attempt <= MaxTransientAttempts
  /\ state = "waiting" => attempt <= MaxWaitingAttempts

PlansWithinBudget ==
  \A w \in Workers : \A i \in 1..Len(worker[w].todo) :
    worker[w].todo[i].op = "state" => WithinBudget(worker[w].todo[i].to, worker[w].attempt)

\* A row is in a working state only while some worker has still to write the
\* final state of a run, unless a fault hit the row: however claims, cancels,
\* retries and re-attaches interleave, no path of a pipeline (or of two
\* pipelines on one row) leaves a recording "fetching" or "embedding" for ever.
MidStageOwned ==
  \A j \in Jobs : row[j].state \in MidStages =>
    j \in faulted \/ \E w \in Workers : Running(w, j) /\ WillFinish(w)

\* A row is locked only while some worker runs it, unless a fault hit the row:
\* nothing but a crash makes a job wait for the lock to expire.
LockOwned ==
  \A j \in Jobs : row[j].lock # "free" =>
    j \in faulted \/ \E w \in Workers : Running(w, j)

\* A job is set aside for another try at most as often as allowed: two workers
\* racing on a row, or retries by hand, never buy a failing job more tries.
RetryBudget == \A j \in Jobs : WithinBudget(row[j].state, row[j].attempt)

\* At most one worker runs a recording: the lock protects a row until its first
\* working state is written and that state protects it afterwards, a crash or an
\* expired lock notwithstanding.
OneRunner ==
  \A w, v \in Workers : worker[w].job # NoJob /\ worker[w].job = worker[v].job => w = v

\* In a pool by itself the session shows a working state only while a worker runs
\* one of its recordings (or died doing so): every path out of a pipeline mirrors
\* a resting state last, whatever the other recordings of the session are doing.
ShownBusyIsBusy ==
  \A s \in Sessions : mirror[s] \in MidStages =>
    \E j \in Jobs :
      SessionOf[j] = s /\ (j \in faulted \/ \E w \in Workers : Running(w, j))

\* An import that is left alone ends, or is handed over to Whisper: retries are
\* bounded and none of the states a run can end in is forgotten by the queue.
EveryImportSettles ==
  \A j \in Jobs :
    row[j].state # "none" ~> row[j].state \in TerminalStates \union {"awaiting_whisper"}

\* A recording waiting for Google's transcript is given to Whisper, or fails,
\* once MEET_TRANSCRIPT_POLL_MAX_AGE is over.
PollGivesUp ==
  \A j \in Jobs : row[j].state = "waiting_native_transcript"
                     ~> row[j].state \in TerminalStates \union {"awaiting_whisper"}

\* A recording that nobody works on any more does not stay in a working state:
\* what RunReconciler says it is for.
StuckIsPickedUp ==
  \A j \in Jobs :
    row[j].state \in MidStages ~> row[j].state \notin MidStages

\* Re-attaching a recording that a worker is busy with leaves its row alone.
ReattachKeepsInFlight ==
  [][\A c \in Clients, j \in Jobs :
       (\E w \in Workers : Running(w, j)) /\ client[c].op = "upsert" /\ client[c].job = j
         /\ client'[c].op = "mirror"
       => row'[j].state = row[j].state]_vars

Quiescent == (\A w \in Workers : worker[w] = Idle) /\ recon = {}
             /\ (\A c \in Clients : client[c] = NoRequest)
             /\ (\A k \in Callbacks : callback[k] = NoCallback)

\* When nobody is about to write, what the session shows is the state of a
\* recording of the session, a row that nothing has mirrored yet aside.
MirrorAgrees ==
  Quiescent => \A s \in Sessions :
    mirror[s] # "none" => \E j \in Jobs : SessionOf[j] = s /\ mirror[s] = row[j].state
===============================================================================
