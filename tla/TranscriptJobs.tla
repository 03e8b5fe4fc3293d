----------------------------- MODULE TranscriptJobs -----------------------------
(***************************************************************************)
(* The transcript job processor: the transcript_jobs table, the bounded    *)
(* channel and the workers of each API process, the requests that create   *)
(* a video source, a material or a link together with its job, and the     *)
(* recovery that a process runs once when it starts.                       *)
(*                                                                         *)
(* A job transcribes a video with Whisper or extracts the text of a        *)
(* material or of a link, and writes the outcome to its own row and to     *)
(* the row of what it works for (its target), in separate statements.      *)
(***************************************************************************)
EXTENDS Naturals, Sequences, FiniteSets

CONSTANTS
  Jobs,
  KindOf,             \* what a job works for
  Processes,          \* API processes; a stopped one may be started again
  Workers,
  HomeOf,             \* the process of a worker
  QueueCap,           \* capacity of the channel
  WhisperConfigured,  \* OPENAI_API_KEY is set
  BrokenLimit,        \* bound of the model: statements fail for at most so many jobs
  CrashLimit,         \* bound of the model: processes die at most so often
  NoJob,
  NoProcess

ASSUME TranscriptAssumption ==
  /\ KindOf \in [Jobs -> {"video", "material", "link"}]
  /\ HomeOf \in [Workers -> Processes]
  /\ QueueCap \in Nat \ {0}
  /\ WhisperConfigured \in BOOLEAN
  /\ BrokenLimit \in Nat /\ CrashLimit \in Nat
  /\ NoJob \notin Jobs /\ NoProcess \notin Processes

VARIABLES
  job,        \* transcript_jobs: status, and whether started_at is over an hour ago
  target,     \* transcript_status, text_status or link status of the job's target
  process,    \* down, starting (recovery not run yet) or serving, and its recovery list
  queue,      \* the channel of each process
  request,    \* the handler that creates the job, in some process
  worker,
  crashes,    \* how often a process died (bounded by CrashLimit)
  lost,       \* history: jobs dropped by a full channel or a death, and not recovered since
  broken,     \* history: jobs that a statement failed for
  doubled     \* history: jobs a recovery listed while somebody had them in hand

jobVars == <<job, target>>
vars == <<job, target, process, queue, request, worker, crashes, lost, broken, doubled>>

Underway == {"downloading", "transcribing", "saving"}
Ended == {"completed", "failed"}
Statuses == {"none", "queued"} \union Underway \union Ended

Up(p) == process[p].state # "down"

Entries(p) == {queue[p][i] : i \in 1..Len(queue[p])}

MayBreak(j) == j \in broken \/ Cardinality(broken) < BrokenLimit

\* Whoever will still do something about j.
Worked(j) == \E w \in Workers : worker[w].job = j
Held(j) ==
  \/ Worked(j)
  \/ request[j].step # "none"
  \/ \E p \in Processes : j \in process[p].list \union Entries(p)

-----------------------------------------------------------------------------
(* The channel *)

\* mutant: a send that does not notice that the channel is full
PushBlindly(p, j) ==
  /\ queue' = [queue EXCEPT ![p] = IF Len(@) < QueueCap THEN Append(@, j) ELSE @]
  /\ lost' = lost

\* mutant: a send that takes one job too many
PushOver(p, j) ==
  /\ queue' = [queue EXCEPT ![p] = IF Len(@) <= QueueCap THEN Append(@, j) ELSE @]
  /\ lost' = IF Len(queue[p]) <= QueueCap THEN lost ELSE lost \union {j}

\* Enqueue: a non-blocking send; the callers log that the channel is full.
Push(p, j) ==
  IF Len(queue[p]) < QueueCap
  THEN /\ queue' = [queue EXCEPT ![p] = Append(@, j)]
       /\ lost' = lost
  ELSE /\ lost' = lost \union {j}
       /\ queue' = queue

-----------------------------------------------------------------------------
(* Requests *)

NoRequest == [step |-> "none", at |-> NoProcess]

CreateTarget(p, j) ==
  /\ Up(p)
  /\ target[j] = "none" /\ request[j] = NoRequest
  /\ target' = [target EXCEPT ![j] = "pending"]
  /\ request' = [request EXCEPT ![j] = [step |-> "create", at |-> p]]
  /\ UNCHANGED <<job, process, queue, worker, crashes, lost, broken, doubled>>

CreateJob(j) ==
  /\ request[j].step = "create"
  /\ job' = [job EXCEPT ![j].status = "queued"]
  /\ request' = [request EXCEPT ![j].step = "enqueue"]
  /\ UNCHANGED <<target, process, queue, worker, crashes, lost, broken, doubled>>

EnqueueJob(j) ==
  /\ request[j].step = "enqueue"
  /\ Push(request[j].at, j)
  /\ request' = [request EXCEPT ![j] = NoRequest]
  /\ UNCHANGED <<job, target, process, worker, crashes, broken, doubled>>

\* The row of the job is not written, or (of an uploaded video) it cannot be
\* linked to its video source: the handler logs it and enqueues nothing.
RequestFails(j) ==
  /\ MayBreak(j)
  /\ request[j].step \in IF KindOf[j] = "video" THEN {"create", "enqueue"} ELSE {"create"}
  /\ request' = [request EXCEPT ![j] = NoRequest]
  /\ broken' = broken \union {j}
  /\ UNCHANGED <<job, target, process, queue, worker, crashes, lost, doubled>>

-----------------------------------------------------------------------------
(* Processes *)

Start(p) ==
  /\ ~Up(p)
  /\ process' = [process EXCEPT ![p].state = "starting"]
  /\ UNCHANGED <<job, target, queue, request, worker, crashes, lost, broken, doubled>>

Recoverable(r) == r.status = "queued" \/ (r.status \in Underway /\ r.stale)

\* The recovery reads the table once; it runs beside the workers and requests.
RecoverList(p) ==
  /\ process[p].state = "starting"
  /\ LET found == {j \in Jobs : Recoverable(job[j])}
     IN  /\ process' = [process EXCEPT ![p] = [state |-> "serving", list |-> found]]
         /\ lost' = lost \ found
         /\ doubled' = doubled \union {j \in found : Held(j)}
  /\ UNCHANGED <<job, target, queue, request, worker, crashes, broken>>

RecoverNext(p, j) ==
  /\ j \in process[p].list
  /\ Push(p, j)
  /\ process' = [process EXCEPT ![p].list = @ \ {j}]
  /\ UNCHANGED <<job, target, request, worker, crashes, broken, doubled>>

GrowStale(j) ==
  /\ job[j].status \in Underway /\ ~job[j].stale
  /\ job' = [job EXCEPT ![j].stale = TRUE]
  /\ UNCHANGED <<target, process, queue, request, worker, crashes, lost, broken, doubled>>

-----------------------------------------------------------------------------
(* Workers *)

Idle == [job |-> NoJob, stage |-> "idle", todo |-> <<>>]

Kind(w) == KindOf[worker[w].job]

\* Statements: a status of the job, one of its target, and the call to
\* OnTranscriptCompleted.
SetJob(to) == [op |-> "job", to |-> to]
SetTarget(to) == [op |-> "target", to |-> to]
Notify == [op |-> "notify", to |-> "none"]

\* mutant: an extraction error that is only written to the job
FailJobOnly(kind) == <<SetJob("failed")>>

\* How a failure is written down.
FailBoth(kind) ==
  IF kind = "link" THEN <<SetTarget("failed"), SetJob("failed")>>
                   ELSE <<SetJob("failed"), SetTarget("failed")>>

Take(w) ==
  /\ worker[w] = Idle /\ Up(HomeOf[w])
  /\ queue[HomeOf[w]] # <<>>
  /\ worker' = [worker EXCEPT ![w] =
       [job |-> Head(queue[HomeOf[w]]), stage |-> "taken", todo |-> <<>>]]
  /\ queue' = [queue EXCEPT ![HomeOf[w]] = Tail(@)]
  /\ UNCHANGED <<job, target, process, request, crashes, lost, broken, doubled>>

Deciding(w, stage) == worker[w].stage = stage /\ worker[w].todo = <<>>

Go(w, stage, todo) ==
  /\ worker' = [worker EXCEPT ![w].stage = stage, ![w].todo = todo]
  /\ UNCHANGED <<job, target, process, queue, request, crashes, lost, broken, doubled>>

\* mutant: extraction that is not idempotent
NeverDone(w) == FALSE

\* A material or a link that is ready already is not extracted again.
AlreadyDone(w) == Kind(w) # "video" /\ target[worker[w].job] = "ready"

Skip(w) ==
  /\ Deciding(w, "taken") /\ AlreadyDone(w)
  /\ Go(w, "done", <<SetJob("completed")>>)

Begin(w) ==
  /\ Deciding(w, "taken") /\ ~AlreadyDone(w)
  /\ Go(w, "fetch", <<SetJob("downloading"), SetTarget("processing")>>)

Fetched(w) ==
  /\ Deciding(w, "fetch") /\ Kind(w) = "video"
  /\ Go(w, "transcribe", <<SetJob("transcribing")>>)

Fails(w) ==
  /\ Deciding(w, "fetch") \/ (Deciding(w, "transcribe") /\ WhisperConfigured)
  /\ Go(w, "done", FailBoth(Kind(w)))

\* Without OPENAI_API_KEY the video source is left as it is.
Unconfigured(w) ==
  /\ Deciding(w, "transcribe") /\ ~WhisperConfigured
  /\ Go(w, "done", <<SetJob("failed")>>)

Succeeds(w) ==
  \/ /\ Deciding(w, "fetch") /\ Kind(w) # "video"
     /\ Go(w, "done", <<SetTarget("ready"), SetJob("completed"), Notify>>)
  \/ /\ Deciding(w, "transcribe") /\ WhisperConfigured
     /\ Go(w, "done", <<SetJob("saving"), SetTarget("ready"), SetJob("completed"), Notify>>)

Statement(w) == Head(worker[w].todo)

NextIs(w, op) == worker[w].todo # <<>> /\ Statement(w).op = op

\* w goes on with todo; when a finished run has nothing left, it is idle.
Left(w, todo) ==
  IF worker[w].stage = "done" /\ todo = <<>> THEN Idle ELSE [worker[w] EXCEPT !.todo = todo]

Pop(w) == worker' = [worker EXCEPT ![w] = Left(w, Tail(worker[w].todo))]

\* Every status is written whatever the row holds.
ExecJob(w) ==
  /\ NextIs(w, "job")
  /\ job' = [job EXCEPT ![worker[w].job] =
       [status |-> Statement(w).to, stale |-> @.stale /\ Statement(w).to # "downloading"]]
  /\ Pop(w)
  /\ UNCHANGED <<target, process, queue, request, crashes, lost, broken, doubled>>

ExecTarget(w) ==
  /\ NextIs(w, "target")
  /\ target' = [target EXCEPT ![worker[w].job] = Statement(w).to]
  /\ Pop(w)
  /\ UNCHANGED <<job, process, queue, request, crashes, lost, broken, doubled>>

ExecNotify(w) ==
  /\ NextIs(w, "notify")
  /\ Pop(w)
  /\ UNCHANGED <<job, target, process, queue, request, crashes, lost, broken, doubled>>

-----------------------------------------------------------------------------
(* Faults *)

\* What the code does next when the statement it executes returns an error.
AfterError(w) ==
  CASE Statement(w) = SetJob("downloading") ->
         IF Kind(w) = "material" THEN FailBoth("material") ELSE <<SetJob("failed")>>
    [] Statement(w) = SetTarget("ready") ->
         IF Kind(w) = "link" THEN <<SetJob("failed")>> ELSE FailBoth(Kind(w))
    [] Statement(w) = SetJob("completed") -> <<>>
    [] OTHER -> Tail(worker[w].todo)

GivesUp(w) == Statement(w) = SetJob("downloading")

StatementFails(w) ==
  /\ MayBreak(worker[w].job)
  /\ NextIs(w, "job") \/ NextIs(w, "target")
  /\ worker' = [worker EXCEPT ![w] =
       IF GivesUp(w) THEN [@ EXCEPT !.stage = "done", !.todo = AfterError(w)]
                     ELSE Left(w, AfterError(w))]
  /\ broken' = broken \union {worker[w].job}
  /\ UNCHANGED <<job, target, process, queue, request, crashes, lost, doubled>>

\* The material or the link of the job cannot be read.
ReadFails(w) ==
  /\ MayBreak(worker[w].job)
  /\ Deciding(w, "taken") /\ Kind(w) # "video"
  /\ worker' = [worker EXCEPT ![w].stage = "done",
       ![w].todo = IF Kind(w) = "material" THEN FailBoth("material") ELSE <<SetJob("failed")>>]
  /\ broken' = broken \union {worker[w].job}
  /\ UNCHANGED <<job, target, process, queue, request, crashes, lost, doubled>>

Crash(p) ==
  /\ Up(p) /\ crashes < CrashLimit
  /\ crashes' = crashes + 1
  /\ LET mine == {w \in Workers : HomeOf[w] = p}
         served == {j \in Jobs : request[j].at = p}
     IN  /\ worker' = [w \in Workers |-> IF w \in mine THEN Idle ELSE worker[w]]
         /\ request' = [j \in Jobs |-> IF j \in served THEN NoRequest ELSE request[j]]
         /\ lost' = lost \union served \union Entries(p) \union process[p].list
                      \union ({worker[w].job : w \in mine} \ {NoJob})
  /\ process' = [process EXCEPT ![p] = [state |-> "down", list |-> {}]]
  /\ queue' = [queue EXCEPT ![p] = <<>>]
  /\ UNCHANGED <<job, target, broken, doubled>>

-----------------------------------------------------------------------------
Init ==
  /\ job = [j \in Jobs |-> [status |-> "none", stale |-> FALSE]]
  /\ target = [j \in Jobs |-> "none"]
  /\ process = [p \in Processes |-> [state |-> "down", list |-> {}]]
  /\ queue = [p \in Processes |-> <<>>]
  /\ request = [j \in Jobs |-> NoRequest]
  /\ worker = [w \in Workers |-> Idle]
  /\ crashes = 0
  /\ lost = {}
  /\ broken = {}
  /\ doubled = {}

Decide(w) == Skip(w) \/ Begin(w) \/ Fetched(w) \/ Fails(w) \/ Unconfigured(w) \/ Succeeds(w)

Execute(w) == ExecJob(w) \/ ExecTarget(w) \/ ExecNotify(w)

RequestStep(j) == CreateJob(j) \/ EnqueueJob(j)

Recovery(p) == RecoverList(p) \/ \E j \in Jobs : RecoverNext(p, j)

Next ==
  \/ \E p \in Processes, j \in Jobs : CreateTarget(p, j)
  \/ \E j \in Jobs : RequestStep(j) \/ RequestFails(j) \/ GrowStale(j)
  \/ \E p \in Processes : Start(p) \/ Recovery(p) \/ Crash(p)
  \/ \E w \in Workers : Take(w) \/ Decide(w) \/ Execute(w) \/ StatementFails(w) \/ ReadFails(w)

\* Goroutines are scheduled, downloads and transcriptions have time limits, and
\* a process that died is started again.
Fairness ==
  /\ \A j \in Jobs : WF_vars(RequestStep(j))
  /\ \A p \in Processes : WF_vars(Start(p)) /\ WF_vars(Recovery(p))
  /\ \A w \in Workers : WF_vars(Take(w)) /\ WF_vars(Decide(w)) /\ WF_vars(Execute(w))

Spec == Init /\ [][Next]_vars

FairSpec == Spec /\ Fairness

-----------------------------------------------------------------------------
(* Properties *)

StatementType ==
  [op : {"job"}, to : Underway \union Ended] \union
  [op : {"target"}, to : {"processing", "ready", "failed"}] \union
  {Notify}

JobType == [status : Statuses, stale : BOOLEAN]

RequestType == {NoRequest} \union [step : {"create", "enqueue"}, at : Processes]

\* While a worker is idle it has no job and nothing to do.
WorkerType ==
  {Idle} \union
  [job   : Jobs,
   stage : {"taken", "fetch", "transcribe", "done"},
   todo  : Seq(StatementType)]

TypeOK ==
  /\ job \in [Jobs -> JobType]
  /\ target \in [Jobs -> {"none", "pending", "processing", "ready", "failed"}]
  /\ process \in [Processes -> [state : {"down", "starting", "serving"}, list : SUBSET Jobs]]
  /\ queue \in [Processes -> Seq(Jobs)]
  /\ \A p \in Processes : Len(queue[p]) <= QueueCap
  /\ request \in [Jobs -> RequestType]
  /\ worker \in [Workers -> WorkerType]
  /\ crashes \in 0..CrashLimit
  /\ lost \subseteq Jobs /\ broken \subseteq Jobs /\ doubled \subseteq Jobs

\* A job whose row says that there is something to do is in somebody's hands, or
\* was dropped by a full channel, a death or a failed statement that no recovery
\* has made up for: nothing else ever looks at the table for work.
NotForgotten ==
  \A j \in Jobs : job[j].status \notin Ended \union {"none"} \/ target[j] = "pending"
                    => Held(j) \/ j \in lost \union broken

\* When a job that only one worker had at a time has ended, its target tells the
\* same story: no upload is shown "processing" for ever, and none is ready whose
\* job failed, whichever way the run went.  (Not so without an API key.)
ResultsAgree ==
  WhisperConfigured =>
    \A j \in Jobs : job[j].status \in Ended /\ ~Worked(j) /\ j \notin lost \union broken \union doubled
      => target[j] = IF job[j].status = "completed" THEN "ready" ELSE "failed"

\* An extracted text is never thrown away by a run that a recovery repeats, unless
\* the recovery listed a job that was in progress.
ResultKept ==
  [][\A j \in Jobs : KindOf[j] # "video" /\ target[j] = "ready" /\ j \notin lost \union broken \union doubled
       => target'[j] = "ready"]_vars

\* A job ends, or is dropped by a full channel or a fault.
EveryJobEnds ==
  \A j \in Jobs : job[j].status = "queued" ~> job[j].status \in Ended \/ j \in lost \union broken

\* "Used at startup to re-enqueue jobs that were not completed before the process
\* stopped": whatever the death of a process interrupts, its restart takes up.
NoneStranded ==
  \A j \in Jobs : job[j].status = "queued" ~> job[j].status \in Ended
=================================================================================
