------------------------- MODULE TranscriptJobs_proofs -------------------------
(***************************************************************************)
(* Theorems about TranscriptJobs: the types, that no open job is forgotten *)
(* and that a job and what it works for end alike, for any jobs, processes *)
(* and workers and any channel capacity, with any number of deaths and     *)
(* failing statements.                                                     *)
(***************************************************************************)
EXTENDS TranscriptJobs, TLAPS

-----------------------------------------------------------------------------
(* Sequences *)

\* Removing the head of a list.
LEMMA HeadAndTail ==
  ASSUME NEW S, NEW s \in Seq(S), s # <<>>
  PROVE  /\ Len(s) \in Nat /\ Len(s) >= 1
         /\ Head(s) = s[1] /\ s[1] \in S
         /\ Tail(s) \in Seq(S) /\ Len(Tail(s)) = Len(s) - 1
         /\ \A i \in 1..Len(Tail(s)) : Tail(s)[i] = s[i + 1] /\ i + 1 \in 1..Len(s)
  OBVIOUS

\* What follows the head of a list is in its tail.
LEMMA InTail ==
  ASSUME NEW S, NEW s \in Seq(S), s # <<>>, NEW i \in 1..Len(s), i # 1
  PROVE  i - 1 \in 1..Len(Tail(s)) /\ Tail(s)[i - 1] = s[i]
  BY HeadAndTail

\* Sending a job to a channel with room for it.
LEMMA AppendToQueue ==
  ASSUME NEW s \in Seq(Jobs), NEW j \in Jobs
  PROVE  /\ Append(s, j) \in Seq(Jobs) /\ Len(Append(s, j)) = Len(s) + 1
         /\ \A i \in 1..Len(s) : Append(s, j)[i] = s[i]
         /\ Append(s, j)[Len(s) + 1] = j
         /\ Len(s) \in Nat
  OBVIOUS

-----------------------------------------------------------------------------
(* Types *)

\* The statements of a worker.
LEMMA StatementTypes ==
  /\ \A to \in Underway \union Ended : SetJob(to) \in StatementType
  /\ \A to \in {"processing", "ready", "failed"} : SetTarget(to) \in StatementType
  /\ Notify \in StatementType
  /\ {"downloading", "transcribing", "saving", "completed", "failed"} = Underway \union Ended
  BY DEF SetJob, SetTarget, StatementType, Underway, Ended

\* The lists a worker may decide on.
LEMMA ListTypes ==
  /\ \A kind : FailBoth(kind) \in Seq(StatementType)
  /\ <<>> \in Seq(StatementType)
  /\ <<SetJob("failed")>> \in Seq(StatementType)
  /\ <<SetJob("completed")>> \in Seq(StatementType)
  /\ <<SetJob("transcribing")>> \in Seq(StatementType)
  /\ <<SetJob("downloading"), SetTarget("processing")>> \in Seq(StatementType)
  /\ <<SetTarget("ready"), SetJob("completed"), Notify>> \in Seq(StatementType)
  /\ <<SetJob("saving"), SetTarget("ready"), SetJob("completed"), Notify>> \in Seq(StatementType)
<1>1. /\ SetJob("failed") \in StatementType /\ SetJob("completed") \in StatementType
      /\ SetJob("transcribing") \in StatementType /\ SetJob("downloading") \in StatementType
      /\ SetJob("saving") \in StatementType /\ SetTarget("processing") \in StatementType
      /\ SetTarget("ready") \in StatementType /\ SetTarget("failed") \in StatementType
      /\ Notify \in StatementType
  BY StatementTypes
<1>2. QED
  BY <1>1 DEF FailBoth

\* An idle worker has no job.
LEMMA IdleType == Idle \in WorkerType /\ Idle.job = NoJob /\ Idle.stage = "idle" /\ Idle.todo = <<>>
  BY DEF Idle, WorkerType

\* The initial state has the types.
LEMMA InitType == Init => TypeOK
<1> SUFFICES ASSUME Init PROVE TypeOK
  OBVIOUS
<1>1. worker \in [Workers -> WorkerType]
  BY IdleType DEF Init
<1>2. queue \in [Processes -> Seq(Jobs)] /\ \A p \in Processes : Len(queue[p]) <= QueueCap
  BY TranscriptAssumption DEF Init
<1>3. request \in [Jobs -> RequestType]
  BY DEF Init, RequestType
<1>4. job \in [Jobs -> JobType]
  BY DEF Init, JobType, Statuses
<1>5. QED
  BY <1>1, <1>2, <1>3, <1>4, TranscriptAssumption DEF Init, TypeOK

\* A send keeps the types of the channels.
LEMMA PushType ==
  ASSUME TypeOK, NEW p \in Processes, NEW j \in Jobs, Push(p, j)
  PROVE  /\ queue' \in [Processes -> Seq(Jobs)]
         /\ \A q \in Processes : Len(queue'[q]) <= QueueCap
         /\ lost' \subseteq Jobs
<1>1. queue[p] \in Seq(Jobs) /\ queue \in [Processes -> Seq(Jobs)] /\ lost \subseteq Jobs
      /\ \A q \in Processes : Len(queue[q]) <= QueueCap
  BY DEF TypeOK
<1>2. CASE Len(queue[p]) < QueueCap
  <2>1. queue' = [queue EXCEPT ![p] = Append(queue[p], j)] /\ lost' = lost
    BY <1>2 DEF Push
  <2>2. Append(queue[p], j) \in Seq(Jobs) /\ Len(Append(queue[p], j)) <= QueueCap
    BY <1>1, <1>2, AppendToQueue, TranscriptAssumption
  <2>3. QED
    BY <1>1, <2>1, <2>2
<1>3. CASE ~(Len(queue[p]) < QueueCap)
  BY <1>1, <1>3 DEF Push
<1>4. QED
  BY <1>2, <1>3

\* A request that is being served is in a process.
LEMMA RequestTypes ==
  ASSUME TypeOK, NEW j \in Jobs
  PROVE  /\ request[j] \in RequestType /\ NoRequest \in RequestType /\ NoRequest.step = "none"
         /\ request[j].step # "none" => request[j] \in [step : {"create", "enqueue"}, at : Processes]
  BY DEF TypeOK, RequestType, NoRequest

\* Requests keep the types.
LEMMA RequestStepType ==
  ASSUME TypeOK, NEW j \in Jobs, RequestStep(j) \/ RequestFails(j)
  PROVE  TypeOK'
<1>1. /\ request[j] \in RequestType /\ NoRequest \in RequestType
      /\ request[j].step # "none" => request[j] \in [step : {"create", "enqueue"}, at : Processes]
  BY RequestTypes
<1>2. CASE CreateJob(j)
  <2>0. job[j] \in JobType /\ [job[j] EXCEPT !.status = "queued"] \in JobType
    BY DEF TypeOK, JobType, Statuses
  <2>1. job' \in [Jobs -> JobType]
    <3>1. job' = [job EXCEPT ![j] = [job[j] EXCEPT !.status = "queued"]]
      BY <1>2 DEF CreateJob
    <3>2. QED
      BY <2>0, <3>1 DEF TypeOK
  <2>2. [request[j] EXCEPT !.step = "enqueue"] \in RequestType
    BY <1>1, <1>2 DEF CreateJob, RequestType
  <2>3. request' \in [Jobs -> RequestType]
    BY <1>2, <2>2 DEF CreateJob, TypeOK
  <2>4. QED
    BY <1>2, <2>1, <2>3 DEF CreateJob, TypeOK
<1>3. CASE EnqueueJob(j)
  <2>1. request' \in [Jobs -> RequestType]
    BY <1>1, <1>3 DEF EnqueueJob, TypeOK
  <2>2. request[j].at \in Processes /\ Push(request[j].at, j)
    BY <1>1, <1>3 DEF EnqueueJob
  <2>3. QED
    BY <1>3, <2>1, <2>2, PushType DEF EnqueueJob, TypeOK
<1>4. CASE RequestFails(j)
  BY <1>1, <1>4 DEF RequestFails, TypeOK
<1>5. QED
  BY <1>2, <1>3, <1>4 DEF RequestStep

\* A new upload keeps the types.
LEMMA CreateTargetType ==
  ASSUME TypeOK, NEW p \in Processes, NEW j \in Jobs, CreateTarget(p, j)
  PROVE  TypeOK'
<1>1. [step |-> "create", at |-> p] \in RequestType
  BY DEF RequestType
<1>2. QED
  BY <1>1 DEF CreateTarget, TypeOK

\* The start and the recovery of a process keep the types.
LEMMA ProcessType ==
  ASSUME TypeOK, NEW p \in Processes, Start(p) \/ Recovery(p)
  PROVE  TypeOK'
<1>1. CASE Start(p)
  BY <1>1 DEF Start, TypeOK
<1>2. CASE RecoverList(p)
  <2> DEFINE found == {j \in Jobs : Recoverable(job[j])}
  <2>1. /\ process' = [process EXCEPT ![p] = [state |-> "serving", list |-> found]]
        /\ lost' = lost \ found
        /\ doubled' = doubled \union {j \in found : Held(j)}
    BY <1>2 DEF RecoverList
  <2>2. found \subseteq Jobs
    OBVIOUS
  <2> HIDE DEF found
  <2>3. lost' \subseteq Jobs /\ doubled' \subseteq Jobs
    BY <2>1, <2>2 DEF TypeOK
  <2>4. process' \in [Processes -> [state : {"down", "starting", "serving"}, list : SUBSET Jobs]]
    BY <2>1, <2>2 DEF TypeOK
  <2>5. QED
    BY <1>2, <2>3, <2>4 DEF RecoverList, TypeOK
<1>3. ASSUME NEW j \in Jobs, RecoverNext(p, j)  PROVE TypeOK'
  <2>1. process' \in [Processes -> [state : {"down", "starting", "serving"}, list : SUBSET Jobs]]
    <3> DEFINE Record == [state : {"down", "starting", "serving"}, list : SUBSET Jobs]
               rest == [process[p] EXCEPT !.list = process[p].list \ {j}]
    <3>1. process[p] \in Record
      BY DEF TypeOK
    <3>2. rest \in Record
      BY <3>1
    <3>3. process' = [process EXCEPT ![p] = rest]
      BY <1>3 DEF RecoverNext
    <3>4. QED
      BY <3>2, <3>3 DEF TypeOK
  <2>2. QED
    BY <1>3, <2>1, PushType DEF RecoverNext, TypeOK
<1>4. QED
  BY <1>1, <1>2, <1>3 DEF Recovery

\* The passing of time keeps the types.
LEMMA GrowStaleType ==
  ASSUME TypeOK, NEW j \in Jobs, GrowStale(j)
  PROVE  TypeOK'
<1>1. job[j] \in JobType
  BY DEF TypeOK
<1>2. [job[j] EXCEPT !.stale = TRUE] \in JobType
  BY <1>1 DEF JobType
<1>3. job' = [job EXCEPT ![j] = [job[j] EXCEPT !.stale = TRUE]]
  BY DEF GrowStale
<1>4. job' \in [Jobs -> JobType]
  BY <1>2, <1>3 DEF TypeOK
<1>5. QED
  BY <1>4 DEF GrowStale, TypeOK

-----------------------------------------------------------------------------
(* Types of the workers' steps *)

\* A worker with something to decide or to execute has a job.
LEMMA BusyType ==
  ASSUME TypeOK, NEW w \in Workers, worker[w] # Idle
  PROVE  /\ worker[w].job \in Jobs
         /\ worker[w].stage \in {"taken", "fetch", "transcribe", "done"}
         /\ worker[w].todo \in Seq(StatementType)
         /\ worker[w] \in [job   : Jobs,
                           stage : {"taken", "fetch", "transcribe", "done"},
                           todo  : Seq(StatementType)]
  BY DEF TypeOK, WorkerType

\* Neither is left to do by an idle worker.
LEMMA BusyWorkers ==
  ASSUME NEW w \in Workers
  PROVE  /\ worker[w].todo # <<>> => worker[w] # Idle
         /\ worker[w].stage # "idle" => worker[w] # Idle
  BY IdleType

\* The decisions of a worker are a stage and a list of statements.
LEMMA DecideGoes ==
  ASSUME NEW w \in Workers, Decide(w)
  PROVE  /\ worker[w].stage \in {"taken", "fetch", "transcribe"} /\ worker[w].todo = <<>>
         /\ \E stage \in {"fetch", "transcribe", "done"}, todo \in Seq(StatementType) :
              Go(w, stage, todo)
<1>1. CASE Skip(w)
  BY <1>1, ListTypes DEF Skip, Deciding
<1>2. CASE Begin(w)
  BY <1>2, ListTypes DEF Begin, Deciding
<1>3. CASE Fetched(w)
  BY <1>3, ListTypes DEF Fetched, Deciding
<1>4. CASE Fails(w)
  BY <1>4, ListTypes DEF Fails, Deciding
<1>5. CASE Unconfigured(w)
  BY <1>5, ListTypes DEF Unconfigured, Deciding
<1>6. CASE Succeeds(w)
  BY <1>6, ListTypes DEF Succeeds, Deciding
<1>7. QED
  BY <1>1, <1>2, <1>3, <1>4, <1>5, <1>6 DEF Decide

\* Decisions keep the types.
LEMMA DecideType ==
  ASSUME TypeOK, NEW w \in Workers, Decide(w)
  PROVE  TypeOK'
<1>1. PICK stage \in {"fetch", "transcribe", "done"}, todo \in Seq(StatementType) : Go(w, stage, todo)
  BY DecideGoes
<1>2. worker[w] # Idle
  BY DecideGoes, BusyWorkers
<1>3. [worker[w] EXCEPT !.stage = stage, !.todo = todo] \in WorkerType
  BY <1>2, BusyType DEF WorkerType
<1>4. worker' = [worker EXCEPT ![w] = [worker[w] EXCEPT !.stage = stage, !.todo = todo]]
  BY <1>1 DEF Go, TypeOK
<1>5. worker' \in [Workers -> WorkerType]
  BY <1>3, <1>4 DEF TypeOK
<1>6. QED
  BY <1>1, <1>5 DEF Go, TypeOK

\* What is left of a run keeps the type of a worker.
LEMMA LeftType ==
  ASSUME TypeOK, NEW w \in Workers, worker[w] # Idle, NEW todo \in Seq(StatementType)
  PROVE  Left(w, todo) \in WorkerType
<1>1. [worker[w] EXCEPT !.todo = todo] \in WorkerType
  BY BusyType DEF WorkerType
<1>2. QED
  BY <1>1, IdleType DEF Left

\* Executing a statement keeps the types.
LEMMA ExecuteType ==
  ASSUME TypeOK, NEW w \in Workers, Execute(w)
  PROVE  TypeOK'
<1> DEFINE s == worker[w].todo
           j == worker[w].job
<1>1. s # <<>>
  BY DEF Execute, ExecJob, ExecTarget, ExecNotify, NextIs
<1>2. worker[w] # Idle /\ j \in Jobs /\ s \in Seq(StatementType)
  BY <1>1, BusyWorkers, BusyType
<1>3. Head(s) \in StatementType /\ Tail(s) \in Seq(StatementType)
  BY <1>1, <1>2, HeadAndTail
<1>4. worker' = [worker EXCEPT ![w] = Left(w, Tail(s))]
  BY DEF Execute, ExecJob, ExecTarget, ExecNotify, Pop
<1>5. worker' \in [Workers -> WorkerType]
  BY <1>2, <1>3, <1>4, LeftType DEF TypeOK
<1>6. CASE ExecJob(w)
  <2>1. Head(s).to \in Statuses /\ Head(s).op = "job"
    BY <1>3, <1>6 DEF ExecJob, NextIs, Statement, StatementType, Statuses, Notify
  <2>2. job' = [job EXCEPT ![j] = [status |-> Head(s).to, stale |-> job[j].stale /\ Head(s).to # "downloading"]]
    BY <1>2, <1>6 DEF ExecJob, TypeOK, Statement
  <2>3. (job[j].stale /\ Head(s).to # "downloading") \in BOOLEAN
    OBVIOUS
  <2>4. job' \in [Jobs -> JobType]
    BY <1>2, <2>1, <2>2, <2>3 DEF TypeOK, JobType
  <2>5. QED
    BY <1>5, <1>6, <2>4 DEF ExecJob, TypeOK
<1>7. CASE ExecTarget(w)
  <2>1. Head(s).to \in {"processing", "ready", "failed"}
    BY <1>3, <1>7 DEF ExecTarget, NextIs, Statement, StatementType, Notify
  <2>2. target' = [target EXCEPT ![j] = Head(s).to]
    BY <1>7 DEF ExecTarget, Statement
  <2>3. QED
    BY <1>2, <1>5, <1>7, <2>1, <2>2 DEF ExecTarget, TypeOK
<1>8. CASE ExecNotify(w)
  BY <1>5, <1>8 DEF ExecNotify, TypeOK
<1>9. QED
  BY <1>6, <1>7, <1>8 DEF Execute

\* Taking a job from the channel keeps the types.
LEMMA TakeType ==
  ASSUME TypeOK, NEW w \in Workers, Take(w)
  PROVE  TypeOK'
<1> DEFINE p == HomeOf[w]
<1>1. p \in Processes /\ queue[p] \in Seq(Jobs) /\ queue[p] # <<>> /\ Len(queue[p]) <= QueueCap
  BY TranscriptAssumption DEF Take, TypeOK
<1>2. /\ Head(queue[p]) \in Jobs /\ Tail(queue[p]) \in Seq(Jobs)
      /\ Len(Tail(queue[p])) <= QueueCap
  BY <1>1, HeadAndTail, TranscriptAssumption
<1>3. [job |-> Head(queue[p]), stage |-> "taken", todo |-> <<>>] \in WorkerType
  BY <1>2, ListTypes DEF WorkerType
<1>4. worker' \in [Workers -> WorkerType]
  BY <1>3 DEF Take, TypeOK
<1>5. queue' = [queue EXCEPT ![p] = Tail(queue[p])]
  BY DEF Take
<1>6. queue' \in [Processes -> Seq(Jobs)] /\ \A q \in Processes : Len(queue'[q]) <= QueueCap
  BY <1>1, <1>2, <1>5 DEF TypeOK
<1>7. QED
  BY <1>4, <1>6 DEF Take, TypeOK

\* What follows a failed statement is a list of statements.
LEMMA AfterErrorType ==
  ASSUME TypeOK, NEW w \in Workers, worker[w].todo # <<>>
  PROVE  AfterError(w) \in Seq(StatementType)
<1>1. worker[w].todo \in Seq(StatementType)
  BY BusyWorkers, BusyType
<1>2. Tail(worker[w].todo) \in Seq(StatementType)
  BY <1>1, HeadAndTail
<1>3. QED
  BY <1>2, ListTypes DEF AfterError

\* Failed statements and reads keep the types.
LEMMA FailureType ==
  ASSUME TypeOK, NEW w \in Workers, StatementFails(w) \/ ReadFails(w)
  PROVE  TypeOK'
<1>1. CASE StatementFails(w)
  <2>1. worker[w].todo # <<>>
    BY <1>1 DEF StatementFails, NextIs
  <2>2. worker[w] # Idle /\ worker[w].job \in Jobs
    BY <2>1, BusyWorkers, BusyType
  <2>3. AfterError(w) \in Seq(StatementType)
    BY <2>1, AfterErrorType
  <2>4. [worker[w] EXCEPT !.stage = "done", !.todo = AfterError(w)] \in WorkerType
    BY <2>2, <2>3, BusyType DEF WorkerType
  <2>5. Left(w, AfterError(w)) \in WorkerType
    BY <2>2, <2>3, LeftType
  <2>6. worker' = [worker EXCEPT ![w] =
          IF GivesUp(w) THEN [worker[w] EXCEPT !.stage = "done", !.todo = AfterError(w)]
                        ELSE Left(w, AfterError(w))]
    BY <1>1 DEF StatementFails, TypeOK
  <2>7. worker' \in [Workers -> WorkerType]
    BY <2>4, <2>5, <2>6 DEF TypeOK
  <2>8. QED
    BY <1>1, <2>2, <2>7 DEF StatementFails, TypeOK
<1>2. CASE ReadFails(w)
  <2> DEFINE todo == IF Kind(w) = "material" THEN FailBoth("material") ELSE <<SetJob("failed")>>
  <2>1. worker[w].stage = "taken"
    BY <1>2 DEF ReadFails, Deciding
  <2>2. worker[w] # Idle /\ worker[w].job \in Jobs
    BY <2>1, BusyWorkers, BusyType
  <2>3. todo \in Seq(StatementType)
    BY ListTypes
  <2>4. worker' = [worker EXCEPT ![w] = [worker[w] EXCEPT !.stage = "done", !.todo = todo]]
    BY <1>2 DEF ReadFails, TypeOK
  <2> HIDE DEF todo
  <2>5. [worker[w] EXCEPT !.stage = "done", !.todo = todo] \in WorkerType
    BY <2>2, <2>3, BusyType DEF WorkerType
  <2>6. worker' \in [Workers -> WorkerType]
    BY <2>4, <2>5 DEF TypeOK
  <2>7. QED
    BY <1>2, <2>2, <2>6 DEF ReadFails, TypeOK
<1>3. QED
  BY <1>1, <1>2

\* The death of a process keeps the types.
LEMMA CrashType ==
  ASSUME TypeOK, NEW p \in Processes, Crash(p)
  PROVE  TypeOK'
<1> DEFINE mine == {w \in Workers : HomeOf[w] = p}
           served == {j \in Jobs : request[j].at = p}
<1>1. /\ worker' = [w \in Workers |-> IF w \in mine THEN Idle ELSE worker[w]]
      /\ request' = [j \in Jobs |-> IF j \in served THEN NoRequest ELSE request[j]]
      /\ lost' = lost \union served \union Entries(p) \union process[p].list
                   \union ({worker[w].job : w \in mine} \ {NoJob})
      /\ process' = [process EXCEPT ![p] = [state |-> "down", list |-> {}]]
      /\ queue' = [queue EXCEPT ![p] = <<>>]
  BY DEF Crash
<1>2. worker' \in [Workers -> WorkerType]
  BY <1>1, IdleType DEF TypeOK
<1>3. request' \in [Jobs -> RequestType]
  BY <1>1 DEF TypeOK, RequestType
<1>4. Entries(p) \subseteq Jobs
  BY DEF Entries, TypeOK
<1>5. {worker[w].job : w \in mine} \ {NoJob} \subseteq Jobs
  BY IdleType DEF TypeOK, WorkerType
<1>6. lost' \subseteq Jobs
  BY <1>1, <1>4, <1>5 DEF TypeOK
<1>7. queue' \in [Processes -> Seq(Jobs)] /\ \A q \in Processes : Len(queue'[q]) <= QueueCap
  BY <1>1, TranscriptAssumption DEF TypeOK
<1>8. process' \in [Processes -> [state : {"down", "starting", "serving"}, list : SUBSET Jobs]]
  BY <1>1 DEF TypeOK
<1>9. crashes' \in 0..CrashLimit
  BY TranscriptAssumption DEF Crash, TypeOK
<1>10. QED
  BY <1>2, <1>3, <1>6, <1>7, <1>8, <1>9 DEF Crash, TypeOK

\* Every step keeps the types.
LEMMA NextType == TypeOK /\ [Next]_vars => TypeOK'
<1> SUFFICES ASSUME TypeOK, [Next]_vars  PROVE TypeOK'
  OBVIOUS
<1>1. CASE UNCHANGED vars
  BY <1>1 DEF vars, TypeOK
<1>2. CASE Next
  <2>1. CASE \E p \in Processes, j \in Jobs : CreateTarget(p, j)
    BY <2>1, CreateTargetType
  <2>2. CASE \E j \in Jobs : RequestStep(j) \/ RequestFails(j) \/ GrowStale(j)
    BY <2>2, RequestStepType, GrowStaleType
  <2>3. CASE \E p \in Processes : Start(p) \/ Recovery(p)
    BY <2>3, ProcessType
  <2>4. CASE \E p \in Processes : Crash(p)
    BY <2>4, CrashType
  <2>5. CASE \E w \in Workers : Take(w)
    BY <2>5, TakeType
  <2>6. CASE \E w \in Workers : Decide(w)
    BY <2>6, DecideType
  <2>7. CASE \E w \in Workers : Execute(w)
    BY <2>7, ExecuteType
  <2>8. CASE \E w \in Workers : StatementFails(w) \/ ReadFails(w)
    BY <2>8, FailureType
  <2>9. QED
    BY <1>2, <2>1, <2>2, <2>3, <2>4, <2>5, <2>6, <2>7, <2>8 DEF Next
<1>3. QED
  BY <1>1, <1>2

\* The state of the transcript jobs always has its types, and no channel ever
\* holds more than it has room for.
THEOREM TypeCorrect == Spec => []TypeOK
  BY InitType, NextType, PTL DEF Spec

-----------------------------------------------------------------------------
(* No open job is forgotten                                                *)
(*                                                                         *)
(* NotForgotten is not inductive: it does not say that the worker that     *)
(* holds a job will still write how the job ends.                          *)

\* Dropped by a full channel, a death or a failed statement.
Dropped(j) == j \in lost \union broken

\* A request, a channel or a recovery list has the job.
Waits(j) ==
  \/ request[j].step # "none"
  \/ \E p \in Processes : j \in process[p].list \union Entries(p)

Secured(j) == Dropped(j) \/ Waits(j)

Open(j) == job[j].status \notin Ended \union {"none"}

Pending(j) == target[j] = "pending"

Ends(s) == s = SetJob("completed") \/ s = SetJob("failed")

HasEnd(todo) == \E i \in 1..Len(todo) : Ends(todo[i])

HasTarget(todo) == \E i \in 1..Len(todo) : todo[i].op = "target"

\* w has still to decide, or to write, how its job ends.
WillEnd(w) == worker[w].stage # "done" \/ HasEnd(worker[w].todo)

\* w has still to decide about its job, or to write to the target.
WillSettle(w) == worker[w].stage = "taken" \/ HasTarget(worker[w].todo)

OpenOwned ==
  \A j \in Jobs : Open(j) =>
    Secured(j) \/ \E w \in Workers : worker[w].job = j /\ WillEnd(w)

PendingOwned ==
  \A j \in Jobs : Pending(j) =>
    Secured(j) \/ \E w \in Workers : worker[w].job = j /\ WillSettle(w)

\* A status that is not an end is followed by one that is.
EndsLast(todo) ==
  \A i \in 1..Len(todo) : todo[i].op = "job" /\ ~Ends(todo[i])
    => \E k \in 1..Len(todo) : k > i /\ Ends(todo[k])

\* A run that has decided how its job ends writes that last.
RunShape == \A w \in Workers : worker[w].stage = "done" => EndsLast(worker[w].todo)

\* Only a process whose recovery has run has a recovery list.
ListShape ==
  \A p \in Processes : process[p].state # "serving" => process[p].list = {}

Inv == TypeOK /\ RunShape /\ ListShape /\ OpenOwned /\ PendingOwned

\* Sending a job to a channel: either it is in the channel or it was dropped, and
\* nobody else is affected.
LEMMA PushSecures ==
  ASSUME TypeOK, NEW p \in Processes, NEW j \in Jobs, Push(p, j)
  PROVE  /\ lost \subseteq lost'
         /\ \A q \in Processes : Entries(q) \subseteq Entries(q)'
         /\ j \in lost' \/ j \in Entries(p)'
<1>1. CASE Len(queue[p]) < QueueCap
  <2>1. queue' = [queue EXCEPT ![p] = Append(queue[p], j)] /\ lost' = lost
    BY <1>1 DEF Push
  <2>2. queue[p] \in Seq(Jobs)
    BY DEF TypeOK
  <2>3. queue'[p] = Append(queue[p], j) /\ \A q \in Processes : q # p => queue'[q] = queue[q]
    BY <2>1 DEF TypeOK
  <2>4. /\ Len(queue[p]) \in Nat /\ Len(queue'[p]) = Len(queue[p]) + 1
        /\ \A i \in 1..Len(queue[p]) : queue'[p][i] = queue[p][i]
        /\ queue'[p][Len(queue[p]) + 1] = j
    BY <2>2, <2>3, AppendToQueue
  <2>5. Entries(p) \subseteq Entries(p)'
    BY <2>4 DEF Entries
  <2>6. j \in Entries(p)'
    BY <2>4 DEF Entries
  <2>7. \A q \in Processes : q # p => Entries(q) \subseteq Entries(q)'
    BY <2>3 DEF Entries
  <2>8. QED
    BY <2>1, <2>5, <2>6, <2>7
<1>2. CASE ~(Len(queue[p]) < QueueCap)
  <2>1. queue' = queue /\ lost' = lost \union {j}
    BY <1>2 DEF Push
  <2>2. QED
    BY <2>1 DEF Entries
<1>3. QED
  BY <1>1, <1>2

\* A job is secured by whatever drops it, requests it, lists it or queues it.
LEMMA Securing ==
  ASSUME NEW x \in Jobs
  PROVE  /\ x \in lost \/ x \in broken => Secured(x)
         /\ request[x].step # "none" => Secured(x)
         /\ \A p \in Processes : x \in process[p].list \/ x \in Entries(p) => Secured(x)
  BY DEF Secured, Dropped, Waits

\* The same, in the next state.
LEMMA SecuringNext ==
  ASSUME NEW x \in Jobs
  PROVE  /\ x \in lost' \/ x \in broken' => Secured(x)'
         /\ request'[x].step # "none" => Secured(x)'
         /\ \A p \in Processes : x \in process'[p].list \/ x \in Entries(p)' => Secured(x)'
  BY DEF Secured, Dropped, Waits

\* What secures a job.
LEMMA SecuredCases ==
  ASSUME NEW x \in Jobs, Secured(x)
  PROVE  \/ x \in lost \/ x \in broken \/ request[x].step # "none"
         \/ \E p \in Processes : x \in process[p].list \/ x \in Entries(p)
  BY DEF Secured, Dropped, Waits

\* Requests and the passing of time keep every job secured.
LEMMA RequestSecures ==
  ASSUME TypeOK, NEW x \in Jobs, Secured(x), NEW j \in Jobs,
         RequestStep(j) \/ RequestFails(j) \/ GrowStale(j)
  PROVE  Secured(x)'
<1>1. CASE CreateJob(j)
  <2>1. request'[x].step # "none" \/ request'[x] = request[x]
    BY <1>1 DEF CreateJob, TypeOK
  <2>2. QED
    BY <1>1, <2>1, SecuringNext, SecuredCases DEF CreateJob, Entries
<1>2. CASE EnqueueJob(j)
  <2>1. PICK p \in Processes : Push(p, j)
    BY <1>2, RequestTypes DEF EnqueueJob
  <2>2. /\ lost \subseteq lost'
        /\ \A q \in Processes : Entries(q) \subseteq Entries(q)'
        /\ j \in lost' \/ j \in Entries(p)'
    BY <2>1, PushSecures
  <2>3. CASE x = j
    BY <2>1, <2>2, <2>3, SecuringNext
  <2>4. CASE x # j
    <3>1. request'[x] = request[x] /\ process' = process /\ broken' = broken
      BY <1>2, <2>4 DEF EnqueueJob, TypeOK
    <3>2. QED
      BY <2>2, <3>1, SecuringNext, SecuredCases
  <2>5. QED
    BY <2>3, <2>4
<1>3. CASE RequestFails(j)
  <2>1. x \in broken' \/ request'[x] = request[x]
    BY <1>3 DEF RequestFails, TypeOK
  <2>2. QED
    BY <1>3, <2>1, SecuringNext, SecuredCases DEF RequestFails, Entries
<1>4. CASE GrowStale(j)
  BY <1>4, SecuringNext, SecuredCases DEF GrowStale, Entries
<1>5. QED
  BY <1>1, <1>2, <1>3, <1>4 DEF RequestStep

\* A new upload keeps every job secured.
LEMMA CreateTargetSecures ==
  ASSUME TypeOK, NEW x \in Jobs, NEW p \in Processes, NEW j \in Jobs, CreateTarget(p, j),
         Secured(x) \/ x = j
  PROVE  Secured(x)'
<1>1. x = j => request'[x].step # "none"
  BY DEF CreateTarget, TypeOK
<1>2. x # j => request'[x] = request[x]
  BY DEF CreateTarget, TypeOK
<1>3. QED
  BY <1>1, <1>2, SecuringNext, SecuredCases DEF CreateTarget, Entries

\* Starting and recovering processes keep every job secured: what a recovery no
\* longer counts as dropped is on its list.
LEMMA ProcessSecures ==
  ASSUME TypeOK, ListShape, NEW x \in Jobs, Secured(x), NEW p \in Processes,
         Start(p) \/ Recovery(p)
  PROVE  Secured(x)'
<1>1. CASE Start(p)
  <2>1. \A q \in Processes : process'[q].list = process[q].list
    BY <1>1 DEF Start, TypeOK
  <2>2. QED
    BY <1>1, <2>1, SecuringNext, SecuredCases DEF Start, Entries
<1>2. CASE RecoverList(p)
  <2> DEFINE found == {j \in Jobs : Recoverable(job[j])}
  <2>1. /\ process' = [process EXCEPT ![p] = [state |-> "serving", list |-> found]]
        /\ lost' = lost \ found
        /\ process[p].state = "starting"
        /\ request' = request /\ broken' = broken /\ queue' = queue
    BY <1>2 DEF RecoverList
  <2> HIDE DEF found
  <2>2. process'[p].list = found /\ \A q \in Processes : q # p => process'[q] = process[q]
    BY <2>1 DEF TypeOK
  <2>3. process[p].list = {}
    BY <2>1 DEF ListShape
  <2>4. x \in lost => x \in lost' \/ x \in process'[p].list
    BY <2>1, <2>2
  <2>5. \A q \in Processes : process[q].list \subseteq process'[q].list
    BY <2>2, <2>3
  <2>6. \A q \in Processes : Entries(q)' = Entries(q)
    BY <2>1 DEF Entries
  <2>7. QED
    BY <2>1, <2>4, <2>5, <2>6, SecuringNext, SecuredCases
<1>3. ASSUME NEW j \in Jobs, RecoverNext(p, j)  PROVE Secured(x)'
  <2>1. /\ j \in process[p].list /\ Push(p, j)
        /\ process' = [process EXCEPT ![p].list = process[p].list \ {j}]
        /\ request' = request /\ broken' = broken
    BY <1>3 DEF RecoverNext
  <2>2. /\ lost \subseteq lost'
        /\ \A q \in Processes : Entries(q) \subseteq Entries(q)'
        /\ j \in lost' \/ j \in Entries(p)'
    BY <2>1, PushSecures
  <2>3. \A q \in Processes : x \in process[q].list => x \in process'[q].list \/ x = j
    BY <2>1 DEF TypeOK
  <2>4. QED
    BY <2>1, <2>2, <2>3, SecuringNext, SecuredCases
<1>4. QED
  BY <1>1, <1>2, <1>3 DEF Recovery

\* A job that a worker takes from the channel is the worker's.
LEMMA TakeSecures ==
  ASSUME TypeOK, NEW x \in Jobs, Secured(x), NEW w \in Workers, Take(w)
  PROVE  Secured(x)' \/ (worker'[w].job = x /\ worker'[w].stage = "taken")
<1> DEFINE p == HomeOf[w]
           s == queue[p]
<1>1. p \in Processes /\ s \in Seq(Jobs) /\ s # <<>>
  BY TranscriptAssumption DEF Take, TypeOK
<1>2. /\ worker'[w] = [job |-> Head(s), stage |-> "taken", todo |-> <<>>]
      /\ queue'[p] = Tail(s) /\ \A q \in Processes : q # p => queue'[q] = queue[q]
      /\ request' = request /\ process' = process /\ lost' = lost /\ broken' = broken
  BY <1>1 DEF Take, TypeOK
<1>3. \A q \in Processes : q # p => Entries(q)' = Entries(q)
  BY <1>2 DEF Entries
<1>4. x \in Entries(p) => x = Head(s) \/ x \in Entries(p)'
  <2>1. SUFFICES ASSUME x \in Entries(p), x # Head(s)  PROVE x \in Entries(p)'
    OBVIOUS
  <2>2. PICK i \in 1..Len(s) : x = s[i]
    BY <2>1 DEF Entries
  <2>3. i # 1
    BY <1>1, <2>1, <2>2, HeadAndTail
  <2>4. i - 1 \in 1..Len(Tail(s)) /\ Tail(s)[i - 1] = s[i]
    BY <1>1, <2>3, InTail
  <2>5. QED
    BY <1>2, <2>2, <2>4 DEF Entries
<1>5. QED
  BY <1>1, <1>2, <1>3, <1>4, SecuringNext, SecuredCases

\* What a worker does with its job leaves every job secured.
LEMMA WorkerSecures ==
  ASSUME NEW x \in Jobs, Secured(x), NEW w \in Workers,
         Decide(w) \/ Execute(w) \/ StatementFails(w) \/ ReadFails(w)
  PROVE  Secured(x)'
<1>1. request' = request /\ process' = process /\ queue' = queue /\ lost' = lost /\ broken \subseteq broken'
  BY DEF Decide, Skip, Begin, Fetched, Fails, Unconfigured, Succeeds, Go,
         Execute, ExecJob, ExecTarget, ExecNotify, StatementFails, ReadFails
<1>2. QED
  BY <1>1, SecuringNext, SecuredCases DEF Entries

\* When a process dies, what it had is dropped.
LEMMA CrashSecures ==
  ASSUME TypeOK, NEW x \in Jobs, NEW p \in Processes, Crash(p),
         Secured(x) \/ \E w \in Workers : HomeOf[w] = p /\ worker[w].job = x
  PROVE  Secured(x)'
<1> DEFINE mine == {w \in Workers : HomeOf[w] = p}
           served == {j \in Jobs : request[j].at = p}
<1>1. /\ request' = [j \in Jobs |-> IF j \in served THEN NoRequest ELSE request[j]]
      /\ lost' = lost \union served \union Entries(p) \union process[p].list
                   \union ({worker[w].job : w \in mine} \ {NoJob})
      /\ process' = [process EXCEPT ![p] = [state |-> "down", list |-> {}]]
      /\ queue' = [queue EXCEPT ![p] = <<>>]
      /\ broken' = broken
  BY DEF Crash
<1>2. \A w \in Workers : HomeOf[w] = p /\ worker[w].job = x => x \in lost'
  BY <1>1, TranscriptAssumption
<1>3. x \in lost' \/ request'[x] = request[x]
  BY <1>1
<1>4. \A q \in Processes : q # p => process'[q] = process[q] /\ queue'[q] = queue[q]
  BY <1>1 DEF TypeOK
<1>5. \A q \in Processes : q # p => Entries(q)' = Entries(q)
  BY <1>4 DEF Entries
<1>6. lost \subseteq lost' /\ Entries(p) \subseteq lost' /\ process[p].list \subseteq lost'
  BY <1>1
<1>7. QED
  BY <1>1, <1>2, <1>3, <1>4, <1>5, <1>6, SecuringNext, SecuredCases

-----------------------------------------------------------------------------
(* Shapes *)

\* Which statements end a job.
LEMMA Endings ==
  /\ Ends(SetJob("completed")) /\ Ends(SetJob("failed"))
  /\ \A to \in {"downloading", "transcribing", "saving"} : ~Ends(SetJob(to))
  /\ \A to : ~Ends(SetTarget(to)) /\ SetTarget(to).op = "target" /\ SetTarget(to).op # "job"
  /\ ~Ends(Notify) /\ Notify.op # "job" /\ Notify.op # "target"
  /\ \A s : Ends(s) => s.op = "job" /\ s.to \in Ended
  BY DEF Ends, SetJob, SetTarget, Notify, Ended

\* What the head of a list leaves to do.
LEMMA TailShape ==
  ASSUME NEW s \in Seq(StatementType), s # <<>>
  PROVE  /\ EndsLast(s) => EndsLast(Tail(s))
         /\ HasEnd(s) /\ ~Ends(s[1]) => HasEnd(Tail(s))
         /\ EndsLast(s) /\ s[1].op = "job" /\ ~Ends(s[1]) => HasEnd(Tail(s))
         /\ HasTarget(s) /\ s[1].op # "target" => HasTarget(Tail(s))
<1>1. /\ Len(s) \in Nat /\ Len(s) >= 1 /\ Len(Tail(s)) = Len(s) - 1
      /\ \A i \in 1..Len(Tail(s)) : Tail(s)[i] = s[i + 1] /\ i + 1 \in 1..Len(s)
  BY HeadAndTail
<1>2. \A i \in 1..Len(s) : i # 1 => i - 1 \in 1..Len(Tail(s)) /\ Tail(s)[i - 1] = s[i]
  BY InTail
<1>3. ASSUME EndsLast(s)  PROVE EndsLast(Tail(s))
  <2>1. SUFFICES ASSUME NEW i \in 1..Len(Tail(s)), Tail(s)[i].op = "job", ~Ends(Tail(s)[i])
                 PROVE  \E k \in 1..Len(Tail(s)) : k > i /\ Ends(Tail(s)[k])
    BY DEF EndsLast
  <2>2. i + 1 \in 1..Len(s) /\ s[i + 1].op = "job" /\ ~Ends(s[i + 1])
    BY <1>1, <2>1
  <2>3. PICK k \in 1..Len(s) : k > i + 1 /\ Ends(s[k])
    BY <1>3, <2>2 DEF EndsLast
  <2>4. k # 1 /\ k - 1 > i
    BY <1>1, <2>3
  <2>5. QED
    BY <1>2, <2>3, <2>4
<1>4. HasEnd(s) /\ ~Ends(s[1]) => HasEnd(Tail(s))
  BY <1>2 DEF HasEnd
<1>5. EndsLast(s) /\ s[1].op = "job" /\ ~Ends(s[1]) => HasEnd(Tail(s))
  <2>1. 1 \in 1..Len(s)
    BY <1>1
  <2>2. \A k \in 1..Len(s) : k > 1 => k # 1
    OBVIOUS
  <2>3. QED
    BY <1>2, <2>1, <2>2 DEF EndsLast, HasEnd
<1>6. HasTarget(s) /\ s[1].op # "target" => HasTarget(Tail(s))
  BY <1>2 DEF HasTarget
<1>7. QED
  BY <1>3, <1>4, <1>5, <1>6

\* The lists a worker decides on.
LEMMA DecidedShapes ==
  /\ EndsLast(<<>>)
  /\ \A kind : EndsLast(FailBoth(kind)) /\ HasEnd(FailBoth(kind))
  /\ EndsLast(<<SetJob("failed")>>) /\ HasEnd(<<SetJob("failed")>>)
  /\ EndsLast(<<SetJob("completed")>>) /\ HasEnd(<<SetJob("completed")>>)
  /\ EndsLast(<<SetTarget("ready"), SetJob("completed"), Notify>>)
  /\ HasEnd(<<SetTarget("ready"), SetJob("completed"), Notify>>)
  /\ EndsLast(<<SetJob("saving"), SetTarget("ready"), SetJob("completed"), Notify>>)
  /\ HasEnd(<<SetJob("saving"), SetTarget("ready"), SetJob("completed"), Notify>>)
  /\ HasTarget(<<SetJob("downloading"), SetTarget("processing")>>)
<1>1. EndsLast(<<>>)
  BY DEF EndsLast
<1>2. \A s : Ends(s) => EndsLast(<<s>>) /\ HasEnd(<<s>>)
  BY DEF EndsLast, HasEnd
<1>3. \A s, t : Ends(s) /\ t.op # "job" =>
        /\ EndsLast(<<s, t>>) /\ HasEnd(<<s, t>>)
        /\ EndsLast(<<t, s>>) /\ HasEnd(<<t, s>>)
  BY DEF EndsLast, HasEnd
<1>4. \A kind : EndsLast(FailBoth(kind)) /\ HasEnd(FailBoth(kind))
  BY <1>3, Endings DEF FailBoth
<1>5. \A s, t, u : Ends(s) /\ t.op # "job" /\ u.op # "job" =>
        EndsLast(<<t, s, u>>) /\ HasEnd(<<t, s, u>>)
  BY DEF EndsLast, HasEnd
<1>6. \A r, s, t, u : Ends(s) /\ t.op # "job" /\ u.op # "job" =>
        EndsLast(<<r, t, s, u>>) /\ HasEnd(<<r, t, s, u>>)
  BY DEF EndsLast, HasEnd
<1>7. HasTarget(<<SetJob("downloading"), SetTarget("processing")>>)
  BY Endings DEF HasTarget
<1>8. QED
  BY <1>1, <1>2, <1>4, <1>5, <1>6, <1>7, Endings

\* What a worker decides: a run that is done has an end to write, and a job that
\* it takes up has its target written unless that is ready.
LEMMA DecideShape ==
  ASSUME TypeOK, NEW w \in Workers, Decide(w)
  PROVE  /\ worker[w] # Idle /\ worker'[w].job = worker[w].job
         /\ \A u \in Workers : u # w => worker'[u] = worker[u]
         /\ job' = job /\ target' = target /\ process' = process
         /\ worker'[w].stage = "done" => EndsLast(worker'[w].todo) /\ HasEnd(worker'[w].todo)
         /\ WillSettle(w) => target[worker[w].job] = "ready" \/ HasTarget(worker'[w].todo)
<1>1. \E stage \in {"fetch", "transcribe", "done"}, todo \in Seq(StatementType) :
         /\ Go(w, stage, todo)
         /\ stage = "done" => EndsLast(todo) /\ HasEnd(todo)
         /\ worker[w].stage = "taken" => target[worker[w].job] = "ready" \/ HasTarget(todo)
  <2>1. CASE Skip(w)
    BY <2>1, ListTypes, DecidedShapes DEF Skip, AlreadyDone
  <2>2. CASE Begin(w)
    BY <2>2, ListTypes, DecidedShapes DEF Begin
  <2>3. CASE Fetched(w)
    BY <2>3, ListTypes DEF Fetched, Deciding
  <2>4. CASE Fails(w)
    BY <2>4, ListTypes, DecidedShapes DEF Fails, Deciding
  <2>5. CASE Unconfigured(w)
    BY <2>5, ListTypes, DecidedShapes DEF Unconfigured, Deciding
  <2>6. CASE Succeeds(w)
    BY <2>6, ListTypes, DecidedShapes DEF Succeeds, Deciding
  <2>7. QED
    BY <2>1, <2>2, <2>3, <2>4, <2>5, <2>6 DEF Decide
<1>2. PICK stage \in {"fetch", "transcribe", "done"}, todo \in Seq(StatementType) :
         /\ Go(w, stage, todo)
         /\ stage = "done" => EndsLast(todo) /\ HasEnd(todo)
         /\ worker[w].stage = "taken" => target[worker[w].job] = "ready" \/ HasTarget(todo)
  BY <1>1
<1>3. worker[w].stage \in {"taken", "fetch", "transcribe"} /\ worker[w].todo = <<>>
  BY DecideGoes
<1>4. worker[w] # Idle
  BY <1>3, BusyWorkers
<1>5. worker[w] \in [job : Jobs, stage : {"taken", "fetch", "transcribe", "done"}, todo : Seq(StatementType)]
  BY <1>4 DEF TypeOK, WorkerType
<1>6. worker' = [worker EXCEPT ![w] = [worker[w] EXCEPT !.stage = stage, !.todo = todo]]
  BY <1>2 DEF Go, TypeOK
<1>7. /\ worker'[w] = [worker[w] EXCEPT !.stage = stage, !.todo = todo]
      /\ \A u \in Workers : u # w => worker'[u] = worker[u]
  BY <1>6 DEF TypeOK
<1>8. worker'[w].job = worker[w].job /\ worker'[w].stage = stage /\ worker'[w].todo = todo
  BY <1>5, <1>7
<1>9. ~HasTarget(worker[w].todo)
  BY <1>3 DEF HasTarget
<1>10. job' = job /\ target' = target /\ process' = process
  BY <1>2 DEF Go
<1>11. QED
  BY <1>2, <1>4, <1>7, <1>8, <1>9, <1>10 DEF WillSettle

-----------------------------------------------------------------------------
(* Every step keeps the invariant *)

\* What is left of a worker's list is a worker's list.
LEMMA LeftFields ==
  ASSUME TypeOK, NEW w \in Workers, worker[w] # Idle, NEW todo
  PROVE  \/ Left(w, todo) = Idle /\ worker[w].stage = "done" /\ todo = <<>>
         \/ /\ Left(w, todo).job = worker[w].job
            /\ Left(w, todo).stage = worker[w].stage
            /\ Left(w, todo).todo = todo
<1>1. worker[w] \in [job : Jobs, stage : {"taken", "fetch", "transcribe", "done"}, todo : Seq(StatementType)]
  BY DEF TypeOK, WorkerType
<1>2. QED
  BY <1>1 DEF Left

\* Executing a statement takes it off the worker's list and touches nobody else.
LEMMA PopFields ==
  ASSUME TypeOK, NEW w \in Workers, worker[w].todo # <<>>, Pop(w)
  PROVE  /\ worker[w] # Idle /\ worker[w].job \in Jobs /\ worker[w].todo \in Seq(StatementType)
         /\ \A u \in Workers : u # w => worker'[u] = worker[u]
         /\ \/ worker'[w] = Idle /\ worker[w].stage = "done" /\ Tail(worker[w].todo) = <<>>
            \/ /\ worker'[w].job = worker[w].job
               /\ worker'[w].stage = worker[w].stage
               /\ worker'[w].todo = Tail(worker[w].todo)
<1>1. worker[w] # Idle
  BY BusyWorkers
<1>2. worker[w].job \in Jobs /\ worker[w].todo \in Seq(StatementType)
  BY <1>1, BusyType
<1>3. worker'[w] = Left(w, Tail(worker[w].todo)) /\ \A u \in Workers : u # w => worker'[u] = worker[u]
  BY DEF Pop, TypeOK
<1> DEFINE rest == Tail(worker[w].todo)
<1> HIDE DEF rest
<1>4. \/ Left(w, rest) = Idle /\ worker[w].stage = "done" /\ rest = <<>>
      \/ /\ Left(w, rest).job = worker[w].job
         /\ Left(w, rest).stage = worker[w].stage
         /\ Left(w, rest).todo = rest
  BY <1>1, LeftFields
<1>5. QED
  BY <1>1, <1>2, <1>3, <1>4 DEF rest

\* A list without anything in it has no end and no target to write.
LEMMA NothingInEmpty == ~HasEnd(<<>>) /\ ~HasTarget(<<>>)
  BY DEF HasEnd, HasTarget

\* Executing a statement keeps the shapes, and a worker with more to say about
\* its job stays its owner.
LEMMA ExecuteShape ==
  ASSUME TypeOK, RunShape, NEW w \in Workers, worker[w].todo # <<>>, Pop(w)
  PROVE  /\ RunShape'
         /\ WillEnd(w) /\ ~Ends(Statement(w)) => worker'[w].job = worker[w].job /\ WillEnd(w)'
         /\ Statement(w).op = "job" /\ ~Ends(Statement(w))
              => worker'[w].job = worker[w].job /\ WillEnd(w)'
         /\ WillSettle(w) /\ Statement(w).op # "target"
              => worker[w].stage = "taken" \/ (worker'[w].job = worker[w].job /\ WillSettle(w)')
<1> DEFINE s == worker[w].todo
<1>1. /\ worker[w] # Idle /\ worker[w].job \in Jobs /\ s \in Seq(StatementType)
      /\ \A u \in Workers : u # w => worker'[u] = worker[u]
      /\ \/ worker'[w] = Idle /\ worker[w].stage = "done" /\ Tail(s) = <<>>
         \/ /\ worker'[w].job = worker[w].job
            /\ worker'[w].stage = worker[w].stage
            /\ worker'[w].todo = Tail(s)
  BY PopFields
<1>2. Statement(w) = s[1]
  BY <1>1, HeadAndTail DEF Statement
<1>3. /\ EndsLast(s) => EndsLast(Tail(s))
      /\ HasEnd(s) /\ ~Ends(s[1]) => HasEnd(Tail(s))
      /\ EndsLast(s) /\ s[1].op = "job" /\ ~Ends(s[1]) => HasEnd(Tail(s))
      /\ HasTarget(s) /\ s[1].op # "target" => HasTarget(Tail(s))
  BY <1>1, TailShape
<1>4. worker[w].stage = "done" => EndsLast(s)
  BY DEF RunShape
<1>5. RunShape'
  <2>1. worker'[w].stage = "done" => EndsLast(worker'[w].todo)
    BY <1>1, <1>3, <1>4, IdleType
  <2>2. \A u \in Workers : worker'[u].stage = "done" => EndsLast(worker'[u].todo)
    BY <1>1, <2>1 DEF RunShape
  <2>3. QED
    BY <2>2 DEF RunShape
<1>6. WillEnd(w) /\ ~Ends(Statement(w)) => worker'[w].job = worker[w].job /\ WillEnd(w)'
  BY <1>1, <1>2, <1>3, NothingInEmpty DEF WillEnd
<1>7. Statement(w).op = "job" /\ ~Ends(Statement(w))
        => worker'[w].job = worker[w].job /\ WillEnd(w)'
  BY <1>1, <1>2, <1>3, <1>4, NothingInEmpty DEF WillEnd
<1>8. WillSettle(w) /\ Statement(w).op # "target"
        => worker[w].stage = "taken" \/ (worker'[w].job = worker[w].job /\ WillSettle(w)')
  BY <1>1, <1>2, <1>3, NothingInEmpty DEF WillSettle
<1>9. QED
  BY <1>5, <1>6, <1>7, <1>8

\* A worker that someone relies on goes on being relied on, in the next state.
LEMMA OwnersNext ==
  ASSUME NEW x \in Jobs, NEW w \in Workers, worker'[w].job = x
  PROVE  /\ WillEnd(w)' => \E u \in Workers : worker'[u].job = x /\ WillEnd(u)'
         /\ WillSettle(w)' => \E u \in Workers : worker'[u].job = x /\ WillSettle(u)'
  OBVIOUS

\* A worker that the step does not touch owns what it owned.
LEMMA OthersStay ==
  ASSUME NEW u \in Workers, worker'[u] = worker[u]
  PROVE  (WillEnd(u) => WillEnd(u)') /\ (WillSettle(u) => WillSettle(u)')
  BY DEF WillEnd, WillSettle

\* Executing a statement.
LEMMA ExecuteKeeps ==
  ASSUME Inv, NEW w \in Workers, Execute(w)
  PROVE  RunShape' /\ OpenOwned' /\ PendingOwned'
<1> USE DEF Inv
<1>1. worker[w].todo # <<>> /\ Pop(w)
  BY DEF Execute, ExecJob, ExecTarget, ExecNotify, NextIs
<1>2. /\ worker[w] # Idle /\ worker[w].job \in Jobs /\ worker[w].todo \in Seq(StatementType)
      /\ \A u \in Workers : u # w => worker'[u] = worker[u]
  BY <1>1, PopFields
<1>3. /\ RunShape'
      /\ WillEnd(w) /\ ~Ends(Statement(w)) => worker'[w].job = worker[w].job /\ WillEnd(w)'
      /\ Statement(w).op = "job" /\ ~Ends(Statement(w))
           => worker'[w].job = worker[w].job /\ WillEnd(w)'
      /\ WillSettle(w) /\ Statement(w).op # "target"
           => worker[w].stage = "taken" \/ (worker'[w].job = worker[w].job /\ WillSettle(w)')
  BY <1>1, ExecuteShape
<1>4. \A x \in Jobs : Secured(x) => Secured(x)'
  BY WorkerSecures
<1>5. ASSUME NEW x \in Jobs, x # worker[w].job  PROVE job'[x] = job[x] /\ target'[x] = target[x]
  BY <1>5 DEF Execute, ExecJob, ExecTarget, ExecNotify, TypeOK
<1>6. ASSUME NEW x \in Jobs, Open(x)'
      PROVE  Secured(x)' \/ \E u \in Workers : worker'[u].job = x /\ WillEnd(u)'
  <2>1. CASE Open(x) /\ (x = worker[w].job => ~Ends(Statement(w)))
    <3>1. Secured(x) \/ \E u \in Workers : worker[u].job = x /\ WillEnd(u)
      BY <2>1 DEF OpenOwned
    <3>2. ASSUME NEW u \in Workers, worker[u].job = x, WillEnd(u)
          PROVE  \E v \in Workers : worker'[v].job = x /\ WillEnd(v)'
      <4>1. CASE u = w
        BY <1>3, <2>1, <3>2, <4>1
      <4>2. CASE u # w
        BY <1>2, <3>2, <4>2, OthersStay
      <4>3. QED
        BY <4>1, <4>2
    <3>3. QED
      BY <1>4, <3>1, <3>2
  <2>2. CASE ~Open(x)
    <3>1. x = worker[w].job /\ job'[x] # job[x]
      BY <1>5, <1>6, <2>2 DEF Open
    <3>2. ExecJob(w)
      BY <3>1 DEF Execute, ExecTarget, ExecNotify
    <3>3. Statement(w).op = "job" /\ job'[x].status = Statement(w).to
      BY <3>1, <3>2 DEF ExecJob, NextIs, TypeOK
    <3>4. ~Ends(Statement(w))
      BY <1>6, <3>3, Endings DEF Open
    <3>5. QED
      BY <1>3, <3>1, <3>3, <3>4
  <2>3. CASE x = worker[w].job /\ Ends(Statement(w))
    <3>1. Statement(w).op = "job" /\ Statement(w).to \in Ended
      BY <2>3, Endings
    <3>2. ExecJob(w)
      BY <3>1 DEF Execute, ExecTarget, ExecNotify, NextIs
    <3>3. job'[x].status = Statement(w).to
      BY <2>3, <3>2 DEF ExecJob, TypeOK
    <3>4. QED
      BY <1>6, <3>1, <3>3 DEF Open
  <2>4. QED
    BY <2>1, <2>2, <2>3
<1>7. ASSUME NEW x \in Jobs, Pending(x)'
      PROVE  Secured(x)' \/ \E u \in Workers : worker'[u].job = x /\ WillSettle(u)'
  <2>1. ~(ExecTarget(w) /\ x = worker[w].job)
    <3>1. SUFFICES ASSUME ExecTarget(w), x = worker[w].job  PROVE FALSE
      OBVIOUS
    <3>2. Statement(w).op = "target" /\ target'[x] = Statement(w).to
      BY <3>1 DEF ExecTarget, NextIs, TypeOK
    <3>3. Statement(w) \in StatementType
      BY <1>1, <1>2, HeadAndTail DEF Statement
    <3>4. Statement(w).to # "pending"
      BY <3>2, <3>3 DEF StatementType, Notify
    <3>5. QED
      BY <1>7, <3>2, <3>4 DEF Pending
  <2>2. Pending(x)
    BY <1>5, <1>7, <2>1 DEF Pending, Execute, ExecJob, ExecNotify
  <2>3. Secured(x) \/ \E u \in Workers : worker[u].job = x /\ WillSettle(u)
    BY <2>2 DEF PendingOwned
  <2>4. ASSUME NEW u \in Workers, worker[u].job = x, WillSettle(u)
        PROVE  \E v \in Workers : worker'[v].job = x /\ WillSettle(v)'
    <3>1. CASE u = w
      <4>1. Statement(w).op # "target"
        BY <2>1, <2>4, <3>1, Endings DEF Execute, ExecJob, ExecNotify, NextIs
      <4>2. worker[w].stage = "taken" => worker'[w].job = worker[w].job /\ WillSettle(w)'
        BY <1>1, PopFields DEF WillSettle
      <4>3. QED
        BY <1>3, <2>4, <3>1, <4>1, <4>2
    <3>2. CASE u # w
      BY <1>2, <2>4, <3>2, OthersStay
    <3>3. QED
      BY <3>1, <3>2
  <2>5. QED
    BY <1>4, <2>3, <2>4
<1>8. OpenOwned' /\ PendingOwned'
  BY <1>6, <1>7 DEF OpenOwned, PendingOwned
<1>9. QED
  BY <1>3, <1>8

\* Deciding.
LEMMA DecideKeeps ==
  ASSUME Inv, NEW w \in Workers, Decide(w)
  PROVE  RunShape' /\ OpenOwned' /\ PendingOwned'
<1> USE DEF Inv
<1>1. /\ worker[w] # Idle /\ worker'[w].job = worker[w].job
      /\ \A u \in Workers : u # w => worker'[u] = worker[u]
      /\ job' = job /\ target' = target
      /\ worker'[w].stage = "done" => EndsLast(worker'[w].todo) /\ HasEnd(worker'[w].todo)
      /\ WillSettle(w) => target[worker[w].job] = "ready" \/ HasTarget(worker'[w].todo)
  BY DecideShape
<1>2. RunShape'
  BY <1>1 DEF RunShape
<1>3. \A x \in Jobs : Secured(x) => Secured(x)'
  BY WorkerSecures
<1>4. ASSUME NEW x \in Jobs, Open(x)'
      PROVE  Secured(x)' \/ \E u \in Workers : worker'[u].job = x /\ WillEnd(u)'
  <2>1. Secured(x) \/ \E u \in Workers : worker[u].job = x /\ WillEnd(u)
    BY <1>1, <1>4 DEF OpenOwned, Open
  <2>2. WillEnd(w)'
    BY <1>1 DEF WillEnd
  <2>3. ASSUME NEW u \in Workers, worker[u].job = x, WillEnd(u)
        PROVE  worker'[u].job = x /\ WillEnd(u)'
    BY <1>1, <2>2, <2>3, OthersStay
  <2>4. QED
    BY <1>3, <2>1, <2>3
<1>5. ASSUME NEW x \in Jobs, Pending(x)'
      PROVE  Secured(x)' \/ \E u \in Workers : worker'[u].job = x /\ WillSettle(u)'
  <2>1. Secured(x) \/ \E u \in Workers : worker[u].job = x /\ WillSettle(u)
    BY <1>1, <1>5 DEF PendingOwned, Pending
  <2>2. target[x] # "ready"
    BY <1>1, <1>5 DEF Pending
  <2>3. ASSUME NEW u \in Workers, worker[u].job = x, WillSettle(u)
        PROVE  worker'[u].job = x /\ WillSettle(u)'
    <3>1. CASE u = w
      BY <1>1, <2>2, <2>3, <3>1 DEF WillSettle
    <3>2. CASE u # w
      BY <1>1, <2>3, <3>2, OthersStay
    <3>3. QED
      BY <3>1, <3>2
  <2>4. QED
    BY <1>3, <2>1, <2>3
<1>6. QED
  BY <1>2, <1>4, <1>5 DEF OpenOwned, PendingOwned

\* The lists that follow an error.
LEMMA AfterErrorShape ==
  ASSUME TypeOK, RunShape, NEW w \in Workers, worker[w].todo # <<>>,
         worker[w].stage = "done" \/ GivesUp(w)
  PROVE  EndsLast(AfterError(w))
<1>1. worker[w].todo \in Seq(StatementType)
  BY BusyWorkers, BusyType
<1>2. CASE GivesUp(w)
  BY <1>2, DecidedShapes DEF GivesUp, AfterError
<1>3. CASE worker[w].stage = "done"
  <2>1. EndsLast(Tail(worker[w].todo))
    BY <1>1, <1>3, TailShape DEF RunShape
  <2>2. QED
    BY <2>1, DecidedShapes DEF AfterError
<1>4. QED
  BY <1>2, <1>3

\* A failing statement, or a job that cannot be read.
LEMMA FailureKeeps ==
  ASSUME Inv, NEW w \in Workers, StatementFails(w) \/ ReadFails(w)
  PROVE  RunShape' /\ OpenOwned' /\ PendingOwned'
<1> USE DEF Inv
<1>1. /\ worker[w] # Idle /\ job' = job /\ target' = target
      /\ \A u \in Workers : u # w => worker'[u] = worker[u]
      /\ worker[w].job \in broken'
  <2>1. worker[w].todo # <<>> \/ worker[w].stage # "idle"
    BY DEF StatementFails, ReadFails, NextIs, Deciding
  <2>2. QED
    BY <2>1, BusyWorkers DEF StatementFails, ReadFails, TypeOK
<1>2. worker'[w].stage = "done" => EndsLast(worker'[w].todo)
  <2>1. worker[w] \in [job : Jobs, stage : {"taken", "fetch", "transcribe", "done"}, todo : Seq(StatementType)]
    BY <1>1 DEF TypeOK, WorkerType
  <2>2. CASE StatementFails(w)
    <3> DEFINE after == AfterError(w)
    <3>1. worker[w].todo # <<>>
      BY <2>2 DEF StatementFails, NextIs
    <3>2. worker[w].stage = "done" \/ GivesUp(w) => EndsLast(after)
      BY <3>1, AfterErrorShape
    <3>3. worker'[w] = IF GivesUp(w) THEN [worker[w] EXCEPT !.stage = "done", !.todo = after]
                                     ELSE Left(w, after)
      BY <2>2 DEF StatementFails, TypeOK
    <3> HIDE DEF after
    <3>4. CASE GivesUp(w)
      BY <2>1, <3>2, <3>3, <3>4
    <3>5. CASE ~GivesUp(w)
      <4>1. worker'[w] = Left(w, after)
        BY <3>3, <3>5
      <4>2. \/ worker'[w] = Idle
            \/ worker'[w].stage = worker[w].stage /\ worker'[w].todo = after
        BY <1>1, <4>1, LeftFields
      <4>3. QED
        BY <3>2, <4>2, IdleType
    <3>6. QED
      BY <3>4, <3>5
  <2>3. CASE ReadFails(w)
    <3> DEFINE todo == IF Kind(w) = "material" THEN FailBoth("material") ELSE <<SetJob("failed")>>
    <3>1. EndsLast(todo)
      BY DecidedShapes
    <3>2. worker'[w] = [worker[w] EXCEPT !.stage = "done", !.todo = todo]
      BY <2>3 DEF ReadFails, TypeOK
    <3> HIDE DEF todo
    <3>3. QED
      BY <2>1, <3>1, <3>2
  <2>4. QED
    BY <2>2, <2>3
<1>3. RunShape'
  BY <1>1, <1>2 DEF RunShape
<1>4. \A x \in Jobs : Secured(x) => Secured(x)'
  BY WorkerSecures
<1>5. \A x \in Jobs : x = worker[w].job => Secured(x)'
  BY <1>1, SecuringNext
<1>6. \A x \in Jobs, u \in Workers :
        worker[u].job = x => Secured(x)' \/ worker'[u] = worker[u]
  BY <1>1, <1>5
<1>7. OpenOwned'
  BY <1>1, <1>4, <1>6, OthersStay DEF OpenOwned, Open
<1>8. PendingOwned'
  BY <1>1, <1>4, <1>6, OthersStay DEF PendingOwned, Pending
<1>9. QED
  BY <1>3, <1>7, <1>8

\* Taking a job from the channel.
LEMMA TakeKeeps ==
  ASSUME Inv, NEW w \in Workers, Take(w)
  PROVE  RunShape' /\ OpenOwned' /\ PendingOwned'
<1> USE DEF Inv
<1>1. /\ worker[w] = Idle /\ job' = job /\ target' = target
      /\ \A u \in Workers : u # w => worker'[u] = worker[u]
      /\ worker'[w].stage = "taken"
  BY DEF Take, TypeOK
<1>2. RunShape'
  BY <1>1 DEF RunShape
<1>3. \A x \in Jobs : Secured(x) => Secured(x)' \/ (worker'[w].job = x /\ worker'[w].stage = "taken")
  BY TakeSecures
<1>4. WillEnd(w)' /\ WillSettle(w)'
  BY <1>1 DEF WillEnd, WillSettle
<1>5. \A x \in Jobs, u \in Workers : worker[u].job = x => worker'[u] = worker[u]
  BY <1>1, IdleType, TranscriptAssumption
<1>6. OpenOwned'
  BY <1>1, <1>3, <1>4, <1>5, OthersStay DEF OpenOwned, Open
<1>7. PendingOwned'
  BY <1>1, <1>3, <1>4, <1>5, OthersStay DEF PendingOwned, Pending
<1>8. QED
  BY <1>2, <1>6, <1>7

\* The death of a process.
LEMMA CrashKeeps ==
  ASSUME Inv, NEW p \in Processes, Crash(p)
  PROVE  RunShape' /\ OpenOwned' /\ PendingOwned'
<1> USE DEF Inv
<1>1. /\ job' = job /\ target' = target
      /\ \A u \in Workers : HomeOf[u] = p => worker'[u] = Idle
      /\ \A u \in Workers : HomeOf[u] # p => worker'[u] = worker[u]
  BY DEF Crash
<1>2. RunShape'
  BY <1>1, IdleType DEF RunShape
<1>3. \A x \in Jobs : Secured(x) => Secured(x)'
  BY CrashSecures
<1>4. \A x \in Jobs, u \in Workers : worker[u].job = x => Secured(x)' \/ worker'[u] = worker[u]
  BY <1>1, CrashSecures
<1>5. OpenOwned'
  BY <1>1, <1>3, <1>4, OthersStay DEF OpenOwned, Open
<1>6. PendingOwned'
  BY <1>1, <1>3, <1>4, OthersStay DEF PendingOwned, Pending
<1>7. QED
  BY <1>2, <1>5, <1>6

\* Whatever leaves the workers alone and opens only jobs that are secured.
LEMMA OwnersKept ==
  ASSUME Inv, worker' = worker,
         \A x \in Jobs : Secured(x) => Secured(x)',
         \A x \in Jobs : (Open(x)' => Open(x) \/ Secured(x)') /\ (Pending(x)' => Pending(x) \/ Secured(x)')
  PROVE  RunShape' /\ OpenOwned' /\ PendingOwned'
<1>1. \A u \in Workers : (WillEnd(u) => WillEnd(u)') /\ (WillSettle(u) => WillSettle(u)')
  BY OthersStay
<1>2. RunShape'
  BY DEF Inv, RunShape
<1>3. OpenOwned'
  BY <1>1 DEF Inv, OpenOwned
<1>4. PendingOwned'
  BY <1>1 DEF Inv, PendingOwned
<1>5. QED
  BY <1>2, <1>3, <1>4

\* Requests, starts, recoveries and the passing of time.
LEMMA OthersKeep ==
  ASSUME Inv,
         \/ \E p \in Processes, j \in Jobs : CreateTarget(p, j)
         \/ \E j \in Jobs : RequestStep(j) \/ RequestFails(j) \/ GrowStale(j)
         \/ \E p \in Processes : Start(p) \/ Recovery(p)
  PROVE  RunShape' /\ OpenOwned' /\ PendingOwned'
<1>1. ASSUME NEW p \in Processes, NEW j \in Jobs, CreateTarget(p, j)
      PROVE  RunShape' /\ OpenOwned' /\ PendingOwned'
  <2>1. \A x \in Jobs : Secured(x) \/ x = j => Secured(x)'
    BY <1>1, CreateTargetSecures DEF Inv
  <2>2. job' = job /\ worker' = worker /\ \A x \in Jobs : x # j => target'[x] = target[x]
    BY <1>1 DEF CreateTarget, Inv, TypeOK
  <2>3. \A x \in Jobs : (Open(x)' => Open(x)) /\ (Pending(x)' => Pending(x) \/ x = j)
    BY <2>2 DEF Open, Pending
  <2>4. QED
    BY <2>1, <2>2, <2>3, OwnersKept
<1>2. ASSUME NEW j \in Jobs, RequestStep(j) \/ RequestFails(j) \/ GrowStale(j)
      PROVE  RunShape' /\ OpenOwned' /\ PendingOwned'
  <2>1. \A x \in Jobs : Secured(x) => Secured(x)'
    BY <1>2, RequestSecures DEF Inv
  <2>2. worker' = worker /\ target' = target
    BY <1>2 DEF RequestStep, CreateJob, EnqueueJob, RequestFails, GrowStale
  <2>3. \A x \in Jobs : Open(x)' => Open(x) \/ Secured(x)'
    <3>1. CASE CreateJob(j)
      <4>1. /\ \A x \in Jobs : x # j => job'[x] = job[x]
            /\ request'[j].step = "enqueue"
        BY <3>1 DEF CreateJob, Inv, TypeOK, RequestType, NoRequest
      <4>2. Secured(j)'
        BY <4>1, SecuringNext
      <4>3. QED
        BY <4>1, <4>2 DEF Open
    <3>2. CASE EnqueueJob(j) \/ RequestFails(j)
      BY <3>2 DEF EnqueueJob, RequestFails, Open
    <3>3. CASE GrowStale(j)
      <4>1. \A x \in Jobs : job'[x].status = job[x].status
        BY <3>3 DEF GrowStale, Inv, TypeOK, JobType
      <4>2. QED
        BY <4>1 DEF Open
    <3>4. QED
      BY <1>2, <3>1, <3>2, <3>3 DEF RequestStep
  <2>4. \A x \in Jobs : Pending(x)' => Pending(x)
    BY <2>2 DEF Pending
  <2>5. QED
    BY <2>1, <2>2, <2>3, <2>4, OwnersKept
<1>3. ASSUME NEW p \in Processes, Start(p) \/ Recovery(p)
      PROVE  RunShape' /\ OpenOwned' /\ PendingOwned'
  <2>1. \A x \in Jobs : Secured(x) => Secured(x)'
    BY <1>3, ProcessSecures DEF Inv
  <2>2. worker' = worker /\ target' = target /\ job' = job
    BY <1>3 DEF Start, Recovery, RecoverList, RecoverNext
  <2>3. \A x \in Jobs : (Open(x)' => Open(x)) /\ (Pending(x)' => Pending(x))
    BY <2>2 DEF Open, Pending
  <2>4. QED
    BY <2>1, <2>2, <2>3, OwnersKept
<1>4. QED
  BY <1>1, <1>2, <1>3

\* Only the recovery of a process fills its list.
LEMMA ListKept ==
  ASSUME TypeOK, ListShape, [Next]_vars
  PROVE  ListShape'
<1>1. CASE process' = process
  BY <1>1 DEF ListShape
<1>2. ASSUME NEW p \in Processes, Start(p)  PROVE ListShape'
  <2>1. /\ \A q \in Processes : q # p => process'[q] = process[q]
        /\ process[p].state = "down" /\ process'[p].list = process[p].list
    BY <1>2 DEF Start, Up, TypeOK
  <2>2. QED
    BY <2>1 DEF ListShape
<1>3. ASSUME NEW p \in Processes, RecoverList(p)  PROVE ListShape'
  <2> DEFINE found == {j \in Jobs : Recoverable(job[j])}
  <2>1. process' = [process EXCEPT ![p] = [state |-> "serving", list |-> found]]
    BY <1>3 DEF RecoverList
  <2> HIDE DEF found
  <2>2. process'[p].state = "serving" /\ \A q \in Processes : q # p => process'[q] = process[q]
    BY <2>1 DEF TypeOK
  <2>3. QED
    BY <2>2 DEF ListShape
<1>4. ASSUME NEW p \in Processes, NEW j \in Jobs, RecoverNext(p, j)  PROVE ListShape'
  <2>1. /\ \A q \in Processes : q # p => process'[q] = process[q]
        /\ process'[p].state = process[p].state
        /\ process'[p].list = process[p].list \ {j}
    BY <1>4 DEF RecoverNext, TypeOK
  <2>2. QED
    BY <2>1 DEF ListShape
<1>5. ASSUME NEW p \in Processes, Crash(p)  PROVE ListShape'
  <2>1. process'[p].list = {} /\ \A q \in Processes : q # p => process'[q] = process[q]
    BY <1>5 DEF Crash, TypeOK
  <2>2. QED
    BY <2>1 DEF ListShape
<1>6. CASE UNCHANGED vars
  BY <1>1, <1>6 DEF vars
<1>7. CASE Next
  <2>1. CASE \E p \in Processes, j \in Jobs : CreateTarget(p, j)
    BY <1>1, <2>1 DEF CreateTarget
  <2>2. CASE \E j \in Jobs : RequestStep(j) \/ RequestFails(j) \/ GrowStale(j)
    BY <1>1, <2>2 DEF RequestStep, CreateJob, EnqueueJob, RequestFails, GrowStale
  <2>3. CASE \E p \in Processes : Start(p) \/ Recovery(p) \/ Crash(p)
    BY <1>2, <1>3, <1>4, <1>5, <2>3 DEF Recovery
  <2>4. ASSUME NEW w \in Workers, Take(w) \/ Decide(w) \/ Execute(w) \/ StatementFails(w) \/ ReadFails(w)
        PROVE  process' = process
    BY <2>4 DEF Take, Decide, Skip, Begin, Fetched, Fails, Unconfigured, Succeeds, Go,
       Execute, ExecJob, ExecTarget, ExecNotify, StatementFails, ReadFails
  <2>5. CASE \E w \in Workers :
               Take(w) \/ Decide(w) \/ Execute(w) \/ StatementFails(w) \/ ReadFails(w)
    BY <1>1, <2>4, <2>5
  <2>6. QED
    BY <1>7, <2>1, <2>2, <2>3, <2>5 DEF Next
<1>8. QED
  BY <1>6, <1>7

\* The initial state satisfies the invariant.
LEMMA InitInv == Init => Inv
<1> SUFFICES ASSUME Init  PROVE Inv
  OBVIOUS
<1>1. RunShape /\ ListShape /\ OpenOwned /\ PendingOwned
  BY IdleType DEF Init, RunShape, ListShape, OpenOwned, PendingOwned, Open, Pending
<1>2. QED
  BY <1>1, InitType DEF Inv

\* Every step keeps the invariant.
LEMMA NextInv == Inv /\ [Next]_vars => Inv'
<1> SUFFICES ASSUME Inv, [Next]_vars  PROVE Inv'
  OBVIOUS
<1>1. TypeOK' /\ ListShape'
  BY NextType, ListKept DEF Inv
<1>2. RunShape' /\ OpenOwned' /\ PendingOwned'
  <2>1. CASE UNCHANGED vars
    <3>1. \A x \in Jobs : /\ Secured(x) => Secured(x)'
                          /\ Open(x)' => Open(x)
                          /\ Pending(x)' => Pending(x)
      BY <2>1 DEF vars, Secured, Dropped, Waits, Entries, Open, Pending
    <3>2. QED
      BY <2>1, <3>1, OwnersKept DEF vars
  <2>2. CASE Next
    <3>1. CASE \E p \in Processes, j \in Jobs : CreateTarget(p, j)
      BY <3>1, OthersKeep
    <3>2. CASE \E j \in Jobs : RequestStep(j) \/ RequestFails(j) \/ GrowStale(j)
      BY <3>2, OthersKeep
    <3>3. CASE \E p \in Processes : Start(p) \/ Recovery(p)
      BY <3>3, OthersKeep
    <3>4. CASE \E p \in Processes : Crash(p)
      BY <3>4, CrashKeeps
    <3>5. CASE \E w \in Workers : Take(w)
      BY <3>5, TakeKeeps
    <3>6. CASE \E w \in Workers : Decide(w)
      BY <3>6, DecideKeeps
    <3>7. CASE \E w \in Workers : Execute(w)
      BY <3>7, ExecuteKeeps
    <3>8. CASE \E w \in Workers : StatementFails(w) \/ ReadFails(w)
      BY <3>8, FailureKeeps
    <3>9. QED
      BY <2>2, <3>1, <3>2, <3>3, <3>4, <3>5, <3>6, <3>7, <3>8 DEF Next
  <2>3. QED
    BY <2>1, <2>2
<1>3. QED
  BY <1>1, <1>2 DEF Inv

\* A job that is secured or has an owner is held, or was dropped.
LEMMA InvImplies == Inv => NotForgotten
<1> SUFFICES ASSUME Inv, NEW j \in Jobs, Open(j) \/ Pending(j)
             PROVE  Held(j) \/ j \in lost \union broken
  BY DEF NotForgotten, Open, Pending
<1>1. Secured(j) \/ \E w \in Workers : worker[w].job = j
  BY DEF Inv, OpenOwned, PendingOwned
<1>2. QED
  BY <1>1 DEF Secured, Dropped, Waits, Held, Worked

\* No interleaving of requests, workers, recoveries, deaths and failing statements
\* leaves an open job, or an upload shown as pending, in nobody's hands, unless
\* it was dropped and no recovery has listed it since.
THEOREM NoneForgotten == Spec => []NotForgotten
<1>1. Inv /\ [Next]_vars => Inv'
  BY NextInv
<1>2. QED
  BY <1>1, InitInv, InvImplies, PTL DEF Spec

-----------------------------------------------------------------------------
(* A job that has ended and its target agree.  A job that no recovery has    *)
(* doubled is in one place at a time, so that one run at a time writes its   *)
(* rows, and what that run has left to do says what the rows will tell.      *)

\* Who holds j holds it alone.
InQueue(p, i, j) == i \in 1..Len(queue[p]) /\ queue[p][i] = j
Alone(j) ==
  /\ \A u, w \in Workers : worker[u].job = j /\ worker[w].job = j => u = w
  /\ Worked(j) => request[j].step = "none"
  /\ \A p \in Processes : j \in Entries(p) => ~Worked(j) /\ request[j].step = "none"
  /\ \A p \in Processes : j \in process[p].list =>
       /\ ~Worked(j) /\ request[j].step = "none"
       /\ \A q \in Processes : j \notin Entries(q) /\ (j \in process[q].list => q = p)
  /\ \A p, q \in Processes, i, k \in Nat : InQueue(p, i, j) /\ InQueue(q, k, j) => p = q /\ i = k

\* Nothing has happened to a job whose target is not there yet.
Fresh(j) == target[j] = "none" => job[j].status = "none" /\ ~Held(j)

\* A run that no statement has failed: what w has left to do for j, and what the
\* rows say of it.  A text that is ready is about to be confirmed, never replaced.
NotReady(j) == KindOf[j] # "video" => target[j] # "ready"
Rest(w, j) ==
  LET stage == worker[w].stage  todo == worker[w].todo IN
  \/ stage = "taken" /\ todo = <<>>
  \/ stage = "fetch" /\ NotReady(j)
       /\ todo \in {<<>>, <<SetTarget("processing")>>, <<SetJob("downloading"), SetTarget("processing")>>}
  \/ stage = "transcribe" /\ KindOf[j] = "video" /\ todo \in {<<>>, <<SetJob("transcribing")>>}
  \/ stage = "done" /\ NotReady(j)
       /\ todo \in {<<SetJob("failed"), SetTarget("failed")>>, <<SetTarget("failed"), SetJob("failed")>>}
  \/ stage = "done" /\ NotReady(j) /\ todo = <<SetTarget("failed")>> /\ job[j].status = "failed"
  \/ stage = "done" /\ todo = <<SetJob("failed")>> /\ (WhisperConfigured => target[j] = "failed")
  \/ stage = "done"
       /\ todo \in {<<SetTarget("ready"), SetJob("completed"), Notify>>,
                    <<SetJob("saving"), SetTarget("ready"), SetJob("completed"), Notify>>}
  \/ stage = "done" /\ target[j] = "ready"
       /\ todo \in {<<SetJob("completed")>>, <<SetJob("completed"), Notify>>}
  \/ stage = "done" /\ target[j] = "ready" /\ todo = <<Notify>> /\ job[j].status = "completed"

Agrees(j) ==
  job[j].status \in Ended => target[j] = IF job[j].status = "completed" THEN "ready" ELSE "failed"

AllFresh == \A j \in Jobs : Fresh(j)
AllAlone == \A j \in Jobs \ doubled : Alone(j)
Runs == \A w \in Workers, j \in Jobs \ (broken \union doubled) : worker[w].job = j => Rest(w, j)
Agreed == WhisperConfigured => \A j \in Jobs \ (lost \union broken \union doubled) : Worked(j) \/ Agrees(j)

AgreeInv == TypeOK /\ AllFresh /\ AllAlone /\ Runs /\ Agreed

\* A place in the channel of a process.
LEMMA QueuePlaces ==
  ASSUME TypeOK, NEW p \in Processes, NEW j \in Jobs
  PROVE  /\ Len(queue[p]) \in Nat
         /\ j \in Entries(p) <=> \E i \in Nat : InQueue(p, i, j)
  BY DEF TypeOK, Entries, InQueue

\* Whoever takes places away, or moves up the channels, leaves alone who was alone.
LEMMA PlacesShrink ==
  ASSUME TypeOK, TypeOK', NEW j \in Jobs, NEW d \in [Processes -> Nat],
         \A w \in Workers : worker'[w].job = j => worker[w].job = j,
         request'[j].step # "none" => request[j].step # "none",
         \A p \in Processes : j \in process'[p].list => j \in process[p].list,
         \A p \in Processes, i \in Nat : InQueue(p, i, j)' => InQueue(p, i + d[p], j)
  PROVE  /\ Held(j)' => Held(j)
         /\ Alone(j) => Alone(j)'
<1>1. \A p \in Processes : j \in Entries(p)' => j \in Entries(p)
  <2>1. ASSUME NEW p \in Processes, j \in Entries(p)' PROVE j \in Entries(p)
    <3>1. PICK i \in Nat : InQueue(p, i, j)' BY <2>1 DEF TypeOK, Entries, InQueue
    <3>2. InQueue(p, i + d[p], j) /\ i + d[p] \in Nat BY <3>1
    <3> QED BY <3>2, QueuePlaces
  <2> QED BY <2>1
<1>2. Worked(j)' => Worked(j) BY DEF Worked
<1>3. Held(j)' => Held(j) BY <1>1, <1>2 DEF Held
<1>4. ASSUME Alone(j), NEW p \in Processes, NEW q \in Processes, NEW i \in Nat, NEW k \in Nat,
             InQueue(p, i, j)', InQueue(q, k, j)'
      PROVE  p = q /\ i = k
  <2>1. InQueue(p, i + d[p], j) /\ InQueue(q, k + d[q], j) BY <1>4
  <2>2. d[p] \in Nat /\ d[q] \in Nat /\ i + d[p] \in Nat /\ k + d[q] \in Nat OBVIOUS
  <2>3. p = q /\ i + d[p] = k + d[q] BY <1>4, <2>1, <2>2 DEF Alone
  <2> QED BY <2>2, <2>3
<1>5. Alone(j) => Alone(j)' BY <1>1, <1>2, <1>4 DEF Alone
<1> QED BY <1>3, <1>5

LEMMA PlacesSame ==
  ASSUME TypeOK, TypeOK', NEW j \in Jobs, queue' = queue,
         \A w \in Workers : worker'[w].job = j => worker[w].job = j,
         request'[j].step # "none" => request[j].step # "none",
         \A p \in Processes : j \in process'[p].list => j \in process[p].list
  PROVE  /\ Held(j)' => Held(j)
         /\ Alone(j) => Alone(j)'
<1> DEFINE d == [p \in Processes |-> 0]
<1>1. d \in [Processes -> Nat] /\ \A p \in Processes : d[p] = 0 OBVIOUS
<1>2. \A p \in Processes, i \in Nat : InQueue(p, i, j)' => InQueue(p, i, j) BY DEF InQueue
<1> HIDE DEF d
<1>3. \A p \in Processes, i \in Nat : InQueue(p, i, j)' => InQueue(p, i + d[p], j) BY <1>1, <1>2
<1> QED BY <1>1, <1>3, PlacesShrink

\* A send adds one place.
LEMMA PushPlaces ==
  ASSUME TypeOK, NEW p \in Processes, NEW j \in Jobs, Push(p, j)
  PROVE  \A q \in Processes, i \in Nat, k \in Jobs :
           InQueue(q, i, k)' => InQueue(q, i, k) \/ (k = j /\ q = p /\ i = Len(queue[p]) + 1)
<1>1. queue[p] \in Seq(Jobs) /\ queue \in [Processes -> Seq(Jobs)] BY DEF TypeOK
<1>2. CASE Len(queue[p]) < QueueCap
  <2>1. queue'[p] = Append(queue[p], j) /\ \A q \in Processes : q # p => queue'[q] = queue[q]
    BY <1>1, <1>2 DEF Push
  <2>2. /\ Len(queue[p]) \in Nat /\ Len(queue'[p]) = Len(queue[p]) + 1
        /\ \A i \in 1..Len(queue[p]) : queue'[p][i] = queue[p][i]
        /\ queue'[p][Len(queue[p]) + 1] = j
    BY <1>1, <2>1, AppendToQueue
  <2>3. ASSUME NEW i \in Nat, NEW k \in Jobs, InQueue(p, i, k)'
        PROVE  InQueue(p, i, k) \/ (k = j /\ i = Len(queue[p]) + 1)
    BY <2>2, <2>3 DEF InQueue
  <2>4. ASSUME NEW q \in Processes, q # p, NEW i \in Nat, NEW k \in Jobs, InQueue(q, i, k)'
        PROVE  InQueue(q, i, k)
    BY <2>1, <2>4 DEF InQueue
  <2> QED BY <2>3, <2>4
<1>3. CASE ~(Len(queue[p]) < QueueCap)
  BY <1>3 DEF Push, InQueue
<1> QED BY <1>2, <1>3

\* A job that is in one channel, and nowhere else, is alone.
LEMMA OnlyQueued ==
  ASSUME TypeOK', NEW j \in Jobs, NEW p \in Processes, NEW n \in Nat,
         ~Worked(j)', request'[j].step = "none", \A q \in Processes : j \notin process'[q].list,
         \A q \in Processes, i \in Nat : InQueue(q, i, j)' => q = p /\ i = n
  PROVE  Alone(j)'
<1>1. \A q, r \in Processes, i, k \in Nat : InQueue(q, i, j)' /\ InQueue(r, k, j)' => q = r /\ i = k
  OBVIOUS
<1> QED BY <1>1 DEF Alone, Worked

\* What is nowhere, and then in one place that is not the channel, is alone.
LEMMA NotQueued ==
  ASSUME TypeOK', NEW j \in Jobs, \A q \in Processes : j \notin Entries(q)',
         \A u, w \in Workers : worker'[u].job = j /\ worker'[w].job = j => u = w,
         Worked(j)' => request'[j].step = "none",
         \A p \in Processes : j \in process'[p].list =>
           ~Worked(j)' /\ request'[j].step = "none" /\ \A q \in Processes : j \in process'[q].list => q = p
  PROVE  Alone(j)'
<1>1. ASSUME NEW p \in Processes, NEW i \in Nat PROVE ~InQueue(p, i, j)'
  BY DEF TypeOK, Entries, InQueue
<1> QED BY <1>1 DEF Alone

\* Requests, failures and the passing of time.
LEMMA RequestPlaces ==
  ASSUME AgreeInv, TypeOK', NEW j \in Jobs, CreateJob(j) \/ RequestFails(j) \/ GrowStale(j)
  PROVE  AllFresh' /\ AllAlone'
<1> USE DEF AgreeInv
<1>1. /\ queue' = queue /\ worker' = worker /\ process' = process /\ target' = target /\ doubled' = doubled
      /\ \A k \in Jobs : request'[k].step # "none" => request[k].step # "none"
  <2>1. request[j] \in RequestType BY DEF TypeOK
  <2> QED BY <2>1, RequestTypes DEF CreateJob, RequestFails, GrowStale, TypeOK
<1>2. \A k \in Jobs : (Held(k)' => Held(k)) /\ (Alone(k) => Alone(k)') BY <1>1, PlacesSame
<1>3. \A k \in Jobs : ~Held(k) => job'[k].status = job[k].status
  <2>1. CASE CreateJob(j)
    <3>1. Held(j) /\ \A k \in Jobs : k # j => job'[k] = job[k] BY <2>1 DEF CreateJob, Held, TypeOK
    <3> QED BY <3>1
  <2>2. CASE RequestFails(j) BY <2>2 DEF RequestFails
  <2>3. CASE GrowStale(j) BY <2>3 DEF GrowStale, TypeOK, JobType
  <2> QED BY <2>1, <2>2, <2>3
<1>4. AllFresh' BY <1>1, <1>2, <1>3 DEF AllFresh, Fresh
<1>5. AllAlone' BY <1>1, <1>2 DEF AllAlone
<1> QED BY <1>4, <1>5

LEMMA CreateTargetPlaces ==
  ASSUME AgreeInv, TypeOK', NEW p \in Processes, NEW j \in Jobs, CreateTarget(p, j)
  PROVE  AllFresh' /\ AllAlone'
<1> USE DEF AgreeInv
<1>1. /\ queue' = queue /\ worker' = worker /\ process' = process /\ job' = job /\ doubled' = doubled
      /\ target[j] = "none" /\ target'[j] = "pending"
      /\ \A k \in Jobs : k # j => target'[k] = target[k] /\ request'[k] = request[k]
  BY DEF CreateTarget, TypeOK
<1>2. \A k \in Jobs : k # j => (Held(k)' => Held(k)) /\ (Alone(k) => Alone(k)') BY <1>1, PlacesSame
<1>3. ~Held(j) BY <1>1 DEF AllFresh, Fresh
<1>4. /\ ~Worked(j)' /\ \A w \in Workers : worker'[w].job # j
      /\ \A q \in Processes : j \notin process'[q].list /\ j \notin Entries(q)'
  BY <1>1, <1>3 DEF Held, Worked, Entries
<1>5. Alone(j)' BY <1>4, NotQueued
<1>6. AllFresh' BY <1>1, <1>2 DEF AllFresh, Fresh
<1>7. AllAlone' BY <1>1, <1>2, <1>5 DEF AllAlone
<1> QED BY <1>6, <1>7

\* A send from a request, or from a recovery list.
LEMMA SendPlaces ==
  ASSUME AgreeInv, TypeOK', NEW p \in Processes, NEW j \in Jobs, (EnqueueJob(j) /\ p = request[j].at) \/ RecoverNext(p, j)
  PROVE  AllFresh' /\ AllAlone'
<1> USE DEF AgreeInv
<1>1. /\ Push(p, j) /\ worker' = worker /\ job' = job /\ target' = target /\ doubled' = doubled /\ Held(j)
      /\ \A k \in Jobs : request'[k].step # "none" => request[k].step # "none"
      /\ \A k \in Jobs, q \in Processes : k \in process'[q].list => k \in process[q].list
  <2>1. CASE EnqueueJob(j) /\ p = request[j].at
    BY <2>1, RequestTypes DEF EnqueueJob, Held, TypeOK
  <2>2. CASE RecoverNext(p, j)
    <3>1. process[p].list \in SUBSET Jobs /\ process'[p].list = process[p].list \ {j}
          /\ \A q \in Processes : q # p => process'[q] = process[q]
      BY <2>2 DEF RecoverNext, TypeOK
    <3> QED BY <2>2, <3>1 DEF RecoverNext, Held
  <2> QED BY <2>1, <2>2
<1>2. Len(queue[p]) \in Nat BY QueuePlaces
<1>3. \A q \in Processes, i \in Nat, k \in Jobs :
        InQueue(q, i, k)' => InQueue(q, i, k) \/ (k = j /\ q = p /\ i = Len(queue[p]) + 1)
  BY <1>1, PushPlaces
<1>4. \A k \in Jobs : k # j => (Held(k)' => Held(k)) /\ (Alone(k) => Alone(k)')
  <2> DEFINE d == [q \in Processes |-> 0]
  <2>1. d \in [Processes -> Nat] /\ \A q \in Processes : d[q] = 0 OBVIOUS
  <2> HIDE DEF d
  <2>2. \A q \in Processes, i \in Nat, k \in Jobs : k # j /\ InQueue(q, i, k)' => InQueue(q, i + d[q], k)
    BY <1>3, <2>1
  <2> QED BY <1>1, <2>1, <2>2, PlacesShrink
<1>5. Alone(j) => Alone(j)'
  <2> SUFFICES ASSUME Alone(j) PROVE Alone(j)' OBVIOUS
  <2>1. ~Worked(j)' /\ request'[j].step = "none" /\ \A q \in Processes : j \notin process'[q].list
    <3>1. CASE EnqueueJob(j) /\ p = request[j].at
      <4>1. request[j].step = "enqueue" /\ request'[j].step = "none" /\ process' = process
        BY <3>1 DEF EnqueueJob, TypeOK, NoRequest
      <4> QED BY <1>1, <4>1 DEF Alone, Worked
    <3>2. CASE RecoverNext(p, j)
      <4>1. /\ j \in process[p].list /\ process'[p].list = process[p].list \ {j} /\ request' = request
            /\ \A q \in Processes : q # p => process'[q] = process[q]
        BY <3>2 DEF RecoverNext, TypeOK
      <4> QED BY <1>1, <4>1 DEF Alone, Worked
    <3> QED BY <3>1, <3>2
  <2>2. \A q \in Processes : j \notin Entries(q)
    <3>1. CASE EnqueueJob(j) BY <3>1 DEF EnqueueJob, Alone
    <3>2. CASE RecoverNext(p, j) BY <3>2 DEF RecoverNext, Alone
    <3> QED BY <3>1, <3>2
  <2>3. \A q \in Processes, i \in Nat : InQueue(q, i, j)' => q = p /\ i = Len(queue[p]) + 1
    BY <1>3, <2>2, QueuePlaces
  <2>4. Len(queue[p]) + 1 \in Nat BY <1>2
  <2> QED BY <2>1, <2>3, <2>4, OnlyQueued
<1>6. AllFresh' BY <1>1, <1>4 DEF AllFresh, Fresh
<1>7. AllAlone' BY <1>1, <1>4, <1>5 DEF AllAlone
<1> QED BY <1>6, <1>7

\* What a recovery lists is in nobody's hands, or was doubled.
LEMMA RecoverListPlaces ==
  ASSUME AgreeInv, TypeOK', NEW p \in Processes, Start(p) \/ RecoverList(p)
  PROVE  AllFresh' /\ AllAlone'
<1> USE DEF AgreeInv
<1>1. CASE Start(p)
  <2>1. /\ queue' = queue /\ worker' = worker /\ request' = request /\ job' = job /\ target' = target
        /\ doubled' = doubled /\ \A q \in Processes : process'[q].list = process[q].list
    BY <1>1 DEF Start, TypeOK
  <2>2. \A k \in Jobs : (Held(k)' => Held(k)) /\ (Alone(k) => Alone(k)') BY <2>1, PlacesSame
  <2> QED BY <2>1, <2>2 DEF AllFresh, Fresh, AllAlone
<1>2. CASE RecoverList(p)
  <2> DEFINE found == {j \in Jobs : Recoverable(job[j])}
  <2>1. /\ process' = [process EXCEPT ![p] = [state |-> "serving", list |-> found]]
        /\ doubled' = doubled \union {j \in found : Held(j)}
        /\ UNCHANGED <<job, target, queue, request, worker>>
    BY <1>2 DEF RecoverList
  <2>2. \A k \in Jobs : k \in found => job[k].status # "none"
    BY DEF Recoverable, Underway
  <2> HIDE DEF found
  <2>3. process'[p].list = found /\ \A q \in Processes : q # p => process'[q] = process[q]
    BY <2>1 DEF TypeOK
  <2>4. \A k \in Jobs : k \notin found => (Held(k)' => Held(k)) /\ (Alone(k) => Alone(k)')
    BY <2>1, <2>3, PlacesSame
  <2>5. ASSUME NEW k \in Jobs, k \in found, k \notin doubled' PROVE Alone(k)'
    <3>1. ~Held(k) BY <2>1, <2>5
    <3>2. /\ \A w \in Workers : worker'[w].job # k
          /\ request'[k].step = "none"
          /\ \A q \in Processes : k \notin Entries(q)' /\ (k \in process'[q].list => q = p)
      BY <2>1, <2>3, <3>1 DEF Held, Worked, Entries
    <3>3. ~Worked(k)' BY <3>2 DEF Worked
    <3> QED BY <3>2, <3>3, NotQueued
  <2>6. AllFresh' BY <2>1, <2>2, <2>4 DEF AllFresh, Fresh
  <2>7. AllAlone' BY <2>1, <2>4, <2>5 DEF AllAlone
  <2> QED BY <2>6, <2>7
<1> QED BY <1>1, <1>2

\* The head of a channel is in one place.
LEMMA TakePlaces ==
  ASSUME AgreeInv, TypeOK', NEW w \in Workers, Take(w)
  PROVE  AllFresh' /\ AllAlone'
<1> USE DEF AgreeInv
<1> DEFINE p == HomeOf[w]
<1>1. p \in Processes /\ queue[p] \in Seq(Jobs) /\ queue[p] # <<>>
  BY TranscriptAssumption DEF Take, TypeOK
<1>0. PICK j \in Jobs : j = Head(queue[p])
  BY <1>1, HeadAndTail
<1>2. /\ Len(queue[p]) \in Nat /\ Len(queue[p]) >= 1 /\ j = queue[p][1]
      /\ Len(Tail(queue[p])) = Len(queue[p]) - 1
      /\ \A i \in 1..Len(Tail(queue[p])) : Tail(queue[p])[i] = queue[p][i + 1] /\ i + 1 \in 1..Len(queue[p])
  BY <1>0, <1>1, HeadAndTail
<1>3. /\ worker[w] = Idle /\ worker'[w].job = j /\ \A u \in Workers : u # w => worker'[u] = worker[u]
      /\ queue'[p] = Tail(queue[p]) /\ \A q \in Processes : q # p => queue'[q] = queue[q]
      /\ UNCHANGED <<job, target, process, request, doubled>>
  BY <1>0, <1>1 DEF Take, TypeOK
<1> HIDE DEF p
<1> DEFINE d == [q \in Processes |-> IF q = p THEN 1 ELSE 0]
<1>4. d \in [Processes -> Nat] /\ d[p] = 1 /\ \A q \in Processes : q # p => d[q] = 0 BY <1>1
<1> HIDE DEF d
<1>5. \A k \in Jobs, q \in Processes, i \in Nat : InQueue(q, i, k)' => InQueue(q, i + d[q], k) /\ i # 0
  <2>1. ASSUME NEW k \in Jobs, NEW i \in Nat, InQueue(p, i, k)' PROVE InQueue(p, i + 1, k) /\ i # 0
    <3>1. i \in 1..Len(Tail(queue[p])) /\ Tail(queue[p])[i] = k BY <1>3, <2>1 DEF InQueue
    <3>2. queue[p][i + 1] = k /\ i + 1 \in 1..Len(queue[p]) BY <1>2, <3>1
    <3> QED BY <3>1, <3>2 DEF InQueue
  <2>2. ASSUME NEW k \in Jobs, NEW q \in Processes, q # p, NEW i \in Nat, InQueue(q, i, k)'
        PROVE  InQueue(q, i, k) /\ i # 0
    BY <1>3, <2>2 DEF InQueue
  <2> QED BY <1>4, <2>1, <2>2
<1>6. \A k \in Jobs : k # j => (Held(k)' => Held(k)) /\ (Alone(k) => Alone(k)')
  <2>1. \A k \in Jobs, u \in Workers : k # j /\ worker'[u].job = k => worker[u].job = k
    BY <1>3
  <2> QED BY <1>3, <1>4, <1>5, <2>1, PlacesShrink
<1>7. InQueue(p, 1, j) /\ j \in Entries(p) BY <1>1, <1>2, QueuePlaces DEF InQueue
<1>8. Held(j) BY <1>1, <1>7 DEF Held
<1>9. Alone(j) => Alone(j)'
  <2> SUFFICES ASSUME Alone(j) PROVE Alone(j)' OBVIOUS
  <2>1. ~Worked(j) /\ request[j].step = "none" /\ \A q \in Processes : j \notin process[q].list
    BY <1>1, <1>7 DEF Alone
  <2>2. \A q \in Processes : j \notin Entries(q)'
    <3>1. ASSUME NEW q \in Processes, NEW i \in Nat, InQueue(q, i, j)' PROVE FALSE
      <4>1. InQueue(q, i + d[q], j) /\ i # 0 /\ i + d[q] \in Nat BY <1>2, <1>4, <1>5, <3>1
      <4>2. q = p /\ i + d[q] = 1 BY <1>1, <1>7, <4>1 DEF Alone
      <4> QED BY <1>4, <4>1, <4>2
    <3> QED BY <3>1 DEF Entries, InQueue, TypeOK
  <2>3. \A u \in Workers : worker'[u].job = j => u = w BY <1>3, <2>1 DEF Worked
  <2> QED BY <1>2, <1>3, <2>1, <2>2, <2>3, NotQueued
<1>10. AllFresh' BY <1>3, <1>6, <1>8 DEF AllFresh, Fresh
<1>11. AllAlone' BY <1>2, <1>3, <1>6, <1>9 DEF AllAlone
<1> QED BY <1>10, <1>11

\* A worker goes on with its job, or is done with it.
LEMMA WorkerPlaces ==
  ASSUME AgreeInv, TypeOK', NEW w \in Workers,
         Decide(w) \/ Execute(w) \/ StatementFails(w) \/ ReadFails(w)
  PROVE  /\ AllFresh' /\ AllAlone'
         /\ worker[w] # Idle /\ worker[w].job \in Jobs
         /\ \A u \in Workers : u # w => worker'[u] = worker[u]
         /\ worker'[w] = Idle \/ worker'[w].job = worker[w].job
         /\ \A k \in Jobs : k # worker[w].job => job'[k] = job[k] /\ target'[k] = target[k]
<1> USE DEF AgreeInv
<1>1. worker[w].todo # <<>> \/ worker[w].stage # "idle"
  BY DecideGoes DEF Execute, ExecJob, ExecTarget, ExecNotify, StatementFails, ReadFails, NextIs, Deciding
<1>2. worker[w] # Idle /\ worker[w].job \in Jobs BY <1>1, BusyWorkers, BusyType
<1>3. worker[w] \in [job : Jobs, stage : {"taken", "fetch", "transcribe", "done"}, todo : Seq(StatementType)]
  BY <1>2, BusyType
<1>4. /\ queue' = queue /\ process' = process /\ request' = request /\ doubled' = doubled
      /\ \A u \in Workers : u # w => worker'[u] = worker[u]
  BY DEF Decide, Skip, Begin, Fetched, Fails, Unconfigured, Succeeds, Go, Execute, ExecJob, ExecTarget,
         ExecNotify, Pop, StatementFails, ReadFails, TypeOK
<1>5. worker'[w] = Idle \/ worker'[w].job = worker[w].job
  <2>1. CASE Decide(w)
    BY <1>3, <2>1 DEF Decide, Skip, Begin, Fetched, Fails, Unconfigured, Succeeds, Go, TypeOK
  <2>2. CASE Execute(w)
    BY <2>2, PopFields DEF Execute, ExecJob, ExecTarget, ExecNotify, NextIs
  <2>3. CASE StatementFails(w)
    <3> DEFINE after == AfterError(w)
    <3>1. worker'[w] = IF GivesUp(w) THEN [worker[w] EXCEPT !.stage = "done", !.todo = after] ELSE Left(w, after)
      BY <2>3 DEF StatementFails, TypeOK
    <3> HIDE DEF after
    <3>2. Left(w, after) = Idle \/ Left(w, after).job = worker[w].job BY <1>2, LeftFields
    <3> QED BY <1>3, <3>1, <3>2
  <2>4. CASE ReadFails(w)
    BY <1>3, <2>4 DEF ReadFails, TypeOK
  <2> QED BY <2>1, <2>2, <2>3, <2>4
<1>6. \A k \in Jobs : k # worker[w].job => job'[k] = job[k] /\ target'[k] = target[k]
  BY DEF Decide, Skip, Begin, Fetched, Fails, Unconfigured, Succeeds, Go, Execute, ExecJob, ExecTarget,
         ExecNotify, StatementFails, ReadFails, TypeOK
<1>7. \A k \in Jobs, u \in Workers : worker'[u].job = k => worker[u].job = k
  BY <1>4, <1>5, IdleType, TranscriptAssumption
<1>8. \A k \in Jobs : (Held(k)' => Held(k)) /\ (Alone(k) => Alone(k)') BY <1>4, <1>7, PlacesSame
<1>9. Held(worker[w].job) BY <1>2 DEF Held, Worked
<1>10. ASSUME NEW k \in Jobs, target'[k] = "none" PROVE target[k] = "none" /\ (~Held(k) => job'[k] = job[k])
  <2>1. CASE k # worker[w].job BY <1>6, <1>10, <2>1
  <2>2. CASE k = worker[w].job
    <3>1. CASE ExecTarget(w)
      <4>1. Statement(w) \in StatementType
        BY <1>3, <3>1, HeadAndTail DEF ExecTarget, NextIs, Statement
      <4>2. Statement(w).to # "none" BY <3>1, <4>1 DEF ExecTarget, NextIs, StatementType, Notify
      <4>3. target'[k] = Statement(w).to BY <1>2, <2>2, <3>1 DEF ExecTarget, TypeOK
      <4> QED BY <1>10, <4>2, <4>3
    <3>2. CASE ~ExecTarget(w)
      BY <1>9, <1>10, <2>2, <3>2 DEF Decide, Skip, Begin, Fetched, Fails, Unconfigured, Succeeds, Go,
         Execute, ExecJob, ExecNotify, StatementFails, ReadFails
    <3> QED BY <3>1, <3>2
  <2> QED BY <2>1, <2>2
<1>11. AllFresh' BY <1>8, <1>10 DEF AllFresh, Fresh
<1>12. AllAlone' BY <1>4, <1>8 DEF AllAlone
<1> QED BY <1>2, <1>4, <1>5, <1>6, <1>11, <1>12

LEMMA CrashPlaces ==
  ASSUME AgreeInv, TypeOK', NEW p \in Processes, Crash(p)
  PROVE  AllFresh' /\ AllAlone'
<1> USE DEF AgreeInv
<1>1. /\ job' = job /\ target' = target /\ doubled' = doubled
      /\ \A u \in Workers : worker'[u] = IF HomeOf[u] = p THEN Idle ELSE worker[u]
      /\ \A k \in Jobs : request'[k] = IF request[k].at = p THEN NoRequest ELSE request[k]
      /\ process'[p].list = {} /\ \A q \in Processes : q # p => process'[q] = process[q]
      /\ queue'[p] = <<>> /\ \A q \in Processes : q # p => queue'[q] = queue[q]
  BY DEF Crash, TypeOK
<1> DEFINE d == [q \in Processes |-> 0]
<1>2. d \in [Processes -> Nat] /\ \A q \in Processes : d[q] = 0 OBVIOUS
<1> HIDE DEF d
<1>3. \A k \in Jobs, q \in Processes, i \in Nat : InQueue(q, i, k)' => InQueue(q, i + d[q], k)
  <2>1. \A i \in Nat : i \notin 1..Len(<<>>) OBVIOUS
  <2> QED BY <1>1, <1>2, <2>1 DEF InQueue
<1>4. \A k \in Jobs, u \in Workers : worker'[u].job = k => worker[u].job = k
  BY <1>1, IdleType, TranscriptAssumption
<1>5. \A k \in Jobs : request'[k].step # "none" => request[k].step # "none"
  BY <1>1 DEF NoRequest
<1>6. \A k \in Jobs, q \in Processes : k \in process'[q].list => k \in process[q].list BY <1>1
<1>7. \A k \in Jobs : (Held(k)' => Held(k)) /\ (Alone(k) => Alone(k)')
  BY <1>2, <1>3, <1>4, <1>5, <1>6, PlacesShrink
<1> QED BY <1>1, <1>7 DEF AllFresh, Fresh, AllAlone

\* Where the rows of a job stay, what is said of its run and of its end stays.
LEMMA RowsSame ==
  ASSUME NEW j \in Jobs, job'[j].status = job[j].status, target'[j] = target[j]
  PROVE  /\ Agrees(j) => Agrees(j)'
         /\ \A w \in Workers : worker'[w] = worker[w] /\ Rest(w, j) => Rest(w, j)'
  BY DEF Agrees, Rest, NotReady

\* Steps of no run: who has a job has its rows unchanged, who is new has not begun,
\* and a job that leaves its worker, or is not lost any more, has not ended.
LEMMA QuietKeeps ==
  ASSUME AgreeInv, broken \subseteq broken', doubled \subseteq doubled',
         \A k \in Jobs : \/ job'[k].status = job[k].status /\ target'[k] = target[k]
                         \/ ~Worked(k) /\ job'[k].status \notin Ended,
         \A w \in Workers : \/ worker'[w] = worker[w] \/ worker'[w] = Idle
                            \/ worker'[w].stage = "taken" /\ worker'[w].todo = <<>>,
         \A k \in Jobs : Worked(k) => Worked(k)' \/ k \in lost',
         \A k \in lost : k \in lost' \/ job'[k].status \notin Ended
  PROVE  Runs' /\ Agreed'
<1> USE DEF AgreeInv
<1>1. ASSUME NEW w \in Workers, NEW j \in Jobs \ (broken' \union doubled'), worker'[w].job = j
      PROVE  Rest(w, j)'
  <2>1. CASE worker'[w] = worker[w]
    <3>1. worker[w].job = j /\ Worked(j) BY <1>1, <2>1 DEF Worked
    <3>2. Rest(w, j) BY <1>1, <3>1 DEF Runs
    <3> QED BY <1>1, <2>1, <3>1, <3>2, RowsSame
  <2>2. CASE worker'[w] = Idle BY <1>1, <2>2, IdleType, TranscriptAssumption
  <2>3. CASE worker'[w].stage = "taken" /\ worker'[w].todo = <<>> BY <2>3 DEF Rest
  <2> QED BY <2>1, <2>2, <2>3
<1>2. ASSUME WhisperConfigured, NEW k \in Jobs \ (lost' \union broken' \union doubled')
      PROVE  Worked(k)' \/ Agrees(k)'
  <2>1. CASE Worked(k) BY <1>2, <2>1
  <2>2. CASE job'[k].status \notin Ended BY <2>2 DEF Agrees
  <2>3. CASE ~Worked(k) /\ job'[k].status \in Ended
    <3>1. job'[k].status = job[k].status /\ target'[k] = target[k] BY <2>3
    <3>2. k \notin lost BY <1>2, <2>3
    <3>3. Agrees(k) BY <1>2, <2>3, <3>2 DEF Agreed
    <3> QED BY <3>1, <3>3, RowsSame
  <2> QED BY <2>1, <2>2, <2>3
<1> QED BY <1>1, <1>2 DEF Runs, Agreed

\* Steps of the requests, of the processes and of time, and what a worker takes.
LEMMA QuietSteps ==
  ASSUME AgreeInv, TypeOK',
         \/ \E p \in Processes, j \in Jobs : CreateTarget(p, j)
         \/ \E j \in Jobs : RequestStep(j) \/ RequestFails(j) \/ GrowStale(j)
         \/ \E p \in Processes : Start(p) \/ Recovery(p) \/ Crash(p)
         \/ \E w \in Workers : Take(w)
  PROVE  Runs' /\ Agreed'
<1> USE DEF AgreeInv
<1>1. ASSUME NEW p \in Processes, NEW j \in Jobs, CreateTarget(p, j) PROVE Runs' /\ Agreed'
  <2>1. job[j].status = "none" /\ ~Worked(j) BY <1>1 DEF CreateTarget, AllFresh, Fresh, Held
  <2>2. /\ UNCHANGED <<job, worker, lost, broken, doubled>>
        /\ \A k \in Jobs : k # j => target'[k] = target[k]
    BY <1>1 DEF CreateTarget, TypeOK
  <2>3. \A k \in Jobs : Worked(k) => Worked(k)' BY <2>2 DEF Worked
  <2>4. \A k \in Jobs : \/ job'[k].status = job[k].status /\ target'[k] = target[k]
                        \/ ~Worked(k) /\ job'[k].status \notin Ended
    BY <2>1, <2>2 DEF Ended
  <2> QED BY <2>2, <2>3, <2>4, QuietKeeps
<1>2. ASSUME NEW j \in Jobs, CreateJob(j) PROVE Runs' /\ Agreed'
  <2>1. /\ UNCHANGED <<target, worker, lost, broken, doubled>> /\ job'[j].status = "queued"
        /\ \A k \in Jobs : k # j => job'[k] = job[k]
    BY <1>2 DEF CreateJob, TypeOK, JobType
  <2>2. \A k \in Jobs : Worked(k) => Worked(k)' BY <2>1 DEF Worked
  <2>3. CASE j \in doubled
    \* A job that was doubled may be in a worker's hands; nothing is said of it.
    <3>1. ASSUME NEW w \in Workers, NEW k \in Jobs \ (broken' \union doubled'), worker'[w].job = k
          PROVE  Rest(w, k)'
      BY <2>1, <2>3, <3>1, RowsSame DEF Runs
    <3>2. ASSUME WhisperConfigured, NEW k \in Jobs \ (lost' \union broken' \union doubled')
          PROVE  Worked(k)' \/ Agrees(k)'
      BY <2>1, <2>2, <2>3, <3>2, RowsSame DEF Agreed
    <3> QED BY <3>1, <3>2 DEF Runs, Agreed
  <2>4. CASE j \notin doubled
    <3>1. ~Worked(j) BY <1>2, <2>4 DEF CreateJob, AllAlone, Alone
    <3>2. \A k \in Jobs : \/ job'[k].status = job[k].status /\ target'[k] = target[k]
                          \/ ~Worked(k) /\ job'[k].status \notin Ended
      BY <2>1, <3>1 DEF Ended
    <3> QED BY <2>1, <2>2, <3>2, QuietKeeps
  <2> QED BY <2>3, <2>4
<1>3. ASSUME NEW j \in Jobs, NEW p \in Processes,
             (EnqueueJob(j) /\ p = request[j].at) \/ RequestFails(j) \/ GrowStale(j) \/ Start(p) \/ RecoverNext(p, j)
      PROVE  Runs' /\ Agreed'
  <2>1. /\ UNCHANGED <<target, worker, doubled>> /\ broken \subseteq broken' /\ lost \subseteq lost'
        /\ \A k \in Jobs : job'[k].status = job[k].status
    <3>1. CASE GrowStale(j) BY <3>1 DEF GrowStale, TypeOK, JobType
    <3>2. CASE ~GrowStale(j) BY <1>3, <3>2 DEF EnqueueJob, RequestFails, Start, RecoverNext, Push
    <3> QED BY <3>1, <3>2
  <2>2. \A k \in Jobs : Worked(k) => Worked(k)' BY <2>1 DEF Worked
  <2> QED BY <2>1, <2>2, QuietKeeps
<1>4. ASSUME NEW p \in Processes, RecoverList(p) PROVE Runs' /\ Agreed'
  <2>1. /\ UNCHANGED <<job, target, worker, broken>> /\ doubled \subseteq doubled'
        /\ \A k \in lost : k \in lost' \/ Recoverable(job[k])
    BY <1>4 DEF RecoverList, TypeOK
  <2>2. \A k \in lost : k \in lost' \/ job'[k].status \notin Ended
    BY <2>1 DEF Recoverable, Underway, Ended
  <2>3. \A k \in Jobs : Worked(k) => Worked(k)' BY <2>1 DEF Worked
  <2> QED BY <2>1, <2>2, <2>3, QuietKeeps
<1>5. ASSUME NEW p \in Processes, Crash(p) PROVE Runs' /\ Agreed'
  <2>1. /\ UNCHANGED <<job, target, broken, doubled>> /\ lost \subseteq lost'
        /\ \A u \in Workers : worker'[u] = IF HomeOf[u] = p THEN Idle ELSE worker[u]
        /\ \A u \in Workers : HomeOf[u] = p /\ worker[u].job # NoJob => worker[u].job \in lost'
    BY <1>5 DEF Crash
  <2>2. \A k \in Jobs : Worked(k) => Worked(k)' \/ k \in lost'
    BY <2>1, TranscriptAssumption DEF Worked
  <2> QED BY <2>1, <2>2, QuietKeeps
<1>6. ASSUME NEW w \in Workers, Take(w) PROVE Runs' /\ Agreed'
  <2>1. /\ UNCHANGED <<job, target, lost, broken, doubled>> /\ worker[w] = Idle
        /\ \A u \in Workers : u # w => worker'[u] = worker[u]
        /\ worker'[w].stage = "taken" /\ worker'[w].todo = <<>>
    BY <1>6 DEF Take, TypeOK
  <2>2. \A k \in Jobs : Worked(k) => Worked(k)' BY <2>1, IdleType, TranscriptAssumption DEF Worked
  <2> QED BY <2>1, <2>2, QuietKeeps
<1>7. \A j \in Jobs, p \in Processes : Recovery(p) => RecoverList(p) \/ \E k \in Jobs : RecoverNext(p, k)
  BY DEF Recovery
<1>8. \A j \in Jobs : EnqueueJob(j) => request[j].at \in Processes
  BY RequestTypes DEF EnqueueJob
<1>9. ASSUME NEW j \in Jobs, RequestStep(j) \/ RequestFails(j) \/ GrowStale(j) PROVE Runs' /\ Agreed'
  <2>1. CASE CreateJob(j) BY <1>2, <2>1
  <2>2. CASE EnqueueJob(j) BY <1>3, <1>8, <2>2
  <2>3. CASE RequestFails(j) \/ GrowStale(j)
    <3>1. /\ UNCHANGED <<target, worker, doubled, lost>> /\ broken \subseteq broken'
          /\ \A k \in Jobs : job'[k].status = job[k].status
      <4>1. CASE GrowStale(j) BY <4>1 DEF GrowStale, TypeOK, JobType
      <4>2. CASE RequestFails(j) BY <4>2 DEF RequestFails
      <4> QED BY <2>3, <4>1, <4>2
    <3>2. \A k \in Jobs : Worked(k) => Worked(k)' BY <3>1 DEF Worked
    <3> QED BY <3>1, <3>2, QuietKeeps
  <2> QED BY <1>9, <2>1, <2>2, <2>3 DEF RequestStep
<1>10. ASSUME NEW p \in Processes, Start(p) PROVE Runs' /\ Agreed'
  <2>1. UNCHANGED <<job, target, worker, doubled, lost, broken>> BY <1>10 DEF Start
  <2>2. \A k \in Jobs : Worked(k) => Worked(k)' BY <2>1 DEF Worked
  <2> QED BY <2>1, <2>2, QuietKeeps
<1> QED BY <1>1, <1>3, <1>4, <1>5, <1>6, <1>9, <1>10 DEF Recovery

-----------------------------------------------------------------------------
(* The steps of a run *)

\* What the lists of statements begin with, and what follows.
LEMMA ListParts ==
  ASSUME NEW a, NEW b, NEW c, NEW d
  PROVE  /\ Head(<<a>>) = a /\ Tail(<<a>>) = <<>> /\ <<a>> # <<>>
         /\ Head(<<a, b>>) = a /\ Tail(<<a, b>>) = <<b>> /\ <<a, b>> # <<>>
         /\ Head(<<a, b, c>>) = a /\ Tail(<<a, b, c>>) = <<b, c>> /\ <<a, b, c>> # <<>>
         /\ Head(<<a, b, c, d>>) = a /\ Tail(<<a, b, c, d>>) = <<b, c, d>> /\ <<a, b, c, d>> # <<>>
  OBVIOUS

LEMMA StatementParts ==
  /\ \A to : SetJob(to).op = "job" /\ SetJob(to).to = to
  /\ \A to : SetTarget(to).op = "target" /\ SetTarget(to).to = to
  /\ Notify.op = "notify"
  BY DEF SetJob, SetTarget, Notify

\* The run of w leaves the other runs alone: none of them has its job.
LEMMA OtherRuns ==
  ASSUME AgreeInv, NEW w \in Workers, worker[w] # Idle, worker[w].job \in Jobs,
         broken \subseteq broken', doubled' = doubled, lost' = lost,
         \A u \in Workers : u # w => worker'[u] = worker[u],
         worker'[w] = Idle \/ worker'[w].job = worker[w].job,
         \A k \in Jobs : k # worker[w].job => job'[k] = job[k] /\ target'[k] = target[k],
         \A j \in Jobs \ (broken' \union doubled') : worker[w].job = j =>
           \/ worker'[w].job = j /\ Rest(w, j)'
           \/ worker'[w] = Idle /\ (WhisperConfigured => Agrees(j)')
  PROVE  Runs' /\ Agreed'
<1> USE DEF AgreeInv
<1>1. ASSUME NEW u \in Workers, NEW j \in Jobs \ (broken' \union doubled'), worker'[u].job = j
      PROVE  Rest(u, j)'
  <2>1. CASE u = w
    <3>1. worker'[w] # Idle /\ worker[w].job = j BY <1>1, <2>1, IdleType, TranscriptAssumption
    <3> QED BY <2>1, <3>1
  <2>2. CASE u # w
    <3>1. worker'[u] = worker[u] /\ worker[u].job = j BY <1>1, <2>2
    <3>2. j # worker[w].job BY <1>1, <2>2, <3>1 DEF AllAlone, Alone
    <3>3. Rest(u, j) BY <1>1, <3>1 DEF Runs
    <3> QED BY <3>1, <3>2, <3>3, RowsSame
  <2> QED BY <2>1, <2>2
<1>2. ASSUME WhisperConfigured, NEW k \in Jobs \ (lost' \union broken' \union doubled')
      PROVE  Worked(k)' \/ Agrees(k)'
  <2>1. CASE k = worker[w].job BY <1>2, <2>1 DEF Worked
  <2>2. CASE k # worker[w].job
    <3>1. Worked(k) => Worked(k)'
      <4>1. ASSUME NEW u \in Workers, worker[u].job = k PROVE worker'[u].job = k BY <2>2, <4>1
      <4> QED BY <4>1 DEF Worked
    <3>2. Worked(k) \/ Agrees(k) BY <1>2 DEF Agreed
    <3> QED BY <2>2, <3>1, <3>2, RowsSame
  <2> QED BY <2>1, <2>2
<1> QED BY <1>1, <1>2 DEF Runs, Agreed

LEMMA DecideAgrees ==
  ASSUME AgreeInv, TypeOK', NEW w \in Workers, Decide(w)
  PROVE  Runs' /\ Agreed'
<1> USE DEF AgreeInv
<1>1. /\ worker[w] # Idle /\ worker[w].job \in Jobs
      /\ \A u \in Workers : u # w => worker'[u] = worker[u]
  BY WorkerPlaces
<1>2. worker[w] \in [job : Jobs, stage : {"taken", "fetch", "transcribe", "done"}, todo : Seq(StatementType)]
  BY <1>1, BusyType
<1>3. UNCHANGED <<job, target, lost, broken, doubled>>
  BY DEF Decide, Skip, Begin, Fetched, Fails, Unconfigured, Succeeds, Go
<1>4. ASSUME NEW stage, NEW todo, Go(w, stage, todo)
      PROVE  worker'[w].job = worker[w].job /\ worker'[w].stage = stage /\ worker'[w].todo = todo
  BY <1>2, <1>4 DEF Go, TypeOK
<1>5. ASSUME NEW j \in Jobs, j \notin broken \union doubled, worker[w].job = j PROVE worker'[w].job = j /\ Rest(w, j)'
  <2>0. Rest(w, j) BY <1>5 DEF Runs
  <2>1. CASE Skip(w)
    BY <1>3, <1>4, <1>5, <2>1 DEF Skip, AlreadyDone, Rest
  <2>2. CASE Begin(w)
    BY <1>3, <1>4, <1>5, <2>2 DEF Begin, AlreadyDone, Kind, Rest, NotReady
  <2>3. CASE Fetched(w)
    BY <1>3, <1>4, <1>5, <2>3 DEF Fetched, Kind, Rest
  <2>4. CASE Fails(w)
    <3>1. NotReady(j)
      <4>1. CASE worker[w].stage = "fetch" BY <2>0, <4>1 DEF Rest
      <4>2. CASE worker[w].stage = "transcribe" BY <2>0, <4>2 DEF Rest, NotReady
      <4> QED BY <2>4, <4>1, <4>2 DEF Fails, Deciding
    <3>2. NotReady(j)' BY <1>3, <3>1 DEF NotReady
    <3>3. Go(w, "done", FailBoth(Kind(w))) BY <2>4 DEF Fails
    <3>4. /\ worker'[w].stage = "done" /\ worker'[w].job = j
          /\ worker'[w].todo \in {<<SetJob("failed"), SetTarget("failed")>>, <<SetTarget("failed"), SetJob("failed")>>}
      BY <1>4, <1>5, <3>3 DEF FailBoth
    <3> QED BY <3>2, <3>4 DEF Rest
  <2>5. CASE Unconfigured(w)
    BY <1>3, <1>4, <1>5, <2>5 DEF Unconfigured, Rest
  <2>6. CASE Succeeds(w)
    BY <1>3, <1>4, <1>5, <2>6 DEF Succeeds, Rest
  <2> QED BY <2>1, <2>2, <2>3, <2>4, <2>5, <2>6 DEF Decide
<1> QED BY <1>1, <1>3, <1>5, WorkerPlaces, OtherRuns

LEMMA FailureAgrees ==
  ASSUME AgreeInv, TypeOK', NEW w \in Workers, StatementFails(w) \/ ReadFails(w)
  PROVE  Runs' /\ Agreed'
<1> USE DEF AgreeInv
<1>1. worker[w].job \in broken' /\ broken \subseteq broken' /\ UNCHANGED <<job, target, lost, doubled>>
  BY DEF StatementFails, ReadFails
<1> QED BY <1>1, WorkerPlaces, OtherRuns

\* The statements bring the rows to agree, or leave what will.
LEMMA ExecuteAgrees ==
  ASSUME AgreeInv, TypeOK', NEW w \in Workers, Execute(w)
  PROVE  Runs' /\ Agreed'
<1> USE DEF AgreeInv
<1>1. /\ worker[w] # Idle /\ worker[w].job \in Jobs
      /\ UNCHANGED <<lost, broken, doubled>>
  BY WorkerPlaces DEF Execute, ExecJob, ExecTarget, ExecNotify
<1>2. ASSUME NEW j \in Jobs, j \notin broken \union doubled, worker[w].job = j
      PROVE  \/ worker'[w].job = j /\ Rest(w, j)'
             \/ worker'[w] = Idle /\ (WhisperConfigured => Agrees(j)')
  <2> DEFINE s == worker[w].todo
  <2>1. s # <<>> /\ Pop(w) BY DEF Execute, ExecJob, ExecTarget, ExecNotify, NextIs
  <2>2. \/ worker'[w] = Idle /\ worker[w].stage = "done" /\ Tail(s) = <<>>
        \/ /\ worker'[w].job = j
           /\ worker'[w].stage = worker[w].stage
           /\ worker'[w].todo = Tail(s)
    BY <1>2, <2>1, PopFields
  <2>3. /\ Head(s).op = "job" => job'[j].status = Head(s).to /\ target'[j] = target[j]
        /\ Head(s).op = "target" => target'[j] = Head(s).to /\ job'[j].status = job[j].status
        /\ Head(s).op = "notify" => target'[j] = target[j] /\ job'[j].status = job[j].status
    BY <1>2 DEF Execute, ExecJob, ExecTarget, ExecNotify, NextIs, Statement, TypeOK
  <2>4. Rest(w, j) BY <1>2 DEF Runs
  <2> HIDE DEF s
  <2>5. \/ worker[w].stage = "fetch" /\ NotReady(j) /\ s = <<SetTarget("processing")>>
        \/ worker[w].stage = "fetch" /\ NotReady(j) /\ s = <<SetJob("downloading"), SetTarget("processing")>>
        \/ worker[w].stage = "transcribe" /\ KindOf[j] = "video" /\ s = <<SetJob("transcribing")>>
        \/ worker[w].stage = "done" /\ NotReady(j) /\ s = <<SetJob("failed"), SetTarget("failed")>>
        \/ worker[w].stage = "done" /\ NotReady(j) /\ s = <<SetTarget("failed"), SetJob("failed")>>
        \/ worker[w].stage = "done" /\ s = <<SetTarget("failed")>> /\ job[j].status = "failed"
        \/ worker[w].stage = "done" /\ s = <<SetJob("failed")>> /\ (WhisperConfigured => target[j] = "failed")
        \/ worker[w].stage = "done" /\ s = <<SetTarget("ready"), SetJob("completed"), Notify>>
        \/ worker[w].stage = "done" /\ s = <<SetJob("saving"), SetTarget("ready"), SetJob("completed"), Notify>>
        \/ worker[w].stage = "done" /\ target[j] = "ready" /\ s = <<SetJob("completed")>>
        \/ worker[w].stage = "done" /\ target[j] = "ready" /\ s = <<SetJob("completed"), Notify>>
        \/ worker[w].stage = "done" /\ target[j] = "ready" /\ s = <<Notify>> /\ job[j].status = "completed"
    BY <2>1, <2>4 DEF Rest, s
  <2>6. CASE worker[w].stage = "fetch" /\ NotReady(j) /\ s = <<SetTarget("processing")>>
    <3>1. Head(s) = SetTarget("processing") /\ Tail(s) = <<>> BY <2>6, ListParts
    <3>2. target'[j] = "processing" BY <2>3, <3>1, StatementParts
    <3> QED BY <2>2, <2>6, <3>1, <3>2 DEF Rest, NotReady
  <2>7. CASE worker[w].stage = "fetch" /\ NotReady(j) /\ s = <<SetJob("downloading"), SetTarget("processing")>>
    <3>1. Head(s) = SetJob("downloading") /\ Tail(s) = <<SetTarget("processing")>> BY <2>7, ListParts
    <3>2. target'[j] = target[j] BY <2>3, <3>1, StatementParts
    <3> QED BY <2>2, <2>7, <3>1, <3>2 DEF Rest, NotReady
  <2>8. CASE worker[w].stage = "transcribe" /\ KindOf[j] = "video" /\ s = <<SetJob("transcribing")>>
    <3>1. Tail(s) = <<>> BY <2>8, ListParts
    <3> QED BY <2>2, <2>8, <3>1 DEF Rest
  <2>9. CASE worker[w].stage = "done" /\ NotReady(j) /\ s = <<SetJob("failed"), SetTarget("failed")>>
    <3>1. Head(s) = SetJob("failed") /\ Tail(s) = <<SetTarget("failed")>> /\ Tail(s) # <<>> BY <2>9, ListParts
    <3>2. target'[j] = target[j] /\ job'[j].status = "failed" BY <2>3, <3>1, StatementParts
    <3> QED BY <2>2, <2>9, <3>1, <3>2 DEF Rest, NotReady
  <2>10. CASE worker[w].stage = "done" /\ NotReady(j) /\ s = <<SetTarget("failed"), SetJob("failed")>>
    <3>1. Head(s) = SetTarget("failed") /\ Tail(s) = <<SetJob("failed")>> /\ Tail(s) # <<>> BY <2>10, ListParts
    <3>2. target'[j] = "failed" BY <2>3, <3>1, StatementParts
    <3> QED BY <2>2, <2>10, <3>1, <3>2 DEF Rest
  <2>11. CASE worker[w].stage = "done" /\ s = <<SetTarget("failed")>> /\ job[j].status = "failed"
    <3>1. Head(s) = SetTarget("failed") /\ Tail(s) = <<>> BY <2>11, ListParts
    <3>2. target'[j] = "failed" /\ job'[j].status = "failed" BY <2>3, <2>11, <3>1, StatementParts
    <3>3. Agrees(j)' BY <3>2 DEF Agrees
    <3>4. worker'[w] = Idle BY <1>2, <2>1, <2>11, <3>1 DEF Pop, Left, TypeOK, s
    <3> QED BY <3>3, <3>4
  <2>12. CASE worker[w].stage = "done" /\ s = <<SetJob("failed")>> /\ (WhisperConfigured => target[j] = "failed")
    <3>1. Head(s) = SetJob("failed") /\ Tail(s) = <<>> BY <2>12, ListParts
    <3>2. target'[j] = target[j] /\ job'[j].status = "failed" BY <2>3, <3>1, StatementParts
    <3>3. WhisperConfigured => Agrees(j)' BY <2>12, <3>2 DEF Agrees
    <3>4. worker'[w] = Idle BY <1>2, <2>1, <2>12, <3>1 DEF Pop, Left, TypeOK, s
    <3> QED BY <3>3, <3>4
  <2>13. CASE worker[w].stage = "done" /\ s = <<SetTarget("ready"), SetJob("completed"), Notify>>
    <3>1. /\ Head(s) = SetTarget("ready") /\ Tail(s) = <<SetJob("completed"), Notify>> /\ Tail(s) # <<>>
      BY <2>13, ListParts
    <3>2. target'[j] = "ready" BY <2>3, <3>1, StatementParts
    <3> QED BY <2>2, <2>13, <3>1, <3>2 DEF Rest
  <2>14. CASE worker[w].stage = "done" /\ s = <<SetJob("saving"), SetTarget("ready"), SetJob("completed"), Notify>>
    <3>1. Tail(s) = <<SetTarget("ready"), SetJob("completed"), Notify>> /\ Tail(s) # <<>> BY <2>14, ListParts
    <3> QED BY <2>2, <2>14, <3>1 DEF Rest
  <2>15. CASE worker[w].stage = "done" /\ target[j] = "ready" /\ s = <<SetJob("completed")>>
    <3>1. Head(s) = SetJob("completed") /\ Tail(s) = <<>> BY <2>15, ListParts
    <3>2. target'[j] = "ready" /\ job'[j].status = "completed" BY <2>3, <2>15, <3>1, StatementParts
    <3>3. Agrees(j)' BY <3>2 DEF Agrees
    <3>4. worker'[w] = Idle BY <1>2, <2>1, <2>15, <3>1 DEF Pop, Left, TypeOK, s
    <3> QED BY <3>3, <3>4
  <2>16. CASE worker[w].stage = "done" /\ target[j] = "ready" /\ s = <<SetJob("completed"), Notify>>
    <3>1. Head(s) = SetJob("completed") /\ Tail(s) = <<Notify>> /\ Tail(s) # <<>> BY <2>16, ListParts
    <3>2. target'[j] = "ready" /\ job'[j].status = "completed" BY <2>3, <2>16, <3>1, StatementParts
    <3> QED BY <2>2, <2>16, <3>1, <3>2 DEF Rest
  <2>17. CASE worker[w].stage = "done" /\ target[j] = "ready" /\ s = <<Notify>> /\ job[j].status = "completed"
    <3>1. Head(s) = Notify /\ Tail(s) = <<>> BY <2>17, ListParts
    <3>2. target'[j] = "ready" /\ job'[j].status = "completed" BY <2>3, <2>17, <3>1, StatementParts
    <3>3. Agrees(j)' BY <3>2 DEF Agrees
    <3>4. worker'[w] = Idle BY <1>2, <2>1, <2>17, <3>1 DEF Pop, Left, TypeOK, s
    <3> QED BY <3>3, <3>4
  <2> QED BY <2>5, <2>6, <2>7, <2>8, <2>9, <2>10, <2>11, <2>12, <2>13, <2>14, <2>15, <2>16, <2>17
<1> QED BY <1>1, <1>2, WorkerPlaces, OtherRuns

LEMMA AgreeStart == Init => AgreeInv
<1> SUFFICES ASSUME Init PROVE AgreeInv OBVIOUS
<1>1. TypeOK BY InitType
<1>2. \A w \in Workers : worker[w].job = NoJob BY IdleType DEF Init
<1>3. \A p \in Processes, j \in Jobs : j \notin Entries(p) /\ \A i \in Nat : ~InQueue(p, i, j)
  <2>1. \A i \in Nat : i \notin 1..Len(<<>>) OBVIOUS
  <2> QED BY <2>1 DEF Init, Entries, InQueue
<1>4. \A j \in Jobs : ~Held(j) /\ ~Worked(j)
  BY <1>2, <1>3, TranscriptAssumption DEF Init, Held, Worked, NoRequest
<1>5. AllFresh BY <1>4 DEF Init, AllFresh, Fresh
<1>6. AllAlone BY <1>2, <1>3, <1>4, TranscriptAssumption DEF Init, AllAlone, Alone
<1>7. Runs BY <1>2, TranscriptAssumption DEF Runs
<1>8. Agreed BY DEF Init, Agreed, Agrees, Ended
<1> QED BY <1>1, <1>5, <1>6, <1>7, <1>8 DEF AgreeInv

LEMMA AgreeStep == AgreeInv /\ [Next]_vars => AgreeInv'
<1> SUFFICES ASSUME AgreeInv, [Next]_vars PROVE AgreeInv' OBVIOUS
<1> USE DEF AgreeInv
<1>1. TypeOK' BY NextType
<1>2. CASE UNCHANGED vars
  <2> USE <1>2 DEF vars
  <2>1. \A j \in Jobs : (Held(j)' => Held(j)) /\ (Alone(j) => Alone(j)') BY <1>1, PlacesSame
  <2>2. \A j \in Jobs : Worked(j) => Worked(j)' BY DEF Worked
  <2>3. AllFresh' /\ AllAlone' BY <2>1 DEF AllFresh, Fresh, AllAlone
  <2>4. Runs' /\ Agreed' BY <2>2, QuietKeeps
  <2> QED BY <1>1, <2>3, <2>4
<1>3. CASE Next
  <2>1. CASE \E p \in Processes, j \in Jobs : CreateTarget(p, j)
    BY <1>1, <2>1, CreateTargetPlaces, QuietSteps
  <2>2. ASSUME NEW j \in Jobs, RequestStep(j) \/ RequestFails(j) \/ GrowStale(j) PROVE AgreeInv'
    <3>1. EnqueueJob(j) => request[j].at \in Processes BY RequestTypes DEF EnqueueJob
    <3>2. AllFresh' /\ AllAlone' BY <1>1, <2>2, <3>1, RequestPlaces, SendPlaces DEF RequestStep
    <3> QED BY <1>1, <2>2, <3>2, QuietSteps
  <2>3. ASSUME NEW p \in Processes, Start(p) \/ Recovery(p) \/ Crash(p) PROVE AgreeInv'
    <3>1. AllFresh' /\ AllAlone' BY <1>1, <2>3, RecoverListPlaces, SendPlaces, CrashPlaces DEF Recovery
    <3> QED BY <1>1, <2>3, <3>1, QuietSteps
  <2>4. ASSUME NEW w \in Workers, Take(w) \/ Decide(w) \/ Execute(w) \/ StatementFails(w) \/ ReadFails(w)
        PROVE  AgreeInv'
    <3>1. AllFresh' /\ AllAlone' BY <1>1, <2>4, TakePlaces, WorkerPlaces
    <3>2. Runs' /\ Agreed' BY <1>1, <2>4, QuietSteps, DecideAgrees, ExecuteAgrees, FailureAgrees
    <3> QED BY <1>1, <3>1, <3>2
  <2> QED BY <1>3, <2>1, <2>2, <2>3, <2>4 DEF Next
<1> QED BY <1>2, <1>3

\* With an API key, the row of a job that has ended and the row of its target tell
\* the same story, for any number of processes, workers and deaths, wherever no
\* statement failed and no recovery took the job up a second time
\* (processJob, failJob, failJobWithVideoSource, failMaterialJob, failLinkJob).
THEOREM EndsAgree == Spec => []ResultsAgree
<1>1. AgreeInv => ResultsAgree BY DEF AgreeInv, Agreed, Agrees, ResultsAgree
<1> QED BY <1>1, AgreeStart, AgreeStep, PTL DEF Spec

\* A text that was extracted stays, whatever runs, restarts and recoveries follow
\* (processMaterialJob, processLinkJob).
THEOREM ExtractedStays == Spec => ResultKept
<1> DEFINE Kept == \A j \in Jobs :
      KindOf[j] # "video" /\ target[j] = "ready" /\ j \notin lost \union broken \union doubled
        => target'[j] = "ready"
<1>1. AgreeInv /\ [Next]_vars => [Kept]_vars
  <2> SUFFICES ASSUME AgreeInv, Next, NEW j \in Jobs,
                      KindOf[j] # "video", target[j] = "ready", j \notin lost \union broken \union doubled,
                      target'[j] # "ready"
               PROVE  FALSE
    OBVIOUS
  <2>1. PICK w \in Workers : ExecTarget(w)
    BY DEF Next, CreateTarget, RequestStep, CreateJob, EnqueueJob, RequestFails, GrowStale, Start, Recovery,
       RecoverList, RecoverNext, Crash, Take, Decide, Skip, Begin, Fetched, Fails, Unconfigured, Succeeds, Go,
       Execute, ExecJob, ExecNotify, StatementFails, ReadFails, AgreeInv, TypeOK
  <2>2. worker[w].job = j /\ target'[j] = Statement(w).to /\ Statement(w).op = "target" /\ worker[w].todo # <<>>
    BY <2>1 DEF ExecTarget, NextIs, AgreeInv, TypeOK
  <2>3. Rest(w, j) BY <2>2 DEF AgreeInv, Runs
  <2>4. Statement(w).to = "ready"
    <3> DEFINE s == worker[w].todo
    <3>1. ~NotReady(j) BY DEF NotReady
    <3>2. \/ s = <<SetJob("transcribing")>>
          \/ s = <<SetJob("failed")>>
          \/ s = <<SetTarget("ready"), SetJob("completed"), Notify>>
          \/ s = <<SetJob("saving"), SetTarget("ready"), SetJob("completed"), Notify>>
          \/ s = <<SetJob("completed")>> \/ s = <<SetJob("completed"), Notify>>
          \/ s = <<Notify>>
      BY <2>2, <2>3, <3>1 DEF Rest
    <3> HIDE DEF s
    <3>3. Head(s) \in {SetJob("transcribing"), SetJob("failed"), SetTarget("ready"), SetJob("saving"),
                       SetJob("completed"), Notify}
      BY <3>2, ListParts
    <3>4. Head(s).op = "target" => Head(s).to = "ready" BY <3>3, StatementParts
    <3> QED BY <2>2, <3>4 DEF Statement, s
  <2> QED BY <2>2, <2>4
<1> QED BY <1>1, AgreeStart, AgreeStep, PTL DEF Spec, ResultKept
=================================================================================
