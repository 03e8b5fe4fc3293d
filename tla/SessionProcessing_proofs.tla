------------------------ MODULE SessionProcessing_proofs ------------------------
(***************************************************************************)
(* Proofs about SessionProcessing for any recordings, workers, requests    *)
(* and limits: types, and what no interleaving of the statements of        *)
(* several workers can break.                                              *)
(***************************************************************************)
EXTENDS SessionProcessing, TLAPS

-----------------------------------------------------------------------------
(* Sequences of statements *)

\* What executing the first of several statements leaves.
LEMMA TailOfStatements ==
  ASSUME NEW s \in Seq(Statements), s # <<>>
  PROVE  /\ Head(s) = s[1] /\ s[1] \in Statements
         /\ Len(s) \in Nat /\ Len(s) >= 1
         /\ Tail(s) \in Seq(Statements)
         /\ Len(Tail(s)) = Len(s) - 1
         /\ \A i \in 1..Len(Tail(s)) : Tail(s)[i] = s[i + 1] /\ i + 1 \in 1..Len(s)
  OBVIOUS

\* A list with more to come keeps its last statement.
LEMMA LastOfTail ==
  ASSUME NEW s \in Seq(Statements), s # <<>>, Len(s) # 1
  PROVE  Tail(s) # <<>> /\ Tail(s)[Len(Tail(s))] = s[Len(s)]
<1>1. Len(s) \in Nat /\ Len(s) >= 2
  <2>1. Len(s) \in Nat /\ Len(s) >= 1
    BY TailOfStatements
  <2>2. \A n \in Nat : n >= 1 /\ n # 1 => n >= 2
    OBVIOUS
  <2>3. QED
    BY <2>1, <2>2
<1>2. Len(Tail(s)) = Len(s) - 1 /\ \A i \in 1..Len(Tail(s)) : Tail(s)[i] = s[i + 1]
  BY TailOfStatements
<1>3. Tail(s) # <<>>
  BY <1>1, <1>2
<1>4. QED
  BY <1>1, <1>2, <1>3

\* A state or a mirror write of any state, and an Unlock, are statements.
LEMMA StatementTypes ==
  /\ \A s \in States \union {"none"} : SetState(s) \in Statements /\ SetMirror(s) \in Statements
  /\ Unlock \in Statements
  BY DEF SetState, SetMirror, Unlock, Statements

\* The statements of a run that ends early.
LEMMA LeaveType ==
  ASSUME NEW to \in States, NEW mirrored \in States
  PROVE  /\ Leave(to, mirrored) \in Seq(Statements)
         /\ Len(Leave(to, mirrored)) = 4
         /\ Leave(to, mirrored)[1] = SetState(to)
         /\ Leave(to, mirrored)[2] = Unlock
         /\ Leave(to, mirrored)[3] = SetMirror(mirrored)
         /\ Leave(to, mirrored)[4] = Unlock
  BY StatementTypes DEF Leave

\* The statements of a run that ends well.
LEMMA FinishType ==
  /\ Finish \in Seq(Statements)
  /\ Len(Finish) = 4
  /\ Finish[1] = SetState("ready")
  /\ Finish[2] = SetMirror("ready")
  /\ Finish[3] = Unlock
  /\ Finish[4] = Unlock
<1>1. "ready" \in States
  BY DEF States, TerminalStates
<1>2. QED
  BY <1>1, StatementTypes DEF Finish

\* The working states are states of the table.
LEMMA MidStagesAreStates == MidStages \subseteq States
  BY DEF States

\* Entering a stage writes working states only.
LEMMA EnteringType ==
  ASSUME NEW source, NEW stage
  PROVE  /\ WriteEach(Entering(source, stage)) \in Seq(Statements)
         /\ \A i \in 1..Len(WriteEach(Entering(source, stage))) :
              WriteEach(Entering(source, stage))[i].to \in MidStages
<1> DEFINE e == Entering(source, stage)
<1>1. \/ e = <<>>
      \/ \E a \in MidStages : e = <<a>>
      \/ \E a, b \in MidStages : e = <<a, b>>
  BY DEF Entering, MidStages
<1>2. CASE e = <<>>
  BY <1>2 DEF WriteEach
<1>3. ASSUME NEW a \in MidStages, e = <<a>>
      PROVE  /\ WriteEach(e) \in Seq(Statements)
             /\ \A i \in 1..Len(WriteEach(e)) : WriteEach(e)[i].to \in MidStages
  <2>1. WriteEach(e) = <<SetState(a), SetMirror(a)>>
    BY <1>3 DEF WriteEach
  <2>2. SetState(a) \in Statements /\ SetMirror(a) \in Statements
    BY StatementTypes, MidStagesAreStates
  <2>3. SetState(a).to = a /\ SetMirror(a).to = a
    BY DEF SetState, SetMirror
  <2>4. QED
    BY <2>1, <2>2, <2>3
<1>4. ASSUME NEW a \in MidStages, NEW b \in MidStages, e = <<a, b>>
      PROVE  /\ WriteEach(e) \in Seq(Statements)
             /\ \A i \in 1..Len(WriteEach(e)) : WriteEach(e)[i].to \in MidStages
  <2>1. WriteEach(e) = <<SetState(a), SetMirror(a), SetState(b), SetMirror(b)>>
    BY <1>4 DEF WriteEach
  <2>2. /\ SetState(a) \in Statements /\ SetMirror(a) \in Statements
        /\ SetState(b) \in Statements /\ SetMirror(b) \in Statements
    BY StatementTypes, MidStagesAreStates
  <2>3. /\ SetState(a).to = a /\ SetMirror(a).to = a
        /\ SetState(b).to = b /\ SetMirror(b).to = b
    BY DEF SetState, SetMirror
  <2>4. QED
    BY <2>1, <2>2, <2>3
<1>5. QED
  BY <1>1, <1>2, <1>3, <1>4

\* A pipeline goes from stage to stage.
LEMMA StageAfterType ==
  ASSUME NEW source, NEW stage \in Stages
  PROVE  StageAfter(source, stage) \in Stages
  BY DEF StageAfter, Stages

\* A failure is written as a resting state, whatever the attempt.
LEMMA FailureTypes ==
  ASSUME NEW kind, NEW attempt
  PROVE  /\ FailureState(kind, attempt) \in States \ MidStages
         /\ FailureMirror(kind) \in States
  BY DEF FailureState, FailureMirror, States, MidStages, ClaimableStates,
         TerminalStates, TerminalFailed

-----------------------------------------------------------------------------
(* Types *)

\* What an enqueue, an Unlock and a state write make of a row.
LEMMA RowTypes ==
  ASSUME NEW r \in RowType
  PROVE  /\ Requeued(r) \in RowType /\ Requeued(r).state = "queued" /\ Requeued(r).lock = "free"
         /\ Unlocked(r) \in RowType /\ Unlocked(r).lock = "free"
         /\ Unlocked(r).state = r.state /\ Unlocked(r).attempt = r.attempt
         /\ \A to \in States \union {"none"}, n \in 0..AttemptCap :
              /\ Updated(r, to, n) \in RowType
              /\ Updated(r, to, n).state = to /\ Updated(r, to, n).attempt = n
              /\ Updated(r, to, n).lock = r.lock
<1>1. "queued" \in States
  BY DEF States, ClaimableStates
<1>2. QED
  BY <1>1 DEF RowType, Requeued, Unlocked, Updated

\* The row of a recording that was never imported is a row.
LEMMA AbsentType == Absent \in RowType
  BY ConstantsAssumption DEF Absent, RowType

\* An idle worker runs nothing and has nothing to do.
LEMMA IdleType == Idle \in WorkerType /\ Idle.job = NoJob /\ Idle.stage = "idle" /\ Idle.todo = <<>>
  BY ConstantsAssumption DEF Idle, WorkerType

\* What Proceed does to the worker that takes a decision.
LEMMA ProceedType ==
  ASSUME TypeOK, NEW w \in Workers, NEW stage \in Stages \union {"final"},
         NEW todo \in Seq(Statements), worker[w].stage \in Stages, Proceed(w, stage, todo)
  PROVE  TypeOK'
<1>1. worker[w] \in WorkerType /\ worker[w] # Idle
  BY IdleType DEF TypeOK, Stages
<1>2. [worker[w] EXCEPT !.stage = stage, !.todo = todo] \in WorkerType
  BY <1>1 DEF WorkerType
<1>3. worker' = [worker EXCEPT ![w] = [worker[w] EXCEPT !.stage = stage, !.todo = todo]]
  BY DEF Proceed, TypeOK
<1>4. worker' \in [Workers -> WorkerType]
  BY <1>2, <1>3 DEF TypeOK
<1>5. QED
  BY <1>4 DEF TypeOK, Proceed

\* w decided to go on with `stage' and to execute `todo'.
Decided(w, stage, todo) ==
  /\ Proceed(w, stage, todo)
  /\ worker[w].todo = <<>>
  /\ worker[w].stage \in Stages
  /\ \/ /\ stage # "final"
        /\ \A i \in 1..Len(todo) : todo[i].to \in MidStages
     \/ /\ stage = "final" /\ Len(todo) = 4
        /\ todo[1].op = "state" /\ todo[1].to \in States \ MidStages
        /\ WithinBudget(todo[1].to, worker[w].attempt)
        /\ todo[2].op # "state" /\ todo[3].op # "state" /\ todo[4] = Unlock

\* The fields of the statements.
LEMMA StatementFields ==
  /\ Unlock.op = "unlock"
  /\ \A s : SetState(s).op = "state" /\ SetState(s).to = s /\ SetMirror(s).op = "mirror"
  BY DEF Unlock, SetState, SetMirror

\* A pipeline that gives up, or parks the job, has decided on a list of that shape.
LEMMA LeaveDecided ==
  ASSUME NEW w, NEW stage \in Stages, Deciding(w, stage),
         NEW to \in States \ MidStages, NEW mirrored \in States,
         WithinBudget(to, worker[w].attempt), Proceed(w, "final", Leave(to, mirrored))
  PROVE  Decided(w, "final", Leave(to, mirrored)) /\ Leave(to, mirrored) \in Seq(Statements)
<1> DEFINE todo == Leave(to, mirrored)
<1>1. /\ todo \in Seq(Statements) /\ Len(todo) = 4
      /\ todo[1] = SetState(to) /\ todo[2] = Unlock
      /\ todo[3] = SetMirror(mirrored) /\ todo[4] = Unlock
  BY LeaveType
<1>2. /\ todo[1].op = "state" /\ todo[1].to = to
      /\ todo[2].op # "state" /\ todo[3].op # "state"
  BY <1>1, StatementFields
<1>3. worker[w].todo = <<>> /\ worker[w].stage \in Stages
  BY DEF Deciding
<1> HIDE DEF todo
<1>4. Proceed(w, "final", todo)
  BY DEF todo
<1>5. QED
  BY <1>1, <1>2, <1>3, <1>4 DEF Decided, todo

\* The shape of the lists a worker decides on: working states on the way, and
\* at the end one resting state within the budget, then nothing but unlocks.
LEMMA DecideShape ==
  ASSUME TypeOK, NEW w \in Workers, Decide(w)
  PROVE  \E stage \in Stages \union {"final"}, todo \in Seq(Statements) : Decided(w, stage, todo)
<1>0. "final" \notin Stages /\ {"transcript", "fallback", "index"} \subseteq Stages
  BY DEF Stages
<1>1. CASE Advance(w)
  <2>1. PICK stage \in Stages \ {"fallback", "index"} :
          /\ Deciding(w, stage)
          /\ Proceed(w, StageAfter(Source(w), stage),
                     WriteEach(Entering(Source(w), StageAfter(Source(w), stage))))
    BY <1>1 DEF Advance
  <2> DEFINE next == StageAfter(Source(w), stage)
             todo == WriteEach(Entering(Source(w), next))
  <2>2. next \in Stages
    BY StageAfterType
  <2>3. todo \in Seq(Statements) /\ \A i \in 1..Len(todo) : todo[i].to \in MidStages
    BY EnteringType
  <2>4. worker[w].todo = <<>> /\ worker[w].stage \in Stages
    BY <2>1 DEF Deciding
  <2>5. Proceed(w, next, todo)
    BY <2>1
  <2> HIDE DEF next, todo
  <2>6. Decided(w, next, todo)
    BY <1>0, <2>2, <2>3, <2>4, <2>5 DEF Decided
  <2>7. QED
    BY <2>2, <2>3, <2>6
<1>2. CASE Fail(w)
  <2>1. PICK stage \in Stages : Deciding(w, stage) /\
          \E kind \in Failures(Source(w), stage) :
            Proceed(w, "final", Leave(FailureState(kind, worker[w].attempt), FailureMirror(kind)))
    BY <1>2 DEF Fail
  <2>2. PICK kind \in Failures(Source(w), stage) :
          Proceed(w, "final", Leave(FailureState(kind, worker[w].attempt), FailureMirror(kind)))
    BY <2>1
  <2>3. /\ FailureState(kind, worker[w].attempt) \in States \ MidStages
        /\ FailureMirror(kind) \in States
    BY FailureTypes
  <2>4. WithinBudget(FailureState(kind, worker[w].attempt), worker[w].attempt)
    BY DEF FailureState, WithinBudget
  <2>5. QED
    BY <2>1, <2>2, <2>3, <2>4, LeaveDecided
<1>3. CASE AwaitNative(w)
  <2>1. "waiting_native_transcript" \in States \ MidStages
    BY DEF States, MidStages, ClaimableStates
  <2>2. WithinBudget("waiting_native_transcript", worker[w].attempt)
    BY DEF WithinBudget
  <2>3. QED
    BY <1>0, <1>3, <2>1, <2>2, LeaveDecided DEF AwaitNative
<1>4. CASE AwaitWhisper(w)
  <2>1. "awaiting_whisper" \in States \ MidStages
    BY DEF States, MidStages
  <2>2. WithinBudget("awaiting_whisper", worker[w].attempt)
    BY DEF WithinBudget
  <2>3. QED
    BY <1>0, <1>4, <2>1, <2>2, LeaveDecided DEF AwaitWhisper
<1>5. CASE FallBack(w)
  <2> DEFINE todo == <<>>
  <2>1. todo \in Seq(Statements) /\ Len(todo) = 0
    OBVIOUS
  <2>2. worker[w].todo = <<>> /\ worker[w].stage \in Stages /\ Proceed(w, "fallback", todo)
    BY <1>0, <1>5 DEF FallBack, Deciding
  <2> HIDE DEF todo
  <2>3. Decided(w, "fallback", todo)
    BY <1>0, <2>1, <2>2 DEF Decided
  <2>4. QED
    BY <1>0, <2>1, <2>3
<1>6. CASE Complete(w)
  <2>1. worker[w].todo = <<>> /\ worker[w].stage \in Stages /\ Proceed(w, "final", Finish)
    BY <1>0, <1>6 DEF Complete, Deciding
  <2>2. "ready" \in States \ MidStages /\ WithinBudget("ready", worker[w].attempt)
    BY DEF States, MidStages, TerminalStates, WithinBudget
  <2>3. Decided(w, "final", Finish)
    BY <2>1, <2>2, FinishType, StatementFields DEF Decided
  <2>4. QED
    BY <2>3, FinishType
<1>7. QED
  BY <1>1, <1>2, <1>3, <1>4, <1>5, <1>6 DEF Decide

-----------------------------------------------------------------------------
(* Types are preserved *)

\* The program starts with an empty table and idle goroutines.
LEMMA InitType == Init => TypeOK
  BY AbsentType, IdleType, ConstantsAssumption
  DEF Init, TypeOK, RequestType, NoCallback, CallbackType

\* What a worker is when it executes a statement of its list.
LEMMA ExecutingType ==
  ASSUME TypeOK, NEW w \in Workers, worker[w].todo # <<>>
  PROVE  /\ worker[w] # Idle /\ worker[w].job \in Jobs
         /\ worker[w].attempt \in 0..AttemptCap
         /\ worker[w].todo \in Seq(Statements)
         /\ Head(worker[w].todo) \in Statements
         /\ Rest(w) \in WorkerType
<1>1. worker[w] \in WorkerType /\ worker[w] # Idle
  BY IdleType DEF TypeOK
<1>2. /\ worker[w].todo \in Seq(Statements) /\ worker[w].job \in Jobs
      /\ worker[w].attempt \in 0..AttemptCap
  BY <1>1 DEF WorkerType
<1>3. Head(worker[w].todo) \in Statements /\ Tail(worker[w].todo) \in Seq(Statements)
  BY <1>2, TailOfStatements
<1>4. [worker[w] EXCEPT !.todo = Tail(@)] \in WorkerType
  BY <1>1, <1>3 DEF WorkerType
<1>5. QED
  BY <1>1, <1>2, <1>3, <1>4, IdleType DEF Rest

\* ClaimNextSessionProcessingJob keeps the types.
LEMMA ClaimType ==
  ASSUME TypeOK, NEW w \in Workers, NEW j \in Jobs, Claim(w, j)
  PROVE  TypeOK'
<1>1. row[j] \in RowType
  BY DEF TypeOK
<1>2. NextAttempt(row[j].attempt) \in 0..AttemptCap
  BY <1>1, ConstantsAssumption DEF NextAttempt, RowType
<1>3. [row[j] EXCEPT !.lock = "held", !.old = FALSE] \in RowType
  BY <1>1 DEF RowType
<1>4. [job |-> j, attempt |-> NextAttempt(row[j].attempt), stage |-> "claimed", todo |-> <<>>]
        \in WorkerType
  BY <1>2 DEF WorkerType, Stages
<1>5. row' = [row EXCEPT ![j] = [row[j] EXCEPT !.lock = "held", !.old = FALSE]]
  BY DEF Claim, TypeOK
<1>6. row' \in [Jobs -> RowType] /\ worker' \in [Workers -> WorkerType]
  BY <1>3, <1>4, <1>5 DEF TypeOK, Claim
<1>7. faulted' \subseteq Jobs
  BY DEF Claim, TypeOK
<1>8. QED
  BY <1>6, <1>7 DEF TypeOK, Claim

\* A statement of a pipeline keeps the types.
LEMMA ExecuteType ==
  ASSUME TypeOK, NEW w \in Workers, Execute(w)
  PROVE  TypeOK'
<1> DEFINE j == worker[w].job
           s == Head(worker[w].todo)
<1>1. worker[w].todo # <<>>
  BY DEF Execute, ExecState, ExecUnlock, ExecMirror, NextIs
<1>2. /\ j \in Jobs /\ worker[w].attempt \in 0..AttemptCap
      /\ s \in Statements /\ Rest(w) \in WorkerType
  BY <1>1, ExecutingType
<1>3. row[j] \in RowType /\ s.to \in States \union {"none"}
  BY <1>2 DEF TypeOK, Statements
<1>4. worker' \in [Workers -> WorkerType]
  BY <1>2 DEF Execute, ExecState, ExecUnlock, ExecMirror, TypeOK
<1>5. CASE ExecState(w)
  <2>1. row' = [row EXCEPT ![j] = Updated(row[j], s.to, worker[w].attempt)]
    BY <1>5 DEF ExecState, TypeOK
  <2>2. row' \in [Jobs -> RowType]
    BY <1>2, <1>3, <2>1, RowTypes DEF TypeOK
  <2>3. QED
    BY <1>4, <1>5, <2>2 DEF TypeOK, ExecState
<1>6. CASE ExecUnlock(w)
  <2>1. row' = [row EXCEPT ![j] = Unlocked(row[j])]
    BY <1>6 DEF ExecUnlock, TypeOK
  <2>2. row' \in [Jobs -> RowType]
    BY <1>2, <1>3, <2>1, RowTypes DEF TypeOK
  <2>3. QED
    BY <1>4, <1>6, <2>2 DEF TypeOK, ExecUnlock
<1>7. CASE ExecMirror(w)
  <2>1. mirror' \in [Sessions -> States \union {"none"}]
    BY <1>3, <1>7 DEF ExecMirror, TypeOK
  <2>2. QED
    BY <1>4, <1>7, <2>1 DEF TypeOK, ExecMirror
<1>8. QED
  BY <1>5, <1>6, <1>7 DEF Execute

\* The death of a process and a lost statement keep the types.
LEMMA FaultType ==
  ASSUME TypeOK, NEW w \in Workers, Crash(w) \/ LoseStatement(w)
  PROVE  TypeOK'
<1>1. CASE Crash(w)
  <2>1. worker[w] \in WorkerType /\ worker[w] # Idle
    BY <1>1 DEF Crash, TypeOK
  <2>2. worker[w].job \in Jobs
    BY <2>1 DEF WorkerType
  <2>3. QED
    BY <1>1, <2>2, IdleType DEF Crash, TypeOK
<1>2. CASE LoseStatement(w)
  <2>1. worker[w].todo # <<>>
    BY <1>2 DEF LoseStatement
  <2>2. worker[w].job \in Jobs /\ Rest(w) \in WorkerType
    BY <2>1, ExecutingType
  <2>3. QED
    BY <1>2, <2>2 DEF LoseStatement, TypeOK
<1>3. QED
  BY <1>1, <1>2

\* Every step of RunWorker keeps the types.
LEMMA WorkerStepType ==
  ASSUME TypeOK, NEW w \in Workers, WorkerStep(w)
  PROVE  TypeOK'
<1>1. CASE Decide(w)
  <2>1. PICK stage \in Stages \union {"final"}, todo \in Seq(Statements) :
          Decided(w, stage, todo)
    BY <1>1, DecideShape
  <2>2. QED
    BY <2>1, ProceedType DEF Decided
<1>2. QED
  BY <1>1, ClaimType, ExecuteType, FaultType DEF WorkerStep

\* Retry times, locks and stuck thresholds that pass keep the types.
LEMMA TimeType ==
  ASSUME TypeOK, Time
  PROVE  TypeOK'
<1>1. PICK j \in Jobs : BecomeDue(j) \/ LockExpires(j) \/ GrowOld(j) \/ PollExpires(j)
  BY DEF Time
<1>2. row[j] \in RowType
  BY DEF TypeOK
<1>3. CASE BecomeDue(j)
  BY <1>2, <1>3 DEF BecomeDue, TypeOK, RowType
<1>4. CASE LockExpires(j)
  BY <1>2, <1>4 DEF LockExpires, TypeOK, RowType
<1>5. CASE GrowOld(j)
  BY <1>2, <1>5 DEF GrowOld, TypeOK, RowType
<1>6. CASE PollExpires(j)
  BY <1>6 DEF PollExpires, TypeOK
<1>7. QED
  BY <1>1, <1>3, <1>4, <1>5, <1>6

\* RunReconciler keeps the types.
LEMMA ReconcilerType ==
  ASSUME TypeOK, Reconciler
  PROVE  TypeOK'
<1>1. CASE ReconList
  <2>1. \A i \in Jobs : Stuck(row[i]) => row[i].state \in States
    BY DEF Stuck, States, ClaimableStates
  <2>2. ASSUME NEW r \in recon'  PROVE r \in ReconEntry
    <3>1. PICK j \in {i \in Jobs : Stuck(row[i])} :
            r = [job |-> j, seen |-> row[j].state, reset |-> FALSE]
      BY <1>1 DEF ReconList
    <3>2. QED
      BY <2>1, <3>1 DEF ReconEntry
  <2>3. QED
    BY <1>1, <2>2 DEF ReconList, TypeOK
<1>2. ASSUME NEW r \in recon, ReconReset(r)  PROVE TypeOK'
  <2>1. r \in ReconEntry /\ r.job \in Jobs /\ row[r.job] \in RowType
    BY DEF TypeOK, ReconEntry
  <2>2. row' \in [Jobs -> RowType]
    BY <1>2, <2>1 DEF ReconReset, TypeOK, RowType
  <2>3. recon' \subseteq ReconEntry
    <3>1. [r EXCEPT !.reset = TRUE] \in ReconEntry
      BY <2>1 DEF ReconEntry
    <3>2. recon' = (recon \ {r}) \union {[r EXCEPT !.reset = TRUE]}
      BY <1>2 DEF ReconReset
    <3>3. recon \subseteq ReconEntry
      BY DEF TypeOK
    <3>4. QED
      BY <3>1, <3>2, <3>3
  <2>4. QED
    BY <1>2, <2>2, <2>3 DEF ReconReset, TypeOK
<1>3. ASSUME NEW r \in recon, ReconMirror(r)  PROVE TypeOK'
  <2>1. r.seen \in States
    BY DEF TypeOK, ReconEntry
  <2>2. QED
    BY <1>3, <2>1 DEF ReconMirror, TypeOK
<1>4. CASE ReconCrash
  BY <1>4 DEF ReconCrash, TypeOK
<1>5. QED
  BY <1>1, <1>2, <1>3, <1>4 DEF Reconciler

\* What a handler between two statements remembers.
LEMMA RequestTypes ==
  ASSUME TypeOK, NEW c \in Clients
  PROVE  /\ client[c].op = "upsert" => client[c].job \in Jobs /\ client[c].session \in Sessions
         /\ client[c].op = "mirror" => client[c].to \in States /\ client[c].session \in Sessions
         /\ NoRequest \in RequestType
  BY DEF TypeOK, RequestType, NoRequest

\* The attach, retry and cancel handlers keep the types.
LEMMA ClientStepType ==
  ASSUME TypeOK, NEW c \in Clients, ClientStep(c)
  PROVE  TypeOK'
<1>1. ASSUME NEW j \in Jobs, AttachRead(c, j)  PROVE TypeOK'
  <2>1. [op |-> "upsert", job |-> j, session |-> SessionOf[j], to |-> "none"] \in RequestType
    BY ConstantsAssumption DEF RequestType
  <2>2. QED
    BY <1>1, <2>1 DEF AttachRead, TypeOK
<1>2. CASE AttachUpsert(c)
  <2> DEFINE j == client[c].job
             new == IF row[j].state \in KeptByUpsert THEN [row[j] EXCEPT !.old = FALSE]
                                                     ELSE Requeued(row[j])
  <2>1. /\ j \in Jobs /\ row[j] \in RowType /\ client[c].session \in Sessions
        /\ client[c].op = "upsert"
    BY <1>2, RequestTypes DEF AttachUpsert, TypeOK
  <2>2. new \in RowType /\ new.state \in States
    <3>1. CASE row[j].state \in KeptByUpsert
      <4>1. row[j].state \in States
        BY <3>1 DEF KeptByUpsert, States
      <4>2. QED
        BY <2>1, <3>1, <4>1 DEF RowType
    <3>2. CASE row[j].state \notin KeptByUpsert
      <4>1. "queued" \in States
        BY DEF States, ClaimableStates
      <4>2. QED
        BY <2>1, <3>2, <4>1, RowTypes
    <3>3. QED
      BY <3>1, <3>2
  <2>3. client[c] \in [op : {"upsert"}, job : Jobs, session : Sessions, to : {"none"}]
    BY <2>1 DEF TypeOK, RequestType, NoRequest
  <2>4. /\ row' = [row EXCEPT ![j] = new]
        /\ client' = [client EXCEPT ![c] =
                       [client[c] EXCEPT !.op = "mirror", !.to = new.state]]
        /\ UNCHANGED <<mirror, worker, recon, callback, pollOver, faulted>>
    BY <1>2 DEF AttachUpsert
  <2> HIDE DEF new, j
  <2>5. client' \in [Clients -> RequestType]
    <3>1. client'[c] = [client[c] EXCEPT !.op = "mirror", !.to = new.state]
      BY <2>4 DEF TypeOK
    <3>2. client'[c] \in RequestType
      BY <2>2, <2>3, <3>1 DEF RequestType
    <3>3. QED
      BY <2>4, <3>2 DEF TypeOK
  <2>6. row' \in [Jobs -> RowType]
    BY <2>1, <2>2, <2>4 DEF TypeOK
  <2>7. QED
    BY <2>4, <2>5, <2>6 DEF TypeOK
<1>3. ASSUME NEW s \in Sessions, NEW to \in States, Request(c, s, to)
      PROVE  client' \in [Clients -> RequestType]
  <2>1. [op |-> "mirror", job |-> NoJob, session |-> s, to |-> to] \in RequestType
    BY DEF RequestType
  <2>2. QED
    BY <1>3, <2>1 DEF Request, TypeOK
<1>4. ASSUME NEW s \in Sessions, Retry(c, s)  PROVE TypeOK'
  <2>1. "queued" \in States
    BY DEF States, ClaimableStates
  <2>2. client' \in [Clients -> RequestType]
    BY <1>3, <1>4, <2>1 DEF Retry
  <2>3. row' \in [Jobs -> RowType]
    BY <1>4, RowTypes DEF Retry, TypeOK
  <2>4. QED
    BY <1>4, <2>2, <2>3 DEF Retry, Request, TypeOK
<1>5. ASSUME NEW s \in Sessions, Cancel(c, s)  PROVE TypeOK'
  <2>1. "canceled" \in States
    BY DEF States, TerminalStates, TerminalFailed
  <2>2. client' \in [Clients -> RequestType]
    BY <1>3, <1>5, <2>1 DEF Cancel
  <2>3. \A j \in Jobs : [row[j] EXCEPT !.state = "canceled", !.old = FALSE] \in RowType
    BY <2>1 DEF TypeOK, RowType
  <2>4. row' \in [Jobs -> RowType]
    BY <1>5, <2>3 DEF Cancel, TypeOK
  <2>5. QED
    BY <1>5, <2>2, <2>4 DEF Cancel, Request, TypeOK
<1>6. CASE RequestMirror(c)
  BY <1>6, RequestTypes DEF RequestMirror, TypeOK
<1>7. CASE RequestDies(c)
  BY <1>7, RequestTypes DEF RequestDies, TypeOK
<1>8. QED
  BY <1>1, <1>2, <1>4, <1>5, <1>6, <1>7 DEF ClientStep

\* MaybeEnqueueProcessing keeps the types.
LEMMA TemplateImportType ==
  ASSUME TypeOK, NEW j \in Jobs, TemplateImport(j)
  PROVE  TypeOK'
<1>1. row' = [row EXCEPT ![j] = Requeued(row[j])] /\ row[j] \in RowType
  BY DEF TemplateImport, TypeOK
<1>2. row' \in [Jobs -> RowType]
  BY <1>1, RowTypes DEF TypeOK
<1>3. QED
  BY <1>2 DEF TemplateImport, TypeOK

\* OnTranscriptCompleted keeps the types.
LEMMA CallbackStepType ==
  ASSUME TypeOK, NEW k \in Callbacks, CallbackStep(k)
  PROVE  TypeOK'
<1>1. callback[k] \in CallbackType /\ NoCallback \in CallbackType
  BY DEF TypeOK, CallbackType, NoCallback
<1>2. ASSUME NEW s \in Sessions, CallbackList(k, s)  PROVE TypeOK'
  <2> DEFINE waiting == {j \in Jobs : SessionOf[j] = s /\ row[j].state = "awaiting_whisper"}
             new == [session |-> s,
                     list    |-> {[job |-> j, attempt |-> row[j].attempt] : j \in waiting},
                     cur     |-> NoJob]
  <2>1. \A j \in waiting : [job |-> j, attempt |-> row[j].attempt] \in
          [job : Jobs, attempt : 0..AttemptCap]
    BY DEF TypeOK, RowType
  <2>2. new \in CallbackType
    BY <2>1 DEF CallbackType
  <2>3. callback' = [callback EXCEPT ![k] = new]
    BY <1>2 DEF CallbackList
  <2>4. QED
    BY <1>2, <2>2, <2>3 DEF CallbackList, TypeOK
<1>3. CASE CallbackFlip(k)
  <2>1. PICK r \in callback[k].list :
          /\ row' = [row EXCEPT ![r.job] = Updated(@, "ready", r.attempt)]
          /\ callback' = [callback EXCEPT ![k].list = @ \ {r}, ![k].cur = r.job]
    BY <1>3 DEF CallbackFlip
  <2>2. r.job \in Jobs /\ r.attempt \in 0..AttemptCap
    BY <1>1 DEF CallbackType
  <2>3. "ready" \in States
    BY DEF States, TerminalStates
  <2>4. row' = [row EXCEPT ![r.job] = Updated(row[r.job], "ready", r.attempt)]
    BY <2>1 DEF TypeOK
  <2>5. row' \in [Jobs -> RowType]
    <3>1. row \in [Jobs -> RowType]
      BY DEF TypeOK
    <3>2. Updated(row[r.job], "ready", r.attempt) \in RowType
      BY <2>2, <2>3, <3>1, RowTypes
    <3>3. QED
      BY <2>4, <3>1, <3>2
  <2>6. [callback[k] EXCEPT !.list = @ \ {r}, !.cur = r.job] \in CallbackType
    BY <1>1, <2>2 DEF CallbackType
  <2>7. callback' \in [Callbacks -> CallbackType]
    BY <2>1, <2>6 DEF TypeOK
  <2>8. QED
    BY <1>3, <2>5, <2>7 DEF CallbackFlip, TypeOK
<1>4. CASE CallbackUnlock(k)
  <2>1. callback[k].cur \in Jobs
    BY <1>1, <1>4 DEF CallbackUnlock, CallbackType
  <2>2. row' = [row EXCEPT ![callback[k].cur] = Unlocked(row[callback[k].cur])]
    BY <1>4 DEF CallbackUnlock, TypeOK
  <2>3. row' \in [Jobs -> RowType]
    BY <2>1, <2>2, RowTypes DEF TypeOK
  <2>4. callback' \in [Callbacks -> CallbackType]
    BY <1>1, <1>4 DEF CallbackUnlock, CallbackType, TypeOK
  <2>5. QED
    BY <1>4, <2>3, <2>4 DEF CallbackUnlock, TypeOK
<1>5. CASE CallbackMirror(k)
  <2>1. "ready" \in States
    BY DEF States, TerminalStates
  <2>2. QED
    BY <1>1, <1>5, <2>1 DEF CallbackMirror, TypeOK
<1>6. CASE CallbackDies(k)
  BY <1>1, <1>6 DEF CallbackDies, TypeOK
<1>7. QED
  BY <1>2, <1>3, <1>4, <1>5, <1>6 DEF CallbackStep

\* Every step of the system keeps the types.
LEMMA NextType == TypeOK /\ [Next]_vars => TypeOK'
<1> SUFFICES ASSUME TypeOK, [Next]_vars  PROVE TypeOK'
  OBVIOUS
<1>1. CASE UNCHANGED vars
  BY <1>1 DEF vars, TypeOK
<1>2. CASE Next
  BY <1>2, WorkerStepType, TimeType, ReconcilerType, ClientStepType, TemplateImportType,
     CallbackStepType DEF Next
<1>3. QED
  BY <1>1, <1>2

\* The tables and the goroutines only ever hold what they are meant to hold.
THEOREM TypeCorrect == Spec => []TypeOK
  BY InitType, NextType, PTL DEF Spec

-----------------------------------------------------------------------------
(* What the others can do to a row, and what a worker's list looks like *)

OthersStep ==
  \/ Time
  \/ Reconciler
  \/ \E c \in Clients : ClientStep(c)
  \/ \E j \in Jobs : TemplateImport(j)
  \/ \E k \in Callbacks : CallbackStep(k)

\* Nobody but a worker counts tries, starts a stage or takes a lock.
Untouched(j) ==
  /\ \/ row'[j].state = row[j].state /\ row'[j].attempt = row[j].attempt
     \/ row'[j].state \in {"queued", "canceled", "ready"}
  /\ row'[j].lock # "free" => row[j].lock # "free"

\* Requests, callbacks, the reconciler and time leave a row's progress alone.
LEMMA OthersStepRow ==
  ASSUME TypeOK, OthersStep, NEW j \in Jobs
  PROVE  UNCHANGED <<worker, faulted>> /\ Untouched(j)
<1> USE DEF Untouched
<1>0. row[j] \in RowType
  BY DEF TypeOK
<1>1. CASE Time
  BY <1>0, <1>1 DEF Time, BecomeDue, LockExpires, GrowOld, PollExpires, TypeOK, RowType
<1>2. CASE Reconciler
  <2>1. ASSUME NEW r \in recon, ReconReset(r)  PROVE UNCHANGED <<worker, faulted>> /\ Untouched(j)
    <3>1. \/ row'[j] = row[j]
          \/ row'[j] = [row[j] EXCEPT !.due = TRUE, !.lock = "free", !.old = FALSE]
      BY <1>0, <2>1 DEF ReconReset, TypeOK, RowType
    <3>2. QED
      BY <1>0, <2>1, <3>1 DEF ReconReset, RowType
  <2>2. QED
    BY <1>2, <2>1 DEF Reconciler, ReconList, ReconMirror, ReconCrash
<1>3. ASSUME NEW c \in Clients, ClientStep(c)
      PROVE  UNCHANGED <<worker, faulted>> /\ Untouched(j)
  <2>1. UNCHANGED <<worker, faulted>>
    BY <1>3 DEF ClientStep, AttachRead, AttachUpsert, Retry, Cancel, Request, RequestMirror,
                RequestDies
  <2>2. CASE AttachUpsert(c)
    <3>1. row'[j] = row[j] \/ row'[j] = [row[j] EXCEPT !.old = FALSE] \/ row'[j] = Requeued(row[j])
      BY <2>2 DEF AttachUpsert, TypeOK
    <3>2. QED
      BY <1>0, <2>1, <3>1, RowTypes DEF RowType
  <2>3. ASSUME NEW s \in Sessions, Retry(c, s)  PROVE Untouched(j)
    <3>1. row'[j] = row[j] \/ row'[j] = Requeued(row[j])
      BY <2>3 DEF Retry
    <3>2. QED
      BY <1>0, <3>1, RowTypes
  <2>4. ASSUME NEW s \in Sessions, Cancel(c, s)  PROVE Untouched(j)
    <3>1. row'[j] = row[j] \/ row'[j] = [row[j] EXCEPT !.state = "canceled", !.old = FALSE]
      BY <2>4 DEF Cancel
    <3>2. QED
      BY <1>0, <3>1 DEF RowType
  <2>5. CASE (\E i \in Jobs : AttachRead(c, i)) \/ RequestMirror(c) \/ RequestDies(c)
    BY <2>1, <2>5 DEF AttachRead, RequestMirror, RequestDies
  <2>6. QED
    BY <1>3, <2>1, <2>2, <2>3, <2>4, <2>5 DEF ClientStep
<1>4. ASSUME NEW i \in Jobs, TemplateImport(i)
      PROVE  UNCHANGED <<worker, faulted>> /\ Untouched(j)
  <2>1. row'[j] = row[j] \/ row'[j] = Requeued(row[j])
    BY <1>4 DEF TemplateImport, TypeOK
  <2>2. QED
    BY <1>0, <1>4, <2>1, RowTypes DEF TemplateImport
<1>5. ASSUME NEW k \in Callbacks, CallbackStep(k)
      PROVE  UNCHANGED <<worker, faulted>> /\ Untouched(j)
  <2>1. UNCHANGED <<worker, faulted>>
    BY <1>5 DEF CallbackStep, CallbackList, CallbackFlip, CallbackUnlock, CallbackMirror,
                CallbackDies
  <2>2. CASE CallbackFlip(k)
    <3>1. PICK r \in callback[k].list : row' = [row EXCEPT ![r.job] = Updated(@, "ready", r.attempt)]
      BY <2>2 DEF CallbackFlip
    <3>2. row'[j] = row[j] \/ row'[j] = Updated(row[j], "ready", r.attempt)
      BY <3>1 DEF TypeOK
    <3>3. /\ Updated(row[j], "ready", r.attempt).state = "ready"
          /\ Updated(row[j], "ready", r.attempt).lock = row[j].lock
      BY <1>0 DEF Updated, RowType
    <3>4. QED
      BY <2>1, <3>2, <3>3
  <2>3. CASE CallbackUnlock(k)
    <3>1. row'[j] = row[j] \/ row'[j] = Unlocked(row[j])
      BY <2>3 DEF CallbackUnlock, TypeOK
    <3>2. QED
      BY <1>0, <2>1, <3>1, RowTypes
  <2>4. CASE (\E s \in Sessions : CallbackList(k, s)) \/ CallbackMirror(k) \/ CallbackDies(k)
    BY <2>1, <2>4 DEF CallbackList, CallbackMirror, CallbackDies
  <2>5. QED
    BY <1>5, <2>2, <2>3, <2>4 DEF CallbackStep
<1>6. QED
  BY <1>1, <1>2, <1>3, <1>4, <1>5 DEF OthersStep

\* They do not touch the workers, nor the history of faults.
LEMMA OthersStepWorker == OthersStep => UNCHANGED <<worker, faulted>>
  BY DEF OthersStep, Time, BecomeDue, LockExpires, GrowOld, PollExpires,
         Reconciler, ReconList, ReconReset, ReconMirror, ReconCrash,
         ClientStep, AttachRead, AttachUpsert, Retry, Cancel, Request, RequestMirror, RequestDies,
         TemplateImport,
         CallbackStep, CallbackList, CallbackFlip, CallbackUnlock, CallbackMirror, CallbackDies

\* A step is one of a worker or one of the others.
LEMMA NextSplits == Next => OthersStep \/ \E w \in Workers : WorkerStep(w)
  BY DEF Next, OthersStep

\* What RunShape and PlansWithinBudget say of one worker.
ShapeOf(r) ==
  r.stage = "final" =>
    /\ r.todo # <<>>
    /\ r.todo[Len(r.todo)] = Unlock
    /\ \A i \in 1..Len(r.todo) : r.todo[i].op = "state" => r.todo[i].to \notin MidStages

PlanOf(r) ==
  \A i \in 1..Len(r.todo) : r.todo[i].op = "state" => WithinBudget(r.todo[i].to, r.attempt)

Plans == \A w \in Workers : ShapeOf(worker[w]) /\ PlanOf(worker[w])

\* An idle worker plans nothing.
LEMMA IdlePlan == ShapeOf(Idle) /\ PlanOf(Idle)
  BY IdleType DEF ShapeOf, PlanOf

\* The budget is about the states a job is set aside in, not the working ones.
LEMMA MidStagesInBudget == \A s \in MidStages : \A n : WithinBudget(s, n)
  BY DEF MidStages, WithinBudget

\* Working off a list keeps its shape.
LEMMA RestPlan ==
  ASSUME TypeOK, NEW w \in Workers, worker[w].todo # <<>>,
         ShapeOf(worker[w]), PlanOf(worker[w])
  PROVE  ShapeOf(Rest(w)) /\ PlanOf(Rest(w))
<1> DEFINE s == worker[w].todo
           r == [worker[w] EXCEPT !.todo = Tail(@)]
<1>1. s \in Seq(Statements) /\ worker[w] # Idle /\ worker[w] \in WorkerType
  BY ExecutingType DEF TypeOK
<1>2. /\ Len(s) \in Nat /\ Len(s) >= 1 /\ Tail(s) \in Seq(Statements) /\ Len(Tail(s)) = Len(s) - 1
      /\ \A i \in 1..Len(Tail(s)) : Tail(s)[i] = s[i + 1] /\ i + 1 \in 1..Len(s)
  BY <1>1, TailOfStatements
<1>3. r.todo = Tail(s) /\ r.stage = worker[w].stage /\ r.attempt = worker[w].attempt
  BY <1>1 DEF WorkerType
<1> HIDE DEF r
<1>4. PlanOf(r)
  BY <1>2, <1>3 DEF PlanOf
<1>5. CASE r.stage = "final" /\ Len(s) # 1
  <2>2. Tail(s) # <<>> /\ Tail(s)[Len(Tail(s))] = s[Len(s)]
    BY <1>1, <1>5, LastOfTail
  <2>3. s[Len(s)] = Unlock /\ \A i \in 1..Len(s) : s[i].op = "state" => s[i].to \notin MidStages
    BY <1>3, <1>5 DEF ShapeOf
  <2>4. ShapeOf(r)
    BY <1>2, <1>3, <2>2, <2>3 DEF ShapeOf
  <2>5. QED
    BY <1>3, <1>4, <1>5, <2>4 DEF Rest, r
<1>6. CASE r.stage # "final"
  BY <1>3, <1>4, <1>6 DEF Rest, r, ShapeOf
<1>7. CASE worker[w].stage = "final" /\ Len(s) = 1
  BY <1>7, IdlePlan DEF Rest
<1>8. QED
  BY <1>3, <1>5, <1>6, <1>7

\* What a worker decides on has the shape and keeps to the budget.
LEMMA DecidedPlan ==
  ASSUME TypeOK, NEW w \in Workers, NEW stage \in Stages \union {"final"},
         NEW todo \in Seq(Statements), Decided(w, stage, todo)
  PROVE  ShapeOf(worker'[w]) /\ PlanOf(worker'[w])
<1>1. worker[w] \in WorkerType /\ worker[w] # Idle
  BY IdleType DEF TypeOK, Decided, Stages
<1>2. /\ worker'[w].stage = stage /\ worker'[w].todo = todo
      /\ worker'[w].attempt = worker[w].attempt
  BY <1>1 DEF Decided, Proceed, TypeOK, WorkerType
<1>3. CASE stage # "final"
  BY <1>2, <1>3, MidStagesInBudget DEF Decided, ShapeOf, PlanOf
<1>4. CASE stage = "final"
  <2>1. /\ Len(todo) = 4 /\ todo[4] = Unlock
        /\ todo[1].to \notin MidStages /\ WithinBudget(todo[1].to, worker[w].attempt)
        /\ todo[2].op # "state" /\ todo[3].op # "state" /\ todo[4].op # "state"
    BY <1>4, StatementFields DEF Decided
  <2>2. \A i \in 1..Len(todo) : todo[i].op = "state" => i = 1
    BY <2>1
  <2>3. todo # <<>>
    <3>1. Len(<<>>) = 0
      OBVIOUS
    <3>2. Len(todo) # 0
      BY <2>1
    <3>3. QED
      BY <3>1, <3>2, Zenon
  <2>4. todo[Len(todo)] = Unlock
    BY <2>1
  <2>5. \A i \in 1..Len(todo) : todo[i].op = "state" =>
          todo[i].to \notin MidStages /\ WithinBudget(todo[i].to, worker[w].attempt)
    BY <2>1, <2>2
  <2>6. QED
    BY <1>2, <2>3, <2>4, <2>5 DEF ShapeOf, PlanOf
<1>5. QED
  BY <1>3, <1>4

\* Every step of a worker keeps the shape and the budget of the lists.
LEMMA WorkerStepPlans ==
  ASSUME TypeOK, Plans, NEW w \in Workers, WorkerStep(w)
  PROVE  Plans'
<1>1. ShapeOf(worker[w]) /\ PlanOf(worker[w])
  BY DEF Plans
<1>2. \A v \in Workers \ {w} : worker'[v] = worker[v]
  BY DEF WorkerStep, Claim, Decide, Advance, Fail, AwaitNative, FallBack, AwaitWhisper, Complete,
         Proceed, Execute, ExecState, ExecUnlock, ExecMirror, Crash, LoseStatement, TypeOK
<1>3. SUFFICES ShapeOf(worker'[w]) /\ PlanOf(worker'[w])
  BY <1>2 DEF Plans, ShapeOf, PlanOf
<1>4. ASSUME NEW j \in Jobs, Claim(w, j)  PROVE ShapeOf(worker'[w]) /\ PlanOf(worker'[w])
  BY <1>4 DEF Claim, TypeOK, ShapeOf, PlanOf
<1>5. CASE Decide(w)
  BY <1>5, DecideShape, DecidedPlan
<1>6. CASE Execute(w) \/ LoseStatement(w)
  <2>1. worker[w].todo # <<>> /\ worker'[w] = Rest(w)
    BY <1>6 DEF Execute, ExecState, ExecUnlock, ExecMirror, LoseStatement, NextIs, TypeOK
  <2>2. QED
    BY <1>1, <2>1, RestPlan
<1>7. CASE Crash(w)
  BY <1>7, IdlePlan DEF Crash, TypeOK
<1>8. QED
  BY <1>4, <1>5, <1>6, <1>7 DEF WorkerStep

\* At all times every worker's list has the shape and keeps to the budget.
LEMMA PlansHold == Spec => []Plans
<1>1. Init => Plans
  BY IdlePlan DEF Init, Plans
<1>2. TypeOK /\ Plans /\ [Next]_vars => Plans'
  <2> SUFFICES ASSUME TypeOK, Plans, [Next]_vars  PROVE Plans'
    OBVIOUS
  <2>1. CASE OthersStep
    <3>1. worker' = worker
      BY <2>1, OthersStepWorker
    <3>2. QED
      BY <3>1 DEF Plans, ShapeOf, PlanOf
  <2>2. CASE UNCHANGED vars
    BY <2>2 DEF vars, Plans, ShapeOf, PlanOf
  <2>3. QED
    BY <2>1, <2>2, NextSplits, WorkerStepPlans
<1>3. QED
  BY <1>1, <1>2, TypeCorrect, PTL DEF Spec

\* A decision leaves the rows alone, and a last one starts with a state to write.
LEMMA DecideKeeps ==
  ASSUME TypeOK, NEW w \in Workers, Decide(w)
  PROVE  /\ UNCHANGED <<row, faulted>>
         /\ worker'[w].job = worker[w].job
         /\ worker[w].todo = <<>> /\ worker[w].stage \in Stages
         /\ worker'[w].stage = "final" =>
              worker'[w].todo # <<>> /\ Head(worker'[w].todo).op = "state"
<1>1. PICK stage \in Stages \union {"final"}, todo \in Seq(Statements) : Decided(w, stage, todo)
  BY DecideShape
<1>2. worker[w] \in WorkerType /\ worker[w] # Idle
  BY <1>1, IdleType DEF TypeOK, Decided, Stages
<1>3. /\ worker'[w].job = worker[w].job /\ worker'[w].stage = stage /\ worker'[w].todo = todo
      /\ UNCHANGED <<row, faulted>>
  BY <1>1, <1>2 DEF Decided, Proceed, TypeOK, WorkerType
<1>4. ASSUME stage = "final"  PROVE todo # <<>> /\ Head(todo).op = "state"
  <2>1. Len(todo) = 4 /\ todo[1].op = "state"
    BY <1>1, <1>4 DEF Decided
  <2>2. todo # <<>>
    BY <2>1
  <2>3. Head(todo) = todo[1]
    BY <2>2, TailOfStatements
  <2>4. QED
    BY <2>1, <2>2, <2>3
<1>5. QED
  BY <1>1, <1>3, <1>4 DEF Decided

-----------------------------------------------------------------------------
(* Budget of retries *)

\* Nor about the states that requests and callbacks write.
LEMMA RestingInBudget == \A s \in {"queued", "canceled", "ready"} : \A n : WithinBudget(s, n)
  BY DEF WithinBudget

\* A step of a worker keeps every row within its budget.
LEMMA WorkerStepBudget ==
  ASSUME TypeOK, Plans, RetryBudget, NEW w \in Workers, WorkerStep(w)
  PROVE  RetryBudget'
<1>1. CASE ExecState(w)
  <2> DEFINE i == worker[w].job
             s == Head(worker[w].todo)
  <2>1. worker[w].todo # <<>> /\ s.op = "state"
    BY <1>1 DEF ExecState, NextIs
  <2>2. i \in Jobs /\ s = worker[w].todo[1] /\ 1 \in 1..Len(worker[w].todo)
    BY <2>1, ExecutingType, TailOfStatements
  <2>3. WithinBudget(s.to, worker[w].attempt)
    BY <2>1, <2>2 DEF Plans, PlanOf
  <2>4. /\ row'[i].state = s.to /\ row'[i].attempt = worker[w].attempt
        /\ \A j \in Jobs \ {i} : row'[j] = row[j]
    BY <1>1, <2>2 DEF ExecState, Updated, TypeOK, RowType
  <2>5. QED
    BY <2>3, <2>4 DEF RetryBudget
<1>2. CASE ~ExecState(w)
  <2>1. ASSUME NEW j \in Jobs
        PROVE  row'[j].state = row[j].state /\ row'[j].attempt = row[j].attempt
    <3>1. row[j] \in RowType
      BY DEF TypeOK
    <3>2. \/ row'[j] = row[j]
          \/ row'[j] = [row[j] EXCEPT !.lock = "held", !.old = FALSE]
          \/ row'[j] = Unlocked(row[j])
      <4>1. ASSUME NEW i \in Jobs, Claim(w, i)
            PROVE  row'[j] = row[j] \/ row'[j] = [row[j] EXCEPT !.lock = "held", !.old = FALSE]
        <5>1. row' = [row EXCEPT ![i] = [row[i] EXCEPT !.lock = "held", !.old = FALSE]]
          BY <4>1 DEF Claim, TypeOK
        <5>2. QED
          BY <5>1 DEF TypeOK
      <4>2. CASE Decide(w)
        BY <4>2, DecideKeeps
      <4>3. CASE ExecUnlock(w)
        BY <4>3 DEF ExecUnlock, TypeOK
      <4>4. CASE ExecMirror(w) \/ Crash(w) \/ LoseStatement(w)
        BY <4>4 DEF ExecMirror, Crash, LoseStatement
      <4>5. QED
        BY <1>2, <4>1, <4>2, <4>3, <4>4 DEF WorkerStep, Execute
    <3>3. CASE row'[j] = [row[j] EXCEPT !.lock = "held", !.old = FALSE]
      BY <3>1, <3>3 DEF RowType
    <3>4. CASE row'[j] = Unlocked(row[j])
      BY <3>1, <3>4 DEF RowType, Unlocked
    <3>5. QED
      BY <3>2, <3>3, <3>4
  <2>2. QED
    BY <2>1 DEF RetryBudget
<1>3. QED
  BY <1>1, <1>2

\* However the statements of workers, requests and callbacks interleave, no
\* recording is set aside for another try beyond the number of tries allowed.
THEOREM BudgetKept == Spec => []RetryBudget
<1>1. Init => RetryBudget
  BY DEF Init, RetryBudget, Absent, WithinBudget
<1>2. TypeOK /\ Plans /\ RetryBudget /\ [Next]_vars => RetryBudget'
  <2> SUFFICES ASSUME TypeOK, Plans, RetryBudget, [Next]_vars  PROVE RetryBudget'
    OBVIOUS
  <2>1. CASE OthersStep
    BY <2>1, OthersStepRow, RestingInBudget DEF Untouched, RetryBudget
  <2>2. CASE UNCHANGED vars
    BY <2>2 DEF vars, RetryBudget
  <2>3. QED
    BY <2>1, <2>2, NextSplits, WorkerStepBudget
<1>3. QED
  BY <1>1, <1>2, TypeCorrect, PlansHold, PTL DEF Spec

-----------------------------------------------------------------------------
(* Working states and locks have an owner *)

\* What a step of w leaves of the other workers.
LEMMA OnlyItself ==
  ASSUME TypeOK, NEW w \in Workers, WorkerStep(w)
  PROVE  \A v \in Workers \ {w} : worker'[v] = worker[v]
  BY DEF WorkerStep, Claim, Decide, Advance, Fail, AwaitNative, FallBack, AwaitWhisper, Complete,
         Proceed, Execute, ExecState, ExecUnlock, ExecMirror, Crash, LoseStatement, TypeOK

\* Only the deferred Unlock ends a run: after any other statement w goes on.
LEMMA GoesOn ==
  ASSUME TypeOK, Plans, NEW w \in Workers, worker[w].todo # <<>>,
         Head(worker[w].todo).op # "unlock"
  PROVE  Rest(w).job = worker[w].job /\ Rest(w).stage = worker[w].stage
<1>1. worker[w] \in WorkerType /\ worker[w] # Idle /\ worker[w].todo \in Seq(Statements)
  BY ExecutingType DEF TypeOK
<1>2. ~(worker[w].stage = "final" /\ Len(worker[w].todo) = 1)
  <2> SUFFICES ASSUME worker[w].stage = "final", Len(worker[w].todo) = 1  PROVE FALSE
    OBVIOUS
  <2>1. worker[w].todo[1] = Unlock
    BY DEF Plans, ShapeOf
  <2>2. Head(worker[w].todo) = Unlock
    BY <1>1, <2>1, TailOfStatements
  <2>3. QED
    BY <2>2, StatementFields
<1>3. QED
  BY <1>1, <1>2 DEF Rest, WorkerType

\* A step of a worker leaves no working row without a worker to finish it.
LEMMA WorkerStepMidStage ==
  ASSUME TypeOK, Plans, MidStageOwned, NEW w \in Workers, WorkerStep(w)
  PROVE  MidStageOwned'
<1> SUFFICES ASSUME NEW j \in Jobs, row'[j].state \in MidStages,  j \notin faulted'
             PROVE  \E v \in Workers : (Running(v, j) /\ WillFinish(v))'
  BY DEF MidStageOwned
<1>1. \A v \in Workers \ {w} : worker'[v] = worker[v]
  BY OnlyItself
<1>2. ASSUME row[j].state \in MidStages, j \notin faulted,
             Running(w, j) /\ WillFinish(w) =>
               worker'[w].job = j /\ (worker'[w].stage = "final" =>
                 worker'[w].todo # <<>> /\ Head(worker'[w].todo).op = "state")
      PROVE  \E v \in Workers : (Running(v, j) /\ WillFinish(v))'
  <2>1. PICK v \in Workers : Running(v, j) /\ WillFinish(v)
    BY <1>2 DEF MidStageOwned
  <2>2. QED
    BY <1>1, <1>2, <2>1 DEF Running, WillFinish, NextIs
<1>3. ASSUME NEW i \in Jobs, Claim(w, i)
      PROVE  \E v \in Workers : (Running(v, j) /\ WillFinish(v))'
  <2>1. row[j].state = row'[j].state
    BY <1>3 DEF Claim, TypeOK, RowType
  <2>2. i # j
    BY <1>3, <2>1 DEF Claim, Claimable, ClaimableStates, MidStages
  <2>3. j \notin faulted /\ ~Running(w, j)
    BY <1>3, <2>2, IdleType, ConstantsAssumption DEF Claim, Running
  <2>4. QED
    BY <1>2, <2>1, <2>3
<1>4. CASE Decide(w)
  BY <1>2, <1>4, DecideKeeps DEF Running
<1>5. CASE ExecState(w)
  <2>1. /\ worker[w].todo # <<>> /\ Head(worker[w].todo).op = "state"
        /\ worker'[w] = Rest(w) /\ faulted' = faulted
    BY <1>5 DEF ExecState, NextIs, TypeOK
  <2>2. CASE Running(w, j)
    <3>1. row'[j].state = Head(worker[w].todo).to
      BY <1>5, <2>2 DEF ExecState, Running, Updated, TypeOK, RowType
    <3>2. worker[w].todo[1] = Head(worker[w].todo) /\ 1 \in 1..Len(worker[w].todo)
      BY <2>1, ExecutingType, TailOfStatements
    <3>3. worker[w].stage # "final"
      BY <2>1, <3>1, <3>2 DEF Plans, ShapeOf
    <3>4. worker'[w].job = j /\ worker'[w].stage # "final"
      BY <2>1, <2>2, <3>3, GoesOn DEF Running
    <3>5. QED
      BY <3>4 DEF Running, WillFinish
  <2>3. CASE ~Running(w, j)
    <3>1. row'[j] = row[j]
      BY <1>5, <2>3 DEF ExecState, Running, TypeOK
    <3>2. QED
      BY <1>2, <2>1, <2>3, <3>1
  <2>4. QED
    BY <2>2, <2>3
<1>6. CASE ExecUnlock(w)
  <2>1. /\ row'[j].state = row[j].state /\ faulted' = faulted
        /\ worker[w].todo # <<>> /\ Head(worker[w].todo).op = "unlock"
        /\ worker'[w] = Rest(w)
    BY <1>6 DEF ExecUnlock, NextIs, Unlocked, TypeOK, RowType
  <2>2. WillFinish(w) => worker[w].stage # "final"
    BY <2>1 DEF WillFinish, NextIs
  <2>3. worker[w].stage # "final" => Rest(w).job = worker[w].job /\ Rest(w).stage = worker[w].stage
    <3>1. worker[w] \in WorkerType /\ worker[w] # Idle
      BY <2>1, ExecutingType DEF TypeOK
    <3>2. QED
      BY <3>1 DEF Rest, WorkerType
  <2>4. QED
    BY <1>2, <2>1, <2>2, <2>3 DEF Running
<1>7. CASE ExecMirror(w) \/ (LoseStatement(w) /\ NextIs(w, "mirror"))
  <2>1. /\ row' = row /\ faulted' = faulted
        /\ worker[w].todo # <<>> /\ Head(worker[w].todo).op = "mirror"
        /\ worker'[w] = Rest(w)
    BY <1>7 DEF ExecMirror, LoseStatement, NextIs, TypeOK
  <2>2. WillFinish(w) => worker[w].stage # "final"
    BY <2>1 DEF WillFinish, NextIs
  <2>3. QED
    BY <1>2, <2>1, <2>2, GoesOn DEF Running
<1>8. CASE Crash(w) \/ (LoseStatement(w) /\ ~NextIs(w, "mirror"))
  <2>1. row' = row /\ faulted' = faulted \union {worker[w].job}
    BY <1>8 DEF Crash, LoseStatement
  <2>2. QED
    BY <1>2, <2>1 DEF Running
<1>9. QED
  BY <1>3, <1>4, <1>5, <1>6, <1>7, <1>8 DEF WorkerStep, Execute

\* No row is in a working state at the start.
LEMMA MidStageInit == Init => MidStageOwned
  BY DEF Init, MidStageOwned, Absent, MidStages

\* A recording never stays "fetching" ... "embedding" without a worker that has
\* still to write how its run ended, unless a process died or a write was lost.
THEOREM MidStageHasOwner == Spec => []MidStageOwned
<1>1. TypeOK /\ Plans /\ MidStageOwned /\ [Next]_vars => MidStageOwned'
  <2> SUFFICES ASSUME TypeOK, Plans, MidStageOwned, [Next]_vars  PROVE MidStageOwned'
    OBVIOUS
  <2>1. CASE OthersStep
    <3>1. worker' = worker /\ faulted' = faulted
      BY <2>1, OthersStepWorker
    <3>2. \A j \in Jobs : row'[j].state \in MidStages => row[j].state \in MidStages
      BY <2>1, OthersStepRow DEF Untouched, MidStages
    <3>3. QED
      BY <3>1, <3>2 DEF MidStageOwned, Running, WillFinish, NextIs
  <2>2. CASE UNCHANGED vars
    BY <2>2 DEF vars, MidStageOwned, Running, WillFinish, NextIs
  <2>3. QED
    BY <2>1, <2>2, NextSplits, WorkerStepMidStage
<1>2. QED
  BY <1>1, MidStageInit, TypeCorrect, PlansHold, PTL DEF Spec

\* A step of a worker leaves no locked row without a worker that runs it.
LEMMA WorkerStepLock ==
  ASSUME TypeOK, Plans, LockOwned, NEW w \in Workers, WorkerStep(w)
  PROVE  LockOwned'
<1> SUFFICES ASSUME NEW j \in Jobs, row'[j].lock # "free", j \notin faulted'
             PROVE  \E v \in Workers : Running(v, j)'
  BY DEF LockOwned
<1>1. \A v \in Workers \ {w} : worker'[v] = worker[v]
  BY OnlyItself
<1>2. ASSUME row[j].lock # "free", j \notin faulted,
             Running(w, j) => worker'[w].job = j
      PROVE  \E v \in Workers : Running(v, j)'
  <2>1. PICK v \in Workers : Running(v, j)
    BY <1>2 DEF LockOwned
  <2>2. QED
    BY <1>1, <1>2, <2>1 DEF Running
<1>3. ASSUME NEW i \in Jobs, Claim(w, i)  PROVE \E v \in Workers : Running(v, j)'
  <2>1. CASE i = j
    BY <1>3, <2>1 DEF Claim, Running, TypeOK
  <2>2. CASE i # j
    <3>1. row'[j] = row[j] /\ j \notin faulted /\ ~Running(w, j)
      BY <1>3, <2>2, IdleType, ConstantsAssumption DEF Claim, Running, TypeOK
    <3>2. QED
      BY <1>2, <3>1
  <2>3. QED
    BY <2>1, <2>2
<1>4. CASE Decide(w)
  BY <1>2, <1>4, DecideKeeps DEF Running
<1>5. CASE ExecState(w) \/ ExecMirror(w) \/ (LoseStatement(w) /\ NextIs(w, "mirror"))
  <2>1. /\ worker[w].todo # <<>> /\ Head(worker[w].todo).op # "unlock"
        /\ worker'[w] = Rest(w) /\ faulted' = faulted
    BY <1>5 DEF ExecState, ExecMirror, LoseStatement, NextIs, TypeOK
  <2>2. row'[j].lock = row[j].lock
    <3>1. CASE ExecState(w)
      BY <3>1 DEF ExecState, Updated, TypeOK, RowType
    <3>2. CASE ~ExecState(w)
      BY <1>5, <3>2 DEF ExecMirror, LoseStatement
    <3>3. QED
      BY <3>1, <3>2
  <2>3. QED
    BY <1>2, <2>1, <2>2, GoesOn DEF Running
<1>6. CASE ExecUnlock(w)
  <2>1. worker[w].job # j
    BY <1>6 DEF ExecUnlock, Unlocked, TypeOK, RowType
  <2>2. row'[j] = row[j] /\ faulted' = faulted
    BY <1>6, <2>1 DEF ExecUnlock, TypeOK
  <2>3. QED
    BY <1>2, <2>1, <2>2 DEF Running
<1>7. CASE Crash(w) \/ (LoseStatement(w) /\ ~NextIs(w, "mirror"))
  <2>1. row' = row /\ faulted' = faulted \union {worker[w].job}
    BY <1>7 DEF Crash, LoseStatement
  <2>2. QED
    BY <1>2, <2>1 DEF Running
<1>8. QED
  BY <1>3, <1>4, <1>5, <1>6, <1>7 DEF WorkerStep, Execute

\* No row is locked at the start.
LEMMA LockInit == Init => LockOwned
  BY DEF Init, LockOwned, Absent

\* A row is locked only while a worker runs it, unless a process died or a write
\* was lost: an import never waits for a lock that nobody will release.
THEOREM LockHasOwner == Spec => []LockOwned
<1>1. TypeOK /\ Plans /\ LockOwned /\ [Next]_vars => LockOwned'
  <2> SUFFICES ASSUME TypeOK, Plans, LockOwned, [Next]_vars  PROVE LockOwned'
    OBVIOUS
  <2>1. CASE OthersStep
    <3>1. worker' = worker /\ faulted' = faulted
      BY <2>1, OthersStepWorker
    <3>2. \A j \in Jobs : row'[j].lock # "free" => row[j].lock # "free"
      BY <2>1, OthersStepRow DEF Untouched
    <3>3. QED
      BY <3>1, <3>2 DEF LockOwned, Running
  <2>2. CASE UNCHANGED vars
    BY <2>2 DEF vars, LockOwned, Running
  <2>3. QED
    BY <2>1, <2>2, NextSplits, WorkerStepLock
<1>2. QED
  BY <1>1, LockInit, TypeCorrect, PlansHold, PTL DEF Spec
=============================================================================
