------------------------ MODULE ImportRefinement_proofs ------------------------
(***************************************************************************)
(* Proofs about the worker pool on its own (PoolSpec: no reconciler, no    *)
(* retry or attach by hand) for any recordings, workers and limits: one    *)
(* worker for each recording, a session that shows a working state has a   *)
(* recording at work, and the pool implements ImportLifecycle.             *)
(*                                                                         *)
(* All three need that no statement of a worker is lost: a worker whose    *)
(* write of "fetching" was lost goes on with a row that still looks        *)
(* claimable, and another worker takes it when the lock expires.           *)
(***************************************************************************)
EXTENDS ImportRefinement, SessionProcessing_proofs

StatementsKept == "statement" \notin Faults

-----------------------------------------------------------------------------
(* The lists of a pipeline *)

\* The states a run ends in.
Ends == {"failed_transient", "waiting", "failed_permanent", "waiting_native_transcript",
         "awaiting_whisper", "ready"}

\* Working states on the way; at the end one resting state, written first and
\* mirrored later.
PlanShape(stage, todo) ==
  /\ stage = "claimed" => todo = <<>>
  /\ stage # "final" =>
       \A i \in 1..Len(todo) : todo[i].op # "unlock" /\ todo[i].to \in MidStages
  /\ stage = "final" =>
       /\ todo # <<>> /\ todo[Len(todo)] = Unlock
       /\ \A i \in 1..Len(todo) :
            /\ todo[i].op = "state" => i = 1 /\ todo[i].to \in Ends
            /\ todo[i].op = "mirror" => todo[i].to \in Ends

PlanShapes == \A w \in Workers : PlanShape(worker[w].stage, worker[w].todo)

\* What a list still has to mirror.
Mirrors(todo) == \E i \in 1..Len(todo) : todo[i].op = "mirror"

\* A run that just begins says that it fetches, or gives up.
Opens(todo) ==
  todo # <<>> /\ Head(todo).op = "state" /\ Head(todo).to \in {"fetching", "failed_permanent"}

\* What a decision of w leaves to do.
Chosen(w, stage, todo) ==
  /\ Proceed(w, stage, todo)
  /\ worker[w].todo = <<>> /\ worker[w].stage \in Stages
  /\ stage # "claimed"
  /\ PlanShape(stage, todo)
  /\ stage = "final" => todo # <<>> /\ Head(todo).op = "state" /\ Mirrors(todo)
  /\ worker[w].stage = "claimed" => Opens(todo)

\* A list of four statements begins with its first.
LEMMA SomethingToDo ==
  ASSUME NEW s \in Seq(Statements), Len(s) = 4
  PROVE  s # <<>> /\ Head(s) = s[1]
<1>1. Len(<<>>) = 0 /\ Len(s) # 0
  OBVIOUS
<1>2. s # <<>>
  BY <1>1, Zenon
<1>3. QED
  BY <1>2, TailOfStatements

\* A pipeline that gives up or parks the job.
LEMMA LeavePlan ==
  ASSUME NEW to \in Ends, NEW mirrored \in Ends
  PROVE  LET todo == Leave(to, mirrored)
         IN  /\ todo \in Seq(Statements) /\ PlanShape("final", todo) /\ Mirrors(todo)
             /\ todo # <<>> /\ Head(todo).op = "state" /\ Head(todo).to = to
<1> DEFINE todo == Leave(to, mirrored)
<1>1. Ends \subseteq States
  BY DEF Ends, States, ClaimableStates, TerminalStates, TerminalFailed
<1>2. /\ todo \in Seq(Statements) /\ Len(todo) = 4
      /\ todo[1] = SetState(to) /\ todo[2] = Unlock
      /\ todo[3] = SetMirror(mirrored) /\ todo[4] = Unlock
  BY <1>1, LeaveType
<1>3. /\ todo[1].op = "state" /\ todo[1].to = to /\ todo[2].op = "unlock"
      /\ todo[3].op = "mirror" /\ todo[3].to = mirrored /\ todo[4].op = "unlock"
  BY <1>2 DEF SetState, SetMirror, Unlock
<1> HIDE DEF todo
<1>4. todo # <<>> /\ Head(todo) = todo[1]
  BY <1>2, SomethingToDo
<1>5. \A i \in 1..Len(todo) : i \in {1, 2, 3, 4}
  BY <1>2
<1>6. PlanShape("final", todo)
  BY <1>2, <1>3, <1>4, <1>5 DEF PlanShape
<1>7. Mirrors(todo)
  BY <1>2, <1>3 DEF Mirrors
<1>8. QED
  BY <1>2, <1>3, <1>4, <1>6, <1>7 DEF todo

\* A pipeline that ends well.
LEMMA FinishPlan ==
  /\ Finish \in Seq(Statements) /\ PlanShape("final", Finish) /\ Mirrors(Finish)
  /\ Finish # <<>> /\ Head(Finish).op = "state"
<1> DEFINE todo == Finish
<1>2. /\ todo \in Seq(Statements) /\ Len(todo) = 4
      /\ todo[1] = SetState("ready") /\ todo[2] = SetMirror("ready")
      /\ todo[3] = Unlock /\ todo[4] = Unlock
  BY FinishType
<1>3. /\ todo[1].op = "state" /\ todo[1].to = "ready"
      /\ todo[2].op = "mirror" /\ todo[2].to = "ready"
      /\ todo[3].op = "unlock" /\ todo[4].op = "unlock"
  BY <1>2 DEF SetState, SetMirror, Unlock
<1> HIDE DEF todo
<1>4. todo # <<>> /\ Head(todo) = todo[1]
  BY <1>2, SomethingToDo
<1>5. \A i \in 1..Len(todo) : i \in {1, 2, 3, 4}
  BY <1>2
<1>6. PlanShape("final", todo)
  BY <1>2, <1>3, <1>4, <1>5 DEF PlanShape, Ends
<1>7. Mirrors(todo)
  BY <1>2, <1>3 DEF Mirrors
<1>8. QED
  BY <1>2, <1>3, <1>4, <1>6, <1>7 DEF todo

\* Entering a stage unlocks nothing, and the first stage writes "fetching".
LEMMA EnteringPlan ==
  ASSUME NEW source, NEW stage \in Stages, stage # "claimed"
  PROVE  LET todo == WriteEach(Entering(source, stage))
         IN  /\ todo \in Seq(Statements) /\ PlanShape(stage, todo)
             /\ stage = "fetch" => Opens(todo)
<1> DEFINE e == Entering(source, stage)
           todo == WriteEach(e)
<1>0. stage # "final"
  BY DEF Stages
<1>1. todo \in Seq(Statements) /\ \A i \in 1..Len(todo) : todo[i].to \in MidStages
  BY EnteringType
<1>2. \/ e = <<>>
      \/ \E a \in MidStages : e = <<a>>
      \/ \E a, b \in MidStages : e = <<a, b>>
  BY DEF Entering, MidStages
<1>3. \A i \in 1..Len(todo) : todo[i].op # "unlock"
  <2>1. \A a : SetState(a).op # "unlock" /\ SetMirror(a).op # "unlock"
    BY DEF SetState, SetMirror
  <2>2. ASSUME NEW a, e = <<a>>  PROVE \A i \in 1..Len(todo) : todo[i].op # "unlock"
    <3>1. todo = <<SetState(a), SetMirror(a)>>
      BY <2>2 DEF WriteEach
    <3>2. QED
      BY <2>1, <3>1
  <2>3. ASSUME NEW a, NEW b, e = <<a, b>>  PROVE \A i \in 1..Len(todo) : todo[i].op # "unlock"
    <3>1. todo = <<SetState(a), SetMirror(a), SetState(b), SetMirror(b)>>
      BY <2>3 DEF WriteEach
    <3>2. QED
      BY <2>1, <3>1
  <2>4. CASE e = <<>>
    BY <2>4 DEF WriteEach
  <2>5. QED
    BY <1>2, <2>2, <2>3, <2>4
<1>4. stage = "fetch" => Opens(todo)
  <2> SUFFICES ASSUME stage = "fetch"  PROVE Opens(todo)
    OBVIOUS
  <2>1. todo = <<SetState("fetching"), SetMirror("fetching")>>
    BY DEF Entering, WriteEach
  <2>2. QED
    BY <2>1 DEF Opens, SetState
<1> HIDE DEF todo
<1>5. QED
  BY <1>0, <1>1, <1>3, <1>4 DEF PlanShape, todo

\* A failure is written, and mirrored, as a state a run ends in.
LEMMA FailureEnds ==
  ASSUME NEW kind, NEW attempt
  PROVE  /\ FailureState(kind, attempt) \in Ends /\ FailureMirror(kind) \in Ends
         /\ kind = "permanent" => FailureState(kind, attempt) = "failed_permanent"
  BY DEF FailureState, FailureMirror, Ends

\* Every decision of a pipeline leaves a list of that shape.
LEMMA DecideChoice ==
  ASSUME TypeOK, NEW w \in Workers, Decide(w)
  PROVE  \E stage \in Stages \union {"final"}, todo \in Seq(Statements) : Chosen(w, stage, todo)
<1>0. "final" \notin Stages /\ {"claimed", "transcript", "fallback", "index"} \subseteq Stages
  BY DEF Stages
<1>1. ASSUME NEW from \in Stages, Deciding(w, from), NEW to \in Ends, NEW mirrored \in Ends,
             from = "claimed" => to = "failed_permanent",
             Proceed(w, "final", Leave(to, mirrored))
      PROVE  \E stage \in Stages \union {"final"}, todo \in Seq(Statements) :
               Chosen(w, stage, todo)
  <2> DEFINE todo == Leave(to, mirrored)
  <2>1. /\ todo \in Seq(Statements) /\ PlanShape("final", todo) /\ Mirrors(todo)
        /\ todo # <<>> /\ Head(todo).op = "state" /\ Head(todo).to = to
    BY LeavePlan
  <2>2. worker[w].todo = <<>> /\ worker[w].stage = from /\ Proceed(w, "final", todo)
    BY <1>1 DEF Deciding
  <2> HIDE DEF todo
  <2>3. Chosen(w, "final", todo)
    BY <1>1, <2>1, <2>2 DEF Chosen, Opens
  <2>4. QED
    BY <2>1, <2>3
<1>2. CASE Advance(w)
  <2>1. PICK from \in Stages \ {"fallback", "index"} :
          /\ Deciding(w, from)
          /\ Proceed(w, StageAfter(Source(w), from),
                     WriteEach(Entering(Source(w), StageAfter(Source(w), from))))
    BY <1>2 DEF Advance
  <2> DEFINE next == StageAfter(Source(w), from)
             todo == WriteEach(Entering(Source(w), next))
  <2>2. next \in Stages /\ next # "claimed" /\ (from = "claimed" => next = "fetch")
    BY DEF StageAfter, Stages
  <2>3. worker[w].todo = <<>> /\ worker[w].stage = from /\ Proceed(w, next, todo)
    BY <2>1 DEF Deciding
  <2> HIDE DEF next
  <2>4. todo \in Seq(Statements) /\ PlanShape(next, todo) /\ (next = "fetch" => Opens(todo))
    BY <2>2, EnteringPlan
  <2> HIDE DEF todo
  <2>5. Chosen(w, next, todo)
    BY <1>0, <2>2, <2>3, <2>4 DEF Chosen
  <2>6. QED
    BY <2>2, <2>4, <2>5
<1>3. CASE Fail(w)
  <2>1. PICK from \in Stages : Deciding(w, from) /\
          \E kind \in Failures(Source(w), from) :
            Proceed(w, "final", Leave(FailureState(kind, worker[w].attempt), FailureMirror(kind)))
    BY <1>3 DEF Fail
  <2>2. PICK kind \in Failures(Source(w), from) :
          Proceed(w, "final", Leave(FailureState(kind, worker[w].attempt), FailureMirror(kind)))
    BY <2>1
  <2>3. from = "claimed" => kind = "permanent"
    BY <2>2 DEF Failures
  <2>4. QED
    BY <1>1, <2>1, <2>2, <2>3, FailureEnds
<1>4. CASE AwaitNative(w)
  BY <1>0, <1>1, <1>4 DEF AwaitNative, Ends
<1>5. CASE AwaitWhisper(w)
  BY <1>0, <1>1, <1>5 DEF AwaitWhisper, Ends
<1>6. CASE FallBack(w)
  <2> DEFINE todo == <<>>
  <2>1. todo \in Seq(Statements) /\ Len(todo) = 0
    OBVIOUS
  <2>2. /\ worker[w].todo = <<>> /\ worker[w].stage = "transcript"
        /\ Proceed(w, "fallback", todo)
    BY <1>6 DEF FallBack, Deciding
  <2> HIDE DEF todo
  <2>3. PlanShape("fallback", todo)
    BY <2>1 DEF PlanShape
  <2>4. Chosen(w, "fallback", todo)
    BY <1>0, <2>2, <2>3 DEF Chosen
  <2>5. QED
    BY <1>0, <2>1, <2>4
<1>7. CASE Complete(w)
  <2>1. worker[w].todo = <<>> /\ worker[w].stage = "index" /\ Proceed(w, "final", Finish)
    BY <1>7 DEF Complete, Deciding
  <2>2. Chosen(w, "final", Finish)
    BY <1>0, <2>1, FinishPlan DEF Chosen
  <2>3. QED
    BY <2>2, FinishPlan
<1>8. QED
  BY <1>2, <1>3, <1>4, <1>5, <1>6, <1>7 DEF Decide
-----------------------------------------------------------------------------
(* Working off a list *)

\* An idle worker has a list of that shape.
LEMMA IdleShape == PlanShape(Idle.stage, Idle.todo)
  BY IdleType DEF PlanShape

\* What follows the first statement of a list has the shape of a list, and in the
\* last stage no state is left to write.
LEMMA TailShape ==
  ASSUME NEW stage, NEW s \in Seq(Statements), s # <<>>, PlanShape(stage, s),
         stage = "final" => Len(s) # 1
  PROVE  /\ PlanShape(stage, Tail(s))
         /\ stage = "final" => Tail(s) # <<>> /\ Head(Tail(s)).op # "state"
         /\ Head(s).op # "mirror" /\ Mirrors(s) => Mirrors(Tail(s))
<1>1. /\ Len(s) \in Nat /\ Len(s) >= 1 /\ Tail(s) \in Seq(Statements) /\ Len(Tail(s)) = Len(s) - 1
      /\ Head(s) = s[1]
      /\ \A i \in 1..Len(Tail(s)) : Tail(s)[i] = s[i + 1] /\ i + 1 \in 1..Len(s)
  BY TailOfStatements
<1>2. Head(s).op # "mirror" /\ Mirrors(s) => Mirrors(Tail(s))
  <2> SUFFICES ASSUME Head(s).op # "mirror", NEW i \in 1..Len(s), s[i].op = "mirror"
               PROVE  Mirrors(Tail(s))
    BY DEF Mirrors
  <2>1. i # 1
    BY <1>1
  <2>2. i - 1 \in 1..Len(Tail(s)) /\ (i - 1) + 1 = i
    BY <1>1, <2>1
  <2>3. Tail(s)[i - 1] = s[i]
    BY <1>1, <2>2
  <2>4. QED
    BY <2>2, <2>3 DEF Mirrors
<1>3. CASE stage # "final"
  <2>1. stage # "claimed"
    BY DEF PlanShape
  <2>2. PlanShape(stage, Tail(s))
    BY <1>1, <1>3, <2>1 DEF PlanShape
  <2>3. QED
    BY <1>3, <1>2, <2>2
<1>4. CASE stage = "final"
  <2>1. Tail(s) # <<>> /\ Tail(s)[Len(Tail(s))] = s[Len(s)]
    BY <1>4, LastOfTail
  <2>2. s[Len(s)] = Unlock
    BY <1>4 DEF PlanShape
  <2>3. \A i \in 1..Len(s) : /\ s[i].op = "state" => i = 1 /\ s[i].to \in Ends
                             /\ s[i].op = "mirror" => s[i].to \in Ends
    BY <1>4 DEF PlanShape
  <2>4. \A i \in 1..Len(Tail(s)) : i + 1 # 1
    BY <1>1
  <2>5. \A i \in 1..Len(Tail(s)) :
          Tail(s)[i].op # "state" /\ (Tail(s)[i].op = "mirror" => Tail(s)[i].to \in Ends)
    BY <1>1, <2>3, <2>4
  <2>6. PlanShape(stage, Tail(s))
    BY <1>4, <2>1, <2>2, <2>5 DEF PlanShape
  <2>7. Head(Tail(s)) = Tail(s)[1] /\ 1 \in 1..Len(Tail(s))
    BY <1>1, <2>1, TailOfStatements
  <2>8. QED
    BY <1>2, <2>1, <2>5, <2>6, <2>7
<1>5. QED
  BY <1>3, <1>4

\* What executing the next statement makes of the worker that does it.
LEMMA Executed ==
  ASSUME TypeOK, PlanShapes, NEW w \in Workers, worker[w].todo # <<>>, worker'[w] = Rest(w)
  PROVE  /\ PlanShape(worker'[w].stage, worker'[w].todo)
         /\ \/ /\ worker'[w] = Idle /\ worker[w].stage = "final"
               /\ Head(worker[w].todo).op = "unlock" /\ ~Mirrors(worker[w].todo)
            \/ /\ worker'[w].job = worker[w].job /\ worker'[w].attempt = worker[w].attempt
               /\ worker'[w].stage = worker[w].stage
               /\ Head(worker[w].todo).op # "mirror" /\ Mirrors(worker[w].todo)
                    => Mirrors(worker'[w].todo)
               /\ worker[w].stage = "final" => ~NextIs(w, "state")'
<1>1. PlanShape(worker[w].stage, worker[w].todo) /\ worker[w].todo \in Seq(Statements)
  BY ExecutingType DEF PlanShapes
<1>2. \/ /\ Rest(w) = Idle /\ worker[w].stage = "final" /\ Len(worker[w].todo) = 1
         /\ Head(worker[w].todo).op = "unlock" /\ ~Mirrors(worker[w].todo)
      \/ /\ Rest(w).job = worker[w].job /\ Rest(w).attempt = worker[w].attempt
         /\ Rest(w).stage = worker[w].stage /\ Rest(w).todo = Tail(worker[w].todo)
         /\ worker[w].stage = "final" => Len(worker[w].todo) # 1
  <2>1. CASE worker[w].stage = "final" /\ Len(worker[w].todo) = 1
    <3>1. Rest(w) = Idle
      BY <2>1 DEF Rest
    <3>2. Head(worker[w].todo) = worker[w].todo[1]
      BY <1>1, TailOfStatements
    <3>3. worker[w].todo[1] = Unlock /\ \A i \in 1..Len(worker[w].todo) : i = 1
      BY <1>1, <2>1 DEF PlanShape
    <3>4. QED
      BY <2>1, <3>1, <3>2, <3>3 DEF Mirrors, Unlock
  <2>2. CASE ~(worker[w].stage = "final" /\ Len(worker[w].todo) = 1)
    <3>1. worker[w] # Idle /\ worker[w] \in WorkerType
      BY ExecutingType DEF TypeOK
    <3>2. QED
      BY <2>2, <3>1 DEF Rest, WorkerType
  <2>3. QED
    BY <2>1, <2>2
<1>3. CASE Rest(w) = Idle /\ worker[w].stage = "final" /\ Len(worker[w].todo) = 1
           /\ Head(worker[w].todo).op = "unlock" /\ ~Mirrors(worker[w].todo)
  BY <1>3, IdleShape
<1>4. CASE /\ Rest(w).job = worker[w].job /\ Rest(w).attempt = worker[w].attempt
           /\ Rest(w).stage = worker[w].stage /\ Rest(w).todo = Tail(worker[w].todo)
           /\ worker[w].stage = "final" => Len(worker[w].todo) # 1
  <2>1. /\ PlanShape(worker[w].stage, Tail(worker[w].todo))
        /\ worker[w].stage = "final" => Head(Tail(worker[w].todo)).op # "state"
        /\ Head(worker[w].todo).op # "mirror" /\ Mirrors(worker[w].todo)
             => Mirrors(Tail(worker[w].todo))
    BY <1>1, <1>4, TailShape
  <2>2. QED
    BY <1>4, <2>1 DEF NextIs
<1>5. QED
  BY <1>2, <1>3, <1>4

\* What a decision makes of the worker that takes it.
LEMMA DecidedWorker ==
  ASSUME TypeOK, NEW w \in Workers, Decide(w)
  PROVE  /\ worker'[w].job = worker[w].job /\ worker'[w].attempt = worker[w].attempt
         /\ worker[w].todo = <<>> /\ worker[w].stage \in Stages
         /\ worker'[w].stage # "claimed"
         /\ PlanShape(worker'[w].stage, worker'[w].todo)
         /\ WillFinish(w)' /\ (worker'[w].stage = "final" => Mirrors(worker'[w].todo))
         /\ worker[w].stage = "claimed" => Opens(worker'[w].todo)
         /\ UNCHANGED <<row, mirror, recon, client, callback, pollOver, faulted>>
<1>1. PICK stage \in Stages \union {"final"}, todo \in Seq(Statements) : Chosen(w, stage, todo)
  BY DecideChoice
<1>2. worker[w] \in WorkerType /\ worker[w] # Idle
  BY <1>1, IdleType DEF TypeOK, Chosen, Stages
<1>3. /\ worker'[w].job = worker[w].job /\ worker'[w].attempt = worker[w].attempt
      /\ worker'[w].stage = stage /\ worker'[w].todo = todo
      /\ UNCHANGED <<row, mirror, recon, client, callback, pollOver, faulted>>
  BY <1>1, <1>2 DEF Chosen, Proceed, TypeOK, WorkerType
<1>4. QED
  BY <1>1, <1>3 DEF Chosen, WillFinish, NextIs

\* All the lists have that shape, always: nobody but the worker changes its list.
LEMMA PlanShapesHold == Spec => []PlanShapes
<1>1. Init => PlanShapes
  BY IdleShape DEF Init, PlanShapes
<1>2. TypeOK /\ PlanShapes /\ [Next]_vars => PlanShapes'
  <2> SUFFICES ASSUME TypeOK, PlanShapes, [Next]_vars  PROVE PlanShapes'
    OBVIOUS
  <2>1. CASE OthersStep \/ UNCHANGED vars
    <3>1. worker' = worker
      BY <2>1, OthersStepWorker DEF vars
    <3>2. QED
      BY <3>1 DEF PlanShapes
  <2>2. ASSUME NEW w \in Workers, WorkerStep(w)  PROVE PlanShapes'
    <3>1. \A v \in Workers \ {w} : worker'[v] = worker[v]
      BY <2>2, OnlyItself
    <3>2. SUFFICES PlanShape(worker'[w].stage, worker'[w].todo)
      BY <3>1 DEF PlanShapes
    <3>3. ASSUME NEW j \in Jobs, Claim(w, j)
          PROVE  PlanShape(worker'[w].stage, worker'[w].todo)
      BY <3>3 DEF Claim, TypeOK, PlanShape
    <3>4. CASE Decide(w)
      BY <3>4, DecidedWorker
    <3>5. CASE Execute(w) \/ LoseStatement(w)
      <4>1. worker[w].todo # <<>> /\ worker'[w] = Rest(w)
        BY <3>5 DEF Execute, ExecState, ExecUnlock, ExecMirror, LoseStatement, NextIs, TypeOK
      <4>2. QED
        BY <4>1, Executed
    <3>6. CASE Crash(w)
      BY <3>6, IdleShape DEF Crash, TypeOK
    <3>7. QED
      BY <2>2, <3>3, <3>4, <3>5, <3>6 DEF WorkerStep
  <2>3. QED
    BY <2>1, <2>2, NextSplits
<1>3. QED
  BY <1>1, <1>2, TypeCorrect, PTL DEF Spec
\* The statement a worker is about to execute.
LEMMA NextStatement ==
  ASSUME TypeOK, PlanShapes, NEW w \in Workers, worker[w].todo # <<>>
  PROVE  LET s == Head(worker[w].todo)
         IN  /\ s \in Statements /\ worker[w].stage # "claimed"
             /\ worker[w].stage # "final" => s.op # "unlock" /\ s.to \in MidStages
             /\ worker[w].stage = "final" /\ s.op \in {"state", "mirror"} => s.to \in Ends
<1>1. PlanShape(worker[w].stage, worker[w].todo) /\ worker[w].todo \in Seq(Statements)
  BY ExecutingType DEF PlanShapes
<1>2. /\ Head(worker[w].todo) = worker[w].todo[1] /\ 1 \in 1..Len(worker[w].todo)
      /\ worker[w].todo[1] \in Statements
  BY <1>1, TailOfStatements
<1>3. QED
  BY <1>1, <1>2 DEF PlanShape

-----------------------------------------------------------------------------
(* One worker for each recording *)

\* w has claimed j and has not written the first state of its run.
Fresh(w, j) ==
  /\ row[j].lock = "held"
  /\ worker[w].attempt = NextAttempt(row[j].attempt)
  /\ worker[w].stage = "claimed" \/ Opens(worker[w].todo)

\* What keeps others away from the row of a worker: the lock up to its first
\* write, the working state while it runs, and the backoff after its last one.
Guarded(w, j) ==
  /\ row[j].state # "none"
  /\ row[j].state \in ClaimableStates => Fresh(w, j) \/ (~WillFinish(w) /\ ~row[j].due)
  /\ row[j].state \in MidStages => WillFinish(w) /\ worker[w].attempt = row[j].attempt
  /\ row[j].state = "canceled" /\ WillFinish(w) =>
       worker[w].attempt \in {row[j].attempt, NextAttempt(row[j].attempt)}
  /\ row[j].state \in {"awaiting_whisper", "ready", "failed_permanent"} => ~WillFinish(w)

\* A row no worker will write again, nor claim.
Closed(j) ==
  /\ row[j].state \in {"awaiting_whisper", "ready", "canceled"}
  /\ \A w \in Workers : Running(w, j) => ~WillFinish(w)

\* A callback only touches such rows, and restores the attempt it read.
CallbackSafe(k) ==
  /\ \A r \in callback[k].list : Closed(r.job) /\ r.attempt = row[r.job].attempt
  /\ callback[k].cur # NoJob => Closed(callback[k].cur)

PoolInv ==
  /\ OneRunner
  /\ \A w \in Workers, j \in Jobs : Running(w, j) => Guarded(w, j)
  /\ \A k \in Callbacks : CallbackSafe(k)

\* The jobs that callbacks and workers are about.
LEMMA JobTypes ==
  ASSUME TypeOK
  PROVE  /\ \A k \in Callbacks :
              (\A r \in callback[k].list : r.job \in Jobs)
              /\ (callback[k].cur # NoJob => callback[k].cur \in Jobs)
         /\ \A w \in Workers : worker[w].job # NoJob => worker[w].job \in Jobs
         /\ NoJob \notin Jobs
  BY ConstantsAssumption, IdleType DEF TypeOK, CallbackType, WorkerType

\* A worker that goes on with its row, or lets go of it, disturbs nobody else:
\* what is left to show is about that row alone.
LEMMA OwnRowOnly ==
  ASSUME TypeOK, PoolInv, NEW w \in Workers, callback' = callback,
         \A v \in Workers \ {w} : worker'[v] = worker[v],
         worker'[w].job \in {worker[w].job, NoJob},
         \A j \in Jobs : ~Running(w, j) => row'[j] = row[j],
         \A j \in Jobs : Running(w, j)' => Guarded(w, j)',
         \A j \in Jobs : Running(w, j) /\ Closed(j) =>
           /\ row'[j].state = row[j].state /\ row'[j].attempt = row[j].attempt
           /\ Running(w, j)' => ~WillFinish(w)'
  PROVE  PoolInv'
<1>1. OneRunner'
  BY DEF PoolInv, OneRunner
<1>2. ASSUME NEW v \in Workers, NEW j \in Jobs, Running(v, j)'  PROVE Guarded(v, j)'
  <2>1. CASE v = w
    BY <1>2, <2>1
  <2>2. CASE v # w
    <3>1. worker'[v] = worker[v] /\ Running(v, j)
      BY <1>2, <2>2 DEF Running
    <3>2. ~Running(w, j)
      BY <2>2, <3>1, JobTypes DEF Running, PoolInv, OneRunner
    <3>3. row'[j] = row[j] /\ Guarded(v, j)
      BY <3>1, <3>2 DEF PoolInv
    <3>4. QED
      BY <3>1, <3>3 DEF Guarded, Fresh, WillFinish, NextIs
  <2>3. QED
    BY <2>1, <2>2
<1>3. ASSUME NEW j \in Jobs, Closed(j)
      PROVE  Closed(j)' /\ row'[j].attempt = row[j].attempt
  <2>1. row'[j].state = row[j].state /\ row'[j].attempt = row[j].attempt
    BY <1>3
  <2>2. ASSUME NEW v \in Workers, Running(v, j)'  PROVE ~WillFinish(v)'
    <3>1. CASE v = w
      BY <1>3, <2>2, <3>1, JobTypes DEF Running
    <3>2. CASE v # w
      BY <1>3, <2>2, <3>2 DEF Closed, Running, WillFinish, NextIs
    <3>3. QED
      BY <3>1, <3>2
  <2>3. QED
    BY <1>3, <2>1, <2>2 DEF Closed
<1>4. ASSUME NEW k \in Callbacks  PROVE CallbackSafe(k)'
  BY <1>3, JobTypes DEF PoolInv, CallbackSafe
<1>5. QED
  BY <1>1, <1>2, <1>4 DEF PoolInv

\* A row that can be claimed is not run by anybody.
LEMMA ClaimableIsFree ==
  ASSUME PoolInv, NEW j \in Jobs, Claimable(row[j])
  PROVE  \A w \in Workers : ~Running(w, j)
  BY DEF PoolInv, Guarded, Fresh, Claimable

\* The claim query finds nothing that another worker still runs.
LEMMA ClaimKeepsPool ==
  ASSUME TypeOK, PoolInv, NEW w \in Workers, NEW j \in Jobs, Claim(w, j)
  PROVE  PoolInv'
<1>1. /\ worker[w].job = NoJob /\ Claimable(row[j]) /\ row[j] \in RowType
      /\ row' = [row EXCEPT ![j] = [row[j] EXCEPT !.lock = "held", !.old = FALSE]]
      /\ worker' = [worker EXCEPT ![w] = [job |-> j, attempt |-> NextAttempt(row[j].attempt),
                                          stage |-> "claimed", todo |-> <<>>]]
      /\ callback' = callback
  BY IdleType DEF Claim, TypeOK
<1>2. /\ row'[j].state = row[j].state /\ row'[j].lock = "held"
      /\ row'[j].attempt = row[j].attempt /\ row[j].state \in ClaimableStates
      /\ \A i \in Jobs \ {j} : row'[i] = row[i]
  BY <1>1 DEF TypeOK, RowType, Claimable
<1>3. /\ worker'[w].job = j /\ worker'[w].attempt = NextAttempt(row[j].attempt)
      /\ worker'[w].stage = "claimed"
      /\ \A v \in Workers \ {w} : worker'[v] = worker[v]
  BY <1>1 DEF TypeOK
<1>4. \A v \in Workers : ~Running(v, j)
  BY <1>1, ClaimableIsFree
<1>5. OneRunner'
  BY <1>3, <1>4 DEF PoolInv, OneRunner, Running
<1>6. ASSUME NEW v \in Workers, NEW i \in Jobs, Running(v, i)'  PROVE Guarded(v, i)'
  <2>1. CASE v = w
    <3>1. i = j
      BY <1>3, <1>6, <2>1 DEF Running
    <3>2. Fresh(v, i)'
      BY <1>2, <1>3, <2>1, <3>1 DEF Fresh
    <3>3. QED
      BY <1>2, <2>1, <3>1, <3>2 DEF Guarded, ClaimableStates, MidStages
  <2>2. CASE v # w
    <3>1. worker'[v] = worker[v] /\ Running(v, i)
      BY <1>3, <1>6, <2>2 DEF Running
    <3>2. row'[i] = row[i] /\ Guarded(v, i)
      BY <1>2, <1>4, <3>1 DEF PoolInv
    <3>3. QED
      BY <3>1, <3>2 DEF Guarded, Fresh, WillFinish, NextIs
  <2>3. QED
    BY <2>1, <2>2
<1>7. ASSUME NEW i \in Jobs, Closed(i)  PROVE Closed(i)' /\ row'[i].attempt = row[i].attempt
  <2>1. i # j
    BY <1>2, <1>7 DEF Closed, ClaimableStates
  <2>2. QED
    BY <1>2, <1>3, <1>7, <2>1 DEF Closed, Running, WillFinish, NextIs
<1>8. ASSUME NEW k \in Callbacks  PROVE CallbackSafe(k)'
  BY <1>1, <1>7, JobTypes DEF PoolInv, CallbackSafe
<1>9. QED
  BY <1>5, <1>6, <1>8 DEF PoolInv

\* A decision keeps the row guarded: the first one writes at once.
LEMMA DecideKeepsPool ==
  ASSUME TypeOK, PoolInv, NEW w \in Workers, Decide(w)
  PROVE  PoolInv'
<1>1. /\ worker'[w].job = worker[w].job /\ worker'[w].attempt = worker[w].attempt
      /\ worker[w].todo = <<>> /\ worker[w].stage \in Stages
      /\ WillFinish(w)'
      /\ worker[w].stage = "claimed" => Opens(worker'[w].todo)
      /\ row' = row /\ callback' = callback
  BY DecidedWorker
<1>2. \A v \in Workers \ {w} : worker'[v] = worker[v]
  BY OnlyItself DEF WorkerStep
<1>3. WillFinish(w) /\ ~Opens(worker[w].todo)
  BY <1>1 DEF WillFinish, Opens, Stages
<1>4. ASSUME NEW j \in Jobs, Running(w, j)'  PROVE Guarded(w, j)'
  <2>1. Guarded(w, j)
    BY <1>1, <1>4 DEF Running, PoolInv
  <2>2. row[j].state \in ClaimableStates => Fresh(w, j)'
    BY <1>1, <1>3, <2>1 DEF Guarded, Fresh
  <2>3. QED
    BY <1>1, <1>3, <2>1, <2>2 DEF Guarded
<1>5. \A j \in Jobs : Running(w, j) => ~Closed(j)
  BY <1>3 DEF Closed
<1>6. QED
  BY <1>1, <1>2, <1>4, <1>5, OwnRowOnly

\* The death of a worker frees nothing for two.
LEMMA CrashKeepsPool ==
  ASSUME TypeOK, PoolInv, NEW w \in Workers, Crash(w)
  PROVE  PoolInv'
<1>1. worker'[w] = Idle /\ row' = row /\ callback' = callback
  BY DEF Crash, TypeOK
<1>2. \A v \in Workers \ {w} : worker'[v] = worker[v]
  BY OnlyItself DEF WorkerStep
<1>3. \A j \in Jobs : ~Running(w, j)'
  BY <1>1, IdleType, JobTypes DEF Running
<1>4. QED
  BY <1>1, <1>2, <1>3, IdleType, OwnRowOnly
\* What writing the next state does to the row and to its worker.
LEMMA StateWritten ==
  ASSUME TypeOK, PlanShapes, NEW w \in Workers, ExecState(w)
  PROVE  LET j == worker[w].job  to == Head(worker[w].todo).to
         IN  /\ j \in Jobs /\ row'[j].state = to /\ row'[j].attempt = worker[w].attempt
             /\ row'[j].due = (to \notin Delayed)
             /\ row' = [row EXCEPT ![j] = row'[j]]
             /\ worker'[w].job = j /\ worker'[w].attempt = worker[w].attempt
             /\ worker'[w].stage = worker[w].stage
             /\ worker[w].stage = "final" => to \in Ends /\ ~WillFinish(w)'
             /\ worker[w].stage # "final" => to \in MidStages /\ WillFinish(w)'
             /\ WillFinish(w) /\ worker[w].stage # "claimed"
             /\ callback' = callback
<1> DEFINE j == worker[w].job
           s == Head(worker[w].todo)
<1>1. worker[w].todo # <<>> /\ s.op = "state" /\ worker'[w] = Rest(w) /\ callback' = callback
  BY DEF ExecState, NextIs, TypeOK
<1>2. j \in Jobs /\ row[j] \in RowType
  BY <1>1, ExecutingType DEF TypeOK
<1>3. row' = [row EXCEPT ![j] = Updated(row[j], s.to, worker[w].attempt)]
  BY <1>2 DEF ExecState, TypeOK
<1>4. /\ row'[j].state = s.to /\ row'[j].attempt = worker[w].attempt
      /\ row'[j].due = (s.to \notin Delayed)
  <2>1. row'[j] = Updated(row[j], s.to, worker[w].attempt)
    BY <1>2, <1>3 DEF TypeOK
  <2>2. QED
    BY <1>2, <2>1 DEF Updated, RowType
<1>5. row' = [row EXCEPT ![j] = row'[j]]
  BY <1>2, <1>3 DEF TypeOK
<1>6. /\ worker'[w].job = j /\ worker'[w].attempt = worker[w].attempt
      /\ worker'[w].stage = worker[w].stage
      /\ worker[w].stage = "final" => ~NextIs(w, "state")'
  BY <1>1, Executed
<1>7. /\ worker[w].stage # "claimed"
      /\ worker[w].stage # "final" => s.to \in MidStages
      /\ worker[w].stage = "final" => s.to \in Ends
  BY <1>1, NextStatement
<1>8. WillFinish(w)
  BY <1>1 DEF WillFinish, NextIs
<1>9. QED
  BY <1>1, <1>2, <1>4, <1>5, <1>6, <1>7, <1>8 DEF WillFinish

\* A written state guards the row: a working one as such, a last one by its backoff.
LEMMA StateKeepsPool ==
  ASSUME TypeOK, PlanShapes, PoolInv, NEW w \in Workers, ExecState(w)
  PROVE  PoolInv'
<1> DEFINE j == worker[w].job
           to == Head(worker[w].todo).to
<1>1. /\ j \in Jobs /\ row'[j].state = to /\ row'[j].attempt = worker[w].attempt
      /\ row'[j].due = (to \notin Delayed)
      /\ row' = [row EXCEPT ![j] = row'[j]]
      /\ worker'[w].job = j /\ worker'[w].attempt = worker[w].attempt
      /\ worker'[w].stage = worker[w].stage
      /\ worker[w].stage = "final" => to \in Ends /\ ~WillFinish(w)'
      /\ worker[w].stage # "final" => to \in MidStages /\ WillFinish(w)'
      /\ WillFinish(w)
      /\ callback' = callback
  BY StateWritten
<1> HIDE DEF to, j
<1>2. \A v \in Workers \ {w} : worker'[v] = worker[v]
  BY OnlyItself DEF WorkerStep, Execute
<1>3. ASSUME NEW i \in Jobs, ~Running(w, i)  PROVE row'[i] = row[i]
  BY <1>1, <1>3 DEF Running, TypeOK, j
<1>4. ASSUME NEW i \in Jobs, Running(w, i)'  PROVE Guarded(w, i)'
  <2>1. i = j
    BY <1>1, <1>4 DEF Running
  <2>2. CASE worker[w].stage = "final"
    BY <1>1, <2>1, <2>2 DEF Guarded, Ends, Delayed, ClaimableStates, MidStages
  <2>3. CASE worker[w].stage # "final"
    BY <1>1, <2>1, <2>3 DEF Guarded, ClaimableStates, MidStages
  <2>4. QED
    BY <2>2, <2>3
<1>5. \A i \in Jobs : Running(w, i) => ~Closed(i)
  BY <1>1 DEF Closed
<1>6. QED
  BY <1>1, <1>2, <1>3, <1>4, <1>5, OwnRowOnly DEF j

\* An Unlock is one of the last statements: the state is written by then.
LEMMA UnlockKeepsPool ==
  ASSUME TypeOK, PlanShapes, PoolInv, NEW w \in Workers, ExecUnlock(w)
  PROVE  PoolInv'
<1> DEFINE j == worker[w].job
<1>1. /\ worker[w].todo # <<>> /\ Head(worker[w].todo).op = "unlock"
      /\ worker'[w] = Rest(w) /\ callback' = callback
  BY DEF ExecUnlock, NextIs, TypeOK
<1>2. j \in Jobs /\ row[j] \in RowType
  BY <1>1, ExecutingType DEF TypeOK
<1>3. row' = [row EXCEPT ![j] = Unlocked(row[j])]
  BY <1>2 DEF ExecUnlock, TypeOK
<1>4. /\ row'[j].state = row[j].state /\ row'[j].attempt = row[j].attempt
      /\ row'[j].due = row[j].due
  BY <1>2, <1>3 DEF Unlocked, TypeOK, RowType
<1>5. worker[w].stage = "final"
  BY <1>1, NextStatement
<1>6. ~WillFinish(w) /\ ~Opens(worker[w].todo)
  BY <1>1, <1>5 DEF WillFinish, NextIs, Opens
<1>7. \/ worker'[w] = Idle
      \/ worker'[w].job = j /\ ~WillFinish(w)'
  BY <1>1, <1>5, Executed DEF WillFinish
<1>8. \A v \in Workers \ {w} : worker'[v] = worker[v]
  BY OnlyItself DEF WorkerStep, Execute
<1>9. ASSUME NEW i \in Jobs, ~Running(w, i)  PROVE row'[i] = row[i]
  BY <1>3, <1>9 DEF Running, TypeOK
<1>10. ASSUME NEW i \in Jobs, Running(w, i)'
       PROVE  i = j /\ ~WillFinish(w)'
  BY <1>7, <1>10, IdleType, JobTypes DEF Running
<1>11. ASSUME NEW i \in Jobs, Running(w, i)'  PROVE Guarded(w, i)'
  <2>1. i = j /\ ~WillFinish(w)' /\ Guarded(w, j)
    BY <1>2, <1>10, <1>11 DEF PoolInv, Running
  <2>2. row[j].state \in ClaimableStates => ~row[j].due
    BY <1>5, <1>6, <2>1 DEF Guarded, Fresh
  <2>3. row[j].state \notin MidStages /\ row[j].state # "none"
    BY <1>6, <2>1 DEF Guarded
  <2>4. QED
    BY <1>4, <2>1, <2>2, <2>3 DEF Guarded
<1>12. worker'[w].job \in {worker[w].job, NoJob}
  BY <1>7, IdleType
<1>13. \A i \in Jobs : Running(w, i) =>
         row'[i].state = row[i].state /\ row'[i].attempt = row[i].attempt
  BY <1>4 DEF Running
<1>14. QED
  BY <1>1, <1>8, <1>9, <1>10, <1>11, <1>12, <1>13, OwnRowOnly

\* Mirroring leaves the row as it is.
LEMMA MirrorKeepsPool ==
  ASSUME TypeOK, PlanShapes, PoolInv, NEW w \in Workers, ExecMirror(w)
  PROVE  PoolInv'
<1>1. /\ worker[w].todo # <<>> /\ Head(worker[w].todo).op = "mirror"
      /\ worker'[w] = Rest(w) /\ row' = row /\ callback' = callback
  BY DEF ExecMirror, NextIs, TypeOK
<1>2. /\ worker'[w].job = worker[w].job /\ worker'[w].attempt = worker[w].attempt
      /\ worker'[w].stage = worker[w].stage
      /\ worker[w].stage = "final" => ~NextIs(w, "state")'
  BY <1>1, Executed
<1>3. worker[w].stage # "claimed" /\ ~Opens(worker[w].todo)
  BY <1>1, NextStatement DEF Opens
<1>4. (WillFinish(w)' <=> WillFinish(w)) /\ (WillFinish(w) <=> worker[w].stage # "final")
  BY <1>1, <1>2 DEF WillFinish, NextIs
<1>5. \A v \in Workers \ {w} : worker'[v] = worker[v]
  BY OnlyItself DEF WorkerStep, Execute
<1>6. ASSUME NEW j \in Jobs, Running(w, j)'  PROVE Guarded(w, j)'
  <2>1. Guarded(w, j) /\ ~Fresh(w, j)
    BY <1>2, <1>3, <1>6 DEF Running, PoolInv, Fresh
  <2>2. QED
    BY <1>1, <1>2, <1>4, <2>1 DEF Guarded
<1>7. \A j \in Jobs : Running(w, j) /\ Closed(j) => ~WillFinish(w)'
  BY <1>4 DEF Closed
<1>8. QED
  BY <1>1, <1>2, <1>5, <1>6, <1>7, OwnRowOnly

-----------------------------------------------------------------------------
(* The others: time, cancels, callbacks and template imports *)

\* A step of nobody who works on a recording: what is left to show is that the
\* rows stay guarded, and closed where they were.
LEMMA OthersRows ==
  ASSUME TypeOK, PoolInv, worker' = worker,
         \A w \in Workers, j \in Jobs : Running(w, j) => Guarded(w, j)',
         \A j \in Jobs : Closed(j) => Closed(j)' /\ row'[j].attempt = row[j].attempt,
         \A k \in Callbacks :
           /\ \A r \in callback'[k].list :
                r \in callback[k].list \/ (Closed(r.job)' /\ r.attempt = row'[r.job].attempt)
           /\ \A j \in Jobs : callback'[k].cur = j => j = callback[k].cur \/ Closed(j)'
           /\ callback'[k].cur \in Jobs \union {NoJob}
  PROVE  PoolInv'
<1>1. OneRunner'
  BY DEF PoolInv, OneRunner
<1>2. ASSUME NEW w \in Workers, NEW j \in Jobs, Running(w, j)'  PROVE Guarded(w, j)'
  BY <1>2 DEF Running
<1>3. ASSUME NEW k \in Callbacks  PROVE CallbackSafe(k)'
  <2>1. CallbackSafe(k)
    BY DEF PoolInv
  <2>2. ASSUME NEW r \in callback'[k].list  PROVE Closed(r.job)' /\ r.attempt = row'[r.job].attempt
    BY <2>1, JobTypes DEF CallbackSafe
  <2>3. ASSUME NEW j \in Jobs, callback'[k].cur = j  PROVE Closed(j)'
    BY <2>1, <2>3, JobTypes DEF CallbackSafe
  <2>4. QED
    BY <2>2, <2>3 DEF CallbackSafe
<1>4. QED
  BY <1>1, <1>2, <1>3 DEF PoolInv

\* Locks and backoffs are longer than the moments that count on them.
LEMMA TimeKeepsPool ==
  ASSUME TypeOK, PoolInv, Time
  PROVE  PoolInv'
<1>1. PICK j \in Jobs : BecomeDue(j) \/ LockExpires(j) \/ GrowOld(j) \/ PollExpires(j)
  BY DEF Time
<1>2. worker' = worker /\ callback' = callback
  BY <1>1 DEF BecomeDue, LockExpires, GrowOld, PollExpires
<1>3. row[j] \in RowType
  BY DEF TypeOK
<1>4. \A i \in Jobs : row'[i].state = row[i].state /\ row'[i].attempt = row[i].attempt
  BY <1>1, <1>3 DEF BecomeDue, LockExpires, GrowOld, PollExpires, TypeOK, RowType
<1>5. ASSUME NEW w \in Workers, NEW i \in Jobs, Running(w, i)  PROVE Guarded(w, i)'
  <2>1. Guarded(w, i)
    BY <1>5 DEF PoolInv
  <2>2. CASE row'[i] = row[i]
    BY <1>2, <2>1, <2>2 DEF Guarded, Fresh, WillFinish, NextIs
  <2>3. CASE row'[i] # row[i]
    <3>1. i = j /\ (BecomeDue(j) \/ LockExpires(j) \/ GrowOld(j))
      BY <1>1, <2>3 DEF BecomeDue, LockExpires, GrowOld, PollExpires, TypeOK
    <3>2. ASSUME row[j].state \in ClaimableStates
          PROVE  Fresh(w, j)'
      <4>1. CASE BecomeDue(j)
        <5>1. WillFinish(w)
          BY <1>5, <3>1, <4>1 DEF BecomeDue, WillFinish
        <5>2. Fresh(w, j)
          BY <2>1, <3>1, <3>2, <5>1 DEF Guarded
        <5>3. row'[j].lock = row[j].lock
          BY <1>3, <4>1 DEF BecomeDue, TypeOK, RowType
        <5>4. QED
          BY <1>2, <1>4, <5>2, <5>3 DEF Fresh
      <4>2. CASE LockExpires(j) \/ GrowOld(j)
        <5>1. ~Brief(w)
          BY <1>5, <3>1, <3>2, <4>2 DEF LockExpires, GrowOld, InHand
        <5>2. ~Fresh(w, j) /\ WillFinish(w)
          BY <5>1 DEF Fresh, Brief, Opens, NextIs, WillFinish
        <5>3. QED
          BY <2>1, <3>1, <3>2, <5>2 DEF Guarded
      <4>3. QED
        BY <3>1, <4>1, <4>2
    <3>3. QED
      BY <1>2, <1>4, <2>1, <3>1, <3>2 DEF Guarded, WillFinish, NextIs
  <2>4. QED
    BY <2>2, <2>3
<1>6. ASSUME NEW i \in Jobs, Closed(i)  PROVE Closed(i)' /\ row'[i].attempt = row[i].attempt
  BY <1>2, <1>4, <1>6 DEF Closed, Running, WillFinish, NextIs
<1>7. \A k \in Callbacks : callback'[k].cur \in Jobs \union {NoJob}
  BY <1>2, JobTypes
<1>8. QED
  BY <1>2, <1>5, <1>6, <1>7, OthersRows
\* A template import creates a row that did not exist.
LEMMA TemplateKeepsPool ==
  ASSUME TypeOK, PoolInv, NEW j \in Jobs, TemplateImport(j)
  PROVE  PoolInv'
<1>1. /\ row[j].state = "none" /\ worker' = worker /\ callback' = callback
      /\ \A i \in Jobs \ {j} : row'[i] = row[i]
  BY DEF TemplateImport, TypeOK
<1>2. ASSUME NEW w \in Workers, NEW i \in Jobs, Running(w, i)  PROVE Guarded(w, i)'
  <2>1. Guarded(w, i)
    BY <1>2 DEF PoolInv
  <2>2. i # j
    BY <1>1, <2>1 DEF Guarded
  <2>3. QED
    BY <1>1, <2>1, <2>2 DEF Guarded, Fresh, WillFinish, NextIs
<1>3. ASSUME NEW i \in Jobs, Closed(i)  PROVE Closed(i)' /\ row'[i].attempt = row[i].attempt
  <2>1. i # j
    BY <1>1, <1>3 DEF Closed
  <2>2. QED
    BY <1>1, <1>3, <2>1 DEF Closed, Running, WillFinish, NextIs
<1>4. \A k \in Callbacks : callback'[k].cur \in Jobs \union {NoJob}
  BY <1>1, JobTypes
<1>5. QED
  BY <1>1, <1>2, <1>3, <1>4, OthersRows

\* A row waiting for Whisper, or done, is closed: whoever ran it wrote that state last.
LEMMA WaitingIsClosed ==
  ASSUME PoolInv, NEW j \in Jobs, row[j].state = "awaiting_whisper"
  PROVE  Closed(j)
  BY DEF PoolInv, Guarded, Closed

\* A callback moves on only what is closed, with the attempt it has.
LEMMA CallbackKeepsPool ==
  ASSUME TypeOK, PoolInv, NEW k \in Callbacks, CallbackStep(k)
  PROVE  PoolInv'
<1>1. worker' = worker
  BY DEF CallbackStep, CallbackList, CallbackFlip, CallbackUnlock, CallbackMirror, CallbackDies
<1>2. TypeOK'
  BY CallbackStepType
<1>3. \A c \in Callbacks : callback'[c].cur \in Jobs \union {NoJob}
  BY <1>2 DEF TypeOK, CallbackType
<1>4. \A c \in Callbacks \ {k} : callback'[c] = callback[c]
  BY DEF CallbackStep, CallbackList, CallbackFlip, CallbackUnlock, CallbackMirror, CallbackDies,
         TypeOK
<1>5. CallbackSafe(k) /\ callback[k] \in CallbackType
  BY DEF PoolInv, TypeOK
<1>6. ASSUME row' = row,
             \A r \in callback'[k].list : Closed(r.job) /\ r.attempt = row[r.job].attempt,
             callback'[k].cur \in {callback[k].cur, NoJob}
      PROVE  PoolInv'
  <2>1. \A w \in Workers, j \in Jobs : Running(w, j) => Guarded(w, j)'
    BY <1>1, <1>6 DEF PoolInv, Guarded, Fresh, WillFinish, NextIs
  <2>2. \A j : Closed(j) => Closed(j)'
    BY <1>1, <1>6 DEF Closed, Running, WillFinish, NextIs
  <2>3. \A c \in Callbacks :
          /\ \A r \in callback'[c].list :
               r \in callback[c].list \/ (Closed(r.job)' /\ r.attempt = row'[r.job].attempt)
          /\ \A j \in Jobs : callback'[c].cur = j => j = callback[c].cur \/ Closed(j)'
    BY <1>4, <1>6, <2>2, JobTypes
  <2>4. QED
    BY <1>1, <1>3, <1>6, <2>1, <2>2, <2>3, OthersRows
<1>7. ASSUME NEW s \in Sessions, CallbackList(k, s)  PROVE PoolInv'
  <2>1. \A r \in callback'[k].list : Closed(r.job) /\ r.attempt = row[r.job].attempt
    <3>1. callback'[k].list =
            {[job |-> j, attempt |-> row[j].attempt] :
               j \in {i \in Jobs : SessionOf[i] = s /\ row[i].state = "awaiting_whisper"}}
      BY <1>7 DEF CallbackList, TypeOK
    <3>2. QED
      BY <3>1, WaitingIsClosed
  <2>2. row' = row /\ callback'[k].cur = NoJob
    BY <1>7 DEF CallbackList, TypeOK
  <2>3. QED
    BY <1>6, <2>1, <2>2
<1>8. CASE CallbackMirror(k) \/ CallbackDies(k)
  <2>1. row' = row /\ callback'[k].cur = NoJob /\ callback'[k].list = {}
    BY <1>8 DEF CallbackMirror, CallbackDies, NoCallback, TypeOK
  <2>2. QED
    BY <1>6, <2>1
<1>9. CASE CallbackUnlock(k)
  <2> DEFINE j == callback[k].cur
  <2>1. j \in Jobs /\ Closed(j) /\ row[j] \in RowType
    BY <1>5, <1>9 DEF CallbackUnlock, CallbackSafe, CallbackType, TypeOK
  <2>2. row' = [row EXCEPT ![j] = Unlocked(row[j])]
    BY <1>9 DEF CallbackUnlock, TypeOK
  <2>3. callback'[k].list = callback[k].list /\ callback'[k].cur = NoJob
    BY <1>5, <1>9 DEF CallbackUnlock, TypeOK, CallbackType
  <2>4. /\ row'[j].state = row[j].state /\ row'[j].attempt = row[j].attempt
        /\ \A i \in Jobs \ {j} : row'[i] = row[i]
    BY <2>1, <2>2 DEF Unlocked, TypeOK, RowType
  <2> HIDE DEF j
  <2>5. ASSUME NEW w \in Workers, NEW i \in Jobs, Running(w, i)  PROVE Guarded(w, i)'
    <3>1. Guarded(w, i)
      BY <2>5 DEF PoolInv
    <3>2. CASE i = j
      BY <1>1, <2>1, <2>4, <3>1, <3>2 DEF Closed, Guarded, WillFinish, NextIs, ClaimableStates,
                                          MidStages
    <3>3. CASE i # j
      BY <1>1, <2>4, <3>1, <3>3 DEF Guarded, Fresh, WillFinish, NextIs
    <3>4. QED
      BY <3>2, <3>3
  <2>6. ASSUME NEW i \in Jobs, Closed(i)  PROVE Closed(i)' /\ row'[i].attempt = row[i].attempt
    <3>1. row'[i].state = row[i].state /\ row'[i].attempt = row[i].attempt
      BY <2>4
    <3>2. QED
      BY <1>1, <2>6, <3>1 DEF Closed, Running, WillFinish, NextIs
  <2>7. QED
    BY <1>1, <1>3, <1>4, <2>3, <2>5, <2>6, JobTypes, OthersRows
<1>10. CASE CallbackFlip(k)
  <2>1. PICK r \in callback[k].list :
          /\ row' = [row EXCEPT ![r.job] = Updated(@, "ready", r.attempt)]
          /\ callback' = [callback EXCEPT ![k].list = @ \ {r}, ![k].cur = r.job]
    BY <1>10 DEF CallbackFlip
  <2> DEFINE j == r.job
  <2>2. j \in Jobs /\ Closed(j) /\ r.attempt = row[j].attempt /\ row[j] \in RowType
    BY <1>5, JobTypes DEF CallbackSafe, TypeOK
  <2>3. row' = [row EXCEPT ![j] = Updated(row[j], "ready", r.attempt)]
    BY <2>1 DEF TypeOK
  <2>4. /\ row'[j].state = "ready" /\ row'[j].attempt = row[j].attempt
        /\ \A i \in Jobs \ {j} : row'[i] = row[i]
    BY <2>2, <2>3 DEF Updated, TypeOK, RowType
  <2>5. callback'[k].list \subseteq callback[k].list /\ callback'[k].cur = j
    BY <1>5, <2>1 DEF TypeOK, CallbackType
  <2> HIDE DEF j
  <2>6. ASSUME NEW w \in Workers, NEW i \in Jobs, Running(w, i)  PROVE Guarded(w, i)'
    <3>1. Guarded(w, i)
      BY <2>6 DEF PoolInv
    <3>2. CASE i = j
      <4>1. ~WillFinish(w)
        BY <2>2, <2>6, <3>2 DEF Closed
      <4>2. ~WillFinish(w)'
        BY <1>1, <4>1 DEF WillFinish, NextIs
      <4>3. QED
        BY <2>4, <3>2, <4>2 DEF Guarded, ClaimableStates, MidStages
    <3>3. CASE i # j
      BY <1>1, <2>4, <3>1, <3>3 DEF Guarded, Fresh, WillFinish, NextIs
    <3>4. QED
      BY <3>2, <3>3
  <2>7. ASSUME NEW i \in Jobs, Closed(i)  PROVE Closed(i)' /\ row'[i].attempt = row[i].attempt
    <3>1. /\ row'[i].state \in {"awaiting_whisper", "ready", "canceled"}
          /\ row'[i].attempt = row[i].attempt
      BY <2>4, <2>7 DEF Closed
    <3>2. QED
      BY <1>1, <2>7, <3>1 DEF Closed, Running, WillFinish, NextIs
  <2>8. Closed(j)'
    BY <2>2, <2>7
  <2>9. QED
    BY <1>1, <1>3, <1>4, <2>5, <2>6, <2>7, <2>8, JobTypes, OthersRows
<1>11. QED
  BY <1>7, <1>8, <1>9, <1>10 DEF CallbackStep

\* A cancel leaves the run in progress alone, whose tries go on from what the row has.
LEMMA CancelKeepsPool ==
  ASSUME TypeOK, PoolInv, NEW c \in Clients, NEW s \in Sessions, Cancel(c, s)
  PROVE  PoolInv'
<1>1. worker' = worker /\ callback' = callback
  BY DEF Cancel, Request
<1>2. ASSUME NEW j \in Jobs
      PROVE  /\ row'[j] = row[j] \/ (row[j].state # "none" /\ row'[j].state = "canceled")
             /\ row'[j].attempt = row[j].attempt
  <2>1. row[j] \in RowType
    BY DEF TypeOK
  <2>2. \/ row'[j] = row[j]
        \/ row[j].state # "none" /\ row'[j] = [row[j] EXCEPT !.state = "canceled", !.old = FALSE]
    BY DEF Cancel
  <2>3. QED
    BY <2>1, <2>2 DEF RowType
<1>3. ASSUME NEW w \in Workers, NEW j \in Jobs, Running(w, j)  PROVE Guarded(w, j)'
  <2>1. Guarded(w, j) /\ row[j] \in RowType
    BY <1>3 DEF PoolInv, TypeOK
  <2>2. CASE row'[j] = row[j]
    BY <1>1, <2>1, <2>2 DEF Guarded, Fresh, WillFinish, NextIs
  <2>3. CASE row[j].state # "none" /\ row'[j].state = "canceled"
    <3>1. WillFinish(w) => worker[w].attempt \in {row[j].attempt, NextAttempt(row[j].attempt)}
      BY <2>1, <2>3 DEF Guarded, Fresh, RowType, States, TerminalStates, TerminalFailed
    <3>2. WillFinish(w)' <=> WillFinish(w)
      BY <1>1 DEF WillFinish, NextIs
    <3>3. QED
      BY <1>1, <1>2, <2>3, <3>1, <3>2 DEF Guarded, ClaimableStates, MidStages
  <2>4. QED
    BY <1>2, <2>2, <2>3
<1>4. ASSUME NEW j \in Jobs, Closed(j)  PROVE Closed(j)' /\ row'[j].attempt = row[j].attempt
  <2>1. row'[j].state \in {"awaiting_whisper", "ready", "canceled"}
    BY <1>2, <1>4 DEF Closed
  <2>2. QED
    BY <1>1, <1>2, <1>4, <2>1 DEF Closed, Running, WillFinish, NextIs
<1>5. \A k \in Callbacks : callback'[k].cur \in Jobs \union {NoJob}
  BY <1>1, JobTypes
<1>6. QED
  BY <1>1, <1>3, <1>4, <1>5, OthersRows

\* Every step of the pool keeps the invariant, as long as no statement is lost.
LEMMA NextKeepsPool ==
  ASSUME StatementsKept
  PROVE  TypeOK /\ PlanShapes /\ PoolInv /\ [PoolNext]_vars => PoolInv'
<1> SUFFICES ASSUME TypeOK, PlanShapes, PoolInv, [PoolNext]_vars  PROVE PoolInv'
  OBVIOUS
<1>1. ASSUME row' = row, worker' = worker, callback' = callback  PROVE PoolInv'
  BY <1>1 DEF PoolInv, OneRunner, Guarded, Fresh, CallbackSafe, Closed, Running, WillFinish, NextIs
<1>2. ASSUME NEW w \in Workers, WorkerStep(w)  PROVE PoolInv'
  <2>1. ~LoseStatement(w)
    BY DEF LoseStatement, StatementsKept
  <2>2. QED
    BY <1>2, <2>1, ClaimKeepsPool, DecideKeepsPool, StateKeepsPool, UnlockKeepsPool,
       MirrorKeepsPool, CrashKeepsPool DEF WorkerStep, Execute
<1>3. ASSUME NEW c \in Clients, RequestMirror(c) \/ RequestDies(c)  PROVE PoolInv'
  BY <1>1, <1>3 DEF RequestMirror, RequestDies
<1>4. CASE UNCHANGED vars
  BY <1>1, <1>4 DEF vars
<1>5. QED
  BY <1>2, <1>3, <1>4, TimeKeepsPool, TemplateKeepsPool, CallbackKeepsPool, CancelKeepsPool
     DEF PoolNext, UnattendedNext

\* The pool takes no step that the whole system does not take.
LEMMA PoolIsPartOfAll == PoolSpec => Spec
<1>1. [PoolNext]_vars => [Next]_vars
  BY DEF PoolNext, UnattendedNext, Next, ClientStep
<1>2. QED
  BY <1>1, PTL DEF PoolSpec, Spec

\* What guards the rows holds at all times.
LEMMA PoolInvHolds ==
  ASSUME StatementsKept
  PROVE  PoolSpec => []PoolInv
<1>1. Init => PoolInv
  BY IdleType, JobTypes, ConstantsAssumption
     DEF Init, PoolInv, OneRunner, Running, CallbackSafe, NoCallback
<1>2. TypeOK /\ PlanShapes /\ PoolInv /\ [PoolNext]_vars => PoolInv'
  BY NextKeepsPool
<1>3. QED
  BY <1>1, <1>2, PoolIsPartOfAll, TypeCorrect, PlanShapesHold, PTL DEF PoolSpec

\* No two workers of the pool run the same recording, whatever expires, dies or
\* is canceled meanwhile, as long as no state write is lost.
THEOREM OneWorkerEach ==
  ASSUME StatementsKept
  PROVE  PoolSpec => []OneRunner
<1>1. PoolInv => OneRunner
  BY DEF PoolInv
<1>2. QED
  BY <1>1, PoolInvHolds, PTL
-----------------------------------------------------------------------------
(* A session that shows a working state has a recording at work *)

\* w will mirror something before its run is over.
AtWork(w) == worker[w].stage = "final" => Mirrors(worker[w].todo)

BusyFor(s) ==
  \E j \in Jobs :
    SessionOf[j] = s /\ (j \in faulted \/ \E w \in Workers : Running(w, j) /\ AtWork(w))

\* The only request of the pool mirrors "canceled".
ShownInv ==
  /\ \A s \in Sessions : mirror[s] \in MidStages => BusyFor(s)
  /\ \A c \in Clients : client[c].op = "mirror" => client[c].to = "canceled"

\* A step of a worker leaves no session without the recording it shows at work.
LEMMA WorkerStepShown ==
  ASSUME StatementsKept, TypeOK, PlanShapes, ShownInv, NEW w \in Workers, WorkerStep(w)
  PROVE  ShownInv'
<1>1. \A v \in Workers \ {w} : worker'[v] = worker[v]
  BY OnlyItself
<1>2. client' = client
  BY DecidedWorker DEF WorkerStep, Claim, Execute, ExecState, ExecUnlock, ExecMirror, Crash,
                       LoseStatement
<1> SUFFICES ASSUME NEW s \in Sessions, mirror'[s] \in MidStages  PROVE BusyFor(s)'
  BY <1>2 DEF ShownInv
<1>3. ASSUME mirror[s] \in MidStages, faulted \subseteq faulted',
             Running(w, worker[w].job) /\ AtWork(w) /\ worker[w].job \in Jobs =>
               (worker'[w].job = worker[w].job /\ AtWork(w)') \/ worker[w].job \in faulted'
      PROVE  BusyFor(s)'
  <2>1. PICK j \in Jobs :
          SessionOf[j] = s /\ (j \in faulted \/ \E v \in Workers : Running(v, j) /\ AtWork(v))
    BY <1>3 DEF ShownInv, BusyFor
  <2>2. CASE j \in faulted
    BY <1>3, <2>1, <2>2 DEF BusyFor
  <2>3. ASSUME NEW v \in Workers, Running(v, j), AtWork(v)  PROVE BusyFor(s)'
    <3>1. CASE v = w
      BY <1>3, <2>1, <2>3, <3>1 DEF BusyFor, Running
    <3>2. CASE v # w
      BY <1>1, <2>1, <2>3, <3>2 DEF BusyFor, Running, AtWork
    <3>3. QED
      BY <3>1, <3>2
  <2>4. QED
    BY <2>1, <2>2, <2>3
<1>4. ASSUME NEW i \in Jobs, Claim(w, i)  PROVE BusyFor(s)'
  <2>1. /\ mirror' = mirror /\ faulted' = faulted \ {i} /\ worker[w].job = NoJob
        /\ worker'[w].job = i /\ worker'[w].stage = "claimed"
    BY <1>4, IdleType DEF Claim, TypeOK
  <2>2. PICK j \in Jobs :
          SessionOf[j] = s /\ (j \in faulted \/ \E v \in Workers : Running(v, j) /\ AtWork(v))
    BY <2>1 DEF ShownInv, BusyFor
  <2>3. CASE j = i
    BY <2>1, <2>2, <2>3 DEF BusyFor, Running, AtWork
  <2>4. CASE j # i
    <3>1. CASE j \in faulted
      BY <2>1, <2>2, <2>4, <3>1 DEF BusyFor
    <3>2. ASSUME NEW v \in Workers, Running(v, j), AtWork(v)  PROVE BusyFor(s)'
      <4>1. v # w
        BY <2>1, <3>2, JobTypes DEF Running
      <4>2. QED
        BY <1>1, <2>2, <3>2, <4>1 DEF BusyFor, Running, AtWork
    <3>3. QED
      BY <2>2, <3>1, <3>2
  <2>5. QED
    BY <2>3, <2>4
<1>5. CASE Decide(w)
  BY <1>3, <1>5, DecidedWorker DEF AtWork
<1>6. CASE ExecState(w) \/ ExecUnlock(w)
  <2>1. /\ worker[w].todo # <<>> /\ Head(worker[w].todo).op # "mirror"
        /\ worker'[w] = Rest(w) /\ mirror' = mirror /\ faulted' = faulted
    BY <1>6 DEF ExecState, ExecUnlock, NextIs, TypeOK
  <2>2. AtWork(w) => worker'[w].job = worker[w].job /\ AtWork(w)'
    BY <2>1, Executed DEF AtWork
  <2>3. QED
    BY <1>3, <2>1, <2>2
<1>7. CASE ExecMirror(w)
  <2> DEFINE j == worker[w].job
             to == Head(worker[w].todo).to
  <2>1. /\ worker[w].todo # <<>> /\ Head(worker[w].todo).op = "mirror"
        /\ worker'[w] = Rest(w) /\ faulted' = faulted
        /\ mirror' = [mirror EXCEPT ![SessionOf[j]] = to]
    BY <1>7 DEF ExecMirror, NextIs, TypeOK
  <2>2. worker'[w].job = j /\ worker'[w].stage = worker[w].stage /\ j \in Jobs
    BY <2>1, Executed, ExecutingType
  <2>3. worker[w].stage = "final" => to \notin MidStages
    BY <2>1, NextStatement DEF Ends, MidStages
  <2>4. CASE SessionOf[j] = s
    <3>1. mirror'[s] = to
      BY <2>1, <2>4 DEF TypeOK
    <3>2. worker'[w].stage # "final"
      BY <2>2, <2>3, <3>1
    <3>3. QED
      BY <2>2, <2>4, <3>2 DEF BusyFor, Running, AtWork
  <2>5. CASE SessionOf[j] # s
    <3>1. mirror[s] \in MidStages
      BY <2>1, <2>5 DEF TypeOK
    <3>2. PICK i \in Jobs :
            SessionOf[i] = s /\ (i \in faulted \/ \E v \in Workers : Running(v, i) /\ AtWork(v))
      BY <3>1 DEF ShownInv, BusyFor
    <3>3. CASE i \in faulted
      BY <2>1, <3>2, <3>3 DEF BusyFor
    <3>4. ASSUME NEW v \in Workers, Running(v, i), AtWork(v)  PROVE BusyFor(s)'
      <4>1. v # w
        BY <2>5, <3>2, <3>4 DEF Running
      <4>2. QED
        BY <1>1, <3>2, <3>4, <4>1 DEF BusyFor, Running, AtWork
    <3>5. QED
      BY <3>2, <3>3, <3>4
  <2>6. QED
    BY <2>4, <2>5
<1>8. CASE Crash(w)
  <2>1. mirror' = mirror /\ faulted' = faulted \union {worker[w].job}
    BY <1>8 DEF Crash
  <2>2. QED
    BY <1>3, <2>1
<1>9. ~LoseStatement(w)
  BY DEF LoseStatement, StatementsKept
<1>10. QED
  BY <1>4, <1>5, <1>6, <1>7, <1>8, <1>9 DEF WorkerStep, Execute

\* Every step of the pool keeps that invariant.
LEMMA NextKeepsShown ==
  ASSUME StatementsKept
  PROVE  TypeOK /\ PlanShapes /\ ShownInv /\ [PoolNext]_vars => ShownInv'
<1> SUFFICES ASSUME TypeOK, PlanShapes, ShownInv, [PoolNext]_vars  PROVE ShownInv'
  OBVIOUS
<1>1. ASSUME worker' = worker, faulted' = faulted,
             \A s \in Sessions : mirror'[s] \in MidStages => mirror[s] \in MidStages,
             \A c \in Clients : client'[c].op = "mirror" =>
               client'[c] = client[c] \/ client'[c].to = "canceled"
      PROVE  ShownInv'
  <2>1. \A s \in Sessions : BusyFor(s) => BusyFor(s)'
    BY <1>1 DEF BusyFor, Running, AtWork
  <2>2. QED
    BY <1>1, <2>1 DEF ShownInv
<1>2. CASE Time \/ \E j \in Jobs : TemplateImport(j)
  <2>1. UNCHANGED <<worker, faulted, mirror, client>>
    BY <1>2 DEF Time, BecomeDue, LockExpires, GrowOld, PollExpires, TemplateImport
  <2>2. QED
    BY <1>1, <2>1
<1>3. ASSUME NEW k \in Callbacks, CallbackStep(k)  PROVE ShownInv'
  <2>1. /\ UNCHANGED <<worker, faulted, client>>
        /\ \A s \in Sessions : mirror'[s] \in {mirror[s], "ready"}
    BY <1>3 DEF CallbackStep, CallbackList, CallbackFlip, CallbackUnlock, CallbackMirror,
                CallbackDies, TypeOK
  <2>2. QED
    BY <1>1, <2>1 DEF MidStages
<1>4. ASSUME NEW c \in Clients, NEW s \in Sessions, Cancel(c, s)  PROVE ShownInv'
  <2>1. /\ UNCHANGED <<worker, faulted, mirror>>
        /\ client' = [client EXCEPT ![c] =
             [op |-> "mirror", job |-> NoJob, session |-> s, to |-> "canceled"]]
    BY <1>4 DEF Cancel, Request
  <2>2. \A d \in Clients : client'[d] = client[d] \/ client'[d].to = "canceled"
    BY <2>1 DEF TypeOK
  <2>3. QED
    BY <1>1, <2>1, <2>2
<1>5. ASSUME NEW c \in Clients, RequestMirror(c) \/ RequestDies(c)  PROVE ShownInv'
  <2>1. /\ UNCHANGED <<worker, faulted>>
        /\ client' = [client EXCEPT ![c] = NoRequest]
    BY <1>5 DEF RequestMirror, RequestDies
  <2>2. \A s \in Sessions : mirror'[s] \in {mirror[s], "canceled"}
    BY <1>5 DEF RequestMirror, RequestDies, ShownInv, TypeOK
  <2>3. \A d \in Clients : client'[d].op = "mirror" => client'[d] = client[d]
    BY <2>1 DEF TypeOK, NoRequest
  <2>4. QED
    BY <1>1, <2>1, <2>2, <2>3 DEF MidStages
<1>6. CASE UNCHANGED vars
  BY <1>1, <1>6 DEF vars
<1>7. QED
  BY <1>2, <1>3, <1>4, <1>5, <1>6, WorkerStepShown DEF PoolNext, UnattendedNext

\* In the pool a session shows a working state only while one of its recordings
\* is being worked on, or its worker died: the last thing every run mirrors is a
\* resting state.
THEOREM ShownBusy ==
  ASSUME StatementsKept
  PROVE  PoolSpec => []ShownBusyIsBusy
<1>1. Init => ShownInv
  BY DEF Init, ShownInv, NoRequest, MidStages
<1>2. TypeOK /\ PlanShapes /\ ShownInv /\ [PoolNext]_vars => ShownInv'
  BY NextKeepsShown
<1>3. ShownInv => ShownBusyIsBusy
  BY DEF ShownInv, BusyFor, ShownBusyIsBusy
<1>4. QED
  BY <1>1, <1>2, <1>3, PoolIsPartOfAll, TypeCorrect, PlanShapesHold, PTL DEF PoolSpec

-----------------------------------------------------------------------------
(* The pool implements ImportLifecycle *)

Phase == [j \in Jobs |-> PhaseOf(row[j].state)]
Tries == [j \in Jobs |-> row[j].attempt]

\* The phases of the abstract specification.
LEMMA PhaseTypes ==
  /\ \A s : PhaseOf(s) \in L!Phases
  /\ PhaseOf("none") = "absent"
  /\ \A s \in States : PhaseOf(s) # "absent"
  /\ \A s \in MidStages : PhaseOf(s) = "working"
  /\ \A s \in ClaimableStates : PhaseOf(s) \in {"pending", "polling"}
  /\ PhaseOf("queued") = "pending" /\ PhaseOf("failed_transient") = "pending"
  /\ PhaseOf("waiting") = "pending" /\ PhaseOf("waiting_native_transcript") = "polling"
  /\ PhaseOf("awaiting_whisper") = "handed_over" /\ PhaseOf("ready") = "done"
  /\ PhaseOf("canceled") = "canceled" /\ PhaseOf("failed_permanent") = "failed"
  BY DEF PhaseOf, L!Phases, States, MidStages, ClaimableStates, TerminalStates, TerminalFailed

\* What a change of one row is to the abstract specification.
LEMMA OneRowMoves ==
  ASSUME TypeOK, TypeOK', NEW j \in Jobs, \A i \in Jobs \ {j} : row'[i] = row[i]
  PROVE  /\ Phase' = [Phase EXCEPT ![j] = PhaseOf(row'[j].state)]
         /\ Tries' = [Tries EXCEPT ![j] = row'[j].attempt]
         /\ Phase[j] = PhaseOf(row[j].state) /\ Tries[j] = row[j].attempt
  BY DEF Phase, Tries, TypeOK

\* Steps that leave phases and tries alone.
LEMMA NoRowMoves ==
  ASSUME \A j \in Jobs : row'[j].state = row[j].state /\ row'[j].attempt = row[j].attempt
  PROVE  Phase' = Phase /\ Tries' = Tries
  BY DEF Phase, Tries
\* A transition of one recording.
LEMMA EnterStep ==
  ASSUME TypeOK, TypeOK', NEW j \in Jobs, \A i \in Jobs \ {j} : row'[i] = row[i],
         NEW from, PhaseOf(row[j].state) \in from
  PROVE  L!Enter(j, from, PhaseOf(row'[j].state))
  BY OneRowMoves DEF L!Enter, Phase, Tries

\* A row whose attempt is written back is not counted again.
LEMMA SameTries ==
  ASSUME TypeOK, TypeOK', NEW j \in Jobs, \A i \in Jobs \ {j} : row'[i] = row[i],
         row'[j].attempt = row[j].attempt
  PROVE  Tries' = Tries
  BY DEF Tries

\* A row whose attempt goes up has its try counted.
LEMMA OneMoreTry ==
  ASSUME TypeOK, TypeOK', NEW j \in Jobs, \A i \in Jobs \ {j} : row'[i] = row[i],
         row'[j].attempt = NextAttempt(row[j].attempt)
  PROVE  L!Counted(j)
<1>1. /\ Tries' = [Tries EXCEPT ![j] = row'[j].attempt]
      /\ Tries[j] = row[j].attempt
  BY OneRowMoves
<1>2. Tries' = [Tries EXCEPT ![j] = NextAttempt(Tries[j])]
  BY <1>1
<1>3. QED
  BY <1>2 DEF L!Counted, NextAttempt, Tries

LStep == L!LNext \/ UNCHANGED <<Phase, Tries>>

\* One transition of one recording is a step of the abstract specification.
LEMMA OneRecordingSteps ==
  ASSUME NEW j \in Jobs,
         \/ L!Import(j) \/ L!TakeUp(j) \/ L!PutAside(j) \/ L!Poll(j) \/ L!HandOver(j)
         \/ L!Deliver(j) \/ L!GiveUp(j) \/ L!Refuse(j) \/ L!Overwrite(j)
  PROVE  LStep
  BY DEF LStep, L!LNext

\* A statement that changes neither states nor attempts is invisible.
LEMMA Invisible ==
  ASSUME \A j \in Jobs : row'[j].state = row[j].state /\ row'[j].attempt = row[j].attempt
  PROVE  LStep
  BY NoRowMoves DEF LStep

\* The first state of a run takes the recording up, or refuses it.
LEMMA FirstStateSteps ==
  ASSUME TypeOK, TypeOK', NEW j \in Jobs, \A i \in Jobs \ {j} : row'[i] = row[i],
         row[j].state \in ClaimableStates,
         row'[j].state \in {"fetching", "failed_permanent"},
         row'[j].attempt = NextAttempt(row[j].attempt)
  PROVE  LStep
<1>1. PhaseOf(row[j].state) \in {"pending", "polling"} /\ L!Counted(j)
  BY PhaseTypes, OneMoreTry
<1>2. L!Enter(j, {"pending", "polling"}, PhaseOf(row'[j].state))
  BY <1>1, EnterStep
<1>3. CASE row'[j].state = "fetching"
  <2>1. PhaseOf(row'[j].state) = "working"
    BY <1>3, PhaseTypes DEF MidStages
  <2>2. L!TakeUp(j)
    BY <1>1, <1>2, <2>1 DEF L!TakeUp
  <2>3. QED
    BY <2>2, OneRecordingSteps
<1>4. CASE row'[j].state = "failed_permanent"
  <2>1. PhaseOf(row'[j].state) = "failed"
    BY <1>4, PhaseTypes
  <2>2. L!Refuse(j)
    BY <1>1, <1>2, <2>1 DEF L!Refuse
  <2>3. QED
    BY <2>2, OneRecordingSteps
<1>5. QED
  BY <1>3, <1>4

\* The last state of a run puts the recording aside within the budget, or ends it.
LEMMA LastStateSteps ==
  ASSUME TypeOK, TypeOK', NEW j \in Jobs, \A i \in Jobs \ {j} : row'[i] = row[i],
         row[j].state \in MidStages, row'[j].state \in Ends,
         row'[j].attempt = row[j].attempt,
         WithinBudget(row'[j].state, row[j].attempt)
  PROVE  LStep
<1>1. PhaseOf(row[j].state) = "working" /\ Tries' = Tries
  BY PhaseTypes, SameTries
<1>2. L!Enter(j, {"working"}, PhaseOf(row'[j].state))
      /\ L!Enter(j, {"working", "handed_over"}, PhaseOf(row'[j].state))
  BY <1>1, EnterStep
<1>3. CASE row'[j].state \in {"failed_transient", "waiting"}
  <2>1. PhaseOf(row'[j].state) = "pending"
    BY <1>3, PhaseTypes
  <2>2. row[j].attempt <= RetryLimit
    <3>1. row[j].attempt <= MaxTransientAttempts \/ row[j].attempt <= MaxWaitingAttempts
      BY <1>3 DEF WithinBudget
    <3>2. row[j].attempt \in Nat
      BY ConstantsAssumption DEF TypeOK, RowType
    <3>3. QED
      BY <3>1, <3>2, ConstantsAssumption DEF RetryLimit
  <2>3. L!PutAside(j)
    BY <1>1, <1>2, <2>1, <2>2 DEF L!PutAside, Tries
  <2>4. QED
    BY <2>3, OneRecordingSteps
<1>4. CASE row'[j].state = "waiting_native_transcript"
  <2>1. L!Poll(j)
    BY <1>1, <1>2, <1>4, PhaseTypes DEF L!Poll, Tries
  <2>2. QED
    BY <2>1, OneRecordingSteps
<1>5. CASE row'[j].state = "awaiting_whisper"
  <2>1. L!HandOver(j)
    BY <1>1, <1>2, <1>5, PhaseTypes DEF L!HandOver, Tries
  <2>2. QED
    BY <2>1, OneRecordingSteps
<1>6. CASE row'[j].state = "ready"
  <2>1. L!Deliver(j)
    BY <1>1, <1>2, <1>6, PhaseTypes DEF L!Deliver, Tries
  <2>2. QED
    BY <2>1, OneRecordingSteps
<1>7. CASE row'[j].state = "failed_permanent"
  <2>1. L!GiveUp(j)
    BY <1>1, <1>2, <1>7, PhaseTypes DEF L!GiveUp, Tries
  <2>2. QED
    BY <2>1, OneRecordingSteps
<1>8. QED
  BY <1>3, <1>4, <1>5, <1>6, <1>7 DEF Ends

\* The run in progress overwrites a cancel.
LEMMA OverwriteSteps ==
  ASSUME TypeOK, TypeOK', NEW j \in Jobs, \A i \in Jobs \ {j} : row'[i] = row[i],
         row[j].state = "canceled", row'[j].state \in States,
         row'[j].attempt \in {row[j].attempt, NextAttempt(row[j].attempt)}
  PROVE  LStep
<1>1. Tries' = Tries \/ L!Counted(j)
  BY SameTries, OneMoreTry
<1>2. PhaseOf(row[j].state) = "canceled"
  BY PhaseTypes
<1>3. L!Enter(j, {"canceled"}, PhaseOf(row'[j].state))
  BY <1>2, EnterStep
<1>4. PhaseOf(row'[j].state) \in L!Phases \ {"absent"}
  BY PhaseTypes
<1>5. L!Overwrite(j)
  BY <1>1, <1>3, <1>4 DEF L!Overwrite, Tries
<1>6. QED
  BY <1>5, OneRecordingSteps

\* Every state a worker writes is a transition of the recording, or none.
LEMMA StateSteps ==
  ASSUME TypeOK, TypeOK', PlanShapes, Plans, PoolInv, NEW w \in Workers, ExecState(w)
  PROVE  LStep
<1> DEFINE j == worker[w].job
           to == Head(worker[w].todo).to
<1>1. /\ j \in Jobs /\ row'[j].state = to /\ row'[j].attempt = worker[w].attempt
      /\ row' = [row EXCEPT ![j] = row'[j]]
      /\ worker[w].stage = "final" => to \in Ends
      /\ worker[w].stage # "final" => to \in MidStages
      /\ WillFinish(w) /\ worker[w].stage # "claimed"
  BY StateWritten
<1>2. WithinBudget(to, worker[w].attempt)
  <2>1. worker[w].todo # <<>> /\ Head(worker[w].todo).op = "state"
    BY DEF ExecState, NextIs
  <2>2. Head(worker[w].todo) = worker[w].todo[1] /\ 1 \in 1..Len(worker[w].todo)
    BY <2>1, ExecutingType, TailOfStatements
  <2>3. QED
    BY <2>1, <2>2 DEF Plans, PlanOf
<1>3. Guarded(w, j)
  BY <1>1 DEF PoolInv, Running
<1>4. \A i \in Jobs \ {j} : row'[i] = row[i]
  BY <1>1 DEF TypeOK
<1>5. Opens(worker[w].todo) => to \in {"fetching", "failed_permanent"}
  BY DEF Opens
<1>6. to \in States /\ row[j] \in RowType
  BY <1>1 DEF Ends, States, ClaimableStates, TerminalStates, TerminalFailed, TypeOK
<1> HIDE DEF j, to
<1>7. CASE row[j].state \in ClaimableStates
  <2>1. worker[w].attempt = NextAttempt(row[j].attempt) /\ Opens(worker[w].todo)
    BY <1>1, <1>3, <1>7 DEF Guarded, Fresh
  <2>2. QED
    BY <1>1, <1>4, <1>5, <1>7, <2>1, FirstStateSteps
<1>8. CASE row[j].state \in MidStages
  <2>1. worker[w].attempt = row[j].attempt
    BY <1>3, <1>8 DEF Guarded
  <2>2. CASE to \in MidStages
    <3>1. PhaseOf(row'[j].state) = PhaseOf(row[j].state)
      BY <1>1, <1>8, <2>2, PhaseTypes
    <3>2. Phase' = Phase /\ Tries' = Tries
      BY <1>1, <1>4, <2>1, <3>1 DEF Phase, Tries
    <3>3. QED
      BY <3>2 DEF LStep
  <2>3. CASE to \in Ends
    BY <1>1, <1>2, <1>4, <1>8, <2>1, <2>3, LastStateSteps
  <2>4. QED
    BY <1>1, <2>2, <2>3
<1>9. CASE row[j].state = "canceled"
  BY <1>1, <1>3, <1>4, <1>6, <1>9, OverwriteSteps DEF Guarded
<1>10. QED
  BY <1>1, <1>3, <1>6, <1>7, <1>8, <1>9 DEF Guarded, RowType, States, TerminalStates, TerminalFailed
\* A worker's steps but the state writes are invisible.
LEMMA WorkerSteps ==
  ASSUME StatementsKept, TypeOK, TypeOK', PlanShapes, Plans, PoolInv,
         NEW w \in Workers, WorkerStep(w)
  PROVE  LStep
<1>1. ASSUME NEW j \in Jobs, Claim(w, j)  PROVE LStep
  <2>1. \A i \in Jobs : row'[i].state = row[i].state /\ row'[i].attempt = row[i].attempt
    BY <1>1 DEF Claim, TypeOK, RowType
  <2>2. QED
    BY <2>1, Invisible
<1>2. CASE Decide(w)
  BY <1>2, DecidedWorker, Invisible
<1>3. CASE ExecUnlock(w)
  <2>1. \A i \in Jobs : row'[i].state = row[i].state /\ row'[i].attempt = row[i].attempt
    BY <1>3 DEF ExecUnlock, Unlocked, TypeOK, RowType
  <2>2. QED
    BY <2>1, Invisible
<1>4. CASE ExecMirror(w) \/ Crash(w)
  BY <1>4, Invisible DEF ExecMirror, Crash
<1>5. ~LoseStatement(w)
  BY DEF LoseStatement, StatementsKept
<1>6. QED
  BY <1>1, <1>2, <1>3, <1>4, <1>5, StateSteps DEF WorkerStep, Execute

\* A template import is the import of the abstract specification.
LEMMA TemplateSteps ==
  ASSUME TypeOK, TypeOK', NEW j \in Jobs, TemplateImport(j)
  PROVE  LStep
<1>1. /\ row[j].state = "none" /\ row'[j].state = "queued" /\ row'[j].attempt = row[j].attempt
      /\ \A i \in Jobs \ {j} : row'[i] = row[i]
  BY DEF TemplateImport, Requeued, TypeOK, RowType
<1>2. L!Enter(j, {"absent"}, "pending") /\ Tries' = Tries
  <2>1. PhaseOf(row[j].state) \in {"absent"} /\ PhaseOf(row'[j].state) = "pending"
    BY <1>1, PhaseTypes
  <2>2. L!Enter(j, {"absent"}, PhaseOf(row'[j].state))
    BY <1>1, <2>1, EnterStep
  <2>3. QED
    BY <1>1, <2>1, <2>2, SameTries
<1>3. L!Import(j)
  BY <1>2 DEF L!Import, Tries
<1>4. QED
  BY <1>3, OneRecordingSteps

\* A callback delivers what was handed over, overwrites a cancel, or changes nothing.
LEMMA CallbackSteps ==
  ASSUME TypeOK, TypeOK', PoolInv, NEW k \in Callbacks, CallbackStep(k)
  PROVE  LStep
<1>1. CASE CallbackFlip(k)
  <2>1. PICK r \in callback[k].list : row' = [row EXCEPT ![r.job] = Updated(@, "ready", r.attempt)]
    BY <1>1 DEF CallbackFlip
  <2> DEFINE j == r.job
  <2>2. j \in Jobs /\ Closed(j) /\ r.attempt = row[j].attempt /\ row[j] \in RowType
    BY JobTypes DEF PoolInv, CallbackSafe, TypeOK
  <2>3. row' = [row EXCEPT ![j] = Updated(row[j], "ready", r.attempt)]
    BY <2>1 DEF TypeOK
  <2>4. /\ row'[j].state = "ready" /\ row'[j].attempt = row[j].attempt
        /\ \A i \in Jobs \ {j} : row'[i] = row[i]
    BY <2>2, <2>3 DEF Updated, TypeOK, RowType
  <2> HIDE DEF j
  <2>5. CASE row[j].state = "awaiting_whisper"
    <3>1. PhaseOf(row[j].state) \in {"working", "handed_over"} /\ PhaseOf(row'[j].state) = "done"
      BY <2>4, <2>5, PhaseTypes
    <3>2. L!Enter(j, {"working", "handed_over"}, "done") /\ Tries' = Tries
      <4>1. L!Enter(j, {"working", "handed_over"}, PhaseOf(row'[j].state))
        BY <2>2, <2>4, <3>1, EnterStep
      <4>2. QED
        BY <2>2, <2>4, <3>1, <4>1, SameTries
    <3>3. L!Deliver(j)
      BY <3>2 DEF L!Deliver, Tries
    <3>4. QED
      BY <2>2, <3>3, OneRecordingSteps
  <2>6. CASE row[j].state = "ready"
    <3>1. \A i \in Jobs : row'[i].state = row[i].state /\ row'[i].attempt = row[i].attempt
      BY <2>4, <2>6
    <3>2. QED
      BY <3>1, Invisible
  <2>7. CASE row[j].state = "canceled"
    <3>1. row'[j].state \in States
      BY <2>4 DEF States, TerminalStates
    <3>2. QED
      BY <2>2, <2>4, <2>7, <3>1, OverwriteSteps
  <2>8. QED
    BY <2>2, <2>5, <2>6, <2>7 DEF Closed
<1>2. CASE CallbackUnlock(k)
  <2>1. \A i \in Jobs : row'[i].state = row[i].state /\ row'[i].attempt = row[i].attempt
    BY <1>2 DEF CallbackUnlock, Unlocked, TypeOK, RowType
  <2>2. QED
    BY <2>1, Invisible
<1>3. CASE ~CallbackFlip(k) /\ ~CallbackUnlock(k)
  <2>1. row' = row
    BY <1>3 DEF CallbackStep, CallbackList, CallbackMirror, CallbackDies
  <2>2. QED
    BY <2>1, Invisible
<1>4. QED
  BY <1>1, <1>2, <1>3

\* A request to cancel cancels the recordings of the session's provider at once.
LEMMA CancelSteps ==
  ASSUME TypeOK, TypeOK', NEW c \in Clients, NEW s \in Sessions, Cancel(c, s)
  PROVE  LStep
<1> DEFINE S == {j \in OfProvider(s) : row[j].state # "none"}
<1>1. S \in SUBSET Jobs
  BY DEF OfProvider
<1>2. \A j \in S : Phase[j] # "absent"
  <2>1. ASSUME NEW j \in S  PROVE row[j].state \in States
    BY <1>1 DEF TypeOK, RowType
  <2>2. QED
    BY <1>1, <2>1, PhaseTypes DEF Phase
<1>3. ASSUME NEW j \in Jobs
      PROVE  /\ row'[j].attempt = row[j].attempt
             /\ row'[j].state = IF j \in S THEN "canceled" ELSE row[j].state
  <2>1. row[j] \in RowType
    BY DEF TypeOK
  <2>2. row'[j] = IF j \in S THEN [row[j] EXCEPT !.state = "canceled", !.old = FALSE] ELSE row[j]
    BY DEF Cancel
  <2>3. QED
    BY <2>1, <2>2 DEF RowType
<1> HIDE DEF S
<1>4. Phase' = [j \in Jobs |-> IF j \in S THEN "canceled" ELSE Phase[j]]
  BY <1>3, PhaseTypes DEF Phase
<1>5. Tries' = Tries
  BY <1>3 DEF Tries
<1>6. L!Cancel(S)
  BY <1>2, <1>4, <1>5 DEF L!Cancel, Phase, Tries
<1>7. QED
  BY <1>1, <1>6 DEF LStep, L!LNext

\* Time that passes is invisible.
LEMMA TimeSteps ==
  ASSUME TypeOK, Time
  PROVE  LStep
<1>1. \A j \in Jobs : row'[j].state = row[j].state /\ row'[j].attempt = row[j].attempt
  BY DEF Time, BecomeDue, LockExpires, GrowOld, PollExpires, TypeOK, RowType
<1>2. QED
  BY <1>1, Invisible

\* A recording starts without a row.
LEMMA InitStarts == Init => L!LInit
  BY PhaseTypes DEF Init, Absent, L!LInit

\* The pool, crashes of workers included, takes a recording only through the
\* transitions of ImportLifecycle: from rest, each try counted, put aside within
\* the budget, and for good once it ended, cancels aside.
THEOREM PoolImplementsLifecycle ==
  ASSUME StatementsKept
  PROVE  PoolSpec => ImplementsLifecycle
<1>1. TypeOK /\ TypeOK' /\ PlanShapes /\ Plans /\ PoolInv /\ [PoolNext]_vars => LStep
  <2> SUFFICES ASSUME TypeOK, TypeOK', PlanShapes, Plans, PoolInv, [PoolNext]_vars  PROVE LStep
    OBVIOUS
  <2>1. ASSUME row' = row  PROVE LStep
    BY <2>1, Invisible
  <2>2. ASSUME NEW c \in Clients, RequestMirror(c) \/ RequestDies(c)  PROVE LStep
    BY <2>1, <2>2 DEF RequestMirror, RequestDies
  <2>3. CASE UNCHANGED vars
    BY <2>1, <2>3 DEF vars
  <2>4. QED
    BY <2>2, <2>3, WorkerSteps, TimeSteps, TemplateSteps, CallbackSteps, CancelSteps
       DEF PoolNext, UnattendedNext
<1>2. LStep => [L!LNext]_<<[j \in Jobs |-> PhaseOf(row[j].state)], [j \in Jobs |-> row[j].attempt]>>
  BY DEF LStep, Phase, Tries
<1>3. QED
  BY <1>1, <1>2, InitStarts, PoolIsPartOfAll, TypeCorrect, PlanShapesHold, PlansHold,
     PoolInvHolds, PTL DEF PoolSpec, ImplementsLifecycle, L!LSpec
===============================================================================
