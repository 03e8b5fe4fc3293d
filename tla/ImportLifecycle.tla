---------------------------- MODULE ImportLifecycle ----------------------------
(***************************************************************************)
(* What the importer promises for each recording, workers, locks and       *)
(* statements aside: an import is taken up, put aside a bounded number of  *)
(* times, and ends once, done, failed or handed to Whisper and then done.  *)
(* A cancel does not reach the worker that is running the import: nothing  *)
(* is promised of a canceled import but that its tries go on being counted.*)
(***************************************************************************)
EXTENDS Naturals

CONSTANTS
  Recordings,
  Budget,      \* how often an import may be put aside after a failure
  TryCap       \* tries are counted up to here (bound of the model)

VARIABLES
  phase,       \* of each recording
  tries        \* how often it was taken up

Phases == {"absent", "pending", "polling", "working", "handed_over", "done", "failed",
           "canceled"}

LifecycleTypeOK ==
  /\ phase \in [Recordings -> Phases]
  /\ tries \in [Recordings -> 0..TryCap]

\* A try begins: the count goes up with it and at no other time.
Counted(j) == tries' = [tries EXCEPT ![j] = IF @ < TryCap THEN @ + 1 ELSE TryCap]

Enter(j, from, to) == phase[j] \in from /\ phase' = [phase EXCEPT ![j] = to]

Import(j) == Enter(j, {"absent"}, "pending") /\ UNCHANGED tries

TakeUp(j) == Enter(j, {"pending", "polling"}, "working") /\ Counted(j)

\* After a failure that may pass; never more often than the budget allows.
PutAside(j) == Enter(j, {"working"}, "pending") /\ tries[j] <= Budget /\ UNCHANGED tries

\* The provider is still preparing its transcript.
Poll(j) == Enter(j, {"working"}, "polling") /\ UNCHANGED tries

HandOver(j) == Enter(j, {"working"}, "handed_over") /\ UNCHANGED tries

Deliver(j) == Enter(j, {"working", "handed_over"}, "done") /\ UNCHANGED tries

GiveUp(j) == Enter(j, {"working"}, "failed") /\ UNCHANGED tries

\* The preconditions of the pipeline fail before anything is started.
Refuse(j) == Enter(j, {"pending", "polling"}, "failed") /\ Counted(j)

\* One request cancels every recording of the session's provider.
Cancel(S) ==
  /\ \A j \in S : phase[j] # "absent"
  /\ phase' = [j \in Recordings |-> IF j \in S THEN "canceled" ELSE phase[j]]
  /\ UNCHANGED tries

\* The run in progress goes on, and may begin or end after the cancel.
Overwrite(j) ==
  /\ \E to \in Phases \ {"absent"} : Enter(j, {"canceled"}, to)
  /\ UNCHANGED tries \/ Counted(j)

LInit ==
  /\ phase = [j \in Recordings |-> "absent"]
  /\ tries = [j \in Recordings |-> 0]

LNext ==
  \/ \E j \in Recordings :
       \/ Import(j) \/ TakeUp(j) \/ PutAside(j) \/ Poll(j)
       \/ HandOver(j) \/ Deliver(j) \/ GiveUp(j) \/ Refuse(j) \/ Overwrite(j)
  \/ \E S \in SUBSET Recordings : Cancel(S)

LSpec == LInit /\ [][LNext]_<<phase, tries>>
================================================================================
