---------------------------- MODULE RecordingIngest ----------------------------
(***************************************************************************)
(* What the imports of one session leave behind: the file artifact of a    *)
(* recording, whose key is that of its provider's file name in the session *)
(* and unique, the bytes under the key, the video sources, the Whisper job *)
(* of the provider and the hand-off to it.  A recording is run by one      *)
(* worker at a time (SessionProcessing has the pool); of its runs only     *)
(* what they store is kept here.                                           *)
(***************************************************************************)
EXTENDS Naturals, FiniteSets

CONSTANTS
  Recordings,
  SourceOf,       \* their providers
  Attachers,      \* concurrent attach requests
  MaxRecordings,  \* MAX_RECORDINGS_PER_SESSION
  MaxRuns,        \* bound of the model: runs of a recording
  Drivers,        \* storage drivers to consider: "r2", "local"
  NoRecording

ASSUME RecordingIngestAssumption ==
  /\ MaxRecordings \in Nat \ {0} /\ MaxRuns \in Nat \ {0}
  /\ Drivers \subseteq {"r2", "local"}
  /\ NoRecording \notin Recordings

VARIABLES
  driver,     \* where the process stores files: it never changes
  import,     \* where the run of a recording is, or the state it left its row in
  runs,
  filed,     \* file_artifacts: for the key of a provider, whose row it is, its status
  bytes,      \* which recording's file is under the key
  clips,      \* video_sources: the recording and the run that made the row
  whisper,    \* the transcript job under the Whisper key of a provider
  attaching,
  missed      \* history: recordings handed to a Whisper job that had ended

ingestVars == <<driver, import, runs, filed, bytes, clips, whisper, attaching, missed>>

Sources == {SourceOf[r] : r \in Recordings}

At(r, stage) == import[r] = stage
Move(r, stage) == import' = [import EXCEPT ![r] = stage]

-----------------------------------------------------------------------------
(* Attach and retry *)

\* external_recording_id is never written, so that no failed import is taken off.
CountActiveRecordings == Cardinality(clips)

AttachCheck(c, r) ==
  /\ attaching[c] = NoRecording
  /\ At(r, "none")
  /\ CountActiveRecordings < MaxRecordings
  /\ attaching' = [attaching EXCEPT ![c] = r]
  /\ UNCHANGED <<driver, import, runs, filed, bytes, clips, whisper, missed>>

AttachEnqueue(c) ==
  /\ attaching[c] # NoRecording
  /\ IF At(attaching[c], "none") THEN Move(attaching[c], "due") ELSE import' = import
  /\ attaching' = [attaching EXCEPT ![c] = NoRecording]
  /\ UNCHANGED <<driver, runs, filed, bytes, clips, whisper, missed>>

\* A retry, or a cancel and an attach: the cap is not asked again.
RunAgain(r) ==
  /\ import[r] \in {"failed", "parked", "awaiting", "dead"}
  /\ Move(r, "due")
  /\ UNCHANGED <<driver, runs, filed, bytes, clips, whisper, attaching, missed>>

StartRun(r) ==
  /\ import[r] \in {"due", "parked"}
  /\ runs[r] < MaxRuns
  /\ runs' = [runs EXCEPT ![r] = @ + 1]
  /\ Move(r, "store")
  /\ UNCHANGED <<driver, filed, bytes, clips, whisper, attaching, missed>>

\* A call to the provider, the parser or the index fails, or there is nothing yet.
Stop(r) ==
  /\ import[r] \in {"store", "transcript", "index"}
  /\ \E stage \in {"parked", "failed"} : Move(r, stage)
  /\ UNCHANGED <<driver, runs, filed, bytes, clips, whisper, attaching, missed>>

\* The process dies: a row that left its first stage is not claimed again.
Die(r) ==
  /\ import[r] \in {"store", "put", "verify", "row", "transcript", "job", "handoff", "index"}
  /\ \/ Move(r, "dead")
     \/ At(r, "store") /\ Move(r, "due")
  /\ UNCHANGED <<driver, runs, filed, bytes, clips, whisper, attaching, missed>>

-----------------------------------------------------------------------------
(* Storing the recording.  shouldSkipMP4Ingest finds no row: see above. *)

KeyFree(s) == filed[s].of = NoRecording

Row(r, status) == filed' = [filed EXCEPT ![SourceOf[r]] = [of |-> r, status |-> status]]

\* mutant: the row is born ready, as that of an upload is
StoreRowReady(r) ==
  /\ driver = "r2" /\ At(r, "store")
  /\ IF KeyFree(SourceOf[r]) THEN Row(r, "ready") /\ Move(r, "put")
                             ELSE filed' = filed /\ Move(r, "failed")
  /\ UNCHANGED <<driver, runs, bytes, clips, whisper, attaching, missed>>

\* R2: the row first.
StoreRow(r) ==
  /\ driver = "r2" /\ At(r, "store")
  /\ IF KeyFree(SourceOf[r]) THEN Row(r, "pending") /\ Move(r, "put")
                             ELSE filed' = filed /\ Move(r, "failed")
  /\ UNCHANGED <<driver, runs, bytes, clips, whisper, attaching, missed>>

PutFile(r) ==
  /\ At(r, "put")
  /\ \/ bytes' = [bytes EXCEPT ![SourceOf[r]] = r] /\ Move(r, "verify") /\ filed' = filed
     \/ Row(r, "failed") /\ Move(r, "failed") /\ bytes' = bytes
  /\ UNCHANGED <<driver, runs, clips, whisper, attaching, missed>>

\* The run goes on when the row could not be marked.
VerifyFile(r) ==
  /\ At(r, "verify")
  /\ \/ \E status \in {"ready", "pending"} : Row(r, status) /\ Move(r, "transcript")
     \/ Row(r, "failed") /\ Move(r, "failed")
  /\ UNCHANGED <<driver, runs, bytes, clips, whisper, attaching, missed>>

\* Local: the file first, and it is removed when the row cannot be created.
WriteFile(r) ==
  /\ driver = "local" /\ At(r, "store")
  /\ \/ bytes' = [bytes EXCEPT ![SourceOf[r]] = r] /\ Move(r, "row")
     \/ bytes' = [bytes EXCEPT ![SourceOf[r]] = NoRecording] /\ Move(r, "failed")
  /\ UNCHANGED <<driver, runs, filed, clips, whisper, attaching, missed>>

LocalRow(r) ==
  /\ At(r, "row")
  /\ IF KeyFree(SourceOf[r])
     THEN /\ \E status \in {"ready", "pending"} : Row(r, status)
          /\ Move(r, "transcript") /\ bytes' = bytes
     ELSE /\ bytes' = [bytes EXCEPT ![SourceOf[r]] = NoRecording]
          /\ Move(r, "failed") /\ filed' = filed
  /\ UNCHANGED <<driver, runs, clips, whisper, attaching, missed>>

-----------------------------------------------------------------------------
(* Transcript *)

NativeTranscript(r) ==
  /\ At(r, "transcript")
  /\ \/ clips' = clips \union {<<r, runs[r]>>} /\ Move(r, "index")
     \/ clips' = clips /\ Move(r, "failed")
  /\ UNCHANGED <<driver, runs, filed, bytes, whisper, attaching, missed>>

IndexRun(r) ==
  /\ At(r, "index")
  /\ Move(r, "ready")
  /\ UNCHANGED <<driver, runs, filed, bytes, clips, whisper, attaching, missed>>

\* Only an artifact that is ready can be transcribed here.
FallBackToWhisper(r) ==
  /\ At(r, "transcript")
  /\ filed[SourceOf[r]] = [of |-> r, status |-> "ready"]
  /\ clips' = clips \union {<<r, runs[r]>>}
  /\ Move(r, "job")
  /\ UNCHANGED <<driver, runs, filed, bytes, whisper, attaching, missed>>

\* The job's key is that of the provider and the session, and unique.
WhisperJob(r) ==
  /\ At(r, "job")
  /\ LET s == SourceOf[r] IN
     \/ /\ whisper[s] = "none"
        /\ whisper' = [whisper EXCEPT ![s] = "open"]
        /\ Move(r, "handoff") \/ Move(r, "parked")
     \/ /\ whisper[s] \notin {"none", "failed"} /\ s = "google_meet"
        /\ Move(r, "handoff") /\ whisper' = whisper
     \/ /\ whisper[s] = "failed" \/ s # "google_meet" \/ whisper[s] = "none"
        /\ Move(r, "parked") /\ whisper' = whisper
  /\ UNCHANGED <<driver, runs, filed, bytes, clips, attaching, missed>>

\* The job is enqueued already, and may have ended.
HandOff(r) ==
  /\ At(r, "handoff")
  /\ Move(r, "awaiting")
  /\ missed' = IF whisper[SourceOf[r]] \in {"open", "flipping"} THEN missed \ {r}
                                                                ELSE missed \union {r}
  /\ UNCHANGED <<driver, runs, filed, bytes, clips, whisper, attaching>>

-----------------------------------------------------------------------------
(* The job processor, and its callback for a completed job of the session *)

Awaiting == {r \in Recordings : At(r, "awaiting")}

FlipAwaiting == import' = [r \in Recordings |-> IF r \in Awaiting THEN "ready" ELSE import[r]]

WhisperEnds(s) ==
  /\ whisper[s] = "open"
  /\ \E end \in {"flipping", "failed"} : whisper' = [whisper EXCEPT ![s] = end]
  /\ UNCHANGED <<driver, import, runs, filed, bytes, clips, attaching, missed>>

Flip(s) ==
  /\ whisper[s] = "flipping"
  /\ whisper' = [whisper EXCEPT ![s] = "completed"]
  /\ FlipAwaiting
  /\ UNCHANGED <<driver, runs, filed, bytes, clips, attaching, missed>>

\* Any transcript or extraction job of the session, for an upload say.
OtherJobCompletes ==
  /\ Awaiting # {}
  /\ FlipAwaiting
  /\ UNCHANGED <<driver, runs, filed, bytes, clips, whisper, attaching, missed>>

DeleteVideoSource(r) ==
  /\ \E clip \in clips : clip[1] = r /\ clips' = clips \ {clip}
  /\ UNCHANGED <<driver, import, runs, filed, bytes, whisper, attaching, missed>>

-----------------------------------------------------------------------------
IngestInit ==
  /\ driver \in Drivers
  /\ import = [r \in Recordings |-> "none"]
  /\ runs = [r \in Recordings |-> 0]
  /\ filed = [s \in Sources |-> [of |-> NoRecording, status |-> "none"]]
  /\ bytes = [s \in Sources |-> NoRecording]
  /\ clips = {}
  /\ whisper = [s \in Sources |-> "none"]
  /\ attaching = [c \in Attachers |-> NoRecording]
  /\ missed = {}

IngestNext ==
  \/ \E c \in Attachers : AttachEnqueue(c) \/ (\E r \in Recordings : AttachCheck(c, r))
  \/ \E r \in Recordings :
       \/ RunAgain(r) \/ StartRun(r) \/ Stop(r) \/ Die(r)
       \/ StoreRow(r) \/ PutFile(r) \/ VerifyFile(r) \/ WriteFile(r) \/ LocalRow(r)
       \/ NativeTranscript(r) \/ IndexRun(r) \/ FallBackToWhisper(r)
       \/ WhisperJob(r) \/ HandOff(r) \/ DeleteVideoSource(r)
  \/ \E s \in Sources : WhisperEnds(s) \/ Flip(s)
  \/ OtherJobCompletes

IngestSpec == IngestInit /\ [][IngestNext]_ingestVars

-----------------------------------------------------------------------------
IngestTypeOK ==
  /\ driver \in Drivers
  /\ import \in [Recordings -> {"none", "due", "store", "put", "verify", "row", "transcript", "job",
                                "handoff", "index", "parked", "failed", "ready", "awaiting", "dead"}]
  /\ runs \in [Recordings -> 0..MaxRuns]
  /\ filed \in [Sources -> [of : Recordings \union {NoRecording},
                             status : {"none", "pending", "ready", "failed"}]]
  /\ bytes \in [Sources -> Recordings \union {NoRecording}]
  /\ clips \subseteq Recordings \X (1..MaxRuns)
  /\ whisper \in [Sources -> {"none", "open", "flipping", "completed", "failed"}]
  /\ attaching \in [Attachers -> Recordings \union {NoRecording}]
  /\ missed \subseteq Recordings

\* A video source plays its own recording: its artifact stays that of the run
\* that made it, and the bytes under the key of an artifact that is ready are
\* those of its recording, however often the recordings of a provider are run.
\* In R2 only: the local path writes the file before it asks for the key
\* (pipeline_zoom.go:163-231, 233-294, pipeline_teams.go:140-194).
PlaysOwnRecording ==
  driver = "r2" =>
  /\ \A s \in Sources : filed[s].status = "ready" => bytes[s] = filed[s].of
  /\ \A clip \in clips : filed[SourceOf[clip[1]]].of = clip[1]

\* A recording that is run again, after a failed index, a lost enqueue or a
\* death, does not appear twice (pipeline_zoom.go:503-544, 360-383).
OncePerRecording == \A a, b \in clips : a[1] = b[1] => a = b

\* A recording that awaits Whisper awaits a job that will flip it or has failed,
\* unless the job had ended when the state was written (pipeline_zoom.go:385-397,
\* cmd/api/main.go:202-219).
AwaitingIsWatched ==
  \A r \in Recordings \ missed :
    At(r, "awaiting") => whisper[SourceOf[r]] \in {"open", "flipping", "failed"}

\* What the imports of a session leave behind is of the right recording, once, and
\* is not waited for in vain.
ImportsAreOwn == PlaysOwnRecording /\ OncePerRecording /\ AwaitingIsWatched


\* A recording is not refused because another of the provider is in the session:
\* "idempotent per-recording", the old check "broke every 2nd-and-later import"
\* (pipeline_teams.go:94-98).
NotRefusedForAnother ==
  [][\A r \in Recordings : StoreRow(r) /\ filed[SourceOf[r]].of # r => import'[r] # "failed"]_ingestVars
===============================================================================
