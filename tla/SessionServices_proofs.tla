----------------------- MODULE SessionServices_proofs ------------------------
(***************************************************************************)
(* Proofs about the parts that work beside the requests: the ingestion of  *)
(* recordings, the observability worker, the connections to the providers, *)
(* the guards of the answers and the list of Teams recordings, a section   *)
(* for each.                                                               *)
(***************************************************************************)
EXTENDS RecordingIngest, HealthWatch, ProviderConnections, AnswerPipeline,
        TeamsListing, SequenceTheorems, FiniteSetTheorems, TLAPS

-----------------------------------------------------------------------------
(* What the imports leave behind (RecordingIngest).                         *)

Working == {"store", "put", "verify", "row", "transcript", "job", "handoff", "index"}
Stages == Working \union {"none", "due", "parked", "failed", "ready", "awaiting", "dead"}
ArtifactRows == [of : Recordings \union {NoRecording}, status : {"none", "pending", "ready", "failed"}]

IngestTyped ==
  /\ import \in [Recordings -> Stages]
  /\ runs \in [Recordings -> Nat]
  /\ filed \in [Sources -> ArtifactRows]
  /\ bytes \in [Sources -> Recordings \union {NoRecording}]
  /\ clips \subseteq Recordings \X Nat
  /\ whisper \in [Sources -> {"none", "open", "flipping", "completed", "failed"}]
  /\ attaching \in [Attachers -> Recordings \union {NoRecording}]

\* A run past the artifact has the row of its provider's key, and in R2 one that has
\* stored the file has it under the key; a row is never given to another recording.
HasRow(r) == filed[SourceOf[r]].of = r
RowsOwned ==
  \A r \in Recordings :
    /\ import[r] \in {"put", "verify", "transcript", "job", "handoff", "index"} => HasRow(r)
    /\ import[r] \in {"put", "verify"} => driver = "r2"
    /\ import[r] = "row" => driver = "local"
    /\ driver = "r2" /\ import[r] = "verify" => bytes[SourceOf[r]] = r
BytesOwn ==
  driver = "r2" => \A s \in Sources : filed[s].status = "ready" => bytes[s] = filed[s].of

\* What has a video source has the row, and no run of it comes to make a second one.
ClipsOwn ==
  \A clip \in clips : HasRow(clip[1]) /\ import[clip[1]] \notin {"put", "verify", "transcript"}

IngestInv == IngestTyped /\ RowsOwned /\ BytesOwn /\ ClipsOwn /\ OncePerRecording /\ AwaitingIsWatched

LEMMA SourcesOfAll == \A r \in Recordings : SourceOf[r] \in Sources
BY DEF Sources

\* A recording moves on, the others stay where they are.
MovesTo(r, stage) ==
  /\ import' \in [Recordings -> Stages] /\ import'[r] = stage
  /\ \A q \in Recordings \ {r} : import'[q] = import[q]

LEMMA Moving ==
  ASSUME IngestTyped, NEW r \in Recordings, NEW stage \in Stages, Move(r, stage)
  PROVE  MovesTo(r, stage)
BY DEF IngestTyped, Move, MovesTo

LEMMA RowTyped ==
  ASSUME IngestTyped, NEW r \in Recordings, NEW status \in {"pending", "ready", "failed"}, Row(r, status)
  PROVE  /\ filed' \in [Sources -> ArtifactRows]
         /\ filed'[SourceOf[r]].of = r /\ filed'[SourceOf[r]].status = status
         /\ \A s \in Sources \ {SourceOf[r]} : filed'[s] = filed[s]
<1>1. PICK row : row = [of |-> r, status |-> status] OBVIOUS
<1>2. row \in ArtifactRows /\ row.of = r /\ row.status = status BY <1>1 DEF ArtifactRows
<1>3. filed' = [filed EXCEPT ![SourceOf[r]] = row] BY <1>1 DEF Row
<1> QED BY <1>2, <1>3, SourcesOfAll DEF IngestTyped

\* A step that only moves a recording to where nothing is asked of it but what it has.
LEMMA OnlyMoves ==
  ASSUME IngestInv, NEW r \in Recordings, NEW stage \in Stages \ {"put", "verify", "row", "awaiting"},
         MovesTo(r, stage), runs' \in [Recordings -> Nat],
         UNCHANGED <<driver, filed, bytes, clips, whisper, missed>>,
         stage \in {"transcript", "job", "handoff", "index"} => HasRow(r),
         stage = "transcript" => import[r] = "transcript",
         attaching' \in [Attachers -> Recordings \union {NoRecording}]
  PROVE  IngestInv'
<1> USE DEF IngestInv
<1>1. IngestTyped' BY DEF IngestTyped, MovesTo
<1>2. RowsOwned' BY DEF RowsOwned, MovesTo, HasRow
<1>3. BytesOwn' BY DEF BytesOwn
<1>4. ClipsOwn'
  <2>1. \A clip \in clips : clip[1] \in Recordings BY DEF IngestTyped
  <2> QED BY <2>1 DEF ClipsOwn, MovesTo, HasRow
<1>5. OncePerRecording' BY DEF OncePerRecording
<1>6. AwaitingIsWatched' BY DEF AwaitingIsWatched, MovesTo, At
<1> QED BY <1>1, <1>2, <1>3, <1>4, <1>5, <1>6

-----------------------------------------------------------------------------
LEMMA RunsKeep ==
  ASSUME IngestInv, NEW r \in Recordings, RunAgain(r) \/ StartRun(r) \/ Stop(r) \/ Die(r) PROVE IngestInv'
<1>0. IngestTyped BY DEF IngestInv
<1>1. CASE StartRun(r)
  <2>1. runs' \in [Recordings -> Nat] /\ attaching' \in [Attachers -> Recordings \union {NoRecording}]
    BY <1>0, <1>1 DEF StartRun, IngestTyped
  <2>2. MovesTo(r, "store") BY <1>0, <1>1, Moving DEF StartRun, Stages, Working
  <2> QED BY <1>1, <2>1, <2>2, OnlyMoves DEF StartRun, Stages, Working
<1>2. CASE RunAgain(r) \/ Stop(r) \/ Die(r)
  <2>1. PICK stage \in {"due", "parked", "failed", "dead"} : Move(r, stage)
    BY <1>2 DEF RunAgain, Stop, Die
  <2>2. MovesTo(r, stage) BY <1>0, <2>1, Moving DEF Stages
  <2>3. UNCHANGED <<driver, runs, filed, bytes, clips, whisper, missed, attaching>>
    BY <1>2 DEF RunAgain, Stop, Die
  <2> QED BY <1>0, <2>2, <2>3, OnlyMoves DEF Stages, IngestTyped
<1> QED BY <1>1, <1>2

LEMMA AttachKeeps ==
  ASSUME IngestInv, NEW c \in Attachers, AttachEnqueue(c) \/ \E r \in Recordings : AttachCheck(c, r)
  PROVE  IngestInv'
<1>0. IngestTyped /\ attaching' \in [Attachers -> Recordings \union {NoRecording}]
  BY DEF IngestInv, IngestTyped, AttachEnqueue, AttachCheck
<1>1. CASE AttachEnqueue(c) /\ At(attaching[c], "none")
  <2>1. PICK r \in Recordings : r = attaching[c] BY <1>0, <1>1 DEF AttachEnqueue, IngestTyped
  <2>2. MovesTo(r, "due") BY <1>0, <1>1, <2>1, Moving DEF AttachEnqueue, Stages
  <2>3. UNCHANGED <<driver, runs, filed, bytes, clips, whisper, missed>> BY <1>1 DEF AttachEnqueue
  <2> QED BY <1>0, <2>2, <2>3, OnlyMoves DEF Stages, IngestTyped
<1>2. CASE UNCHANGED <<driver, import, runs, filed, bytes, clips, whisper, missed>>
  BY <1>0, <1>2 DEF IngestInv, IngestTyped, RowsOwned, BytesOwn, ClipsOwn, HasRow, OncePerRecording,
                    AwaitingIsWatched, At
<1> QED BY <1>1, <1>2 DEF AttachEnqueue, AttachCheck

\* A step of a recording that changes its own row, its own bytes or both.
LEMMA RowStep ==
  ASSUME IngestInv, NEW r \in Recordings, NEW stage \in {"put", "verify", "row", "transcript", "failed"},
         MovesTo(r, stage), UNCHANGED <<driver, runs, clips, whisper, attaching, missed>>,
         filed' \in [Sources -> ArtifactRows],
         bytes' \in [Sources -> Recordings \union {NoRecording}],
         \A s \in Sources \ {SourceOf[r]} : filed'[s] = filed[s] /\ bytes'[s] = bytes[s],
         filed'[SourceOf[r]] = filed[SourceOf[r]] \/ filed'[SourceOf[r]].of = r,
         KeyFree(SourceOf[r]) \/ HasRow(r) \/ filed' = filed,
         stage \in {"put", "verify", "transcript"} => filed'[SourceOf[r]].of = r /\ ~\E clip \in clips : clip[1] = r,
         stage \in {"put", "verify"} => driver = "r2",
         stage = "row" => driver = "local",
         driver = "r2" => /\ HasRow(r) \/ bytes' = bytes
                          /\ stage = "verify" => bytes'[SourceOf[r]] = r
                          /\ filed'[SourceOf[r]].status = "ready" =>
                               bytes'[SourceOf[r]] = filed'[SourceOf[r]].of
  PROVE  IngestInv'
<1> USE DEF IngestInv
<1>0. r \in Recordings /\ SourceOf[r] \in Sources /\ NoRecording \notin Recordings
  BY SourcesOfAll, RecordingIngestAssumption
<1>1. IngestTyped' BY DEF IngestTyped, MovesTo, Stages
\* whose row it was, it stays
<1>2. \A q \in Recordings : HasRow(q) => HasRow(q)' BY <1>0, SourcesOfAll DEF HasRow, KeyFree
<1>3. RowsOwned'
  <2>1. \A q \in Recordings \ {r} : HasRow(q) /\ driver = "r2" => bytes'[SourceOf[q]] = bytes[SourceOf[q]]
    BY <1>0, SourcesOfAll DEF HasRow
  <2>2. ASSUME NEW q \in Recordings \ {r}
        PROVE  /\ import'[q] \in {"put", "verify", "transcript", "job", "handoff", "index"} => HasRow(q)'
               /\ import'[q] \in {"put", "verify"} => driver' = "r2"
               /\ import'[q] = "row" => driver' = "local"
               /\ driver' = "r2" /\ import'[q] = "verify" => bytes'[SourceOf[q]] = q
    BY <1>2, <2>1 DEF RowsOwned, MovesTo
  <2>3. /\ import'[r] \in {"put", "verify", "transcript", "job", "handoff", "index"} => HasRow(r)'
        /\ import'[r] \in {"put", "verify"} => driver' = "r2"
        /\ import'[r] = "row" => driver' = "local"
        /\ driver' = "r2" /\ import'[r] = "verify" => bytes'[SourceOf[r]] = r
    BY DEF MovesTo, HasRow
  <2> QED BY <2>2, <2>3 DEF RowsOwned
<1>4. BytesOwn' BY <1>0 DEF BytesOwn
<1>5. ClipsOwn'
  <2>1. \A clip \in clips : clip[1] \in Recordings BY DEF IngestTyped
  <2>2. \A clip \in clips : HasRow(clip[1])' BY <1>2, <2>1 DEF ClipsOwn
  <2>3. \A clip \in clips : import'[clip[1]] \notin {"put", "verify", "transcript"}
    BY <2>1 DEF ClipsOwn, MovesTo
  <2> QED BY <2>2, <2>3 DEF ClipsOwn
<1>6. OncePerRecording' BY DEF OncePerRecording
<1>7. AwaitingIsWatched' BY DEF AwaitingIsWatched, MovesTo, At
<1> QED BY <1>1, <1>3, <1>4, <1>5, <1>6, <1>7

\* Who comes to the key of its provider first, or has it already, has no video source yet.
LEMMA NoClipYet ==
  ASSUME IngestInv, NEW r \in Recordings,
         KeyFree(SourceOf[r]) \/ import[r] \in {"put", "verify", "transcript"}
  PROVE  ~\E clip \in clips : clip[1] = r
BY RecordingIngestAssumption DEF IngestInv, ClipsOwn, HasRow, KeyFree

LEMMA StoreKeeps ==
  ASSUME IngestInv, NEW r \in Recordings,
         StoreRow(r) \/ PutFile(r) \/ VerifyFile(r) \/ WriteFile(r) \/ LocalRow(r)
  PROVE  IngestInv'
<1>0. IngestTyped /\ RowsOwned /\ BytesOwn /\ SourceOf[r] \in Sources /\ NoRecording \notin Recordings
  BY SourcesOfAll, RecordingIngestAssumption DEF IngestInv
<1>1. CASE StoreRow(r)
  <2>1. CASE KeyFree(SourceOf[r])
    <3>1. Row(r, "pending") /\ Move(r, "put") BY <1>1, <2>1 DEF StoreRow
    <3>2. MovesTo(r, "put") BY <1>0, <3>1, Moving DEF Stages, Working
    <3>3. UNCHANGED <<driver, runs, bytes, clips, whisper, attaching, missed>> /\ driver = "r2"
      BY <1>1 DEF StoreRow
    <3> QED BY <1>0, <2>1, <3>1, <3>2, <3>3, RowTyped, NoClipYet, RowStep DEF IngestTyped
  <2>2. CASE ~KeyFree(SourceOf[r])
    <3>1. MovesTo(r, "failed") BY <1>0, <1>1, <2>2, Moving DEF StoreRow, Stages
    <3>2. UNCHANGED <<driver, filed, runs, bytes, clips, whisper, attaching, missed>> BY <1>1, <2>2 DEF StoreRow
    <3> QED BY <1>0, <3>1, <3>2, OnlyMoves DEF Stages, IngestTyped
  <2> QED BY <2>1, <2>2
<1>2. CASE PutFile(r)
  <2>0. HasRow(r) /\ driver = "r2" /\ UNCHANGED <<driver, runs, clips, whisper, attaching, missed>> /\ import[r] = "put"
    BY <1>0, <1>2 DEF PutFile, RowsOwned, At
  <2>1. CASE bytes' = [bytes EXCEPT ![SourceOf[r]] = r] /\ Move(r, "verify") /\ filed' = filed
    <3>1. MovesTo(r, "verify") BY <1>0, <2>1, Moving DEF Stages, Working
    <3>2. /\ bytes' \in [Sources -> Recordings \union {NoRecording}] /\ bytes'[SourceOf[r]] = r
          /\ \A s \in Sources \ {SourceOf[r]} : bytes'[s] = bytes[s]
      BY <1>0, <2>1 DEF IngestTyped
    <3> QED BY <1>0, <2>0, <2>1, <3>1, <3>2, NoClipYet, RowStep DEF IngestTyped, HasRow
  <2>2. CASE Row(r, "failed") /\ Move(r, "failed") /\ bytes' = bytes
    <3>1. MovesTo(r, "failed") BY <1>0, <2>2, Moving DEF Stages
    <3> QED BY <1>0, <2>0, <2>2, <3>1, RowTyped, RowStep DEF IngestTyped
  <2> QED BY <1>2, <2>1, <2>2 DEF PutFile
<1>3. CASE VerifyFile(r)
  <2>0. /\ HasRow(r) /\ bytes[SourceOf[r]] = r /\ driver = "r2" /\ import[r] = "verify"
        /\ UNCHANGED <<driver, bytes, runs, clips, whisper, attaching, missed>>
    BY <1>0, <1>3 DEF VerifyFile, RowsOwned, At
  <2>1. ASSUME NEW status \in {"ready", "pending"}, Row(r, status), Move(r, "transcript") PROVE IngestInv'
    <3>1. MovesTo(r, "transcript") BY <1>0, <2>1, Moving DEF Stages, Working
    <3> QED BY <1>0, <2>0, <2>1, <3>1, RowTyped, NoClipYet, RowStep DEF IngestTyped
  <2>2. CASE Row(r, "failed") /\ Move(r, "failed")
    <3>1. MovesTo(r, "failed") BY <1>0, <2>2, Moving DEF Stages
    <3> QED BY <1>0, <2>0, <2>2, <3>1, RowTyped, RowStep DEF IngestTyped
  <2> QED BY <1>3, <2>1, <2>2 DEF VerifyFile
<1>4. CASE WriteFile(r)
  <2>1. PICK stage \in {"row", "failed"}, x \in {r, NoRecording} :
          Move(r, stage) /\ bytes' = [bytes EXCEPT ![SourceOf[r]] = x]
    BY <1>4 DEF WriteFile
  <2>2. MovesTo(r, stage) BY <1>0, <2>1, Moving DEF Stages, Working
  <2>3. driver = "local" /\ UNCHANGED <<driver, filed, runs, clips, whisper, attaching, missed>>
    BY <1>4 DEF WriteFile
  <2>4. /\ bytes' \in [Sources -> Recordings \union {NoRecording}]
        /\ \A s \in Sources \ {SourceOf[r]} : bytes'[s] = bytes[s]
    BY <1>0, <2>1 DEF IngestTyped
  <2> QED BY <1>0, <2>2, <2>3, <2>4, RowStep DEF IngestTyped
<1>5. CASE LocalRow(r)
  <2>0. driver = "local" \/ driver # "r2" BY <1>0, <1>5 DEF LocalRow, RowsOwned, At
  <2>1. CASE KeyFree(SourceOf[r])
    <3>1. PICK status \in {"ready", "pending"} : Row(r, status) BY <1>5, <2>1 DEF LocalRow
    <3>2. MovesTo(r, "transcript") BY <1>0, <1>5, <2>1, Moving DEF LocalRow, Stages, Working
    <3>3. UNCHANGED <<driver, runs, bytes, clips, whisper, attaching, missed>> BY <1>5, <2>1 DEF LocalRow
    <3>4. driver # "r2" BY <2>0
    <3> QED BY <1>0, <2>1, <3>1, <3>2, <3>3, <3>4, RowTyped, NoClipYet, RowStep DEF IngestTyped
  <2>2. CASE ~KeyFree(SourceOf[r])
    <3>1. MovesTo(r, "failed") BY <1>0, <1>5, <2>2, Moving DEF LocalRow, Stages
    <3>2. UNCHANGED <<driver, filed, runs, clips, whisper, attaching, missed>> BY <1>5, <2>2 DEF LocalRow
    <3>3. /\ bytes' \in [Sources -> Recordings \union {NoRecording}]
          /\ \A s \in Sources \ {SourceOf[r]} : bytes'[s] = bytes[s]
      BY <1>0, <1>5, <2>2 DEF LocalRow, IngestTyped
    <3> QED BY <1>0, <2>0, <3>1, <3>2, <3>3, RowStep DEF IngestTyped
  <2> QED BY <2>1, <2>2
<1> QED BY <1>1, <1>2, <1>3, <1>4, <1>5

\* A video source is made once: nobody has one who is about to make it.
LEMMA ClipKeeps ==
  ASSUME IngestInv, NEW r \in Recordings, NEW stage \in {"index", "job"}, MovesTo(r, stage),
         import[r] = "transcript", clips' = clips \union {<<r, runs[r]>>},
         UNCHANGED <<driver, runs, filed, bytes, whisper, attaching, missed>>
  PROVE  IngestInv'
<1> USE DEF IngestInv
<1>0. HasRow(r) /\ ~\E clip \in clips : clip[1] = r BY NoClipYet DEF RowsOwned
<1>1. IngestTyped' BY DEF IngestTyped, MovesTo
<1>2. RowsOwned' BY <1>0 DEF RowsOwned, MovesTo, HasRow
<1>3. BytesOwn' BY DEF BytesOwn
<1>4. \A clip \in clips : clip[1] \in Recordings \ {r} BY <1>0 DEF IngestTyped
<1>5. PICK new : new = <<r, runs[r]>> OBVIOUS
<1>6. new[1] = r /\ clips' = clips \union {new} BY <1>5
<1>7. ClipsOwn' BY <1>0, <1>4, <1>6 DEF ClipsOwn, MovesTo, HasRow
<1>8. OncePerRecording' BY <1>0, <1>6 DEF OncePerRecording
<1>9. AwaitingIsWatched' BY DEF AwaitingIsWatched, MovesTo, At
<1> QED BY <1>1, <1>2, <1>3, <1>7, <1>8, <1>9

LEMMA TranscriptKeeps ==
  ASSUME IngestInv, NEW r \in Recordings, NativeTranscript(r) \/ FallBackToWhisper(r) \/ IndexRun(r)
  PROVE  IngestInv'
<1>0. IngestTyped BY DEF IngestInv
<1>1. CASE clips' = clips \union {<<r, runs[r]>>} /\ (NativeTranscript(r) \/ FallBackToWhisper(r)) /\ import'[r] # "failed"
  <2>1. PICK stage \in {"index", "job"} : Move(r, stage)
    BY <1>0, <1>1 DEF NativeTranscript, FallBackToWhisper, Move, IngestTyped
  <2>2. MovesTo(r, stage) BY <1>0, <2>1, Moving DEF Stages, Working
  <2> QED BY <1>1, <2>2, ClipKeeps DEF NativeTranscript, FallBackToWhisper, At
<1>2. CASE clips' = clips /\ Move(r, "failed") /\ NativeTranscript(r)
  <2>1. MovesTo(r, "failed") BY <1>0, <1>2, Moving DEF Stages
  <2> QED BY <1>0, <1>2, <2>1, OnlyMoves DEF Stages, IngestTyped, NativeTranscript
<1>3. CASE IndexRun(r)
  <2>1. MovesTo(r, "ready") BY <1>0, <1>3, Moving DEF IndexRun, Stages
  <2> QED BY <1>0, <1>3, <2>1, OnlyMoves DEF Stages, IngestTyped, IndexRun
<1> QED BY <1>0, <1>1, <1>2, <1>3 DEF NativeTranscript, FallBackToWhisper, Move, IngestTyped

\* The job of a provider is opened once and ends once; who awaits it is told, or was late.
LEMMA WhisperKeeps ==
  ASSUME IngestInv, NEW r \in Recordings, WhisperJob(r) \/ HandOff(r) PROVE IngestInv'
<1> USE DEF IngestInv
<1>0. SourceOf[r] \in Sources /\ HasRow(r) BY SourcesOfAll DEF RowsOwned, WhisperJob, HandOff, At
<1>1. PICK stage \in {"handoff", "parked", "awaiting"} :
        Move(r, stage) /\ (stage = "awaiting" => HandOff(r)) /\ (stage # "awaiting" => WhisperJob(r))
  BY DEF WhisperJob, HandOff
<1>2. MovesTo(r, stage) BY <1>1, Moving DEF Stages, Working
<1>3. UNCHANGED <<driver, runs, filed, bytes, clips, attaching>> /\ import[r] \in {"job", "handoff"}
  BY DEF WhisperJob, HandOff, At
<1>4. /\ whisper' \in [Sources -> {"none", "open", "flipping", "completed", "failed"}]
      /\ \A s \in Sources : whisper[s] # "none" => whisper'[s] = whisper[s]
  BY <1>0 DEF WhisperJob, HandOff, IngestTyped
<1>5. IngestTyped'
  <2>1. import' \in [Recordings -> Stages] BY <1>2 DEF MovesTo
  <2>2. UNCHANGED <<runs, filed, bytes, clips, attaching>> BY <1>3
  <2> HIDE DEF IngestInv
  <2>3. IngestTyped BY DEF IngestInv
  <2> QED BY <1>4, <2>1, <2>2, <2>3 DEF IngestTyped
<1>6. RowsOwned' BY <1>0, <1>2, <1>3 DEF RowsOwned, MovesTo, HasRow
<1>7. BytesOwn' BY <1>3 DEF BytesOwn
<1>8. ClipsOwn'
  <2>1. \A clip \in clips : clip[1] \in Recordings BY DEF IngestTyped
  <2> QED BY <1>2, <1>3, <2>1 DEF ClipsOwn, MovesTo, HasRow
<1>9. OncePerRecording' BY <1>3 DEF OncePerRecording
<1>10. AwaitingIsWatched'
  <2>1. ASSUME NEW q \in Recordings \ {r}, q \notin missed', import'[q] = "awaiting"
        PROVE  whisper'[SourceOf[q]] \in {"open", "flipping", "failed"}
    <3>1. q \notin missed BY <2>1 DEF WhisperJob, HandOff
    <3>2. import[q] = "awaiting" BY <1>2, <2>1 DEF MovesTo
    <3>3. whisper[SourceOf[q]] \in {"open", "flipping", "failed"}
      BY <3>1, <3>2 DEF AwaitingIsWatched, At
    <3> QED BY <1>4, <3>3, SourcesOfAll
  <2>2. ASSUME r \notin missed', import'[r] = "awaiting"
        PROVE  whisper'[SourceOf[r]] \in {"open", "flipping", "failed"}
    <3>1. HandOff(r) BY <1>1, <1>2, <2>2 DEF MovesTo
    <3> QED BY <2>2, <3>1 DEF HandOff
  <2> QED BY <2>1, <2>2 DEF AwaitingIsWatched, At
<1> QED BY <1>5, <1>6, <1>7, <1>8, <1>9, <1>10

LEMMA EndsKeep ==
  ASSUME IngestInv, NEW s \in Sources, WhisperEnds(s) PROVE IngestInv'
<1> USE DEF IngestInv
<1>1. PICK end \in {"flipping", "failed"} : whisper' = [whisper EXCEPT ![s] = end] BY DEF WhisperEnds
<1>2. UNCHANGED <<driver, import, runs, filed, bytes, clips, attaching, missed>> BY DEF WhisperEnds
<1>3. IngestTyped' BY <1>1, <1>2 DEF IngestTyped
<1>4. RowsOwned' /\ BytesOwn' /\ ClipsOwn' /\ OncePerRecording'
  BY <1>2 DEF RowsOwned, BytesOwn, ClipsOwn, OncePerRecording, HasRow
<1>5. AwaitingIsWatched' BY <1>1, <1>2, SourcesOfAll DEF AwaitingIsWatched, At, IngestTyped
<1> QED BY <1>3, <1>4, <1>5

\* After a flip nothing awaits.
LEMMA FlipKeeps ==
  ASSUME IngestInv, OtherJobCompletes \/ \E s \in Sources : Flip(s) PROVE IngestInv'
<1> USE DEF IngestInv
<1>1. UNCHANGED <<driver, runs, filed, bytes, clips, attaching, missed>> /\ FlipAwaiting
  BY DEF OtherJobCompletes, Flip
<1>2. whisper' \in [Sources -> {"none", "open", "flipping", "completed", "failed"}]
  BY DEF OtherJobCompletes, Flip, IngestTyped
<1>3. \A r \in Recordings : import'[r] # "awaiting" /\ import'[r] \in {import[r], "ready"}
  BY <1>1 DEF FlipAwaiting, Awaiting, At
<1>4. import' \in [Recordings -> Stages]
  BY <1>1 DEF FlipAwaiting, IngestTyped, Stages
<1>5. IngestTyped' BY <1>1, <1>2, <1>4 DEF IngestTyped
<1>6. RowsOwned' BY <1>1, <1>3 DEF RowsOwned, HasRow
<1>7. BytesOwn' /\ OncePerRecording' BY <1>1 DEF BytesOwn, OncePerRecording
<1>8. ClipsOwn'
  <2>1. \A clip \in clips : clip[1] \in Recordings BY DEF IngestTyped
  <2> QED BY <1>1, <1>3, <2>1 DEF ClipsOwn, HasRow
<1>9. AwaitingIsWatched' BY <1>3 DEF AwaitingIsWatched, At
<1> QED BY <1>5, <1>6, <1>7, <1>8, <1>9

LEMMA SourceDeletionKeeps ==
  ASSUME IngestInv, NEW r \in Recordings, DeleteVideoSource(r) PROVE IngestInv'
<1> USE DEF IngestInv
<1>1. clips' \subseteq clips /\ UNCHANGED <<driver, import, runs, filed, bytes, whisper, attaching, missed>>
  BY DEF DeleteVideoSource
<1>2. IngestTyped' /\ RowsOwned' /\ BytesOwn' BY <1>1 DEF IngestTyped, RowsOwned, BytesOwn, HasRow
<1>3. ClipsOwn' /\ OncePerRecording' /\ AwaitingIsWatched'
  BY <1>1 DEF ClipsOwn, OncePerRecording, AwaitingIsWatched, HasRow, At
<1> QED BY <1>2, <1>3

-----------------------------------------------------------------------------
LEMMA IngestStart == IngestInit => IngestInv
<1> SUFFICES ASSUME IngestInit PROVE IngestInv OBVIOUS
<1>1. PICK row : row = [of |-> NoRecording, status |-> "none"] OBVIOUS
<1>2. row \in ArtifactRows /\ row.status = "none" BY <1>1 DEF ArtifactRows
<1>3. \A s \in Sources : filed[s] = row BY <1>1 DEF IngestInit
<1>4. IngestTyped BY <1>1, <1>2 DEF IngestInit, IngestTyped, Stages
<1>5. \A r \in Recordings : import[r] = "none" BY DEF IngestInit
<1>6. clips = {} BY DEF IngestInit
<1>7. RowsOwned BY <1>5 DEF RowsOwned
<1>8. BytesOwn BY <1>2, <1>3 DEF BytesOwn
<1>9. ClipsOwn /\ OncePerRecording BY <1>6 DEF ClipsOwn, OncePerRecording
<1>10. AwaitingIsWatched BY <1>5 DEF AwaitingIsWatched, At
<1> QED BY <1>4, <1>7, <1>8, <1>9, <1>10 DEF IngestInv

LEMMA IngestStep == IngestInv /\ [IngestNext]_ingestVars => IngestInv'
<1> SUFFICES ASSUME IngestInv, [IngestNext]_ingestVars PROVE IngestInv' OBVIOUS
<1>1. CASE UNCHANGED ingestVars
  BY <1>1 DEF ingestVars, IngestInv, IngestTyped, RowsOwned, BytesOwn, ClipsOwn, HasRow, OncePerRecording,
              AwaitingIsWatched, At
<1>2. ASSUME NEW c \in Attachers, AttachEnqueue(c) \/ (\E r \in Recordings : AttachCheck(c, r)) PROVE IngestInv'
  BY <1>2, AttachKeeps
<1>3. ASSUME NEW r \in Recordings,
             \/ RunAgain(r) \/ StartRun(r) \/ Stop(r) \/ Die(r)
             \/ StoreRow(r) \/ PutFile(r) \/ VerifyFile(r) \/ WriteFile(r) \/ LocalRow(r)
             \/ NativeTranscript(r) \/ IndexRun(r) \/ FallBackToWhisper(r)
             \/ WhisperJob(r) \/ HandOff(r) \/ DeleteVideoSource(r)
      PROVE  IngestInv'
  BY <1>3, RunsKeep, StoreKeeps, TranscriptKeeps, WhisperKeeps, SourceDeletionKeeps
<1>4. ASSUME NEW s \in Sources, WhisperEnds(s) \/ Flip(s) PROVE IngestInv' BY <1>4, EndsKeep, FlipKeeps
<1>5. CASE OtherJobCompletes BY <1>5, FlipKeeps
<1> QED BY <1>1, <1>2, <1>3, <1>4, <1>5 DEF IngestNext

LEMMA IngestMeans == IngestInv => ImportsAreOwn
BY DEF IngestInv, ImportsAreOwn, PlaysOwnRecording, BytesOwn, ClipsOwn, HasRow

\* For any recordings of any providers: a video source is made once however often the
\* import is run again, in R2 it plays the file of its own recording, and who awaits
\* Whisper is not left waiting by an end it has not missed
\* (pipeline_zoom.go:163-294, 360-397, 503-544; pipeline_teams.go:140-194; cmd/api/main.go:202-219).
THEOREM ImportsStayOwn == IngestSpec => []ImportsAreOwn
BY IngestStart, IngestStep, IngestMeans, PTL DEF IngestSpec

-----------------------------------------------------------------------------
(* A rise of errors is reported (HealthWatch).                              *)

ToldBy(b) == b.prev = NoBase \/ b.status = "RED" \/ b.forced \/ OnlyExpected(b.seen)
ReportedUpTo(base) == \E b \in bundles : b.seen.errors >= base.errors /\ ToldBy(b)

\* A run's verdict is that of the two windows it holds, and so is a bundle's.
HonestVerdict(x) == ~x.forced => x.status = StatusOf(x.prev, x.seen)

\* A run holds only what was reported, and its window has been when it is a baseline.
RunRows == [at : {"idle", "gathered", "loaded", "compared", "published", "filed", "over"},
            seen : Windows \cup {NoBase}, prev : Windows \cup {NoBase},
            status : {"GREEN", "YELLOW", "RED"}, forced : BOOLEAN]
RunSound(x) ==
    /\ x \in RunRows
    /\ x.at \in {"gathered", "loaded", "compared", "published", "filed"} => x.seen \in Windows
    /\ x.at \in {"compared", "published", "filed"} => HonestVerdict(x)
    /\ x.at \in {"published", "filed"} => ReportedUpTo(x.seen)
    /\ x.prev # NoBase => ReportedUpTo(x.prev)
BundleSound(b) ==
    /\ b.seen \in Windows /\ b.prev \in Windows \cup {NoBase} /\ b.forced \in BOOLEAN
    /\ b.status \in {"GREEN", "YELLOW", "RED"} /\ HonestVerdict(b)

WatchInv ==
    /\ watch = [r \in Watches |-> watch[r]]
    /\ \A r \in Watches : RunSound(watch[r])
    /\ \A base \in {disc, shelf} \ {NoBase} : base \in Windows /\ ReportedUpTo(base)
    /\ \A b \in bundles : BundleSound(b)

LEMMA WindowsCount ==
    ASSUME NEW w \in Windows
    PROVE  w.n \in Nat /\ w.p95 \in Nat /\ w.rpm \in Nat /\ w.errors \in Nat /\ w.auth \in Nat /\ w.hot \in Nat
BY WatchAssumption

LEMMA ThresholdsCount == LowN \in Nat /\ SlowFrom \in Nat /\ AuthMax \in Nat
BY WatchAssumption

LEMMA StatusesAre ==
    ASSUME NEW prev, NEW now PROVE StatusOf(prev, now) \in {"GREEN", "YELLOW", "RED"}
BY DEF StatusOf

\* What is neither RED nor expected has no more errors than the baseline.
LEMMA NotRedNotRisen ==
    ASSUME NEW prev \in Windows, NEW now \in Windows, prev # NoBase,
           StatusOf(prev, now) # "RED", ~OnlyExpected(now)
    PROVE  now.errors <= prev.errors
<1>1. ~ErrorsRose(prev, now) BY DEF StatusOf
<1> QED BY <1>1, WindowsCount DEF ErrorsRose

\* A worse window has no better verdict.
LEMMA VerdictsOrdered ==
    ASSUME NEW prev \in Windows, NEW v \in Windows, NEW w \in Windows, Worse(v, w)
    PROVE  Rank(StatusOf(prev, v)) >= Rank(StatusOf(prev, w))
<1> USE WindowsCount, ThresholdsCount
<1>1. ErrorsRose(prev, w) => ErrorsRose(prev, v)
  BY DEF ErrorsRose, OnlyExpected, Hot, Worse
<1>2. Slower(prev, w, 50) => Slower(prev, v, 50)
  BY DEF Slower, Comparable, Worse
<1>3. Slower(prev, w, 20) => Slower(prev, v, 20)
  BY DEF Slower, Comparable, Worse
<1>4. Quieter(prev, w) => Quieter(prev, v)
  BY DEF Quieter, Comparable, Worse
<1>5. (Hot(w) => Hot(v)) /\ (w.hot >= 3 * AuthMax => v.hot >= 3 * AuthMax)
  BY DEF Hot, Worse
<1> HIDE WindowsCount, ThresholdsCount
<1>6. /\ StatusOf(prev, w) = "RED" => StatusOf(prev, v) = "RED"
      /\ StatusOf(prev, w) = "YELLOW" => StatusOf(prev, v) \in {"RED", "YELLOW"}
  BY <1>1, <1>2, <1>3, <1>4, <1>5 DEF StatusOf
<1>7. Rank("GREEN") = 0 /\ Rank("YELLOW") = 1 /\ Rank("RED") = 2 BY DEF Rank
<1> QED BY <1>6, <1>7, StatusesAre

-----------------------------------------------------------------------------
\* A run becomes x, the others stay.
RunTurns(r, x) ==
    /\ watch' = [q \in Watches |-> watch'[q]] /\ watch'[r] = x
    /\ \A q \in Watches \ {r} : watch'[q] = watch[q]

LEMMA RunTurnsTo ==
    ASSUME WatchInv, NEW r \in Watches, NEW x, watch' = [watch EXCEPT ![r] = x] PROVE RunTurns(r, x)
BY DEF WatchInv, RunTurns

\* What is reported stays reported.
LEMMA ReportsStay ==
    ASSUME NEW base, ReportedUpTo(base), bundles \subseteq bundles' PROVE ReportedUpTo(base)'
BY DEF ReportedUpTo, ToldBy

\* A step of one run, with what must hold of what it leaves.
LEMMA RunStep ==
    ASSUME WatchInv, NEW r \in Watches, NEW x, RunTurns(r, x), RunSound(x)',
           bundles \subseteq bundles',
           \A b \in bundles' \ bundles : BundleSound(b),
           {disc', shelf'} \subseteq {disc, shelf, NoBase} \cup {w \in Windows : ReportedUpTo(w)}
    PROVE  WatchInv'
<1>1. ASSUME NEW q \in Watches PROVE RunSound(watch[q])'
  <2>1. CASE q = r BY <2>1 DEF RunTurns, RunSound, HonestVerdict
  <2>2. CASE q # r
    <3>1. watch'[q] = watch[q] BY <2>2 DEF RunTurns
    <3>2. RunSound(watch[q]) BY DEF WatchInv
    <3> QED BY <3>1, <3>2, ReportsStay DEF RunSound, HonestVerdict
  <2> QED BY <2>1, <2>2
<1>2. \A base \in {disc', shelf'} \ {NoBase} : base \in Windows /\ ReportedUpTo(base)'
  <2>1. SUFFICES ASSUME NEW base \in {disc', shelf'}, base # NoBase PROVE base \in Windows /\ ReportedUpTo(base)
    BY ReportsStay
  <2> QED BY <2>1 DEF WatchInv
<1>3. \A b \in bundles' : BundleSound(b) BY DEF WatchInv
<1> QED BY <1>1, <1>2, <1>3 DEF WatchInv, RunTurns, BundleSound, HonestVerdict

LEMMA WatchStep == WatchInv /\ [WatchNext]_watchVars => WatchInv'
<1> SUFFICES ASSUME WatchInv, [WatchNext]_watchVars PROVE WatchInv' OBVIOUS
\* a step that moves one run on and leaves the bundles and the baselines
<1>0. ASSUME NEW r \in Watches, NEW x, watch' = [watch EXCEPT ![r] = x], RunSound(x),
             UNCHANGED <<disc, shelf, bundles>>
      PROVE  WatchInv'
  <2>1. RunTurns(r, x) BY <1>0, RunTurnsTo
  <2>2. RunSound(x)' BY <1>0, ReportsStay DEF RunSound, HonestVerdict
  <2> QED BY <1>0, <2>1, <2>2, RunStep
\* an end: what the run held does not matter any more
<1>1. ASSUME NEW r \in Watches, Turns(r, "over"), UNCHANGED <<disc, shelf, bundles>> PROVE WatchInv'
  <2>1. PICK x : x = [watch[r] EXCEPT !.at = "over"] OBVIOUS
  <2>2. RunSound(watch[r]) BY DEF WatchInv
  <2>3. x \in RunRows /\ x.at = "over" /\ x.prev = watch[r].prev BY <2>1, <2>2 DEF RunSound, RunRows
  <2>4. RunSound(x) BY <2>2, <2>3 DEF RunSound
  <2> QED BY <1>0, <1>1, <2>1, <2>4 DEF Turns
<1>2. CASE UNCHANGED watchVars
  BY <1>2 DEF watchVars, WatchInv, RunSound, BundleSound, HonestVerdict, ReportedUpTo, ToldBy
<1>3. CASE DiscLost
  <2>1. /\ UNCHANGED <<watch, bundles>> /\ {disc', shelf'} \subseteq {disc, shelf, NoBase} BY <1>3 DEF DiscLost
  <2> QED BY <2>1 DEF WatchInv, RunSound, BundleSound, HonestVerdict, ReportedUpTo, ToldBy
<1>4. ASSUME NEW r \in Watches, Gather(r) PROVE WatchInv'
  <2>1. CASE Turns(r, "over") BY <1>1, <1>4, <2>1 DEF Gather
  <2>2. ASSUME NEW w \in Windows, watch' = [watch EXCEPT ![r].at = "gathered", ![r].seen = w] PROVE WatchInv'
    <3>1. PICK x : x = [watch[r] EXCEPT !.at = "gathered", !.seen = w] OBVIOUS
    <3>2. RunSound(watch[r]) BY DEF WatchInv
    <3>3. x \in RunRows /\ x.at = "gathered" /\ x.seen = w /\ x.prev = watch[r].prev
      BY <3>1, <3>2 DEF RunSound, RunRows
    <3>4. RunSound(x) BY <3>2, <3>3 DEF RunSound
    <3>5. watch' = [watch EXCEPT ![r] = x] BY <2>2, <3>1
    <3> QED BY <1>0, <1>4, <3>4, <3>5 DEF Gather
  <2> QED BY <1>4, <2>1, <2>2 DEF Gather
<1>5. ASSUME NEW r \in Watches, LoadBaseline(r) PROVE WatchInv'
  <2>1. CASE Turns(r, "over") BY <1>1, <1>5, <2>1 DEF LoadBaseline
  <2>2. ASSUME NEW base \in {disc, shelf}, watch' = [watch EXCEPT ![r].at = "loaded", ![r].prev = base]
        PROVE  WatchInv'
    <3>1. PICK x : x = [watch[r] EXCEPT !.at = "loaded", !.prev = base] OBVIOUS
    <3>2. RunSound(watch[r]) /\ watch[r].at = "gathered" BY <1>5 DEF WatchInv, LoadBaseline
    <3>3. base \in Windows \cup {NoBase} /\ (base # NoBase => ReportedUpTo(base)) BY <2>2 DEF WatchInv
    <3>4. x \in RunRows /\ x.at = "loaded" /\ x.seen = watch[r].seen /\ x.prev = base
      BY <3>1, <3>2, <3>3 DEF RunSound, RunRows
    <3>5. RunSound(x) BY <3>2, <3>3, <3>4 DEF RunSound
    <3>6. watch' = [watch EXCEPT ![r] = x] BY <2>2, <3>1
    <3> QED BY <1>0, <1>5, <3>5, <3>6 DEF LoadBaseline
  <2> QED BY <1>5, <2>1, <2>2 DEF LoadBaseline
<1>6. ASSUME NEW r \in Watches, Compare(r) PROVE WatchInv'
  <2>1. CASE Turns(r, "over") BY <1>1, <1>6, <2>1 DEF Compare
  <2>2. ASSUME NEW forced \in Forceable \cup {""}, NEW status,
               status = IF forced = "" THEN StatusOf(watch[r].prev, watch[r].seen) ELSE forced,
               watch' = [watch EXCEPT ![r].at = "compared", ![r].status = status, ![r].forced = (forced # "")]
        PROVE  WatchInv'
    <3>0. PICK isForced \in BOOLEAN : isForced <=> (forced # "") OBVIOUS
    <3>1. PICK x : x = [watch[r] EXCEPT !.at = "compared", !.status = status, !.forced = isForced] OBVIOUS
    <3>2. RunSound(watch[r]) /\ watch[r].at = "loaded" BY <1>6 DEF WatchInv, Compare
    <3>3. status \in {"GREEN", "YELLOW", "RED"} BY <2>2, StatusesAre, WatchAssumption
    <3>4. /\ x \in RunRows /\ x.at = "compared" /\ x.seen = watch[r].seen /\ x.prev = watch[r].prev
          /\ x.status = status /\ x.forced = isForced
      BY <3>1, <3>2, <3>3 DEF RunSound, RunRows
    <3>5. HonestVerdict(x) BY <2>2, <3>0, <3>4 DEF HonestVerdict
    <3>6. RunSound(x) BY <3>2, <3>4, <3>5 DEF RunSound
    <3>7. (forced # "") = isForced BY <3>0
    <3>8. watch' = [watch EXCEPT ![r] = x] BY <2>2, <3>1, <3>7
    <3> QED BY <1>0, <1>6, <3>6, <3>8 DEF Compare
  <2> QED BY <1>6, <2>1, <2>2 DEF Compare
<1>7. ASSUME NEW r \in Watches, WriteBundle(r) PROVE WatchInv'
  <2>1. PICK x : x = [watch[r] EXCEPT !.at = "published"] OBVIOUS
  <2>2. PICK b : b = [seen |-> watch[r].seen, prev |-> watch[r].prev,
                      status |-> watch[r].status, forced |-> watch[r].forced] OBVIOUS
  <2>3. RunSound(watch[r]) /\ watch[r].at = "compared" BY <1>7 DEF WatchInv, WriteBundle
  <2>4. /\ x \in RunRows /\ x.at = "published" /\ x.seen = watch[r].seen /\ x.prev = watch[r].prev
        /\ x.status = watch[r].status /\ x.forced = watch[r].forced
    BY <2>1, <2>3 DEF RunSound, RunRows
  <2>5. BundleSound(b) BY <2>2, <2>3 DEF RunSound, RunRows, BundleSound, HonestVerdict
  <2>6. bundles' = bundles \cup {b} BY <1>7, <2>2 DEF WriteBundle
  <2>7. ReportedUpTo(b.seen)'
    <3>0. b.seen \in Windows /\ b.seen.errors \in Nat BY <2>5, WindowsCount DEF BundleSound
    <3>1. CASE ToldBy(b) BY <2>6, <3>0, <3>1 DEF ReportedUpTo, ToldBy
    <3>2. CASE ~ToldBy(b)
      <4>1. b.prev \in Windows /\ b.prev # NoBase /\ ~OnlyExpected(b.seen) /\ StatusOf(b.prev, b.seen) # "RED"
        BY <2>5, <3>2 DEF ToldBy, BundleSound, HonestVerdict
      <4>2. b.seen.errors <= b.prev.errors BY <3>0, <4>1, NotRedNotRisen
      <4>3. ReportedUpTo(b.prev) BY <2>2, <2>3, <4>1 DEF RunSound
      <4>4. PICK c \in bundles : c.seen.errors >= b.prev.errors /\ ToldBy(c) BY <4>3 DEF ReportedUpTo
      <4>5. c.seen.errors \in Nat /\ b.prev.errors \in Nat BY <4>1, WindowsCount DEF WatchInv, BundleSound
      <4>6. c.seen.errors >= b.seen.errors BY <3>0, <4>2, <4>4, <4>5
      <4> QED BY <2>6, <4>4, <4>6 DEF ReportedUpTo, ToldBy
    <3> QED BY <3>1, <3>2
  <2>8. RunSound(x)'
    <3>1. HonestVerdict(x) BY <2>3, <2>4 DEF RunSound, HonestVerdict
    <3>2. x.seen = b.seen BY <2>2, <2>4
    <3>3. bundles \subseteq bundles' BY <2>6
    <3>4. ReportedUpTo(x.seen)' BY <2>7, <3>2 DEF ReportedUpTo
    <3>5. x.prev # NoBase => ReportedUpTo(x.prev)' BY <2>3, <2>4, <3>3, ReportsStay DEF RunSound
    <3> QED BY <2>3, <2>4, <3>1, <3>4, <3>5 DEF RunSound, HonestVerdict
  <2>9. watch' = [watch EXCEPT ![r] = x] BY <1>7, <2>1 DEF WriteBundle, Turns
  <2>10. RunTurns(r, x) BY <2>9, RunTurnsTo
  <2> QED BY <1>7, <2>5, <2>6, <2>8, <2>10, RunStep DEF WriteBundle
\* what becomes a baseline was reported
<1>8. ASSUME NEW r \in Watches, WriteBaseline(r) \/ PutBaseline(r) PROVE WatchInv'
  <2>1. PICK at \in {"filed", "over"} : Turns(r, at) BY <1>8 DEF WriteBaseline, PutBaseline
  <2>2. PICK x : x = [watch[r] EXCEPT !.at = at] OBVIOUS
  <2>3. RunSound(watch[r]) /\ watch[r].at \in {"published", "filed"}
    BY <1>8 DEF WatchInv, WriteBaseline, PutBaseline
  <2>4. /\ x \in RunRows /\ x.at = at /\ x.seen = watch[r].seen /\ x.prev = watch[r].prev
        /\ x.status = watch[r].status /\ x.forced = watch[r].forced
    BY <2>1, <2>2, <2>3 DEF RunSound, RunRows
  <2>5. UNCHANGED bundles BY <1>8 DEF WriteBaseline, PutBaseline
  <2>6. RunSound(x) BY <2>3, <2>4 DEF RunSound, HonestVerdict
  <2>7. RunSound(x)' BY <2>5, <2>6 DEF RunSound, HonestVerdict, ReportedUpTo, ToldBy
  <2>8. watch[r].seen \in Windows /\ ReportedUpTo(watch[r].seen) BY <2>3 DEF RunSound
  <2>9. {disc', shelf'} \subseteq {disc, shelf, NoBase} \cup {w \in Windows : ReportedUpTo(w)}
    BY <1>8, <2>8 DEF WriteBaseline, PutBaseline
  <2>10. RunTurns(r, x) BY <2>1, <2>2, RunTurnsTo DEF Turns
  <2> QED BY <2>5, <2>7, <2>9, <2>10, RunStep
<1>9. ASSUME NEW r \in Watches, WriteFails(r) PROVE WatchInv'
  BY <1>1, <1>9 DEF WriteFails, GivesUp
<1> QED BY <1>2, <1>3, <1>4, <1>5, <1>6, <1>7, <1>8, <1>9 DEF WatchNext

LEMMA WatchStart == WatchInit => WatchInv
<1> SUFFICES ASSUME WatchInit PROVE WatchInv OBVIOUS
<1>1. Asleep \in RunRows /\ Asleep.at = "idle" /\ Asleep.prev = NoBase BY DEF Asleep, RunRows
<1>2. RunSound(Asleep) BY <1>1 DEF RunSound
<1> QED BY <1>2 DEF WatchInit, WatchInv

LEMMA WatchMeans == WatchInv => HealthReported
<1> SUFFICES ASSUME WatchInv PROVE HealthReported OBVIOUS
<1>1. RiseReported BY DEF WatchInv, RiseReported, ReportedUpTo, ToldBy
<1>2. ASSUME NEW b \in bundles, NEW c \in bundles,
             b.prev = c.prev, ~b.forced, ~c.forced, Worse(b.seen, c.seen)
      PROVE  Rank(b.status) >= Rank(c.status)
  <2>1. BundleSound(b) /\ BundleSound(c) BY DEF WatchInv
  <2>2. b.status = StatusOf(b.prev, b.seen) /\ c.status = StatusOf(b.prev, c.seen)
    BY <1>2, <2>1 DEF BundleSound, HonestVerdict
  <2>3. CASE b.prev = NoBase BY <2>2, <2>3 DEF StatusOf, Rank
  <2>4. CASE b.prev # NoBase BY <1>2, <2>1, <2>2, <2>4, VerdictsOrdered DEF BundleSound
  <2> QED BY <2>3, <2>4
<1>3. WorseIsNoBetter BY <1>2 DEF WorseIsNoBetter
<1> QED BY <1>1, <1>3 DEF HealthReported

\* Whatever the windows and however runs overlap and fail: no baseline holds a rise of
\* errors that no bundle told of, and of two windows judged alike the worse one never
\* gets the better verdict (cmd/obsworker/main.go:118-200, delta.go:257-263).
THEOREM HealthIsReported == WatchSpec => []HealthReported
BY WatchStart, WatchStep, WatchMeans, PTL DEF WatchSpec
-----------------------------------------------------------------------------
(* A connection can still be renewed (ProviderConnections).                 *)

ConnTyped ==
  /\ provider \in {"zoom", "teams", "google_meet"}
  /\ connection \subseteq Rows /\ honoured \subseteq Tokens /\ issued \in 0..MaxIssued
  /\ dealing \in [Users -> Errands] /\ outrun \in BOOLEAN /\ wasted \in BOOLEAN

\* A pair that waits to be stored is of one account, and the provider takes it.
GivenSound ==
  \A u \in Users : \A pair \in dealing[u].given :
    /\ pair[1].of = pair[2].of /\ pair[2] \in honoured
    /\ dealing[u].at \in {"exchanged", "renewed"}

\* No token is newer than the last the provider issued.
Numbered ==
  /\ \A r \in connection : r.refresh.n <= issued
  /\ \A u \in Users : /\ \A r \in dealing[u].row : r.refresh.n <= issued
                      /\ \A pair \in dealing[u].given : pair[2].n <= issued

\* Where a token can be spent but once, nobody else holds one that waits to be
\* stored, in the row or in hand, and so nobody can spend it.
GivenAlone ==
  provider = "zoom" =>
    \A u \in Users : \A pair \in dealing[u].given :
      /\ \A r \in connection : r.refresh # pair[2]
      /\ \A v \in Users :
           /\ dealing[v].at = "due" => \A r \in dealing[v].row : r.refresh # pair[2]
           /\ v # u => \A q \in dealing[v].given : q[2] # pair[2]

ConnInv == ConnTyped /\ GivenSound /\ Numbered /\ GivenAlone /\ OneAccount /\ StillRenewable

-----------------------------------------------------------------------------
\* A user becomes x, the others stay.
DealTurns(u, x) ==
  /\ dealing' \in [Users -> Errands] /\ dealing'[u] = x
  /\ \A v \in Users \ {u} : dealing'[v] = dealing[v]

LEMMA Turning ==
  ASSUME ConnTyped, NEW u \in Users, NEW x \in Errands, dealing' = [dealing EXCEPT ![u] = x]
  PROVE  DealTurns(u, x)
BY DEF ConnTyped, DealTurns

LEMMA DroppedIs ==
  ASSUME ConnTyped, NEW u \in Users, Drops(u)
  PROVE  \E x \in Errands : DealTurns(u, x) /\ x.at = "over" /\ x.row = {} /\ x.given = {}
<1>1. PICK x : x = [Idle EXCEPT !.at = "over"] OBVIOUS
<1>2. x \in Errands /\ x.at = "over" /\ x.row = {} /\ x.given = {} BY <1>1 DEF Idle, Errands
<1> QED BY <1>1, <1>2, Turning DEF Drops

\* A user that lets go of what it held, the row as it was or with tokens that are sound.
LEMMA DropKeeps ==
  ASSUME ConnInv, NEW u \in Users, Drops(u), UNCHANGED <<provider, honoured>>, ConnTyped',
         OneAccount', issued <= issued', wasted => wasted',
         dealing[u].at = "renewed" => wasted' \/ \A r \in connection' : r.refresh \in honoured,
         \A r \in connection' : \/ r.refresh \in {s.refresh : s \in connection}
                                 \/ r.refresh \in {pair[2] : pair \in dealing[u].given}
  PROVE  ConnInv'
<1> USE DEF ConnInv
<1>1. PICK x \in Errands : DealTurns(u, x) /\ x.at = "over" /\ x.row = {} /\ x.given = {} BY DroppedIs
<1>2. \A v \in Users : \/ dealing'[v].given = {} /\ dealing'[v].row = {} /\ dealing'[v].at = "over"
                       \/ v # u /\ dealing'[v] = dealing[v]
  BY <1>1 DEF DealTurns
<1>3. GivenSound' BY <1>2 DEF GivenSound
<1>4. issued \in Nat /\ issued' \in Nat BY DEF ConnTyped
<1>5. \A r \in connection : r.refresh.n \in Nat BY DEF ConnTyped, Rows, Tokens
<1>6. \A v \in Users : /\ \A r \in dealing[v].row : r.refresh.n \in Nat
                       /\ \A pair \in dealing[v].given : pair[2].n \in Nat
  BY DEF ConnTyped, Errands, Rows, Tokens
<1>7. Numbered'
  <2>1. \A r \in connection' : r.refresh.n <= issued' BY <1>4, <1>5, <1>6 DEF Numbered
  <2>2. ASSUME NEW v \in Users
        PROVE  /\ \A r \in dealing'[v].row : r.refresh.n <= issued'
               /\ \A pair \in dealing'[v].given : pair[2].n <= issued'
    BY <1>2, <1>4, <1>6 DEF Numbered
  <2> QED BY <2>1, <2>2 DEF Numbered
<1>8. GivenAlone'
  <2> SUFFICES ASSUME provider = "zoom", NEW v \in Users, NEW pair \in dealing'[v].given
      PROVE  /\ \A r \in connection' : r.refresh # pair[2]
             /\ \A w \in Users :
                  /\ dealing'[w].at = "due" => \A r \in dealing'[w].row : r.refresh # pair[2]
                  /\ w # v => \A q \in dealing'[w].given : q[2] # pair[2]
      BY DEF GivenAlone
  <2>1. v # u /\ pair \in dealing[v].given BY <1>2
  <2>2. \A r \in connection' : r.refresh # pair[2] BY <2>1 DEF GivenAlone
  <2> QED BY <1>2, <2>1, <2>2 DEF GivenAlone
<1>9. StillRenewable'
  <2> SUFFICES ASSUME ~wasted', \A v \in Users : dealing'[v].at # "renewed", NEW r \in connection'
      PROVE r.refresh \in honoured
      BY DEF StillRenewable
  <2>1. CASE dealing[u].at = "renewed" BY <2>1
  <2>2. CASE dealing[u].at # "renewed"
    <3>1. \A v \in Users : dealing[v].at # "renewed" BY <1>1, <2>2 DEF DealTurns
    <3> QED BY <3>1 DEF StillRenewable, GivenSound
  <2> QED BY <2>1, <2>2
<1> QED BY <1>3, <1>7, <1>8, <1>9

-----------------------------------------------------------------------------
LEMMA ConnStart == ConnectionsInit => ConnInv
<1> SUFFICES ASSUME ConnectionsInit PROVE ConnInv OBVIOUS
<1> USE DEF ConnectionsInit
<1>1. dealing \in [Users -> Errands] BY DEF Errands, Idle
<1>2. 0 \in 0..MaxIssued BY ConnectionsAssumption
<1>3. ConnTyped BY <1>1, <1>2 DEF ConnTyped
<1>4. \A u \in Users : dealing[u].given = {} /\ dealing[u].row = {} BY DEF Idle
<1> QED BY <1>3, <1>4 DEF ConnInv, GivenSound, Numbered, GivenAlone, OneAccount, StillRenewable

\* A row that is deleted, or comes due, has no other refresh token.
LEMMA RowKeeps ==
  ASSUME ConnInv, UNCHANGED <<provider, honoured, issued, dealing, outrun, wasted>>, connection' \subseteq Rows,
         \A r \in connection' : \E s \in connection :
            r.refresh = s.refresh /\ r.access = s.access /\ r.user = s.user
  PROVE  ConnInv'
<1> USE DEF ConnInv
<1>1. ConnTyped' BY DEF ConnTyped
<1>2. GivenSound' BY DEF GivenSound
<1>3. Numbered' BY DEF Numbered
<1>4. GivenAlone' BY DEF GivenAlone
<1>5. OneAccount' BY DEF OneAccount
<1>6. StillRenewable' BY DEF StillRenewable
<1> QED BY <1>1, <1>2, <1>3, <1>4, <1>5, <1>6

LEMMA DueKeeps == ASSUME ConnInv, ComesDue PROVE ConnInv'
<1>1. PICK r \in connection : connection' = {[r EXCEPT !.due = TRUE]} BY DEF ComesDue
<1>2. r \in Rows BY DEF ConnInv, ConnTyped
<1>3. PICK s : s = [r EXCEPT !.due = TRUE] OBVIOUS
<1>4. s \in Rows /\ s.refresh = r.refresh /\ s.access = r.access /\ s.user = r.user BY <1>2, <1>3 DEF Rows
<1> QED BY <1>1, <1>3, <1>4, RowKeeps DEF ComesDue

LEMMA ExchangeKeeps ==
  ASSUME ConnInv, NEW u \in Users, NEW a \in Accounts, Exchange(u, a) PROVE ConnInv'
<1> USE DEF ConnInv
<1>0. ConnTyped OBVIOUS
<1>1. PICK pair : pair = [of |-> a, n |-> issued + 1] OBVIOUS
<1>2. issued \in Nat /\ issued + 1 \in 0..MaxIssued
  BY <1>0, ConnectionsAssumption DEF Exchange, ConnTyped
<1>3. pair \in Tokens /\ pair.n = issued + 1 BY <1>1, <1>2 DEF Tokens
<1>4. PICK x : x = [at |-> "exchanged", row |-> {}, given |-> {<<pair, pair>>}] OBVIOUS
<1>5. x \in Errands BY <1>3, <1>4 DEF Errands
<1>6. DealTurns(u, x)
  <2>1. dealing' = [dealing EXCEPT ![u] = x] BY <1>1, <1>4 DEF Exchange
  <2> QED BY <1>0, <1>5, <2>1, Turning
<1>7. /\ dealing[u].at = "idle" /\ issued' = issued + 1 /\ honoured' = honoured \cup {pair}
      /\ UNCHANGED <<provider, connection, outrun, wasted>>
  BY <1>1 DEF Exchange
<1> HIDE DEF ConnInv
<1>8. GivenSound /\ Numbered /\ GivenAlone /\ OneAccount /\ StillRenewable BY DEF ConnInv
<1>9. ConnTyped' BY <1>0, <1>2, <1>3, <1>6, <1>7 DEF ConnTyped, DealTurns
<1>10. \A v \in Users : \/ v = u /\ dealing'[v] = x
                        \/ v # u /\ dealing'[v] = dealing[v]
  BY <1>6 DEF DealTurns
<1>11. x.at = "exchanged" /\ x.row = {} /\ \A q \in x.given : q[1] = pair /\ q[2] = pair BY <1>4
<1>12. GivenSound' BY <1>7, <1>8, <1>10, <1>11 DEF GivenSound
<1>13. \A r \in connection : r.refresh.n \in Nat BY <1>0 DEF ConnTyped, Rows, Tokens
<1>14. \A v \in Users : /\ \A r \in dealing[v].row : r.refresh.n \in Nat
                        /\ \A q \in dealing[v].given : q[2].n \in Nat
  BY <1>0 DEF ConnTyped, Errands, Rows, Tokens
<1>15. Numbered'
  <2>1. \A r \in connection' : r.refresh.n <= issued' BY <1>2, <1>7, <1>8, <1>13 DEF Numbered
  <2>2. ASSUME NEW v \in Users
        PROVE  /\ \A r \in dealing'[v].row : r.refresh.n <= issued'
               /\ \A q \in dealing'[v].given : q[2].n <= issued'
    <3>1. CASE v = u BY <1>2, <1>3, <1>7, <1>10, <1>11, <3>1
    <3>2. CASE v # u BY <1>2, <1>7, <1>8, <1>10, <1>14, <3>2 DEF Numbered
    <3> QED BY <3>1, <3>2
  <2> QED BY <2>1, <2>2 DEF Numbered
<1>16. /\ \A r \in connection : r.refresh # pair
       /\ \A v \in Users : /\ \A r \in dealing[v].row : r.refresh # pair
                           /\ \A q \in dealing[v].given : q[2] # pair
  <2>1. \A r \in connection : r.refresh.n # pair.n BY <1>2, <1>3, <1>8, <1>13 DEF Numbered
  <2>2. \A v \in Users : /\ \A r \in dealing[v].row : r.refresh.n # pair.n
                         /\ \A q \in dealing[v].given : q[2].n # pair.n
    BY <1>2, <1>3, <1>8, <1>14 DEF Numbered
  <2> QED BY <2>1, <2>2
<1>17. GivenAlone' BY <1>7, <1>8, <1>10, <1>11, <1>16 DEF GivenAlone
<1>18. OneAccount' BY <1>7, <1>8 DEF OneAccount
<1>19. StillRenewable' BY <1>7, <1>8, <1>10, <1>11 DEF StillRenewable
<1> QED BY <1>9, <1>12, <1>15, <1>17, <1>18, <1>19 DEF ConnInv

LEMMA NoRefreshKeeps == ASSUME ConnInv, NEW u \in Users, NoRefreshToken(u) PROVE ConnInv'
<1>0. ConnTyped /\ OneAccount BY DEF ConnInv
<1>1. /\ Drops(u) /\ dealing[u].at = "idle" /\ issued < MaxIssued /\ issued' = issued + 1
      /\ UNCHANGED <<provider, connection, honoured, outrun, wasted>>
  BY DEF NoRefreshToken
<1>2. issued \in Nat /\ issued' \in 0..MaxIssued /\ issued <= issued'
  BY <1>0, <1>1, ConnectionsAssumption DEF ConnTyped
<1>3. PICK x \in Errands : DealTurns(u, x) BY <1>0, <1>1, DroppedIs
<1>4. ConnTyped' BY <1>0, <1>1, <1>2, <1>3 DEF ConnTyped, DealTurns
<1>5. OneAccount' BY <1>0, <1>1 DEF OneAccount
<1> QED BY <1>1, <1>2, <1>4, <1>5, DropKeeps

LEMMA CallbackKeeps == ASSUME ConnInv, NEW u \in Users, CallbackStore(u) PROVE ConnInv'
<1>0. ConnTyped /\ OneAccount /\ GivenSound BY DEF ConnInv
<1>1. Drops(u) /\ dealing[u].at = "exchanged" /\ UNCHANGED <<provider, honoured, issued, outrun, wasted>>
  BY DEF CallbackStore
<1>2. PICK x \in Errands : DealTurns(u, x) BY <1>0, <1>1, DroppedIs
<1>3. issued <= issued' BY <1>0, <1>1 DEF ConnTyped
<1>4. PICK pair \in dealing[u].given :
         \/ \E user \in {pair[1].of, Unnamed} : connection' = Upserted(user, pair)
         \/ UNCHANGED connection
  BY DEF CallbackStore
<1>5. CASE UNCHANGED connection
  <2>1. ConnTyped' BY <1>0, <1>1, <1>2, <1>5 DEF ConnTyped, DealTurns
  <2>2. OneAccount' BY <1>0, <1>1, <1>5 DEF OneAccount
  <2> QED BY <1>1, <1>3, <1>5, <2>1, <2>2, DropKeeps
<1>6. CASE \E user \in {pair[1].of, Unnamed} : connection' = Upserted(user, pair)
  <2>1. PICK user \in {pair[1].of, Unnamed} : connection' = Upserted(user, pair) BY <1>6
  <2>2. pair[1] \in Tokens /\ pair[2] \in Tokens BY <1>0 DEF ConnTyped, Errands
  <2>3. PICK r : r = [user |-> user, access |-> pair[1], refresh |-> pair[2], due |-> FALSE] OBVIOUS
  <2>4. r \in Rows /\ r.refresh = pair[2] /\ r.access = pair[1] /\ r.user = user
    BY <2>2, <2>3 DEF Rows, Tokens
  <2>5. connection' = {r} BY <2>1, <2>3 DEF Upserted
  <2>6. ConnTyped' BY <1>0, <1>1, <1>2, <2>4, <2>5 DEF ConnTyped, DealTurns
  <2>7. OneAccount' BY <1>0, <2>4, <2>5 DEF OneAccount, GivenSound
  <2>8. \A s \in connection' : s.refresh \in {q[2] : q \in dealing[u].given} BY <2>4, <2>5
  <2> QED BY <1>1, <1>3, <2>6, <2>7, <2>8, DropKeeps
<1> QED BY <1>4, <1>5, <1>6

LEMMA RowReadKeeps == ASSUME ConnInv, NEW u \in Users, ReadConnection(u) PROVE ConnInv'
<1>0. ConnTyped /\ OneAccount BY DEF ConnInv
<1>1. dealing[u].at = "idle" /\ UNCHANGED <<provider, connection, honoured, issued, outrun, wasted>>
  BY DEF ReadConnection
<1>2. CASE Drops(u)
  <2>1. PICK x \in Errands : DealTurns(u, x) BY <1>0, <1>2, DroppedIs
  <2>2. ConnTyped' BY <1>0, <1>1, <2>1 DEF ConnTyped, DealTurns
  <2>3. OneAccount' BY <1>0, <1>1 DEF OneAccount
  <2>4. issued <= issued' BY <1>0, <1>1 DEF ConnTyped
  <2> QED BY <1>1, <1>2, <2>2, <2>3, <2>4, DropKeeps
<1>3. CASE dealing' = [dealing EXCEPT ![u] = [Idle EXCEPT !.at = "due", !.row = connection]]
  <2> USE DEF ConnInv
  <2>1. PICK x : x = [Idle EXCEPT !.at = "due", !.row = connection] OBVIOUS
  <2>2. x \in Errands /\ x.at = "due" /\ x.row = connection /\ x.given = {}
    BY <1>0, <2>1 DEF Idle, Errands, ConnTyped
  <2>3. DealTurns(u, x) BY <1>0, <1>3, <2>1, <2>2, Turning
  <2>4. \A v \in Users : \/ v = u /\ dealing'[v] = x
                         \/ v # u /\ dealing'[v] = dealing[v]
    BY <2>3 DEF DealTurns
  <2>5. ConnTyped' BY <1>0, <1>1, <2>3 DEF ConnTyped, DealTurns
  <2>6. GivenSound' BY <1>1, <2>2, <2>4 DEF GivenSound
  <2>7. Numbered' BY <1>1, <2>2, <2>4 DEF Numbered
  <2>8. GivenAlone' BY <1>1, <2>2, <2>4 DEF GivenAlone
  <2>9. OneAccount' BY <1>0, <1>1 DEF OneAccount
  <2>10. StillRenewable' BY <1>1, <2>2, <2>4 DEF StillRenewable
  <2> QED BY <2>5, <2>6, <2>7, <2>8, <2>9, <2>10
<1> QED BY <1>2, <1>3 DEF ReadConnection

\* The pair of a renewal is of the account whose token was spent.
LEMMA PairsAre ==
  ASSUME ConnTyped, NEW old \in Tokens, NEW fresh \in Tokens, fresh.of = old.of,
         NEW pair \in Pairs(old, fresh)
  PROVE  /\ pair \in Tokens \X Tokens /\ pair[1].of = pair[2].of
         /\ pair[2] = fresh \/ (pair[2] = old /\ provider # "zoom")
BY DEF ConnTyped, Pairs, ZoomPairs, TeamsPairs, MeetPairs

LEMMA RenewKeeps == ASSUME ConnInv, NEW u \in Users, Renew(u) PROVE ConnInv'
<1>0. ConnTyped /\ OneAccount /\ GivenSound /\ Numbered /\ GivenAlone /\ StillRenewable BY DEF ConnInv
<1>1. dealing[u].at = "due" /\ UNCHANGED <<provider, connection, outrun, wasted>> BY DEF Renew
<1>2. PICK r \in dealing[u].row :
         \/ /\ r.refresh \in honoured /\ issued < MaxIssued
            /\ issued' = issued + 1
            /\ \E pair \in Pairs(r.refresh, [of |-> r.refresh.of, n |-> issued + 1]) :
                 /\ honoured' = Honours(r.refresh, pair)
                 /\ dealing' = [dealing EXCEPT ![u].at = "renewed", ![u].given = {pair}]
         \/ Drops(u) /\ UNCHANGED <<honoured, issued>>
  BY DEF Renew
<1>3. CASE Drops(u) /\ UNCHANGED <<honoured, issued>>
  <2>1. PICK x \in Errands : DealTurns(u, x) BY <1>0, <1>3, DroppedIs
  <2>2. ConnTyped' BY <1>0, <1>1, <1>3, <2>1 DEF ConnTyped, DealTurns
  <2>3. OneAccount' BY <1>0, <1>1 DEF OneAccount
  <2>4. issued <= issued' BY <1>0, <1>3 DEF ConnTyped
  <2> QED BY <1>1, <1>3, <2>2, <2>3, <2>4, DropKeeps
<1>4. CASE /\ r.refresh \in honoured /\ issued < MaxIssued
           /\ issued' = issued + 1
           /\ \E pair \in Pairs(r.refresh, [of |-> r.refresh.of, n |-> issued + 1]) :
                 /\ honoured' = Honours(r.refresh, pair)
                 /\ dealing' = [dealing EXCEPT ![u].at = "renewed", ![u].given = {pair}]
  <2>1. PICK fresh : fresh = [of |-> r.refresh.of, n |-> issued + 1] OBVIOUS
  <2>2. PICK pair \in Pairs(r.refresh, fresh) :
           /\ honoured' = Honours(r.refresh, pair)
           /\ dealing' = [dealing EXCEPT ![u].at = "renewed", ![u].given = {pair}]
    BY <1>4, <2>1
  <2>3. issued \in Nat /\ issued + 1 \in 0..MaxIssued /\ issued' = issued + 1
    BY <1>0, <1>4, ConnectionsAssumption DEF ConnTyped
  <2>4. r \in Rows /\ dealing[u] \in Errands BY <1>0 DEF ConnTyped, Errands
  <2>5. fresh \in Tokens /\ fresh.of = r.refresh.of /\ fresh.n = issued + 1 /\ r.refresh \in Tokens
    BY <2>1, <2>3, <2>4 DEF Tokens, Rows
  <2>6. /\ pair \in Tokens \X Tokens /\ pair[1].of = pair[2].of
        /\ pair[2] = fresh \/ (pair[2] = r.refresh /\ provider # "zoom")
    BY <1>0, <2>2, <2>5, PairsAre
  <2>7. PICK x : x = [dealing[u] EXCEPT !.at = "renewed", !.given = {pair}] OBVIOUS
  <2>8. x \in Errands /\ x.at = "renewed" /\ x.row = dealing[u].row /\ x.given = {pair}
    BY <2>4, <2>6, <2>7 DEF Errands
  <2>9. DealTurns(u, x)
    <3>1. dealing' = [dealing EXCEPT ![u] = x] BY <1>0, <2>2, <2>7 DEF ConnTyped
    <3> QED BY <1>0, <2>8, <3>1, Turning
  <2>10. \A v \in Users : \/ v = u /\ dealing'[v] = x
                          \/ v # u /\ dealing'[v] = dealing[v]
    BY <2>9 DEF DealTurns
  <2>11. /\ pair[2] \in honoured' /\ honoured' \subseteq honoured \cup {pair[2]}
         /\ \A t \in honoured : t \in honoured' \/ (provider = "zoom" /\ t = r.refresh)
    BY <2>2 DEF Honours
  <2>12. ConnTyped' BY <1>0, <1>1, <2>3, <2>6, <2>9, <2>11 DEF ConnTyped, DealTurns
  <2>13. GivenSound'
    <3> SUFFICES ASSUME NEW v \in Users, NEW q \in dealing'[v].given
        PROVE  q[1].of = q[2].of /\ q[2] \in honoured' /\ dealing'[v].at \in {"exchanged", "renewed"}
        BY DEF GivenSound
    <3>1. CASE v = u BY <2>6, <2>8, <2>10, <2>11, <3>1
    <3>2. CASE v # u
      <4>1. dealing'[v] = dealing[v] /\ q \in dealing[v].given BY <2>10, <3>2
      <4>2. provider = "zoom" => q[2] # r.refresh BY <1>0, <1>1, <4>1 DEF GivenAlone
      <4> QED BY <1>0, <2>11, <4>1, <4>2 DEF GivenSound
    <3> QED BY <3>1, <3>2
  <2>14. \A s \in connection : s.refresh.n \in Nat BY <1>0 DEF ConnTyped, Rows, Tokens
  <2>15. \A v \in Users : /\ \A s \in dealing[v].row : s.refresh.n \in Nat
                          /\ \A q \in dealing[v].given : q[2].n \in Nat
    BY <1>0 DEF ConnTyped, Errands, Rows, Tokens
  <2>16. Numbered'
    <3>1. \A s \in connection' : s.refresh.n <= issued' BY <1>0, <1>1, <2>3, <2>14 DEF Numbered
    <3>2. pair[2].n <= issued' BY <1>0, <2>3, <2>5, <2>6, <2>15 DEF Numbered
    <3>3. ASSUME NEW v \in Users
          PROVE  /\ \A s \in dealing'[v].row : s.refresh.n <= issued'
                 /\ \A q \in dealing'[v].given : q[2].n <= issued'
      <4>1. \A s \in dealing[v].row : s.refresh.n <= issued' BY <1>0, <2>3, <2>15 DEF Numbered
      <4>2. \A q \in dealing[v].given : q[2].n <= issued' BY <1>0, <2>3, <2>15 DEF Numbered
      <4> QED BY <2>8, <2>10, <3>2, <4>1, <4>2
    <3> QED BY <3>1, <3>3 DEF Numbered
  <2>17. /\ \A s \in connection : s.refresh # fresh
         /\ \A v \in Users : /\ \A s \in dealing[v].row : s.refresh # fresh
                             /\ \A q \in dealing[v].given : q[2] # fresh
    <3>1. \A s \in connection : s.refresh.n # fresh.n BY <1>0, <2>3, <2>5, <2>14 DEF Numbered
    <3>2. \A v \in Users : /\ \A s \in dealing[v].row : s.refresh.n # fresh.n
                           /\ \A q \in dealing[v].given : q[2].n # fresh.n
      BY <1>0, <2>3, <2>5, <2>15 DEF Numbered
    <3> QED BY <3>1, <3>2
  <2>18. GivenAlone'
    <3> SUFFICES ASSUME provider = "zoom" PROVE GivenAlone' BY <1>1 DEF GivenAlone
    <3>1. pair[2] = fresh BY <2>6
    <3>2. ASSUME NEW v \in Users, NEW q \in dealing'[v].given, NEW w \in Users
          PROVE  /\ \A s \in connection : s.refresh # q[2]
                 /\ dealing'[w].at = "due" => \A s \in dealing'[w].row : s.refresh # q[2]
                 /\ w # v => \A p \in dealing'[w].given : p[2] # q[2]
      <4>1. CASE v = u BY <2>8, <2>10, <2>17, <3>1, <4>1
      <4>2. CASE v # u BY <1>0, <2>8, <2>10, <2>17, <3>1, <4>2 DEF GivenAlone
      <4> QED BY <4>1, <4>2
    <3> QED BY <1>1, <3>2 DEF GivenAlone
  <2>19. OneAccount' BY <1>0, <1>1 DEF OneAccount
  <2>20. StillRenewable' BY <2>8, <2>10 DEF StillRenewable
  <2> QED BY <2>12, <2>13, <2>16, <2>18, <2>19, <2>20 DEF ConnInv
<1> QED BY <1>2, <1>3, <1>4

LEMMA SaveKeeps == ASSUME ConnInv, NEW u \in Users, Save(u) PROVE ConnInv'
<1>0. ConnTyped /\ OneAccount /\ GivenSound BY DEF ConnInv
<1>1. dealing[u].at = "renewed" /\ Drops(u) /\ UNCHANGED <<provider, honoured, issued>> BY DEF Save
<1>2. PICK x \in Errands : DealTurns(u, x) BY <1>0, <1>1, DroppedIs
<1>3. issued <= issued' BY <1>0, <1>1 DEF ConnTyped
<1>4. PICK pair \in dealing[u].given :
         \/ /\ connection' = {Saved(r, pair) : r \in connection}
            /\ outrun' = (outrun \/ \E r \in connection : r.access.of # pair[1].of)
            /\ UNCHANGED wasted
         \/ wasted' = TRUE /\ UNCHANGED <<connection, outrun>>
  BY DEF Save
<1>5. CASE wasted' = TRUE /\ UNCHANGED <<connection, outrun>>
  <2>1. ConnTyped' BY <1>0, <1>1, <1>2, <1>5 DEF ConnTyped, DealTurns
  <2>2. OneAccount' BY <1>0, <1>5 DEF OneAccount
  <2> QED BY <1>1, <1>3, <1>5, <2>1, <2>2, DropKeeps
<1>6. CASE /\ connection' = {Saved(r, pair) : r \in connection}
           /\ outrun' = (outrun \/ \E r \in connection : r.access.of # pair[1].of)
           /\ UNCHANGED wasted
  <2>1. pair[1] \in Tokens /\ pair[2] \in Tokens /\ pair[1].of = pair[2].of /\ pair[2] \in honoured
    BY <1>0 DEF ConnTyped, Errands, GivenSound
  <2>2. ASSUME NEW r \in connection
        PROVE  /\ Saved(r, pair) \in Rows /\ Saved(r, pair).refresh = pair[2]
               /\ Saved(r, pair).access = pair[1] /\ Saved(r, pair).user = r.user
    <3>1. r \in Rows BY <1>0 DEF ConnTyped
    <3> QED BY <2>1, <3>1 DEF Saved, Rows
  <2>3. connection' \subseteq Rows BY <1>6, <2>2
  <2>4. outrun' \in BOOLEAN BY <1>0, <1>6 DEF ConnTyped
  <2>5. ConnTyped' BY <1>0, <1>1, <1>2, <1>6, <2>3, <2>4 DEF ConnTyped, DealTurns
  <2>6. OneAccount'
    <3> SUFFICES ASSUME ~outrun', NEW s \in connection'
        PROVE s.access.of = s.refresh.of /\ s.user \in {Unnamed, s.access.of}
        BY DEF OneAccount
    <3>1. PICK r \in connection : s = Saved(r, pair) BY <1>6
    <3>2. ~outrun /\ r.access.of = pair[1].of BY <1>6
    <3> QED BY <1>0, <2>1, <2>2, <3>1, <3>2 DEF OneAccount
  <2>7. \A s \in connection' : s.refresh = pair[2] BY <1>6, <2>2
  <2>8. \A s \in connection' : s.refresh \in honoured /\ s.refresh \in {q[2] : q \in dealing[u].given}
    BY <2>1, <2>7
  <2> QED BY <1>1, <1>3, <1>6, <2>5, <2>6, <2>8, DropKeeps
<1> QED BY <1>4, <1>5, <1>6

LEMMA LossKeeps == ASSUME ConnInv, NEW u \in Users, ReplyLost(u) PROVE ConnInv'
<1>0. ConnTyped /\ OneAccount BY DEF ConnInv
<1>1. Drops(u) /\ wasted' = TRUE /\ UNCHANGED <<provider, connection, honoured, issued, outrun>> BY DEF ReplyLost
<1>2. PICK x \in Errands : DealTurns(u, x) BY <1>0, <1>1, DroppedIs
<1>3. issued <= issued' BY <1>0, <1>1 DEF ConnTyped
<1>4. ConnTyped' BY <1>0, <1>1, <1>2 DEF ConnTyped, DealTurns
<1>5. OneAccount' BY <1>0, <1>1 DEF OneAccount
<1> QED BY <1>1, <1>3, <1>4, <1>5, DropKeeps

-----------------------------------------------------------------------------
LEMMA ConnStep == ConnInv /\ [ConnectionsNext]_connVars => ConnInv'
<1> SUFFICES ASSUME ConnInv, [ConnectionsNext]_connVars PROVE ConnInv' OBVIOUS
<1>1. CASE UNCHANGED connVars
  BY <1>1 DEF connVars, ConnInv, ConnTyped, GivenSound, Numbered, GivenAlone, OneAccount, StillRenewable
<1>2. ASSUME Deleted PROVE ConnInv' BY <1>2, RowKeeps DEF Deleted
<1>3. ASSUME NEW u \in Users, NEW a \in Accounts, ZoomConsent(u, a) \/ TeamsConsent(u, a) \/ MeetConsent(u, a)
      PROVE  ConnInv'
  BY <1>3, ExchangeKeeps, NoRefreshKeeps DEF ZoomConsent, TeamsConsent, MeetConsent
<1>4. ASSUME NEW u \in Users, CallbackStore(u) \/ ReadConnection(u) \/ Renew(u) \/ Save(u) \/ ReplyLost(u)
      PROVE  ConnInv'
  BY <1>4, CallbackKeeps, RowReadKeeps, RenewKeeps, SaveKeeps, LossKeeps
<1> QED
  BY <1>1, <1>2, <1>3, <1>4, DueKeeps DEF ConnectionsNext, ZoomDisconnect, TeamsDisconnect, MeetDisconnect

\* Without a pair that was lost, and with no renewal under way, the refresh token of
\* the connection is one the provider takes, however renewals, consents and
\* disconnects overlapped, and the row is of one account (zoom_auth.go:300-360).
THEOREM ConnectionStaysSound == ConnectionsSpec => []ConnectionSound
<1>1. ConnInv => ConnectionSound BY DEF ConnInv, ConnectionSound
<1> QED BY <1>1, ConnStart, ConnStep, PTL DEF ConnectionsSpec

-----------------------------------------------------------------------------
(* What is answered was vouched for, within the quota (AnswerPipeline).     *)

Kinds == {"judge", "other"}

\* A round of the judge is logged once, whichever way its row goes.
LEMMA JudgesCount ==
  ASSUME NEW s \in Seq(Kinds) PROVE IsFiniteSet({i \in DOMAIN s : s[i] = "judge"}) /\ Judges(s) \in Nat
<1>1. IsFiniteSet(1..Len(s)) BY FS_Interval
<1>2. IsFiniteSet({i \in DOMAIN s : s[i] = "judge"}) BY <1>1, FS_Subset
<1> QED BY <1>2, FS_CardinalityType DEF Judges

LEMMA JudgesNone == Judges(<< >>) = 0
<1>1. {i \in DOMAIN << >> : << >>[i] = "judge"} = {} OBVIOUS
<1> QED BY <1>1, FS_EmptySet DEF Judges

LEMMA JudgesOne == ASSUME NEW row \in Kinds PROVE Judges(<<row>>) = IF row = "judge" THEN 1 ELSE 0
<1>1. {i \in DOMAIN <<row>> : <<row>>[i] = "judge"} = IF row = "judge" THEN {1} ELSE {} OBVIOUS
<1> QED BY <1>1, FS_EmptySet, FS_Singleton DEF Judges

LEMMA JudgesAppend ==
  ASSUME NEW s \in Seq(Kinds), NEW row \in Kinds PROVE Judges(Append(s, row)) = Judges(s) + Judges(<<row>>)
<1> DEFINE JudgeAt(t) == {i \in DOMAIN t : t[i] = "judge"}
<1>1. PICK t : t = Append(s, row) OBVIOUS
<1>2. /\ t \in Seq(Kinds) /\ Len(t) = Len(s) + 1 /\ Len(s) \in Nat /\ t[Len(s) + 1] = row
      /\ \A i \in 1..Len(s) : t[i] = s[i]
  BY <1>1, AppendProperties
<1>3. IsFiniteSet(JudgeAt(s)) /\ Judges(s) = Cardinality(JudgeAt(s)) /\ Judges(t) = Cardinality(JudgeAt(t)) /\ Judges(s) \in Nat
  BY JudgesCount DEF Judges
<1>4. DOMAIN s = 1..Len(s) /\ DOMAIN t = 1..Len(s) + 1 BY <1>2
<1>5. CASE row = "judge"
  <2>1. JudgeAt(t) = JudgeAt(s) \cup {Len(s) + 1} BY <1>2, <1>4, <1>5
  <2>2. Len(s) + 1 \notin JudgeAt(s) BY <1>2, <1>4
  <2>3. Cardinality(JudgeAt(s) \cup {Len(s) + 1}) = Cardinality(JudgeAt(s)) + 1
    <3> HIDE DEF JudgeAt
    <3> QED BY <1>3, <2>2, FS_AddElement
  <2> HIDE DEF JudgeAt
  <2> QED BY <1>1, <1>3, <1>5, <2>1, <2>3, JudgesOne
<1>6. CASE row # "judge"
  <2>1. JudgeAt(t) = JudgeAt(s) BY <1>2, <1>4, <1>6
  <2> HIDE DEF JudgeAt
  <2> QED BY <1>1, <1>3, <1>6, <2>1, JudgesOne
<1> QED BY <1>5, <1>6

LEMMA JudgesTail ==
  ASSUME NEW s \in Seq(Kinds), s # << >>
  PROVE  Tail(s) \in Seq(Kinds) /\ Head(s) \in Kinds /\ Judges(s) = Judges(<<Head(s)>>) + Judges(Tail(s))
<1> DEFINE JudgeAt(t) == {i \in DOMAIN t : t[i] = "judge"}
<1>1. PICK t : t = Tail(s) OBVIOUS
<1>2. /\ t \in Seq(Kinds) /\ Len(t) = Len(s) - 1 /\ Head(s) \in Kinds
      /\ \A i \in 1..Len(t) : t[i] = s[i + 1]
  BY <1>1, HeadTailProperties
<1>3. Head(s) = s[1] /\ Len(s) \in Nat \ {0} OBVIOUS
<1>4. DOMAIN s = 1..Len(s) /\ DOMAIN t = 1..Len(t) BY <1>2
<1>5. /\ IsFiniteSet(JudgeAt(s)) /\ Judges(s) = Cardinality(JudgeAt(s)) /\ Judges(s) \in Nat
      /\ IsFiniteSet(JudgeAt(t)) /\ Judges(t) = Cardinality(JudgeAt(t)) /\ Judges(t) \in Nat
  BY <1>2, JudgesCount DEF Judges
<1>6. PICK f : f = [i \in JudgeAt(t) |-> i + 1] OBVIOUS
<1>7. f \in Bijection(JudgeAt(t), JudgeAt(s) \ {1})
  <2>1. \A i \in JudgeAt(t) : i + 1 \in JudgeAt(s) /\ i + 1 # 1 BY <1>2, <1>3, <1>4
  <2>2. \A j \in JudgeAt(s) \ {1} : j - 1 \in JudgeAt(t) /\ (j - 1) + 1 = j BY <1>2, <1>3, <1>4
  <2>3. f \in [JudgeAt(t) -> JudgeAt(s) \ {1}] BY <1>6, <2>1
  <2>4. \A i, j \in JudgeAt(t) : f[i] = f[j] => i = j
    <3>1. \A i \in JudgeAt(t) : i \in Nat BY <1>4
    <3> QED BY <1>6, <3>1
  <2>5. \A j \in JudgeAt(s) \ {1} : \E i \in JudgeAt(t) : f[i] = j
    <3> SUFFICES ASSUME NEW j \in JudgeAt(s) \ {1} PROVE \E i \in JudgeAt(t) : f[i] = j OBVIOUS
    <3>1. PICK i \in JudgeAt(t) : i = j - 1 /\ i + 1 = j BY <2>2
    <3> QED BY <1>6, <3>1
  <2> HIDE DEF JudgeAt
  <2> QED BY <2>3, <2>4, <2>5 DEF Bijection, Injection, Surjection, IsInjective
<1>8. Cardinality(JudgeAt(s) \ {1}) = Judges(t)
  <2> HIDE DEF JudgeAt
  <2>1. ExistsBijection(JudgeAt(t), JudgeAt(s) \ {1}) BY <1>7 DEF ExistsBijection
  <2> QED BY <1>5, <2>1, FS_Bijection
<1>9. Cardinality(JudgeAt(s) \ {1}) = IF 1 \in JudgeAt(s) THEN Cardinality(JudgeAt(s)) - 1 ELSE Cardinality(JudgeAt(s))
  <2> HIDE DEF JudgeAt
  <2> QED BY <1>5, FS_RemoveElement
<1>10. 1 \in JudgeAt(s) <=> Head(s) = "judge" BY <1>3, <1>4
<1>11. Judges(<<Head(s)>>) = IF Head(s) = "judge" THEN 1 ELSE 0 BY <1>2, JudgesOne
<1> HIDE DEF JudgeAt
<1> QED BY <1>1, <1>2, <1>5, <1>8, <1>9, <1>10, <1>11

-----------------------------------------------------------------------------
TapeTyped ==
  /\ rows \in Seq(Kinds) /\ batch \in Seq(Kinds) /\ counted \in Nat /\ judged \in Nat /\ gone \in Nat
  /\ JudgeRowsAddUp

LEMMA TapeLogs ==
  ASSUME TapeTyped, NEW row \in Kinds, LogLLMCall(row)
  PROVE  TapeTyped' /\ judged' = judged + IF row = "judge" THEN 1 ELSE 0
<1> USE DEF TapeTyped
<1>1. Judges(rows) \in Nat /\ Judges(batch) \in Nat /\ Judges(<<row>>) = (IF row = "judge" THEN 1 ELSE 0)
  BY JudgesCount, JudgesOne
<1>2. PICK s : s = IF Len(rows) >= RowsMax THEN Tail(rows) ELSE rows OBVIOUS
<1>3. s \in Seq(Kinds) /\ Judges(s) \in Nat /\ Judges(s) <= Judges(rows)
  <2>1. CASE Len(rows) >= RowsMax
    <3>1. rows # << >> BY <2>1, PipelineAssumption
    <3>2. s = Tail(rows) BY <1>2, <2>1
    <3>3. Judges(<<Head(rows)>>) \in Nat BY <3>1, JudgesTail, JudgesOne
    <3>4. s \in Seq(Kinds) /\ Judges(s) \in Nat BY <3>1, <3>2, JudgesTail, JudgesCount
    <3> QED BY <1>1, <3>1, <3>2, <3>3, <3>4, JudgesTail
  <2>2. CASE ~(Len(rows) >= RowsMax) BY <1>1, <1>2, <2>2
  <2> QED BY <2>1, <2>2
<1>4. /\ Appended(row) = Append(s, row) /\ Appended(row) \in Seq(Kinds)
      /\ Judges(Appended(row)) = Judges(s) + Judges(<<row>>)
  BY <1>2, <1>3, JudgesAppend, AppendProperties DEF Appended
<1>5. /\ rows' = Appended(row) /\ judged' = judged + Judges(<<row>>)
      /\ gone' = gone + Judges(rows) + Judges(<<row>>) - Judges(Appended(row))
      /\ batch' = batch /\ counted' = counted
  BY DEF LogLLMCall
<1>6. PICK was, left, one, kept :
        was = Judges(rows) /\ left = Judges(s) /\ one = Judges(<<row>>) /\ kept = Judges(batch)
  OBVIOUS
<1>7. was \in Nat /\ left \in Nat /\ one \in Nat /\ kept \in Nat /\ left <= was
      /\ gone \in Nat /\ judged \in Nat /\ counted \in Nat
  BY <1>1, <1>3, <1>6
<1>8. Judges(Appended(row)) = left + one BY <1>4, <1>6
<1>9. judged = counted + was + kept + gone BY <1>6 DEF JudgeRowsAddUp
<1>10. gone' = gone + was + one - (left + one) /\ judged' = judged + one BY <1>5, <1>6, <1>8
<1>11. gone' \in Nat /\ judged' \in Nat /\ judged' = counted + (left + one) + kept + gone'
  <2> HIDE DEF TapeTyped
  <2> QED BY <1>7, <1>9, <1>10
<1>12. JudgeRowsAddUp' BY <1>5, <1>6, <1>8, <1>11 DEF JudgeRowsAddUp
<1> QED BY <1>1, <1>4, <1>5, <1>11, <1>12

LEMMA TapeRests == ASSUME TapeTyped, UNCHANGED tapeVars PROVE TapeTyped' /\ judged' = judged
BY DEF TapeTyped, tapeVars, JudgeRowsAddUp

-----------------------------------------------------------------------------
Waits == {"idle", "round", "cited", "recite", "recited", "quota", "judge", "reground", "regrounded", "rejudge",
          "rejected", "refused", "store", "over"}
Queries == [at : Waits, path : {"ask", "voice"}, chunks : SUBSET Retrieved, status : Statuses,
            cites : SUBSET Ids, vouch : {"none", "judged", "skipped", "retried"}]

\* What is stored as an answer: the judge said yes, or was skipped over cited chunks.
Vouched(q) ==
  q.status = "answered" /\ q.vouch # "retried" =>
    q.vouch \in {"judged", "skipped"} /\ (q.vouch = "skipped" => q.cites # {})

\* Before the judge there are chunks, at the judge there are citations.
LineSound(q) ==
  /\ q.at \in {"round", "cited", "recite", "recited"} => q.chunks # {}
  /\ q.at = "round" => q.status # "answered"
  /\ q.at \in {"quota", "judge", "rejudge"} => q.cites # {}
  /\ q.at = "store" => Vouched(q)

\* Rounds of the judge a question may still cost.
Left(q) == IF q.at = "judge" THEN 2 ELSE IF q.at \in {"reground", "regrounded", "rejudge"} THEN 1 ELSE 0

\* While no check has overlooked a round, one question at most has passed it and is
\* not through, and what it may still cost is within the quota and one.
RoomLeft ==
  ~lagged =>
    /\ judged <= JudgeMax + 1
    /\ \A a \in Asks : judged + Left(query[a]) <= JudgeMax + 1
    /\ \A a, b \in Asks : Left(query[a]) > 0 /\ Left(query[b]) > 0 => a = b

PipeInv ==
  /\ query \in [Asks -> Queries] /\ lagged \in BOOLEAN /\ TapeTyped
  /\ \A a \in Asks : LineSound(query[a])
  /\ RoomLeft /\ AnswersVouched

\* A question becomes x, the others stay.
LineTurns(a, x) ==
  /\ query' \in [Asks -> Queries] /\ query'[a] = x
  /\ \A b \in Asks \ {a} : query'[b] = query[b]

LEMMA LineTurning ==
  ASSUME PipeInv, NEW a \in Asks, NEW x \in Queries, query' = [query EXCEPT ![a] = x] PROVE LineTurns(a, x)
BY DEF PipeInv, LineTurns

LEMMA LineMoves ==
  ASSUME PipeInv, NEW a \in Asks, NEW at \in Waits, Moves(a, at)
  PROVE  \E x \in Queries : /\ LineTurns(a, x) /\ x.at = at /\ x.chunks = query[a].chunks
                            /\ x.status = query[a].status /\ x.cites = query[a].cites /\ x.vouch = query[a].vouch
<1>1. query[a] \in Queries BY DEF PipeInv
<1>2. PICK x : x = [query[a] EXCEPT !.at = at] OBVIOUS
<1>3. /\ x \in Queries /\ x.at = at /\ x.chunks = query[a].chunks
      /\ x.status = query[a].status /\ x.cites = query[a].cites /\ x.vouch = query[a].vouch
  BY <1>1, <1>2 DEF Queries
<1>4. query' = [query EXCEPT ![a] = x] BY <1>2 DEF Moves
<1> QED BY <1>3, <1>4, LineTurning

LEMMA BlankIs ==
  /\ Blank \in Queries /\ Blank.at = "idle" /\ Blank.status = "error" /\ Blank.vouch = "none"
  /\ Blank.chunks = {} /\ Blank.cites = {}
BY DEF Blank, Queries, Waits, Statuses

LEMMA LineOver ==
  ASSUME PipeInv, NEW a \in Asks, AskOver(a)
  PROVE  \E x \in Queries : LineTurns(a, x) /\ x.at = "over" /\ LineSound(x) /\ Left(x) = 0
<1>1. PICK x : x = [Blank EXCEPT !.at = "over"] OBVIOUS
<1>2. x \in Queries /\ x.at = "over" BY <1>1, BlankIs DEF Queries, Waits
<1>3. query' = [query EXCEPT ![a] = x] BY <1>1 DEF AskOver
<1>4. LineSound(x) /\ Left(x) = 0 BY <1>2 DEF LineSound, Left
<1> QED BY <1>2, <1>3, <1>4, LineTurning

LEMMA LeftIs == ASSUME NEW q PROVE Left(q) \in {0, 1, 2}
BY DEF Left

\* A step of one question costs rounds that were allowed for.
LEMMA LineStep ==
  ASSUME PipeInv, NEW a \in Asks, NEW x \in Queries, LineTurns(a, x), LineSound(x), TapeTyped',
         lagged' = lagged, judged <= judged', judged' + Left(x) <= judged + Left(query[a]), AnswersVouched'
  PROVE  PipeInv'
<1> USE DEF PipeInv
<1>1. query' \in [Asks -> Queries] /\ lagged' \in BOOLEAN BY DEF LineTurns
<1>2. \A b \in Asks : LineSound(query'[b]) BY DEF LineTurns
<1>3. RoomLeft'
  <2>0. TapeTyped /\ RoomLeft OBVIOUS
  <2> HIDE DEF PipeInv
  <2> SUFFICES ASSUME ~lagged PROVE RoomLeft' BY DEF RoomLeft
  <2>1. judged \in Nat /\ judged' \in Nat /\ JudgeMax \in Nat BY <2>0, PipelineAssumption DEF TapeTyped
  <2>2. \A b \in Asks : Left(query[b]) \in 0..2 /\ Left(query'[b]) \in 0..2 BY LeftIs
  <2>3. /\ \A b \in Asks : judged + Left(query[b]) <= JudgeMax + 1
        /\ \A b, c \in Asks : Left(query[b]) > 0 /\ Left(query[c]) > 0 => b = c
    BY <2>0 DEF RoomLeft
  <2>4. query'[a] = x /\ \A b \in Asks \ {a} : query'[b] = query[b] BY DEF LineTurns
  <2>5. Left(x) \in 0..2 BY LeftIs
  <2>6. judged' + Left(x) <= JudgeMax + 1 BY <2>1, <2>2, <2>3, <2>5
  <2>7. judged' <= JudgeMax + 1 BY <2>1, <2>5, <2>6
  <2>8. Left(query[a]) = 0 => judged' = judged /\ Left(x) = 0 BY <2>1, <2>5
  <2>9. ASSUME NEW b \in Asks PROVE judged' + Left(query'[b]) <= JudgeMax + 1
    <3>1. CASE b = a BY <2>4, <2>6, <3>1
    <3>2. CASE b # a /\ Left(query[a]) = 0 BY <2>3, <2>4, <2>8, <3>2
    <3>3. CASE b # a /\ Left(query[a]) > 0
      <4>1. Left(query[b]) = 0 BY <2>2, <2>3, <3>3
      <4>2. Left(query'[b]) = 0 BY <2>4, <3>3, <4>1
      <4>3. \A n \in Nat : n + 0 = n OBVIOUS
      <4>4. judged' + Left(query'[b]) = judged' BY <2>1, <4>2, <4>3
      <4> QED BY <2>7, <4>4
    <3> QED BY <2>2, <3>1, <3>2, <3>3
  <2>10. ASSUME NEW b \in Asks, NEW c \in Asks, Left(query'[b]) > 0, Left(query'[c]) > 0 PROVE b = c
    <3>1. \A d \in Asks : Left(query'[d]) > 0 => Left(query[d]) > 0
      <4> SUFFICES ASSUME NEW d \in Asks, Left(query'[d]) > 0 PROVE Left(query[d]) > 0 OBVIOUS
      <4>1. CASE d = a BY <2>2, <2>4, <2>8, <4>1
      <4>2. CASE d # a BY <2>4, <4>2
      <4> QED BY <4>1, <4>2
    <3> QED BY <2>3, <2>10, <3>1
  <2> QED BY <2>7, <2>9, <2>10 DEF RoomLeft
<1> QED BY <1>1, <1>2, <1>3

\* The same for a step that stores nothing and costs nothing.
LEMMA FreeStep ==
  ASSUME PipeInv, NEW a \in Asks, NEW x \in Queries, LineTurns(a, x), LineSound(x),
         LogLLMCall("other") \/ UNCHANGED tapeVars, Kept, Left(x) <= Left(query[a])
  PROVE  PipeInv'
<1>1. TapeTyped' /\ judged' = judged BY TapeLogs, TapeRests DEF PipeInv, TapeTyped, Kinds
<1>2. judged \in Nat /\ Left(x) \in 0..2 /\ Left(query[a]) \in 0..2 BY LeftIs DEF PipeInv, TapeTyped
<1>3. judged <= judged' /\ judged' + Left(x) <= judged + Left(query[a]) BY <1>1, <1>2
<1>4. lagged' = lagged /\ AnswersVouched' BY DEF Kept, PipeInv, AnswersVouched
<1> QED BY <1>1, <1>3, <1>4, LineStep

-----------------------------------------------------------------------------
LEMMA PipeStart == PipelineInit => PipeInv
<1> SUFFICES ASSUME PipelineInit PROVE PipeInv OBVIOUS
<1> USE DEF PipelineInit
<1>1. query \in [Asks -> Queries] BY BlankIs
<1>2. \A a \in Asks : LineSound(query[a]) /\ Left(query[a]) = 0 BY BlankIs DEF LineSound, Left
<1>3. << >> \in Seq(Kinds) OBVIOUS
<1>4. TapeTyped BY <1>3, JudgesNone DEF TapeTyped, JudgeRowsAddUp
<1>5. RoomLeft
  <2>1. JudgeMax \in Nat /\ 0 <= JudgeMax + 1 BY PipelineAssumption
  <2> QED BY <1>2, <2>1 DEF RoomLeft
<1> QED BY <1>1, <1>2, <1>4, <1>5 DEF PipeInv, AnswersVouched

\* Telemetry that moves on by itself.
LEMMA TapeStep ==
  ASSUME PipeInv, TapeTyped', judged' = judged, UNCHANGED <<query, stored, lagged>> PROVE PipeInv'
BY DEF PipeInv, RoomLeft, AnswersVouched

LEMMA TakeKeeps == ASSUME PipeInv, DrainTake PROVE PipeInv'
<1>1. /\ batch = << >> /\ batch' = rows /\ rows' = << >>
      /\ UNCHANGED <<query, stored, counted, losses, judged, gone, lagged>>
  BY DEF DrainTake, Remaining
<1>2. TapeTyped BY DEF PipeInv
<1>3. rows \in Seq(Kinds) /\ << >> \in Seq(Kinds) BY <1>2 DEF TapeTyped
<1>4. Judges(rows) \in Nat /\ Judges(<< >>) = 0 BY <1>3, JudgesCount, JudgesNone
<1>5. judged = counted + Judges(rows) + Judges(batch) + gone BY <1>2 DEF TapeTyped, JudgeRowsAddUp
<1>6. judged = counted + Judges(<< >>) + Judges(rows) + gone BY <1>1, <1>2, <1>4, <1>5 DEF TapeTyped
<1>7. TapeTyped' BY <1>1, <1>2, <1>3, <1>6 DEF TapeTyped, JudgeRowsAddUp
<1> QED BY <1>1, <1>7, TapeStep

LEMMA DrainInsertKeeps == ASSUME PipeInv, DrainInsert PROVE PipeInv'
<1>1. batch # << >> /\ batch' = Tail(batch) /\ UNCHANGED <<query, stored, rows, judged, lagged>>
  BY DEF DrainInsert
<1>2. TapeTyped BY DEF PipeInv
<1>3. rows \in Seq(Kinds) /\ batch \in Seq(Kinds) BY <1>2 DEF TapeTyped
<1>4. PICK one : one = Judges(<<Head(batch)>>) OBVIOUS
<1>5. /\ Tail(batch) \in Seq(Kinds) /\ Judges(batch) = one + Judges(Tail(batch))
      /\ one \in Nat /\ Judges(Tail(batch)) \in Nat /\ Judges(rows) \in Nat
  <2>1. /\ Tail(batch) \in Seq(Kinds) /\ Head(batch) \in Kinds
        /\ Judges(batch) = Judges(<<Head(batch)>>) + Judges(Tail(batch))
    BY <1>1, <1>3, JudgesTail
  <2>2. Judges(Tail(batch)) \in Nat /\ Judges(rows) \in Nat BY <1>3, <2>1, JudgesCount
  <2>3. one \in Nat BY <1>4, <2>1, JudgesOne
  <2> QED BY <1>4, <2>1, <2>2, <2>3
<1>6. judged = counted + Judges(rows) + (one + Judges(Tail(batch))) + gone
  BY <1>2, <1>5 DEF TapeTyped, JudgeRowsAddUp
<1>7. counted \in Nat /\ gone \in Nat /\ judged \in Nat BY <1>2 DEF TapeTyped
<1>8. (counted' = counted + one /\ gone' = gone) \/ (gone' = gone + one /\ counted' = counted)
  BY <1>4 DEF DrainInsert
<1>9. /\ counted' \in Nat /\ gone' \in Nat
      /\ judged = counted' + Judges(rows) + Judges(Tail(batch)) + gone'
  BY <1>5, <1>6, <1>7, <1>8
<1>10. TapeTyped' BY <1>1, <1>3, <1>5, <1>7, <1>9 DEF TapeTyped, JudgeRowsAddUp
<1> QED BY <1>1, <1>10, TapeStep

LEMMA RestartKeeps == ASSUME PipeInv, Restarted PROVE PipeInv'
<1>1. /\ rows' = << >> /\ batch' = << >> /\ gone' = gone + Judges(rows) + Judges(batch)
      /\ query' = [a \in Asks |-> IF query[a].at = "idle" THEN query[a] ELSE [Blank EXCEPT !.at = "over"]]
      /\ UNCHANGED <<stored, counted, judged, lagged>>
  BY DEF Restarted
<1>2. TapeTyped BY DEF PipeInv
<1>3. rows \in Seq(Kinds) /\ batch \in Seq(Kinds) /\ << >> \in Seq(Kinds) BY <1>2 DEF TapeTyped
<1>4. Judges(rows) \in Nat /\ Judges(batch) \in Nat /\ Judges(<< >>) = 0 BY <1>3, JudgesCount, JudgesNone
<1>5. judged = counted + Judges(rows) + Judges(batch) + gone BY <1>2 DEF TapeTyped, JudgeRowsAddUp
<1>6. counted \in Nat /\ gone \in Nat /\ judged \in Nat BY <1>2 DEF TapeTyped
<1>7. gone' \in Nat /\ judged = counted + 0 + 0 + gone' BY <1>1, <1>4, <1>5, <1>6
<1>8. TapeTyped' BY <1>1, <1>3, <1>4, <1>6, <1>7 DEF TapeTyped, JudgeRowsAddUp
<1>9. PICK x : x = [Blank EXCEPT !.at = "over"] OBVIOUS
<1>10. x \in Queries /\ x.at = "over" BY <1>9, BlankIs DEF Queries, Waits
<1>11. LineSound(x) /\ Left(x) = 0 BY <1>10 DEF LineSound, Left
<1>12. \A a \in Asks : query'[a] = x \/ query'[a] = query[a] BY <1>1, <1>9
<1>13. query' \in [Asks -> Queries] BY <1>1, <1>9, <1>10 DEF PipeInv
<1>14. \A a \in Asks : LineSound(query'[a]) BY <1>11, <1>12 DEF PipeInv
<1>15. RoomLeft'
  <2> SUFFICES ASSUME ~lagged PROVE RoomLeft' BY <1>1 DEF RoomLeft
  <2>1. /\ judged <= JudgeMax + 1
        /\ \A a \in Asks : judged + Left(query[a]) <= JudgeMax + 1
        /\ \A a, b \in Asks : Left(query[a]) > 0 /\ Left(query[b]) > 0 => a = b
    BY DEF PipeInv, RoomLeft
  <2>2. \A a \in Asks : Left(query'[a]) = 0 \/ Left(query'[a]) = Left(query[a]) BY <1>11, <1>12
  <2>3. judged + 0 = judged BY <1>6
  <2>4. \A a \in Asks : judged + Left(query'[a]) <= JudgeMax + 1 BY <2>1, <2>2, <2>3
  <2>5. \A a, b \in Asks : Left(query'[a]) > 0 /\ Left(query'[b]) > 0 => a = b BY <2>1, <2>2
  <2> QED BY <1>1, <2>1, <2>4, <2>5 DEF RoomLeft
<1> QED BY <1>1, <1>8, <1>13, <1>14, <1>15 DEF PipeInv, AnswersVouched

-----------------------------------------------------------------------------
LEMMA AskBeginKeeps ==
  ASSUME PipeInv, NEW a \in Asks, NEW path \in {"ask", "voice"}, NEW chunks \in SUBSET Retrieved,
         AskBegin(a, path, chunks)
  PROVE  PipeInv'
<1>1. PICK x : x = [Blank EXCEPT !.path = path, !.chunks = chunks,
                  !.status = IF chunks = {} THEN "not_covered" ELSE "error",
                  !.at = IF chunks = {} THEN "store" ELSE "round"]
  OBVIOUS
<1>2. /\ x \in Queries /\ x.chunks = chunks
      /\ (chunks = {} /\ x.at = "store" /\ x.status = "not_covered") \/ (chunks # {} /\ x.at = "round" /\ x.status = "error")
  BY <1>1, BlankIs DEF Queries, Waits, Statuses
<1>3. query' = [query EXCEPT ![a] = x] /\ UNCHANGED tapeVars /\ Kept /\ query[a].at = "idle"
  BY <1>1 DEF AskBegin
<1>4. LineTurns(a, x) BY <1>2, <1>3, LineTurning
<1>5. LineSound(x) BY <1>2 DEF LineSound, Vouched
<1>6. Left(x) <= Left(query[a]) BY <1>2, <1>3 DEF Left
<1> QED BY <1>2, <1>3, <1>4, <1>5, <1>6, FreeStep

LEMMA InputKeeps == ASSUME PipeInv, NEW a \in Asks, InputRefused(a) PROVE PipeInv'
<1>1. PICK x \in Queries : LineTurns(a, x) /\ x.at = "over" /\ LineSound(x) /\ Left(x) = 0
  BY LineOver DEF InputRefused
<1>2. Left(x) <= Left(query[a]) BY <1>1 DEF Left
<1> QED BY <1>1, <1>2, FreeStep DEF InputRefused

\* An answer that parses replaces the one before.
LEMMA RoundIs ==
  ASSUME PipeInv, NEW a \in Asks, NEW from \in Waits, NEW to \in Waits, NEW failedTo \in Waits,
         Round(a, from, to, failedTo)
  PROVE  \E x \in Queries : /\ LineTurns(a, x) /\ query[a].at = from /\ x.chunks = query[a].chunks
                            /\ \/ x.at = to
                               \/ x.at = failedTo /\ x.status = query[a].status /\ x.cites = query[a].cites
                                  /\ x.vouch = query[a].vouch
<1>1. CASE Moves(a, failedTo) BY <1>1, LineMoves DEF Round
<1>2. CASE \E status \in Statuses, sure \in BOOLEAN, cites \in SUBSET Ids :
            LET qa == Normalized(status, sure, cites) IN
            query' = [query EXCEPT ![a].at = to, ![a].status = qa.status, ![a].cites = qa.cites]
  <2>1. PICK status \in Statuses, sure \in BOOLEAN, cites \in SUBSET Ids :
            query' = [query EXCEPT ![a].at = to, ![a].status = Normalized(status, sure, cites).status,
                                   ![a].cites = Normalized(status, sure, cites).cites]
    BY <1>2
  <2>2. PICK qa : qa = Normalized(status, sure, cites) OBVIOUS
  <2>3. qa.status \in Statuses /\ qa.cites \subseteq Ids BY <2>2 DEF Normalized, Statuses
  <2>4. query[a] \in Queries BY DEF PipeInv
  <2>5. PICK x : x = [query[a] EXCEPT !.at = to, !.status = qa.status, !.cites = qa.cites] OBVIOUS
  <2>6. x \in Queries /\ x.at = to /\ x.chunks = query[a].chunks BY <2>3, <2>4, <2>5 DEF Queries
  <2>7. query' = [query EXCEPT ![a] = x] BY <2>1, <2>2, <2>5 DEF PipeInv
  <2>8. LineTurns(a, x) BY <2>6, <2>7, LineTurning
  <2> QED BY <2>6, <2>8 DEF Round
<1> QED BY <1>1, <1>2 DEF Round

LEMMA AskRoundKeeps == ASSUME PipeInv, NEW a \in Asks, AskRound(a) PROVE PipeInv'
<1>1. (LogLLMCall("other") \/ UNCHANGED tapeVars) /\ Kept BY DEF AskRound, Round
<1>2. LineSound(query[a]) BY DEF PipeInv
<1>3. CASE Round(a, "round", "cited", "store")
  <2>1. PICK x \in Queries :
          /\ LineTurns(a, x) /\ query[a].at = "round" /\ x.chunks = query[a].chunks
          /\ x.at = "cited" \/ (x.at = "store" /\ x.status = query[a].status)
    <3>1. "round" \in Waits /\ "cited" \in Waits /\ "store" \in Waits BY DEF Waits
    <3> QED BY <1>3, <3>1, RoundIs
  <2>2. LineSound(x) BY <1>2, <2>1 DEF LineSound, Vouched
  <2>3. Left(x) <= Left(query[a]) BY <2>1 DEF Left
  <2> QED BY <1>1, <2>1, <2>2, <2>3, FreeStep
<1>4. CASE query[a].at = "round" /\ Moves(a, "store")
  <2>1. PICK x \in Queries : LineTurns(a, x) /\ x.at = "store" /\ x.status = query[a].status
    BY <1>4, LineMoves DEF Waits
  <2>2. LineSound(x) BY <1>2, <1>4, <2>1 DEF LineSound, Vouched
  <2>3. Left(x) <= Left(query[a]) BY <1>4, <2>1 DEF Left
  <2> QED BY <1>1, <2>1, <2>2, <2>3, FreeStep
<1> QED BY <1>3, <1>4 DEF AskRound

LEMMA CiteKeeps == ASSUME PipeInv, NEW a \in Asks, CiteCheck(a) PROVE PipeInv'
<1>1. query[a].at = "cited" /\ UNCHANGED tapeVars /\ Kept BY DEF CiteCheck
<1>2. query[a].chunks # {} BY <1>1 DEF PipeInv, LineSound
<1>3. PICK at : at = IF query[a].status # "answered" THEN "store"
                     ELSE IF CheckCitations(query[a].cites, query[a].chunks) THEN "quota"
                     ELSE "recite"
  OBVIOUS
<1>4. Moves(a, at) BY <1>3 DEF CiteCheck
<1>5. at \in {"store", "quota", "recite"} /\ (at = "store" => query[a].status # "answered")
      /\ (at = "quota" => query[a].cites # {})
  BY <1>2, <1>3 DEF CheckCitations
<1>6. PICK x \in Queries : /\ LineTurns(a, x) /\ x.at = at /\ x.chunks = query[a].chunks
                           /\ x.status = query[a].status /\ x.cites = query[a].cites
  BY <1>4, <1>5, LineMoves DEF Waits
<1>7. LineSound(x) BY <1>2, <1>5, <1>6 DEF LineSound, Vouched
<1>8. Left(x) <= Left(query[a]) BY <1>1, <1>5, <1>6 DEF Left
<1> QED BY <1>1, <1>6, <1>7, <1>8, FreeStep

LEMMA ReciteKeeps == ASSUME PipeInv, NEW a \in Asks, CitationRetry(a) PROVE PipeInv'
<1>1. (LogLLMCall("other") \/ UNCHANGED tapeVars) /\ Kept BY DEF CitationRetry, Round
<1>2. PICK x \in Queries : /\ LineTurns(a, x) /\ query[a].at = "recite" /\ x.chunks = query[a].chunks
                           /\ x.at = "recited"
  <2>1. "recite" \in Waits /\ "recited" \in Waits BY DEF Waits
  <2>2. CASE Round(a, "recite", "recited", "recited") BY <2>1, <2>2, RoundIs
  <2>3. CASE query[a].at = "recite" /\ Moves(a, "recited") BY <2>1, <2>3, LineMoves
  <2> QED BY <2>2, <2>3 DEF CitationRetry
<1>3. LineSound(x) BY <1>2 DEF LineSound, PipeInv
<1>4. Left(x) <= Left(query[a]) BY <1>2 DEF Left
<1> QED BY <1>1, <1>2, <1>3, <1>4, FreeStep

LEMMA RefusedIs ==
  ASSUME PipeInv, NEW a \in Asks, Refused(a), query[a].at \in {"recited", "rejected"} PROVE PipeInv'
<1>1. PICK x : x = [Blank EXCEPT !.at = "refused", !.path = query[a].path] OBVIOUS
<1>2. query[a] \in Queries BY DEF PipeInv
<1>3. x \in Queries /\ x.at = "refused" BY <1>1, <1>2, BlankIs DEF Queries, Waits
<1>4. query' = [query EXCEPT ![a] = x] /\ LogLLMCall("other") /\ Kept BY <1>1 DEF Refused
<1>5. LineTurns(a, x) BY <1>3, <1>4, LineTurning
<1>6. LineSound(x) /\ Left(x) <= Left(query[a]) BY <1>3 DEF LineSound, Left
<1> QED BY <1>3, <1>4, <1>5, <1>6, FreeStep

LEMMA RecheckKeeps == ASSUME PipeInv, NEW a \in Asks, CiteRecheck(a) PROVE PipeInv'
<1>1. query[a].at = "recited" BY DEF CiteRecheck
<1>2. query[a].chunks # {} BY <1>1 DEF PipeInv, LineSound
<1>3. CASE Refused(a) BY <1>1, <1>3, RefusedIs
<1>4. CASE ~(query[a].status = "answered" /\ ~CitedAgain(query[a].cites, query[a].chunks))
  <2>1. PICK at : at = IF query[a].status = "answered" THEN "quota" ELSE "store" OBVIOUS
  <2>2. Moves(a, at) /\ UNCHANGED tapeVars /\ Kept BY <1>4, <2>1 DEF CiteRecheck
  <2>3. at \in {"store", "quota"} /\ (at = "store" => query[a].status # "answered")
        /\ (at = "quota" => query[a].cites # {})
    BY <1>2, <1>4, <2>1 DEF CitedAgain, CheckCitations
  <2>4. PICK x \in Queries : /\ LineTurns(a, x) /\ x.at = at
                             /\ x.status = query[a].status /\ x.cites = query[a].cites
    BY <2>2, <2>3, LineMoves DEF Waits
  <2>5. LineSound(x) BY <2>3, <2>4 DEF LineSound, Vouched
  <2>6. Left(x) <= Left(query[a]) BY <1>1, <2>3, <2>4 DEF Left
  <2> QED BY <2>2, <2>4, <2>5, <2>6, FreeStep
<1> QED BY <1>3, <1>4 DEF CiteRecheck

\* The check passes: below the quota, and alone with every round counted unless it lags.
LEMMA QuotaKeeps == ASSUME PipeInv, NEW a \in Asks, QuotaCheck(a) PROVE PipeInv'
<1>1. query[a].at = "quota" /\ query[a] \in Queries /\ query[a].cites # {} /\ UNCHANGED stored
  BY DEF QuotaCheck, PipeInv, LineSound
<1>2. CASE ~QuotaLeft(counted)
  <2>1. PICK x : x = [query[a] EXCEPT !.at = "store", !.vouch = "skipped"] OBVIOUS
  <2>2. x \in Queries /\ x.at = "store" /\ x.vouch = "skipped" /\ x.cites = query[a].cites
    BY <1>1, <2>1 DEF Queries, Waits
  <2>3. query' = [query EXCEPT ![a] = x] BY <1>2, <2>1 DEF QuotaCheck, PipeInv
  <2>4. LogLLMCall("other") /\ Kept BY <1>2 DEF QuotaCheck, Kept
  <2>5. LineTurns(a, x) BY <2>2, <2>3, LineTurning
  <2>6. LineSound(x) /\ Left(x) <= Left(query[a]) BY <1>1, <2>2 DEF LineSound, Vouched, Left
  <2> QED BY <2>2, <2>4, <2>5, <2>6, FreeStep
<1>3. CASE QuotaLeft(counted)
  <2>1. /\ Moves(a, "judge") /\ UNCHANGED tapeVars
        /\ lagged' = (lagged \/ Judging # {} \/ judged # counted)
    BY <1>3 DEF QuotaCheck
  <2>2. PICK x \in Queries : LineTurns(a, x) /\ x.at = "judge" /\ x.cites = query[a].cites
    BY <2>1, LineMoves DEF Waits
  <2>3. LineSound(x) /\ Left(x) = 2 BY <1>1, <2>2 DEF LineSound, Left
  <2>4. TapeTyped' /\ judged' = judged BY <2>1, TapeRests DEF PipeInv
  <2>5. query' \in [Asks -> Queries] /\ lagged' \in BOOLEAN BY <2>1, <2>2 DEF LineTurns, PipeInv
  <2>6. \A b \in Asks : LineSound(query'[b]) BY <2>2, <2>3 DEF LineTurns, PipeInv
  <2>7. AnswersVouched' BY <1>1 DEF PipeInv, AnswersVouched
  <2>8. RoomLeft'
    <3> SUFFICES ASSUME ~lagged' PROVE RoomLeft' BY DEF RoomLeft
    <3>1. Judging = {} /\ judged = counted BY <2>1
    <3>2. counted \in Nat /\ JudgeMax \in Nat /\ counted < JudgeMax
      BY <1>3, PipelineAssumption DEF QuotaLeft, PipeInv, TapeTyped
    <3>3. \A b \in Asks : Left(query[b]) = 0 BY <3>1 DEF Judging, Left
    <3>4. \A b \in Asks : (b = a /\ Left(query'[b]) = 2) \/ (b # a /\ Left(query'[b]) = 0)
      BY <2>2, <2>3, <3>3 DEF LineTurns
    <3>5. judged + 2 <= JudgeMax + 1 /\ judged + 0 <= JudgeMax + 1 /\ judged <= JudgeMax + 1
      <4> HIDE DEF PipeInv
      <4> QED BY <3>1, <3>2
    <3>6. \A b \in Asks : judged + Left(query'[b]) <= JudgeMax + 1 BY <3>4, <3>5
    <3>7. \A b, c \in Asks : Left(query'[b]) > 0 /\ Left(query'[c]) > 0 => b = c BY <3>4
    <3> QED BY <2>4, <3>5, <3>6, <3>7 DEF RoomLeft
  <2> QED BY <2>4, <2>5, <2>6, <2>7, <2>8 DEF PipeInv
<1> QED BY <1>2, <1>3

LEMMA VerdictKeeps ==
  ASSUME PipeInv, NEW a \in Asks, NEW from, NEW to, Verdict(a, from, to),
         (from = "judge" /\ to = "reground") \/ (from = "rejudge" /\ to = "rejected")
  PROVE  PipeInv'
<1>1. query[a].at = from /\ Kept /\ query[a] \in Queries /\ query[a].cites # {}
  BY DEF Verdict, PipeInv, LineSound
<1>2. Left(query[a]) \in {1, 2} /\ (to = "reground" => Left(query[a]) = 2) BY <1>1 DEF Left
<1>3. AnswersVouched' /\ lagged' = lagged BY <1>1 DEF PipeInv, AnswersVouched, Kept
<1>4. judged \in Nat BY DEF PipeInv, TapeTyped
<1>5. ASSUME NEW vouch \in {"judged", "skipped"},
             query' = [query EXCEPT ![a].at = "store", ![a].vouch = vouch],
             LogLLMCall("judge") \/ UNCHANGED tapeVars
      PROVE  PipeInv'
  <2>1. PICK x : x = [query[a] EXCEPT !.at = "store", !.vouch = vouch] OBVIOUS
  <2>2. x \in Queries /\ x.at = "store" /\ x.vouch = vouch /\ x.cites = query[a].cites
    BY <1>1, <2>1 DEF Queries, Waits
  <2>3. query' = [query EXCEPT ![a] = x] BY <1>5, <2>1 DEF PipeInv
  <2>4. LineTurns(a, x) BY <2>2, <2>3, LineTurning
  <2>5. LineSound(x) /\ Left(x) = 0 BY <1>1, <2>2 DEF LineSound, Vouched, Left
  <2>6. TapeTyped' /\ judged' \in {judged, judged + 1}
    BY <1>5, TapeLogs, TapeRests DEF PipeInv, Kinds
  <2>7. judged <= judged' /\ judged' + Left(x) <= judged + Left(query[a]) BY <1>2, <1>4, <2>5, <2>6
  <2> QED BY <1>3, <2>2, <2>4, <2>5, <2>6, <2>7, LineStep
<1>6. ASSUME Moves(a, to), LogLLMCall("judge") PROVE PipeInv'
  <2>1. to \in Waits BY DEF Waits
  <2>2. PICK x \in Queries : LineTurns(a, x) /\ x.at = to BY <1>6, <2>1, LineMoves
  <2>3. LineSound(x) BY <2>2 DEF LineSound
  <2>4. (to = "reground" /\ Left(x) = 1) \/ Left(x) = 0 BY <2>2 DEF Left
  <2>5. TapeTyped' /\ judged' = judged + 1 BY <1>6, TapeLogs DEF PipeInv, Kinds
  <2>6. judged <= judged' /\ judged' + Left(x) <= judged + Left(query[a]) BY <1>2, <1>4, <2>4, <2>5
  <2> QED BY <1>3, <2>2, <2>3, <2>5, <2>6, LineStep
<1> QED BY <1>5, <1>6 DEF Verdict

LEMMA RegroundKeeps == ASSUME PipeInv, NEW a \in Asks, GroundingRetry(a) PROVE PipeInv'
<1>1. (LogLLMCall("other") \/ UNCHANGED tapeVars) /\ Kept BY DEF GroundingRetry, Round
<1>2. PICK x \in Queries : LineTurns(a, x) /\ query[a].at = "reground" /\ x.at = "regrounded"
  <2>1. "reground" \in Waits /\ "regrounded" \in Waits BY DEF Waits
  <2>2. CASE Round(a, "reground", "regrounded", "regrounded") BY <2>1, <2>2, RoundIs
  <2>3. CASE query[a].at = "reground" /\ Moves(a, "regrounded") BY <2>1, <2>3, LineMoves
  <2> QED BY <2>2, <2>3 DEF GroundingRetry
<1>3. LineSound(x) /\ Left(x) <= Left(query[a]) BY <1>2 DEF LineSound, Left
<1> QED BY <1>1, <1>2, <1>3, FreeStep

LEMMA RegroundedKeeps == ASSUME PipeInv, NEW a \in Asks, Regrounded(a) PROVE PipeInv'
<1>1. query[a].at = "regrounded" /\ query[a] \in Queries /\ UNCHANGED tapeVars /\ Kept
  BY DEF Regrounded, PipeInv
<1>2. PICK at : at = IF query[a].status = "answered" /\ query[a].cites # {} THEN "rejudge" ELSE "store" OBVIOUS
<1>3. PICK x : x = [query[a] EXCEPT !.at = at, !.vouch = "retried"] OBVIOUS
<1>4. /\ x \in Queries /\ x.at = at /\ x.vouch = "retried" /\ x.cites = query[a].cites
      /\ at \in {"rejudge", "store"} /\ (at = "rejudge" => query[a].cites # {})
  BY <1>1, <1>2, <1>3 DEF Queries, Waits
<1>5. query' = [query EXCEPT ![a] = x] BY <1>2, <1>3 DEF Regrounded, PipeInv
<1>6. LineTurns(a, x) BY <1>4, <1>5, LineTurning
<1>7. LineSound(x) /\ Left(x) <= Left(query[a]) BY <1>1, <1>4 DEF LineSound, Vouched, Left
<1> QED BY <1>1, <1>4, <1>6, <1>7, FreeStep

\* What is stored is what was vouched for, or nothing, or an error.
LEMMA StoreStep ==
  ASSUME PipeInv, NEW a \in Asks, AskOver(a), UNCHANGED lagged, LogLLMCall("other") \/ UNCHANGED tapeVars,
         \A r \in stored' \ stored : Vouched(r)
  PROVE  PipeInv'
<1>1. PICK x \in Queries : LineTurns(a, x) /\ x.at = "over" /\ LineSound(x) /\ Left(x) = 0 BY LineOver
<1>2. TapeTyped' /\ judged' = judged BY TapeLogs, TapeRests DEF PipeInv, TapeTyped, Kinds
<1>3. judged \in Nat /\ Left(query[a]) \in 0..2 BY LeftIs DEF PipeInv, TapeTyped
<1>4. judged <= judged' /\ judged' + Left(x) <= judged + Left(query[a]) BY <1>1, <1>2, <1>3
<1>5. AnswersVouched' BY DEF PipeInv, AnswersVouched, Vouched
<1> QED BY <1>1, <1>2, <1>4, <1>5, LineStep

LEMMA AnswerStoreKeeps == ASSUME PipeInv, NEW a \in Asks, Store(a) \/ StoreRefusal(a) PROVE PipeInv'
<1>1. AskOver(a) /\ UNCHANGED lagged /\ (LogLLMCall("other") \/ UNCHANGED tapeVars) BY DEF Store, StoreRefusal
<1>2. \/ stored' = stored
      \/ query[a].at = "store" /\ stored' = Written(a, query[a].status)
      \/ stored' = Written(a, "error")
  BY DEF Store, StoreRefusal
<1>3. query[a].at = "store" => Vouched(query[a]) BY DEF PipeInv, LineSound
<1>4. ASSUME NEW status PROVE
        \A r \in Written(a, status) \ stored :
          r.status = status /\ r.cites = query[a].cites /\ r.vouch = query[a].vouch
  BY DEF Written
<1>5. \A r \in stored' \ stored : Vouched(r) BY <1>2, <1>3, <1>4 DEF Vouched
<1> QED BY <1>1, <1>5, StoreStep

-----------------------------------------------------------------------------
LEMMA PipeStep == PipeInv /\ [PipelineNext]_pipeVars => PipeInv'
<1> SUFFICES ASSUME PipeInv, [PipelineNext]_pipeVars PROVE PipeInv' OBVIOUS
<1>1. CASE UNCHANGED pipeVars
  <2>1. UNCHANGED <<query, stored, lagged, judged>> /\ UNCHANGED tapeVars BY <1>1 DEF pipeVars, tapeVars
  <2> QED BY <2>1, TapeRests, TapeStep DEF PipeInv
<1>2. ASSUME NEW a \in Asks, NEW path \in {"ask", "voice"}, NEW chunks \in SUBSET Retrieved, AskBegin(a, path, chunks)
      PROVE  PipeInv'
  BY <1>2, AskBeginKeeps
<1>3. ASSUME NEW a \in Asks,
             \/ InputRefused(a) \/ AskRound(a) \/ CiteCheck(a) \/ CitationRetry(a) \/ CiteRecheck(a)
             \/ QuotaCheck(a) \/ GroundingRetry(a) \/ Regrounded(a) \/ Store(a) \/ StoreRefusal(a)
      PROVE  PipeInv'
  BY <1>3, InputKeeps, AskRoundKeeps, CiteKeeps, ReciteKeeps, RecheckKeeps, QuotaKeeps, RegroundKeeps,
     RegroundedKeeps, AnswerStoreKeeps
<1>4. ASSUME NEW a \in Asks, JudgeRound(a) \/ Rejudge(a) PROVE PipeInv'
  BY <1>4, VerdictKeeps DEF JudgeRound, Rejudge
<1>5. ASSUME NEW a \in Asks, RejudgeRefused(a) PROVE PipeInv' BY <1>5, RefusedIs DEF RejudgeRefused
<1> QED BY <1>1, <1>2, <1>3, <1>4, <1>5, TakeKeeps, DrainInsertKeeps, RestartKeeps DEF PipelineNext

\* An answer that is kept was vouched for, every round of the judge is counted, on its
\* way or lost, and unless a check missed some the rounds stay within the quota and one
\* (qa.go:509-640, grounding.go:118-150, log.go).
THEOREM GuardsStay == PipelineSpec => []GuardsHold
<1>1. PipeInv => GuardsHold BY DEF PipeInv, RoomLeft, TapeTyped, GuardsHold, QuotaHolds
<1> QED BY <1>1, PipeStart, PipeStep, PTL DEF PipelineSpec

-----------------------------------------------------------------------------
(* The recordings that are listed (TeamsListing).                           *)

Frames == [folder : Folders, read : BOOLEAN, left : SUBSET (Folders \cup Mp4s)]
DriveTyped ==
    /\ home \in [Mp4s -> Folders \cup {Elsewhere}] /\ moves \in Nat /\ skipped \in BOOLEAN
    /\ stack \in Seq(Frames) /\ found \in Seq(Mp4s)
    /\ drive \in {"resolving", "walking", "done", "absent", "failed"}

\* What the walk has open: only the last folder may not be read yet, and what is left
\* of a folder lies in it.
WalkShape ==
    /\ drive = "walking" <=> Len(stack) > 0
    /\ \A i \in 1..Len(stack) :
         /\ i < Len(stack) => stack[i].read
         /\ ~stack[i].read => stack[i].left = {}
         /\ \A d \in stack[i].left \cap Folders : d # TopFolder /\ FolderIn[d] = stack[i].folder

OnceListed == IsFiniteSet(Listed) /\ Cardinality(Listed) = Len(found)

InTree == {m \in Mp4s : home[m] \in Folders}
ListedThere ==
    moves = 0 => /\ Listed \subseteq InTree
                 /\ \A i \in 1..Len(stack) : stack[i].left \cap Mp4s \subseteq InTree

\* The folders of C are over: no folder is open twice, or again, or will be.
AllOver(C) ==
    /\ C \subseteq Folders
    /\ \A i, j \in 1..Len(stack) : stack[i].folder = stack[j].folder => i = j
    /\ \A i \in 1..Len(stack) : stack[i].folder \notin C
    /\ \A i \in 1..Len(stack) : \A d \in stack[i].left \cap Folders :
         d \notin C /\ \A j \in 1..Len(stack) : stack[j].folder # d
    /\ \A d \in Folders \ {TopFolder} :
         (d \in C \/ \E i \in 1..Len(stack) : stack[i].folder = d) =>
            \/ FolderIn[d] \in C
            \/ \E j \in 1..Len(stack) : stack[j].read /\ stack[j].folder = FolderIn[d]
WalkBounded ==
    /\ drive = "resolving" => Len(found) = 0
    /\ \E C \in SUBSET Folders : AllOver(C) /\ Len(found) <= MaxFiles - 1 + Cardinality(C)

\* The folders of V are read: what lies in one of them is listed, read, open or left.
Walked(V) ==
    /\ V \subseteq Folders
    /\ \A i \in 1..Len(stack) : stack[i].read => stack[i].folder \in V
    /\ TopFolder \in V \/ \E i \in 1..Len(stack) : stack[i].folder = TopFolder
    /\ \A f \in V : \A x \in Children(f) :
         x \in Listed \/ x \in V \/ \E i \in 1..Len(stack) : x \in stack[i].left \/ stack[i].folder = x
WalkCovers ==
    drive \in {"walking", "done"} /\ moves = 0 /\ ~skipped => \E V \in SUBSET Folders : Walked(V)

DriveInv ==
    DriveTyped /\ WalkShape /\ OnceListed /\ ListedThere /\ WalkBounded /\ WalkCovers

\* The look-ups: unless a link was passed over, each has what it leads to when it is done.
Yield(l) == IF MeetingOf[l] # NoMeeting THEN Taped[MeetingOf[l]] ELSE {}
GraphInv ==
    /\ skipped \in BOOLEAN
    /\ lookup \in [JoinLinks -> {"absent", "queued", "running", "done"}]
    /\ taped = [l \in JoinLinks |-> taped[l]]
    /\ \A l \in JoinLinks : lookup[l] # "done" => taped[l] = {}
    /\ graph \in {"calendar", "failed"} => \A l \in JoinLinks : lookup[l] = "absent"
    /\ graph = "done" => \A l \in JoinLinks : lookup[l] \in {"absent", "done"}
    /\ ~skipped => /\ graph \in {"looking", "done"} => \A l \in JoinLinks : lookup[l] # "absent"
                   /\ \A l \in JoinLinks : lookup[l] = "done" => taped[l] = Yield(l)

AnswerInv ==
    /\ answer.status = "list" =>
         /\ graph = "done" /\ drive \in {"done", "absent", "failed"}
         /\ answer.drive = found /\ answer.graph = UNION {taped[l] : l \in JoinLinks}
    /\ drive \in {"absent", "failed"} => skipped

ListInv == DriveInv /\ GraphInv /\ AnswerInv

-----------------------------------------------------------------------------
(* The stack *)

TopBecomes(w) ==
    /\ stack' \in Seq(Frames) /\ Len(stack') = Len(stack) /\ stack'[Len(stack)] = w
    /\ \A i \in 1..Len(stack) : i # Len(stack) => stack'[i] = stack[i]
Popped ==
    /\ stack' \in Seq(Frames) /\ Len(stack') = Len(stack) - 1
    /\ \A i \in 1..Len(stack') : stack'[i] = stack[i]
PushedOn(w, v) ==
    /\ stack' \in Seq(Frames) /\ Len(stack') = Len(stack) + 1
    /\ stack'[Len(stack) + 1] = v /\ stack'[Len(stack)] = w
    /\ \A i \in 1..Len(stack) : i # Len(stack) => stack'[i] = stack[i]

LEMMA TopIs ==
    ASSUME DriveInv, drive = "walking"
    PROVE  Len(stack) \in Nat /\ Len(stack) > 0 /\ Len(stack) \in 1..Len(stack) /\ Top \in Frames
<1>1. stack \in Seq(Frames) /\ Len(stack) \in Nat /\ Len(stack) > 0 BY DEF DriveInv, DriveTyped, WalkShape
<1> QED BY <1>1 DEF Top

LEMMA TopChange ==
    ASSUME DriveInv, drive = "walking", NEW w \in Frames, stack' = [stack EXCEPT ![Len(stack)] = w]
    PROVE  TopBecomes(w)
<1>1. stack \in Seq(Frames) /\ Len(stack) \in Nat /\ Len(stack) > 0 /\ Len(stack) \in 1..Len(stack)
  BY TopIs DEF DriveInv, DriveTyped
<1>2. stack' \in Seq(Frames) /\ Len(stack') = Len(stack) BY <1>1, ExceptSeq
<1>3. stack \in [1..Len(stack) -> Frames] BY <1>1, LenProperties
<1> QED BY <1>1, <1>2, <1>3 DEF TopBecomes

LEMMA PopIs == ASSUME DriveInv, drive = "walking", stack' = Up PROVE Popped
<1>1. stack \in Seq(Frames) /\ Len(stack) \in Nat /\ Len(stack) > 0 BY TopIs DEF DriveInv, DriveTyped
<1>2. \A i \in 1..(Len(stack) - 1) : stack[i] \in Frames BY <1>1
<1>3. /\ Up \in Seq(Frames)
      /\ Len(Up) = IF 1 <= Len(stack) - 1 THEN (Len(stack) - 1) - 1 + 1 ELSE 0
      /\ \A i \in 1..((Len(stack) - 1) - 1 + 1) : Up[i] = stack[1 + i - 1]
  BY <1>1, <1>2, SubSeqProperties DEF Up
<1>4. Len(Up) = Len(stack) - 1
  <2>1. PICK n \in Nat : n = Len(stack) BY <1>1
  <2>2. Len(Up) = IF 1 <= n - 1 THEN (n - 1) - 1 + 1 ELSE 0 BY <1>3, <2>1
  <2> QED BY <2>1, <2>2, <1>1
<1>5. \A i \in 1..(Len(stack) - 1) : Up[i] = stack[i] BY <1>1, <1>3
<1> QED BY <1>3, <1>4, <1>5 DEF Popped

LEMMA PushIs ==
    ASSUME DriveInv, drive = "walking", NEW w \in Frames, NEW v \in Frames,
           stack' = Append([stack EXCEPT ![Len(stack)] = w], v)
    PROVE  PushedOn(w, v)
<1>1. stack \in Seq(Frames) /\ Len(stack) \in Nat /\ Len(stack) > 0 /\ Len(stack) \in 1..Len(stack)
  BY TopIs DEF DriveInv, DriveTyped
<1>2. PICK s : s = [stack EXCEPT ![Len(stack)] = w] OBVIOUS
<1>3. s \in Seq(Frames) /\ Len(s) = Len(stack) BY <1>1, <1>2, ExceptSeq
<1>4. stack \in [1..Len(stack) -> Frames] BY <1>1, LenProperties
<1>5. s[Len(stack)] = w /\ \A i \in 1..Len(stack) : i # Len(stack) => s[i] = stack[i]
  BY <1>1, <1>2, <1>4
<1>6. stack' = Append(s, v) BY <1>2
<1> QED BY <1>1, <1>3, <1>5, <1>6 DEF PushedOn

-----------------------------------------------------------------------------
(* What the walk has open keeps its shape *)

\* One child less, or the folder's children for the first time.
Lighter(w) == w.folder = Top.folder /\ w.read /\ w.left \subseteq Top.left
ReadFrame == [folder |-> Top.folder, read |-> TRUE, left |-> Children(Top.folder)]
FirstRead(w) == ~Top.read /\ w = ReadFrame
Fresh(v, w) ==
    /\ Top.read /\ Lighter(w)
    /\ \E d \in Top.left \cap Folders : v = Frame(d) /\ w.left = Top.left \ {d}

ShapeOfStack ==
    \A i \in 1..Len(stack) :
         /\ i < Len(stack) => stack[i].read
         /\ ~stack[i].read => stack[i].left = {}
         /\ \A d \in stack[i].left \cap Folders : d # TopFolder /\ FolderIn[d] = stack[i].folder

LEMMA ShapeTop ==
    ASSUME DriveInv, drive = "walking", NEW w \in Frames, TopBecomes(w), Lighter(w) \/ FirstRead(w)
    PROVE  ShapeOfStack'
<1>1. Len(stack) \in Nat /\ Len(stack) > 0 /\ Len(stack) \in 1..Len(stack) /\ Top = stack[Len(stack)]
  BY TopIs DEF Top
<1>2. \A d \in w.left \cap Folders : d # TopFolder /\ FolderIn[d] = w.folder
  <2>1. CASE Lighter(w) BY <2>1, <1>1 DEF Lighter, DriveInv, WalkShape
  <2>2. CASE FirstRead(w) BY <2>2, ListingAssumption DEF FirstRead, ReadFrame, Children
  <2> QED BY <2>1, <2>2
<1>3. w.read BY DEF Lighter, FirstRead, ReadFrame
<1> SUFFICES ASSUME NEW i \in 1..Len(stack)
             PROVE  /\ i < Len(stack) => stack'[i].read
                    /\ ~stack'[i].read => stack'[i].left = {}
                    /\ \A d \in stack'[i].left \cap Folders : d # TopFolder /\ FolderIn[d] = stack'[i].folder
  BY DEF ShapeOfStack, TopBecomes
<1>4. CASE i = Len(stack) BY <1>4, <1>2, <1>3 DEF TopBecomes
<1>5. CASE i # Len(stack) BY <1>5 DEF TopBecomes, DriveInv, WalkShape
<1> QED BY <1>4, <1>5

LEMMA ShapePop == ASSUME DriveInv, drive = "walking", Popped PROVE ShapeOfStack'
<1>1. Len(stack) \in Nat /\ Len(stack) > 0 BY TopIs
<1>2. \A i \in 1..Len(stack') : i \in 1..Len(stack) /\ i < Len(stack) BY <1>1 DEF Popped
<1>3. \A i \in 1..Len(stack') : stack'[i] = stack[i] BY DEF Popped
<1> QED BY <1>2, <1>3 DEF ShapeOfStack, DriveInv, WalkShape

LEMMA ShapePush ==
    ASSUME DriveInv, drive = "walking", NEW w \in Frames, NEW v \in Frames, PushedOn(w, v), Fresh(v, w)
    PROVE  ShapeOfStack'
<1>1. Len(stack) \in Nat /\ Len(stack) > 0 /\ Len(stack) \in 1..Len(stack) /\ Top = stack[Len(stack)]
  BY TopIs DEF Top
<1>2. w.read /\ \A d \in w.left \cap Folders : d # TopFolder /\ FolderIn[d] = w.folder
  BY <1>1 DEF Fresh, Lighter, DriveInv, WalkShape
<1>3. ~v.read /\ v.left = {} BY DEF Fresh, Frame
<1> SUFFICES ASSUME NEW i \in 1..(Len(stack) + 1)
             PROVE  /\ i < Len(stack) + 1 => stack'[i].read
                    /\ ~stack'[i].read => stack'[i].left = {}
                    /\ \A d \in stack'[i].left \cap Folders : d # TopFolder /\ FolderIn[d] = stack'[i].folder
  BY DEF ShapeOfStack, PushedOn
<1>4. CASE i = Len(stack) BY <1>4, <1>2 DEF PushedOn
<1>5. CASE i = Len(stack) + 1 BY <1>5, <1>3, <1>1 DEF PushedOn
<1>6. CASE i # Len(stack) /\ i # Len(stack) + 1
  <2>1. i \in 1..Len(stack) /\ i < Len(stack) BY <1>1, <1>6
  <2>2. stack'[i] = stack[i] BY <2>1, <1>6 DEF PushedOn
  <2> QED BY <2>1, <2>2 DEF DriveInv, WalkShape
<1> QED BY <1>4, <1>5, <1>6

-----------------------------------------------------------------------------
(* The folders that are over *)

LEMMA OverTop ==
    ASSUME DriveInv, drive = "walking", NEW C, AllOver(C), NEW w \in Frames, TopBecomes(w), Lighter(w)
    PROVE  AllOver(C)'
<1>1. Len(stack) \in Nat /\ Len(stack) > 0 /\ Len(stack) \in 1..Len(stack) /\ Top = stack[Len(stack)]
  BY TopIs DEF Top
<1>2. Len(stack') = Len(stack) BY DEF TopBecomes
<1>3. \A i \in 1..Len(stack) : /\ stack'[i].folder = stack[i].folder
                               /\ stack'[i].left \subseteq stack[i].left
                               /\ stack[i].read => stack'[i].read
  BY <1>1 DEF TopBecomes, Lighter
<1> QED BY <1>2, <1>3 DEF AllOver

LEMMA OverRead ==
    ASSUME DriveInv, drive = "walking", NEW C, AllOver(C), NEW w \in Frames, TopBecomes(w), FirstRead(w)
    PROVE  AllOver(C)'
<1>1. Len(stack) \in Nat /\ Len(stack) > 0 /\ Len(stack) \in 1..Len(stack) /\ Top = stack[Len(stack)]
  BY TopIs DEF Top
<1>2. Len(stack') = Len(stack) BY DEF TopBecomes
<1>3. \A i \in 1..Len(stack) : /\ stack'[i].folder = stack[i].folder
                               /\ i # Len(stack) => stack'[i].left = stack[i].left
                               /\ stack[i].read => stack'[i].read
  BY <1>1 DEF TopBecomes, FirstRead, ReadFrame
<1>4. \A d \in stack'[Len(stack)].left \cap Folders :
          d \in Folders \ {TopFolder} /\ FolderIn[d] = Top.folder
  BY ListingAssumption DEF TopBecomes, FirstRead, ReadFrame, Children
<1>5. Top.folder \notin C BY <1>1 DEF AllOver
<1>6. \A j \in 1..Len(stack) : stack[j].read => stack[j].folder # Top.folder
  BY <1>1 DEF AllOver, FirstRead
<1>7. \A d \in stack'[Len(stack)].left \cap Folders :
          d \notin C /\ \A j \in 1..Len(stack) : stack[j].folder # d
  BY <1>4, <1>5, <1>6 DEF AllOver
<1>8. \A i \in 1..Len(stack) : \A d \in stack'[i].left \cap Folders :
          d \notin C /\ \A j \in 1..Len(stack) : stack[j].folder # d
  BY <1>3, <1>7 DEF AllOver
<1> QED BY <1>2, <1>3, <1>8 DEF AllOver

LEMMA OverPop ==
    ASSUME DriveInv, drive = "walking", NEW C, AllOver(C), Popped
    PROVE  \E D : D = C \cup {Top.folder} /\ Top.folder \notin C /\ AllOver(D)'
<1>1. Len(stack) \in Nat /\ Len(stack) > 0 /\ Len(stack) \in 1..Len(stack) /\ Top = stack[Len(stack)]
      /\ Top.folder \in Folders
  BY TopIs DEF Top, Frames
<1>2. \A i \in 1..Len(stack') : i \in 1..Len(stack) /\ i # Len(stack) /\ stack'[i] = stack[i]
  BY <1>1 DEF Popped
<1>3. \A i \in 1..Len(stack) : i # Len(stack) => i \in 1..Len(stack') BY <1>1 DEF Popped
<1>4. PICK D : D = C \cup {Top.folder} OBVIOUS
<1>5. D \subseteq Folders BY <1>1, <1>4 DEF AllOver
<1>6. \A i, j \in 1..Len(stack') : stack'[i].folder = stack'[j].folder => i = j BY <1>2 DEF AllOver
<1>7. \A i \in 1..Len(stack') : stack'[i].folder \notin D BY <1>1, <1>2, <1>4 DEF AllOver
<1>8. \A i \in 1..Len(stack') : \A d \in stack'[i].left \cap Folders :
          d \notin D /\ \A j \in 1..Len(stack') : stack'[j].folder # d
  BY <1>1, <1>2, <1>4 DEF AllOver
<1>9. ASSUME NEW d \in Folders \ {TopFolder}, d \in D \/ \E i \in 1..Len(stack') : stack'[i].folder = d
      PROVE  FolderIn[d] \in D \/ \E j \in 1..Len(stack') : stack'[j].read /\ stack'[j].folder = FolderIn[d]
  <2>1. d \in C \/ \E i \in 1..Len(stack) : stack[i].folder = d BY <1>1, <1>2, <1>4, <1>9
  <2>2. FolderIn[d] \in C \/ \E j \in 1..Len(stack) : stack[j].read /\ stack[j].folder = FolderIn[d]
    BY <2>1 DEF AllOver
  <2> QED BY <2>2, <1>1, <1>2, <1>3, <1>4
<1>10. AllOver(D)' BY <1>5, <1>6, <1>7, <1>8, <1>9 DEF AllOver
<1>11. Top.folder \notin C BY <1>1 DEF AllOver
<1> QED BY <1>4, <1>10, <1>11

LEMMA OverPush ==
    ASSUME DriveInv, drive = "walking", NEW C, AllOver(C), NEW w \in Frames, NEW v \in Frames,
           PushedOn(w, v), Fresh(v, w)
    PROVE  AllOver(C)'
<1>1. Len(stack) \in Nat /\ Len(stack) > 0 /\ Len(stack) \in 1..Len(stack) /\ Top = stack[Len(stack)]
  BY TopIs DEF Top
<1>2. PICK n : n = Len(stack) OBVIOUS
<1>3. Len(stack') = n + 1 /\ stack'[n + 1] = v /\ stack'[n] = w
      /\ \A i \in 1..n : i # n => stack'[i] = stack[i]
  BY <1>2 DEF PushedOn
<1>4. \A i \in 1..n : /\ stack'[i].folder = stack[i].folder
                      /\ stack'[i].left \subseteq stack[i].left
                      /\ stack[i].read => stack'[i].read
  BY <1>1, <1>2, <1>3 DEF Fresh, Lighter
<1>5. PICK d \in Top.left \cap Folders : v = Frame(d) /\ w.left = Top.left \ {d} BY DEF Fresh
<1>6. v.folder = d /\ v.left = {} /\ ~v.read BY <1>5 DEF Frame
<1>7. d \notin C /\ \A j \in 1..n : stack[j].folder # d BY <1>1, <1>2, <1>5 DEF AllOver
<1>8. d # TopFolder /\ FolderIn[d] = Top.folder BY <1>1, <1>5 DEF DriveInv, WalkShape
<1>9. \A i \in 1..n : d \notin stack'[i].left
  <2> SUFFICES ASSUME NEW i \in 1..n, d \in stack'[i].left PROVE FALSE OBVIOUS
  <2>1. CASE i = n BY <2>1, <1>3, <1>5
  <2>2. CASE i # n
    <3>1. FolderIn[d] = stack[i].folder BY <1>2, <1>4, <1>5 DEF DriveInv, WalkShape
    <3> QED BY <3>1, <2>2, <1>1, <1>2, <1>8 DEF AllOver
  <2> QED BY <2>1, <2>2
<1>10. \A i \in 1..(n + 1) : i \in 1..n \/ i = n + 1 BY <1>1, <1>2
<1>11. n + 1 \notin 1..n /\ n + 1 \in 1..(n + 1) /\ \A i \in 1..n : i \in 1..(n + 1) BY <1>1, <1>2
<1>12. \A i, j \in 1..(n + 1) : stack'[i].folder = stack'[j].folder => i = j
  BY <1>2, <1>3, <1>4, <1>6, <1>7, <1>10 DEF AllOver
<1>13. \A i \in 1..(n + 1) : stack'[i].folder \notin C
  BY <1>2, <1>3, <1>4, <1>6, <1>7, <1>10 DEF AllOver
<1>14. \A i \in 1..(n + 1) : \A e \in stack'[i].left \cap Folders :
          e \notin C /\ \A j \in 1..(n + 1) : stack'[j].folder # e
  BY <1>2, <1>3, <1>4, <1>6, <1>9, <1>10 DEF AllOver
<1>15. ASSUME NEW e \in Folders \ {TopFolder}, e \in C \/ \E i \in 1..(n + 1) : stack'[i].folder = e
       PROVE  FolderIn[e] \in C \/ \E j \in 1..(n + 1) : stack'[j].read /\ stack'[j].folder = FolderIn[e]
  <2>1. CASE e = d BY <2>1, <1>1, <1>2, <1>4, <1>8, <1>11 DEF Fresh
  <2>2. CASE e # d
    <3>1. e \in C \/ \E i \in 1..n : stack[i].folder = e BY <2>2, <1>15, <1>3, <1>4, <1>6, <1>10
    <3>2. FolderIn[e] \in C \/ \E j \in 1..n : stack[j].read /\ stack[j].folder = FolderIn[e]
      BY <3>1, <1>2 DEF AllOver
    <3> QED BY <3>2, <1>4, <1>11
  <2> QED BY <2>1, <2>2
<1> QED BY <1>3, <1>12, <1>13, <1>14, <1>15 DEF AllOver

-----------------------------------------------------------------------------
(* The folders that are read *)

LEMMA WalkedTop ==
    ASSUME DriveInv, drive = "walking", NEW V, Walked(V), NEW w \in Frames, TopBecomes(w),
           home' = home, Top.read, Lighter(w), Listed \subseteq Listed', Top.left \ w.left \subseteq Listed'
    PROVE  Walked(V)'
<1>1. Len(stack) \in Nat /\ Len(stack) > 0 /\ Len(stack) \in 1..Len(stack) /\ Top = stack[Len(stack)]
  BY TopIs DEF Top
<1>2. Len(stack') = Len(stack) BY DEF TopBecomes
<1>3. \A i \in 1..Len(stack) :
          /\ stack'[i].folder = stack[i].folder
          /\ stack'[i].read => stack[i].read
          /\ stack[i].left \ stack'[i].left \subseteq Listed'
  <2>1. \A i \in 1..Len(stack) : i # Len(stack) => stack'[i] = stack[i] BY DEF TopBecomes
  <2>2. stack'[Len(stack)] = w BY DEF TopBecomes
  <2> QED BY <2>1, <2>2, <1>1 DEF Lighter
<1>4. \A f : Children(f)' = Children(f) BY DEF Children
<1>5. \A f \in V : \A x \in Children(f) :
         x \in Listed' \/ x \in V \/ \E i \in 1..Len(stack) : x \in stack'[i].left \/ stack'[i].folder = x
  BY <1>3 DEF Walked
<1> QED BY <1>2, <1>3, <1>4, <1>5 DEF Walked

LEMMA WalkedRead ==
    ASSUME DriveInv, drive = "walking", NEW V, Walked(V), NEW w \in Frames, TopBecomes(w),
           home' = home, FirstRead(w), Listed' = Listed
    PROVE  \E U : U \in SUBSET Folders /\ Walked(U)'
<1>1. Len(stack) \in Nat /\ Len(stack) > 0 /\ Len(stack) \in 1..Len(stack) /\ Top = stack[Len(stack)]
      /\ Top.folder \in Folders
  BY TopIs DEF Top, Frames
<1>2. Len(stack') = Len(stack) BY DEF TopBecomes
<1>3. PICK U : U = V \cup {Top.folder} OBVIOUS
<1>4. stack[Len(stack)].left = {} BY <1>1 DEF DriveInv, WalkShape, FirstRead
<1>5. \A i \in 1..Len(stack) :
          /\ stack'[i].folder = stack[i].folder
          /\ stack'[i].read => stack[i].read \/ stack[i].folder = Top.folder
          /\ stack[i].left \subseteq stack'[i].left
  <2>1. \A i \in 1..Len(stack) : i # Len(stack) => stack'[i] = stack[i] BY DEF TopBecomes
  <2>2. stack'[Len(stack)] = w BY DEF TopBecomes
  <2> QED BY <2>1, <2>2, <1>1, <1>4 DEF FirstRead, ReadFrame
<1>6. \A f : Children(f)' = Children(f) BY DEF Children
<1>7. stack'[Len(stack)].left = Children(Top.folder) BY DEF TopBecomes, FirstRead, ReadFrame
<1>8. \A f \in U : \A x \in Children(f) :
         x \in Listed \/ x \in U \/ \E i \in 1..Len(stack) : x \in stack'[i].left \/ stack'[i].folder = x
  BY <1>1, <1>3, <1>5, <1>7 DEF Walked
<1>9. U \subseteq Folders BY <1>1, <1>3 DEF Walked
<1>10. \A i \in 1..Len(stack) : stack'[i].read => stack'[i].folder \in U BY <1>3, <1>5 DEF Walked
<1>11. TopFolder \in U \/ \E i \in 1..Len(stack) : stack'[i].folder = TopFolder BY <1>3, <1>5 DEF Walked
<1>12. Walked(U)' BY <1>2, <1>6, <1>8, <1>9, <1>10, <1>11 DEF Walked
<1> QED BY <1>9, <1>12

LEMMA WalkedPop ==
    ASSUME DriveInv, drive = "walking", NEW V, Walked(V), Popped, home' = home,
           Top.read, Top.left = {}, Listed' = Listed
    PROVE  Walked(V)'
<1>1. Len(stack) \in Nat /\ Len(stack) > 0 /\ Len(stack) \in 1..Len(stack) /\ Top = stack[Len(stack)]
  BY TopIs DEF Top
<1>2. \A i \in 1..Len(stack') : i \in 1..Len(stack) /\ stack'[i] = stack[i] BY <1>1 DEF Popped
<1>3. \A i \in 1..Len(stack) : i # Len(stack) => i \in 1..Len(stack') BY <1>1 DEF Popped
<1>4. Top.folder \in V BY <1>1 DEF Walked
<1>5. \A f : Children(f)' = Children(f) BY DEF Children
<1>6. \A f \in V : \A x \in Children(f) :
         x \in Listed \/ x \in V \/ \E i \in 1..Len(stack') : x \in stack'[i].left \/ stack'[i].folder = x
  BY <1>1, <1>2, <1>3, <1>4 DEF Walked
<1>7. TopFolder \in V \/ \E i \in 1..Len(stack') : stack'[i].folder = TopFolder
  BY <1>1, <1>2, <1>3, <1>4 DEF Walked
<1> QED BY <1>2, <1>5, <1>6, <1>7 DEF Walked

LEMMA WalkedPush ==
    ASSUME DriveInv, drive = "walking", NEW V, Walked(V), NEW w \in Frames, NEW v \in Frames,
           PushedOn(w, v), Fresh(v, w), home' = home, Listed' = Listed
    PROVE  Walked(V)'
<1>1. Len(stack) \in Nat /\ Len(stack) > 0 /\ Len(stack) \in 1..Len(stack) /\ Top = stack[Len(stack)]
  BY TopIs DEF Top
<1>2. PICK n : n = Len(stack) OBVIOUS
<1>3. Len(stack') = n + 1 /\ stack'[n + 1] = v /\ stack'[n] = w
      /\ \A i \in 1..n : i # n => stack'[i] = stack[i]
  BY <1>2 DEF PushedOn
<1>4. PICK d \in Top.left \cap Folders : v = Frame(d) /\ w.left = Top.left \ {d} BY DEF Fresh
<1>5. v.folder = d /\ ~v.read BY <1>4 DEF Frame
<1>6. \A i \in 1..n : /\ stack'[i].folder = stack[i].folder
                      /\ stack'[i].read => stack[i].read
                      /\ stack[i].left \subseteq stack'[i].left \cup {d}
  BY <1>1, <1>2, <1>3, <1>4 DEF Fresh, Lighter
<1>7. \A i \in 1..(n + 1) : i \in 1..n \/ i = n + 1 BY <1>1, <1>2
<1>8. n + 1 \in 1..(n + 1) /\ \A i \in 1..n : i \in 1..(n + 1) BY <1>1, <1>2
<1>9. \A f : Children(f)' = Children(f) BY DEF Children
<1>10. \A f \in V : \A x \in Children(f) :
         x \in Listed \/ x \in V \/ \E i \in 1..(n + 1) : x \in stack'[i].left \/ stack'[i].folder = x
  <2> SUFFICES ASSUME NEW f \in V, NEW x \in Children(f), x \notin Listed, x \notin V
               PROVE  \E i \in 1..(n + 1) : x \in stack'[i].left \/ stack'[i].folder = x
    OBVIOUS
  <2>1. CASE x = d BY <2>1, <1>3, <1>5, <1>8
  <2>2. CASE x # d
    <3>1. PICK i \in 1..n : x \in stack[i].left \/ stack[i].folder = x BY <1>2 DEF Walked
    <3> QED BY <3>1, <2>2, <1>6, <1>8
  <2> QED BY <2>1, <2>2
<1>11. \A i \in 1..(n + 1) : stack'[i].read => stack'[i].folder \in V
  BY <1>2, <1>3, <1>5, <1>6, <1>7 DEF Walked
<1>12. TopFolder \in V \/ \E i \in 1..(n + 1) : stack'[i].folder = TopFolder
  BY <1>2, <1>6, <1>8 DEF Walked
<1> QED BY <1>3, <1>9, <1>10, <1>11, <1>12 DEF Walked

-----------------------------------------------------------------------------
(* The files that are listed *)

LEMMA ListedGrows ==
    ASSUME found \in Seq(Mp4s), NEW m \in Mp4s, found' = Append(found, m)
    PROVE  Listed' = Listed \cup {m} /\ Len(found') = Len(found) + 1 /\ found' \in Seq(Mp4s)
<1>1. PICK n \in Nat : n = Len(found) OBVIOUS
<1>2. Len(found') = n + 1 /\ found' \in Seq(Mp4s) /\ found'[n + 1] = m
      /\ \A i \in 1..n : found'[i] = found[i]
  BY <1>1
<1>3. DOMAIN found = 1..n /\ DOMAIN found' = 1..(n + 1) BY <1>1, <1>2
<1>4. \A i : i \in 1..(n + 1) <=> (i \in 1..n \/ i = n + 1) BY <1>1
<1>5. Listed' = Listed \cup {m} BY <1>2, <1>3, <1>4 DEF Listed
<1> QED BY <1>1, <1>2, <1>5

LEMMA OnceMore ==
    ASSUME DriveInv, NEW m \in Mp4s, ~Seen(m), found' = Append(found, m)
    PROVE  OnceListed'
<1>1. Listed' = Listed \cup {m} /\ Len(found') = Len(found) + 1
  BY ListedGrows DEF DriveInv, DriveTyped
<1>2. IsFiniteSet(Listed) /\ Cardinality(Listed) = Len(found) /\ m \notin Listed
  BY DEF DriveInv, OnceListed, Seen
<1>3. IsFiniteSet(Listed \cup {m}) /\ Cardinality(Listed \cup {m}) = Cardinality(Listed) + 1
  BY <1>2, FS_AddElement
<1> QED BY <1>1, <1>2, <1>3 DEF OnceListed

\* Only files found in the tree wait or are listed.
LEMMA ThereTop ==
    ASSUME DriveInv, drive = "walking", NEW w \in Frames, TopBecomes(w), Lighter(w) \/ FirstRead(w),
           home' = home, moves' = moves, Listed' \subseteq Listed \cup (Top.left \cap Mp4s)
    PROVE  ListedThere'
<1>1. Len(stack) \in Nat /\ Len(stack) > 0 /\ Len(stack) \in 1..Len(stack) /\ Top = stack[Len(stack)]
      /\ Top.folder \in Folders
  BY TopIs DEF Top, Frames
<1>2. InTree' = InTree BY DEF InTree
<1>4. Children(Top.folder) \cap Mp4s \subseteq InTree BY <1>1, ListingAssumption DEF Children, InTree
<1>5. moves = 0 => w.left \cap Mp4s \subseteq InTree
  BY <1>1, <1>4 DEF Lighter, FirstRead, ReadFrame, DriveInv, ListedThere
<1>6. Len(stack') = Len(stack) /\ stack'[Len(stack)] = w
      /\ \A i \in 1..Len(stack) : i # Len(stack) => stack'[i] = stack[i]
  BY DEF TopBecomes
<1> QED BY <1>1, <1>2, <1>5, <1>6 DEF DriveInv, ListedThere

LEMMA TherePop ==
    ASSUME DriveInv, drive = "walking", Popped, home' = home, moves' = moves,
           Listed' \subseteq Listed \cup (Top.left \cap Mp4s)
    PROVE  ListedThere'
<1>1. Len(stack) \in Nat /\ Len(stack) > 0 /\ Len(stack) \in 1..Len(stack) /\ Top = stack[Len(stack)]
  BY TopIs DEF Top
<1>2. InTree' = InTree BY DEF InTree
<1>3. \A i \in 1..Len(stack') : i \in 1..Len(stack) /\ stack'[i] = stack[i] BY <1>1 DEF Popped
<1> QED BY <1>1, <1>2, <1>3 DEF DriveInv, ListedThere

LEMMA TherePush ==
    ASSUME DriveInv, drive = "walking", NEW w \in Frames, NEW v \in Frames, PushedOn(w, v), Fresh(v, w),
           home' = home, moves' = moves, Listed' = Listed
    PROVE  ListedThere'
<1>1. Len(stack) \in Nat /\ Len(stack) > 0 /\ Len(stack) \in 1..Len(stack) /\ Top = stack[Len(stack)]
  BY TopIs DEF Top
<1>2. InTree' = InTree BY DEF InTree
<1>3. \A i \in 1..Len(stack') : i \in 1..Len(stack) \/ i = Len(stack) + 1 BY <1>1 DEF PushedOn
<1>4. \A i \in 1..Len(stack) : stack'[i].left \subseteq stack[i].left
  BY <1>1 DEF PushedOn, Fresh, Lighter
<1>5. stack'[Len(stack) + 1].left = {} BY DEF PushedOn, Fresh, Frame
<1> QED BY <1>2, <1>3, <1>4, <1>5 DEF DriveInv, ListedThere

-----------------------------------------------------------------------------
(* The steps of the walk *)

LEMMA StackTyped ==
    ASSUME DriveInv, drive = "walking"
    PROVE  /\ Top.folder \in Folders /\ Top.read \in BOOLEAN /\ Top.left \subseteq Folders \cup Mp4s
           /\ \A x : [Top EXCEPT !.left = Top.left \ {x}] \in Frames
           /\ \A x : Top.read => Lighter([Top EXCEPT !.left = Top.left \ {x}])
           /\ \A d \in Folders : Frame(d) \in Frames
           /\ ReadFrame \in Frames
           /\ ~Top.read => FirstRead(ReadFrame)
<1>1. PICK t \in Frames : t = Top BY TopIs
<1>2. Children(t.folder) \subseteq Folders \cup Mp4s BY DEF Children
<1>3. t.folder \in Folders /\ t.read \in BOOLEAN /\ t.left \subseteq Folders \cup Mp4s BY <1>1 DEF Frames
<1>4. ASSUME NEW x PROVE [t EXCEPT !.left = t.left \ {x}] \in Frames
                         /\ (t.read => Lighter([t EXCEPT !.left = t.left \ {x}]))
  <2>1. [t EXCEPT !.left = t.left \ {x}] = [folder |-> t.folder, read |-> t.read, left |-> t.left \ {x}]
    BY <1>1 DEF Frames
  <2> QED BY <2>1, <1>1, <1>3 DEF Frames, Lighter
<1>5. ReadFrame \in Frames BY <1>1, <1>2, <1>3 DEF Frames, ReadFrame
<1>6. ~Top.read => FirstRead(ReadFrame) BY DEF FirstRead, ReadFrame
<1>7. \A d \in Folders : Frame(d) \in Frames BY DEF Frame, Frames
<1> QED BY <1>1, <1>3, <1>4, <1>5, <1>6, <1>7

LEMMA TakeIs ==
    ASSUME DriveInv, drive = "walking", NEW x, Take(x)
    PROVE  TopBecomes([Top EXCEPT !.left = Top.left \ {x}])
<1>1. stack' = [stack EXCEPT ![Len(stack)] = [Top EXCEPT !.left = Top.left \ {x}]] BY DEF Take, Top
<1> QED BY <1>1, StackTyped, TopChange

LEMMA SizeOver ==
    ASSUME NEW C, C \subseteq Folders
    PROVE  IsFiniteSet(C) /\ Cardinality(C) \in Nat /\ Cardinality(C) <= Cardinality(Folders)
           /\ Cardinality(Folders) \in Nat
BY ListingAssumption, FS_Subset, FS_CardinalityType

LEMMA FilesLimit == MaxFiles \in Nat /\ MaxFiles > 0
BY ListingAssumption

\* A step that lists nothing new and keeps the folders that are over.
LEMMA BoundedStays ==
    ASSUME DriveInv, drive' # "resolving", found' = found, \A C \in SUBSET Folders : AllOver(C) => AllOver(C)'
    PROVE  WalkBounded'
<1>1. PICK C \in SUBSET Folders : AllOver(C) /\ Len(found) <= MaxFiles - 1 + Cardinality(C)
  BY DEF DriveInv, WalkBounded
<1> QED BY <1>1 DEF WalkBounded

\* Leaving a folder pays for one more file.
LEMMA BoundedPop ==
    ASSUME DriveInv, drive = "walking", drive' # "resolving", Popped,
           Len(found') \in Nat, Len(found') <= Len(found) + 1
    PROVE  WalkBounded'
<1>1. PICK C \in SUBSET Folders : AllOver(C) /\ Len(found) <= MaxFiles - 1 + Cardinality(C)
  BY DEF DriveInv, WalkBounded
<1>2. PICK D : D = C \cup {Top.folder} /\ Top.folder \notin C /\ AllOver(D)' BY <1>1, OverPop
<1>3. IsFiniteSet(C) /\ Cardinality(C) \in Nat BY SizeOver
<1>4. Cardinality(D) = Cardinality(C) + 1 BY <1>2, <1>3, FS_AddElement
<1>5. Len(found) \in Nat BY DEF DriveInv, DriveTyped
<1>6. Len(found') <= MaxFiles - 1 + Cardinality(D)
  <2>1. PICK c \in Nat, d \in Nat, n \in Nat, k \in Nat :
            c = Cardinality(C) /\ d = Cardinality(D) /\ n = Len(found) /\ k = Len(found')
    BY <1>3, <1>4, <1>5
  <2>2. n <= MaxFiles - 1 + c /\ d = c + 1 /\ k <= n + 1 BY <2>1, <1>1, <1>4
  <2>3. k <= MaxFiles - 1 + d BY <2>2, FilesLimit
  <2> QED BY <2>1, <2>3
<1>7. D \in SUBSET Folders BY <1>2, StackTyped
<1> QED BY <1>2, <1>6, <1>7 DEF WalkBounded

LEMMA ResolvedStep == ASSUME DriveInv, FolderResolved PROVE DriveInv'
<1> USE DEF FolderResolved, DriveOnly
<1>1. stack \in Seq(Frames) /\ Len(stack) = 0 /\ Len(found) = 0 /\ found \in Seq(Mp4s)
  <2>1. stack \in Seq(Frames) /\ found \in Seq(Mp4s) /\ ~(Len(stack) > 0) /\ Len(found) = 0
    BY DEF DriveInv, DriveTyped, WalkShape, WalkBounded
  <2> QED BY <2>1
<1>2. Listed' = Listed /\ InTree' = InTree BY DEF Listed, InTree
<1>3. OnceListed' BY <1>2 DEF OnceListed, DriveInv
<1>4. CASE drive' = "walking" /\ stack' = <<Frame(TopFolder)>> /\ skipped' = skipped
  <2>1. Frame(TopFolder) \in Frames BY ListingAssumption DEF Frame, Frames
  <2>2. stack' \in Seq(Frames) /\ Len(stack') = 1 /\ stack'[1] = Frame(TopFolder) BY <1>4, <2>1
  <2>3. stack'[1].folder = TopFolder /\ ~stack'[1].read /\ stack'[1].left = {}
    BY <2>2 DEF Frame
  <2>4. \A i : i \in 1..Len(stack') <=> i = 1 BY <2>2
  <2>5. WalkShape'
    <3>1. Len(stack') > 0 BY <2>2
    <3>2. ShapeOfStack' BY <2>2, <2>3, <2>4 DEF ShapeOfStack
    <3> QED BY <3>1, <3>2, <1>4 DEF WalkShape, ShapeOfStack
  <2>6. ListedThere' BY <2>3, <2>4, <1>2 DEF ListedThere, DriveInv
  <2>7. AllOver({})' BY <2>3, <2>4 DEF AllOver
  <2>8. Cardinality({}) = 0 /\ {} \in SUBSET Folders BY FS_EmptySet
  <2>9. Len(found') <= MaxFiles - 1 + 0 BY <1>1, FilesLimit
  <2>10. WalkBounded' BY <2>7, <2>8, <2>9, <1>4 DEF WalkBounded
  <2>11. Walked({})' BY <2>3, <2>4 DEF Walked
  <2>12. WalkCovers' BY <2>8, <2>11 DEF WalkCovers
  <2>13. DriveTyped' BY <2>2, <1>4 DEF DriveInv, DriveTyped
  <2> QED BY <2>5, <2>6, <2>10, <2>12, <2>13, <1>3 DEF DriveInv
<1>5. CASE drive' = "absent" /\ stack' = stack /\ skipped' = TRUE
  <2>1. WalkShape' BY <1>1, <1>5 DEF DriveInv, WalkShape
  <2>2. ListedThere' BY <1>2, <1>5 DEF ListedThere, DriveInv
  <2>3. WalkBounded'
    <3>1. \A C : AllOver(C)' <=> AllOver(C) BY <1>5 DEF AllOver
    <3> QED BY <3>1, <1>5 DEF WalkBounded, DriveInv
  <2>4. WalkCovers' BY <1>5 DEF WalkCovers
  <2>5. DriveTyped' BY <1>5 DEF DriveInv, DriveTyped
  <2> QED BY <2>1, <2>2, <2>3, <2>4, <2>5, <1>3 DEF DriveInv
<1> QED BY <1>4, <1>5

LEMMA ReadStep == ASSUME DriveInv, WalkRead PROVE DriveInv'
<1> USE DEF WalkRead, DriveOnly
<1>1. PICK w \in Frames : w = ReadFrame /\ FirstRead(w)
  BY StackTyped
<1>2. stack' = [stack EXCEPT ![Len(stack)] = w] BY <1>1 DEF ReadFrame
<1>3. TopBecomes(w) BY <1>2, TopChange
<1>4. Listed' = Listed BY DEF Listed
<1>5. DriveTyped' BY <1>3 DEF DriveInv, DriveTyped, TopBecomes
<1>6. WalkShape'
  <2>1. ShapeOfStack' BY <1>1, <1>3, ShapeTop
  <2>2. Len(stack') > 0 BY <1>3, TopIs DEF TopBecomes
  <2> QED BY <2>1, <2>2 DEF WalkShape, ShapeOfStack
<1>7. OnceListed' BY <1>4 DEF DriveInv, OnceListed
<1>8. ListedThere' BY <1>1, <1>3, <1>4, ThereTop
<1>9. WalkBounded'
  <2>1. \A C \in SUBSET Folders : AllOver(C) => AllOver(C)' BY <1>1, <1>3, OverRead
  <2> QED BY <2>1, BoundedStays
<1>10. WalkCovers'
  <2>1. \A V \in SUBSET Folders : Walked(V) => \E U : U \in SUBSET Folders /\ Walked(U)'
    BY <1>1, <1>3, <1>4, WalkedRead
  <2> QED BY <2>1 DEF WalkCovers, DriveInv
<1> QED BY <1>5, <1>6, <1>7, <1>8, <1>9, <1>10 DEF DriveInv

\* A step that goes on in the open folder, with one child less.
LEMMA TakeStep ==
    ASSUME DriveInv, drive = "walking", Top.read, NEW x, Take(x), drive' = "walking",
           home' = home, moves' = moves, skipped' \in BOOLEAN, skipped => skipped',
           found' \in Seq(Mp4s), OnceListed', Listed \subseteq Listed',
           Listed' \subseteq Listed \cup (Top.left \cap Mp4s),
           x \in Listed' \/ skipped', found' = found \/ Len(found') <= MaxFiles - 1
    PROVE  DriveInv'
<1>1. PICK w \in Frames : w = [Top EXCEPT !.left = Top.left \ {x}] /\ Lighter(w) BY StackTyped
<1>2. TopBecomes(w) BY <1>1, TakeIs
<1>3. DriveTyped' BY <1>2 DEF DriveInv, DriveTyped, TopBecomes
<1>4. WalkShape'
  <2>1. ShapeOfStack' BY <1>1, <1>2, ShapeTop
  <2>2. Len(stack') > 0 BY <1>2, TopIs DEF TopBecomes
  <2> QED BY <2>1, <2>2 DEF WalkShape, ShapeOfStack
<1>5. ListedThere' BY <1>1, <1>2, ThereTop
<1>6. WalkBounded'
  <2>1. \A C \in SUBSET Folders : AllOver(C) => AllOver(C)' BY <1>1, <1>2, OverTop
  <2>2. CASE found' = found BY <2>1, <2>2, BoundedStays
  <2>3. CASE Len(found') <= MaxFiles - 1
    <3>1. PICK C \in SUBSET Folders : AllOver(C) BY DEF DriveInv, WalkBounded
    <3>2. Len(found') \in Nat /\ Cardinality(C) \in Nat BY SizeOver
    <3>3. Len(found') <= MaxFiles - 1 + Cardinality(C) BY <3>2, <2>3, FilesLimit
    <3> QED BY <3>1, <3>3, <2>1 DEF WalkBounded
  <2> QED BY <2>2, <2>3
<1>7. WalkCovers'
  <2>1. CASE skipped' BY <2>1 DEF WalkCovers
  <2>2. CASE ~skipped'
    <3>1. Top.left \ w.left \subseteq Listed' BY <2>2, <1>1 DEF Frames
    <3>2. \A V \in SUBSET Folders : Walked(V) => Walked(V)' BY <3>1, <1>1, <1>2, WalkedTop
    <3> QED BY <3>2, <2>2 DEF WalkCovers, DriveInv
  <2> QED BY <2>1, <2>2
<1> QED BY <1>3, <1>4, <1>5, <1>6, <1>7 DEF DriveInv

\* A step that leaves the open folder.
LEMMA PopStep ==
    ASSUME DriveInv, drive = "walking", stack' = Up,
           drive' \in {"walking", "done", "failed"}, drive' = "walking" <=> Len(stack) > 1,
           home' = home, moves' = moves, skipped' \in BOOLEAN, skipped => skipped',
           found' \in Seq(Mp4s), Len(found') <= Len(found) + 1, OnceListed',
           Listed' \subseteq Listed \cup (Top.left \cap Mp4s),
           skipped' \/ (Top.read /\ Top.left = {} /\ Listed' = Listed)
    PROVE  DriveInv'
<1>1. Popped BY PopIs
<1>2. DriveTyped' BY <1>1 DEF DriveInv, DriveTyped, Popped
<1>3. WalkShape'
  <2>1. ShapeOfStack' BY <1>1, ShapePop
  <2>2. Len(stack') = Len(stack) - 1 /\ Len(stack) \in Nat BY <1>1, TopIs DEF Popped
  <2>3. Len(stack') > 0 <=> Len(stack) > 1 BY <2>2
  <2> QED BY <2>1, <2>3 DEF WalkShape, ShapeOfStack
<1>4. ListedThere' BY <1>1, TherePop
<1>5. WalkBounded' BY <1>1, BoundedPop
<1>6. WalkCovers'
  <2>1. CASE skipped' BY <2>1 DEF WalkCovers
  <2>2. CASE ~skipped'
    <3>1. \A V \in SUBSET Folders : Walked(V) => Walked(V)' BY <2>2, <1>1, WalkedPop
    <3> QED BY <3>1, <2>2 DEF WalkCovers, DriveInv
  <2> QED BY <2>1, <2>2
<1> QED BY <1>2, <1>3, <1>4, <1>5, <1>6 DEF DriveInv

LEMMA WalkDeeper == ASSUME DriveInv, drive = "walking", Len(stack) # 1 PROVE Len(stack) > 1
<1>1. PICK n : n = Len(stack) OBVIOUS
<1>2. n \in Nat /\ n > 0 BY <1>1, TopIs
<1>3. n # 1 BY <1>1
<1>4. n > 1 BY <1>2, <1>3
<1> QED BY <1>1, <1>4

LEMMA FailsStep == ASSUME DriveInv, NEW refused \in BOOLEAN, WalkReadFails(refused) PROVE DriveInv'
<1> USE DEF WalkReadFails, DriveOnly
<1>1. found \in Seq(Mp4s) /\ Len(found) \in Nat /\ Len(stack) \in Nat /\ Len(stack) > 0 /\ OnceListed
  BY TopIs DEF DriveInv, DriveTyped
<1>2. CASE found' = found
  <2>1. Listed' = Listed BY <1>2 DEF Listed
  <2>2. OnceListed' BY <2>1, <1>1, <1>2 DEF OnceListed
  <2>3. drive' \in {"walking", "done", "failed"} BY <1>1
  <2>4. drive' = "walking" <=> Len(stack) > 1 BY <1>1
  <2>5. Len(found') <= Len(found) + 1 BY <1>1, <1>2
  <2> QED BY <2>1, <2>2, <2>3, <2>4, <2>5, <1>1, <1>2, PopStep
<1>3. CASE found' = << >>
  <2>1. Listed' = {} BY <1>3 DEF Listed
  <2>2. Len(found') = 0 /\ found' \in Seq(Mp4s) BY <1>3
  <2>3. OnceListed' BY <2>1, <2>2, FS_EmptySet DEF OnceListed
  <2>4. drive' \in {"walking", "done", "failed"} BY <1>1
  <2>5. drive' = "walking" <=> Len(stack) > 1 BY <1>1
  <2>6. Len(found') <= Len(found) + 1 BY <1>1, <2>2
  <2> QED BY <2>1, <2>2, <2>3, <2>4, <2>5, <2>6, PopStep
<1> QED BY <1>2, <1>3

LEMMA UpStep == ASSUME DriveInv, WalkUp PROVE DriveInv'
<1> USE DEF WalkUp, DriveOnly
<1>1. found \in Seq(Mp4s) /\ Len(found) \in Nat /\ Len(stack) \in Nat /\ Len(stack) > 0 /\ OnceListed
      /\ skipped \in BOOLEAN
  BY TopIs DEF DriveInv, DriveTyped
<1>2. Listed' = Listed BY DEF Listed
<1>3. OnceListed' BY <1>1, <1>2 DEF OnceListed
<1>4. Len(found') <= Len(found) + 1 BY <1>1
<1>5. CASE Len(stack) = 1
  <2>1. drive' = "done" /\ ~(Len(stack) > 1) BY <1>5
  <2> QED BY <2>1, <1>1, <1>2, <1>3, <1>4, PopStep
<1>6. CASE Len(stack) # 1
  <2>1. drive' = "walking" BY <1>6
  <2>2. Len(stack) > 1 BY <1>6, WalkDeeper
  <2> QED BY <2>1, <2>2, <1>1, <1>2, <1>3, <1>4, PopStep
<1> QED BY <1>5, <1>6

LEMMA FileStep == ASSUME DriveInv, NEW m \in Mp4s, WalkFile(m) PROVE DriveInv'
<1> USE DEF WalkFile, DriveOnly
<1>1. found \in Seq(Mp4s) /\ Len(found) \in Nat /\ Len(stack) \in Nat /\ Len(stack) > 0 /\ OnceListed
      /\ skipped \in BOOLEAN /\ m \in Top.left
  BY TopIs DEF DriveInv, DriveTyped
<1>2. CASE Seen(m)
  <2>1. Listed' = Listed BY <1>2 DEF Listed
  <2>2. OnceListed' BY <2>1, <1>1, <1>2 DEF OnceListed
  <2> QED BY <2>1, <2>2, <1>1, <1>2, TakeStep DEF Seen
<1>3. CASE ~Seen(m)
  <2>1. Listed' = Listed \cup {m} /\ Len(found') = Len(found) + 1 /\ found' \in Seq(Mp4s)
    BY <1>1, <1>3, ListedGrows
  <2>2. OnceListed' BY <1>3, OnceMore
  <2>3. CASE Len(found) + 1 >= MaxFiles
    <3>1. stack' = Up /\ skipped' /\ Len(found') <= Len(found) + 1 BY <1>1, <1>3, <2>1, <2>3
    <3>2. Listed' \subseteq Listed \cup (Top.left \cap Mp4s) BY <1>1, <2>1
    <3>3. CASE Len(stack) = 1
      <4>1. drive' = "done" /\ ~(Len(stack) > 1) BY <3>3, <1>3, <2>3
      <4> QED BY <4>1, <2>1, <2>2, <3>1, <3>2, PopStep
    <3>4. CASE Len(stack) # 1
      <4>1. drive' = "walking" BY <3>4, <1>3, <2>3
      <4>2. Len(stack) > 1 BY <3>4, WalkDeeper
      <4> QED BY <4>1, <4>2, <2>1, <2>2, <3>1, <3>2, PopStep
    <3> QED BY <3>3, <3>4
  <2>4. CASE ~(Len(found) + 1 >= MaxFiles)
    <3>1. Len(found') <= MaxFiles - 1 BY <1>1, <2>1, <2>4, FilesLimit
    <3>2. m \in Listed' /\ Listed \subseteq Listed' /\ Listed' \subseteq Listed \cup (Top.left \cap Mp4s)
      BY <1>1, <2>1
    <3>3. Take(m) /\ drive' = "walking" /\ skipped' = skipped BY <1>3, <2>4
    <3> QED BY <1>1, <2>1, <2>2, <3>1, <3>2, <3>3, TakeStep
  <2> QED BY <2>3, <2>4
<1> QED BY <1>2, <1>3

LEMMA FolderStep == ASSUME DriveInv, NEW d \in Folders, WalkFolder(d) PROVE DriveInv'
<1> USE DEF WalkFolder, DriveOnly
<1>1. found \in Seq(Mp4s) /\ Len(found) \in Nat /\ Len(stack) \in Nat /\ Len(stack) > 0 /\ OnceListed
      /\ skipped \in BOOLEAN /\ d \in Top.left
  BY TopIs DEF DriveInv, DriveTyped
<1>2. Listed' = Listed BY DEF Listed
<1>3. OnceListed' BY <1>1, <1>2 DEF OnceListed
<1>4. CASE ~(Depth < MaxDepth)
  <2>1. Take(d) /\ drive' = "walking" /\ skipped' BY <1>4
  <2> QED BY <2>1, <1>1, <1>2, <1>3, TakeStep
<1>5. CASE Depth < MaxDepth
  <2>1. PICK w \in Frames : w = [Top EXCEPT !.left = Top.left \ {d}] /\ Lighter(w) BY StackTyped
  <2>2. PICK v \in Frames : v = Frame(d) BY StackTyped
  <2>3. stack' = Append([stack EXCEPT ![Len(stack)] = w], v) BY <1>5, <2>1, <2>2 DEF Top
  <2>4. PushedOn(w, v) BY <2>3, PushIs
  <2>5. Fresh(v, w)
    <3>1. w.left = Top.left \ {d} BY <2>1 DEF Frames
    <3> QED BY <3>1, <2>1, <2>2, <1>1 DEF Fresh
  <2>6. DriveTyped' BY <1>5, <2>4 DEF DriveInv, DriveTyped, PushedOn
  <2>7. WalkShape'
    <3>1. ShapeOfStack' BY <2>4, <2>5, ShapePush
    <3>2. Len(stack') > 0 BY <1>1, <2>4 DEF PushedOn
    <3> QED BY <3>1, <3>2 DEF WalkShape, ShapeOfStack
  <2>8. ListedThere' BY <1>2, <2>4, <2>5, TherePush
  <2>9. WalkBounded'
    <3>1. \A C \in SUBSET Folders : AllOver(C) => AllOver(C)' BY <2>4, <2>5, OverPush
    <3> QED BY <3>1, BoundedStays
  <2>10. WalkCovers'
    <3>1. \A V \in SUBSET Folders : Walked(V) => Walked(V)' BY <1>2, <2>4, <2>5, WalkedPush
    <3> QED BY <3>1, <1>5 DEF WalkCovers, DriveInv
  <2> QED BY <1>3, <2>6, <2>7, <2>8, <2>9, <2>10 DEF DriveInv
<1> QED BY <1>4, <1>5

\* A step of the other path, of the caller or of the user.
LEMMA DriveSame ==
    ASSUME DriveInv, UNCHANGED driveVars, skipped' \in BOOLEAN, skipped => skipped',
           home' \in [Mp4s -> Folders \cup {Elsewhere}], moves' \in Nat,
           moves' # 0 \/ (home' = home /\ moves' = moves)
    PROVE  DriveInv'
<1> USE DEF driveVars
<1>1. DriveTyped' BY DEF DriveInv, DriveTyped
<1>2. WalkShape' BY DEF DriveInv, WalkShape
<1>3. Listed' = Listed BY DEF Listed
<1>4. OnceListed' BY <1>3 DEF DriveInv, OnceListed
<1>5. ListedThere' BY <1>3 DEF DriveInv, ListedThere, InTree
<1>6. WalkBounded'
  <2>1. \A C : AllOver(C)' <=> AllOver(C) BY DEF AllOver
  <2> QED BY <2>1 DEF DriveInv, WalkBounded
<1>7. WalkCovers'
  <2>1. CASE moves' # 0 BY <2>1 DEF WalkCovers
  <2>2. CASE home' = home /\ moves' = moves
    <3>1. \A f : Children(f)' = Children(f) BY <2>2 DEF Children
    <3>2. \A V : Walked(V)' <=> Walked(V) BY <3>1, <1>3 DEF Walked
    <3> QED BY <3>2, <2>2 DEF DriveInv, WalkCovers
  <2> QED BY <2>1, <2>2
<1> QED BY <1>1, <1>2, <1>4, <1>5, <1>6, <1>7 DEF DriveInv

-----------------------------------------------------------------------------
(* The calendar's path *)

LEMMA CalendarStep ==
    ASSUME GraphInv, skipped \in BOOLEAN,
           \/ CalendarRead \/ CalendarFails \/ GraphDone
           \/ \E l \in JoinLinks : LookupStart(l) \/ LookupEnd(l)
    PROVE  GraphInv' /\ (skipped => skipped') /\ skipped' \in BOOLEAN /\ graph # "done"
<1>1. CASE CalendarRead
  <2>1. PICK links \in SUBSET JoinLinks, picked \in SUBSET JoinLinks :
          /\ lookup' = [l \in JoinLinks |-> IF l \in picked THEN "queued" ELSE "absent"]
          /\ skipped' = (skipped \/ picked # JoinLinks)
    BY <1>1 DEF CalendarRead
  <2>2. graph = "calendar" /\ graph' = "looking" /\ taped' = taped BY <1>1 DEF CalendarRead
  <2>3. \A l \in JoinLinks : taped[l] = {} BY <2>2 DEF GraphInv
  <2>4. \A l \in JoinLinks : lookup'[l] \in {"queued", "absent"} /\ (l \in picked => lookup'[l] = "queued")
    BY <2>1
  <2>5. lookup' \in [JoinLinks -> {"absent", "queued", "running", "done"}] BY <2>1
  <2>6. taped' = [l \in JoinLinks |-> taped'[l]] BY <2>2 DEF GraphInv
  <2> QED BY <2>1, <2>2, <2>3, <2>4, <2>5, <2>6 DEF GraphInv
<1>2. CASE CalendarFails BY <1>2 DEF CalendarFails, GraphInv
<1>3. CASE GraphDone BY <1>3 DEF GraphDone, GraphInv
<1>4. ASSUME NEW l \in JoinLinks, LookupStart(l)
      PROVE  GraphInv' /\ (skipped => skipped') /\ skipped' \in BOOLEAN /\ graph # "done"
  <2>1. lookup[l] = "queued" /\ UNCHANGED <<graph, taped, skipped>> BY <1>4 DEF LookupStart
  <2>2. lookup' \in [JoinLinks -> {"absent", "queued", "running", "done"}]
        /\ \A k \in JoinLinks : lookup'[k] = IF k = l THEN "running" ELSE lookup[k]
    BY <1>4 DEF LookupStart, GraphInv
  <2>3. graph \notin {"calendar", "failed", "done"} BY <2>1 DEF GraphInv
  <2>4. taped' = [k \in JoinLinks |-> taped'[k]] BY <2>1 DEF GraphInv
  <2> QED BY <2>1, <2>2, <2>3, <2>4 DEF GraphInv
<1>5. ASSUME NEW l \in JoinLinks, LookupEnd(l)
      PROVE  GraphInv' /\ (skipped => skipped') /\ skipped' \in BOOLEAN /\ graph # "done"
  <2>1. lookup[l] = "running" /\ graph' = graph BY <1>5 DEF LookupEnd
  <2>2. lookup' \in [JoinLinks -> {"absent", "queued", "running", "done"}]
        /\ \A k \in JoinLinks : lookup'[k] = IF k = l THEN "done" ELSE lookup[k]
    BY <1>5 DEF LookupEnd, GraphInv
  <2>3. graph \notin {"calendar", "failed", "done"} BY <2>1 DEF GraphInv
  <2>4. \/ MeetingOf[l] # NoMeeting /\ taped' = [taped EXCEPT ![l] = Taped[MeetingOf[l]]] /\ skipped' = skipped
        \/ taped' = taped /\ skipped' = (skipped \/ MeetingOf[l] # NoMeeting)
    BY <1>5 DEF LookupEnd
  <2>5. taped = [k \in JoinLinks |-> taped[k]] /\ taped[l] = {} BY <2>1 DEF GraphInv
  <2>6. /\ taped' = [k \in JoinLinks |-> taped'[k]]
        /\ \A k \in JoinLinks : k # l => taped'[k] = taped[k]
        /\ ~skipped' => taped'[l] = Yield(l)
    <3>1. CASE MeetingOf[l] # NoMeeting /\ taped' = [taped EXCEPT ![l] = Taped[MeetingOf[l]]] /\ skipped' = skipped
      BY <3>1, <2>5 DEF Yield
    <3>2. CASE taped' = taped /\ skipped' = (skipped \/ MeetingOf[l] # NoMeeting) BY <3>2, <2>5 DEF Yield
    <3> QED BY <3>1, <3>2, <2>4
  <2>7. (skipped => skipped') /\ skipped' \in BOOLEAN BY <2>4
  <2> QED BY <2>1, <2>2, <2>3, <2>6, <2>7 DEF GraphInv
<1> QED BY <1>1, <1>2, <1>3, <1>4, <1>5

LEMMA CalendarElsewhere ==
    ASSUME GraphInv, UNCHANGED graphVars, skipped' \in BOOLEAN, skipped => skipped'
    PROVE  GraphInv'
BY DEF GraphInv, graphVars, Yield

-----------------------------------------------------------------------------
(* What the caller gets *)

LEMMA ListingStarts == ASSUME ListingInit PROVE ListInv
<1> USE DEF ListingInit
<1>1. stack \in Seq(Frames) /\ Len(stack) = 0 /\ found \in Seq(Mp4s) /\ Len(found) = 0 OBVIOUS
<1>2. Listed = {} BY DEF Listed
<1>3. home \in [Mp4s -> Folders \cup {Elsewhere}] BY ListingAssumption
<1>4. DriveTyped BY <1>1, <1>3 DEF DriveTyped
<1>5. WalkShape BY <1>1 DEF WalkShape
<1>6. OnceListed BY <1>1, <1>2, FS_EmptySet DEF OnceListed
<1>7. ListedThere BY <1>1, <1>2 DEF ListedThere
<1>8. WalkBounded
  <2>1. AllOver({}) BY <1>1 DEF AllOver
  <2>2. Cardinality({}) = 0 /\ {} \in SUBSET Folders BY FS_EmptySet
  <2>3. Len(found) <= MaxFiles - 1 + 0 BY <1>1, FilesLimit
  <2> QED BY <1>1, <2>1, <2>2, <2>3 DEF WalkBounded
<1>9. WalkCovers BY DEF WalkCovers
<1>10. GraphInv BY DEF GraphInv
<1>11. AnswerInv BY DEF AnswerInv, NoAnswerYet
<1> QED BY <1>4, <1>5, <1>6, <1>7, <1>8, <1>9, <1>10, <1>11 DEF ListInv, DriveInv

LEMMA ListingSteps == ASSUME ListInv, [ListingNext]_listingVars PROVE ListInv'
<1>1. DriveInv /\ GraphInv /\ AnswerInv BY DEF ListInv
<1>2. skipped \in BOOLEAN /\ moves \in Nat /\ home \in [Mp4s -> Folders \cup {Elsewhere}]
  BY <1>1 DEF DriveInv, DriveTyped
<1>3. ASSUME \/ CalendarRead \/ CalendarFails \/ GraphDone
             \/ \E l \in JoinLinks : LookupStart(l) \/ LookupEnd(l)
      PROVE  ListInv'
  <2>1. UNCHANGED <<home, moves, driveVars, answer>>
    BY <1>3 DEF CalendarRead, CalendarFails, GraphDone, LookupStart, LookupEnd, GraphOnly
  <2>2. GraphInv' /\ (skipped => skipped') /\ skipped' \in BOOLEAN /\ graph # "done"
    BY <1>1, <1>2, <1>3, CalendarStep
  <2>3. DriveInv' BY <1>1, <1>2, <2>1, <2>2, DriveSame
  <2>4. AnswerInv' BY <1>1, <2>1, <2>2 DEF AnswerInv, driveVars
  <2> QED BY <2>2, <2>3, <2>4 DEF ListInv
<1>4. ASSUME drive \in {"resolving", "walking"}, DriveInv', UNCHANGED <<graphVars, answer>>,
             skipped => skipped', drive' \in {"absent", "failed"} => skipped'
      PROVE  ListInv'
  <2>1. skipped' \in BOOLEAN BY <1>4 DEF DriveInv, DriveTyped
  <2>2. GraphInv' BY <1>1, <1>4, <2>1, CalendarElsewhere
  <2>3. AnswerInv' BY <1>1, <1>4 DEF AnswerInv
  <2> QED BY <1>4, <2>2, <2>3 DEF ListInv
<1>5. CASE FolderResolved
  <2>1. DriveInv' BY <1>1, <1>5, ResolvedStep
  <2> QED BY <2>1, <1>2, <1>4, <1>5 DEF FolderResolved, DriveOnly
<1>6. CASE WalkRead
  <2>1. DriveInv' BY <1>1, <1>6, ReadStep
  <2> QED BY <2>1, <1>2, <1>4, <1>6 DEF WalkRead, DriveOnly
<1>7. CASE WalkUp
  <2>1. DriveInv' BY <1>1, <1>7, UpStep
  <2> QED BY <2>1, <1>2, <1>4, <1>7 DEF WalkUp, DriveOnly
<1>8. ASSUME NEW refused \in BOOLEAN, WalkReadFails(refused) PROVE ListInv'
  <2>1. DriveInv' BY <1>1, <1>8, FailsStep
  <2> QED BY <2>1, <1>2, <1>4, <1>8 DEF WalkReadFails, DriveOnly
<1>9. ASSUME NEW d \in Folders, WalkFolder(d) PROVE ListInv'
  <2>1. DriveInv' BY <1>1, <1>9, FolderStep
  <2> QED BY <2>1, <1>2, <1>4, <1>9 DEF WalkFolder, DriveOnly
<1>10. ASSUME NEW m \in Mp4s, WalkFile(m) PROVE ListInv'
  <2>1. DriveInv' BY <1>1, <1>10, FileStep
  <2> QED BY <2>1, <1>2, <1>4, <1>10 DEF WalkFile, DriveOnly
<1>11. ASSUME NEW m \in Mp4s, NEW f \in Folders \cup {Elsewhere}, FileMoved(m, f) PROVE ListInv'
  <2>1. UNCHANGED <<graphVars, driveVars, answer, skipped>> BY <1>11 DEF FileMoved
  <2>2. home' \in [Mp4s -> Folders \cup {Elsewhere}] BY <1>2, <1>11 DEF FileMoved
  <2>3. moves' \in Nat /\ moves' # 0 BY <1>2, <1>11 DEF FileMoved
  <2>4. DriveInv' BY <1>1, <1>2, <2>1, <2>2, <2>3, DriveSame
  <2>5. GraphInv' BY <1>1, <1>2, <2>1, CalendarElsewhere
  <2>6. AnswerInv' BY <1>1, <2>1 DEF AnswerInv, graphVars, driveVars
  <2> QED BY <2>4, <2>5, <2>6 DEF ListInv
<1>12. CASE Answered
  <2>1. UNCHANGED <<home, moves, graphVars, driveVars, skipped>> BY <1>12 DEF Answered
  <2>2. DriveInv' BY <1>1, <1>2, <2>1, DriveSame
  <2>3. GraphInv' BY <1>1, <1>2, <2>1, CalendarElsewhere
  <2>4. CASE graph = "failed"
    <3>1. answer'.status # "list" BY <2>4, <1>12 DEF Answered, NoAnswerYet
    <3> QED BY <1>1, <2>1, <2>2, <2>3, <3>1 DEF ListInv, AnswerInv, graphVars, driveVars
  <2>5. CASE graph # "failed"
    <3>1. answer' = [status |-> "list", graph |-> UNION {taped[l] : l \in JoinLinks}, drive |-> found]
          /\ graph = "done" /\ drive \in {"done", "absent", "failed"}
      BY <2>5, <1>12 DEF Answered
    <3> QED BY <1>1, <2>1, <2>2, <2>3, <3>1 DEF ListInv, AnswerInv, graphVars, driveVars
  <2> QED BY <2>4, <2>5
<1>13. CASE UNCHANGED listingVars
  <2>1. UNCHANGED <<home, moves, graphVars, driveVars, answer, skipped>> BY <1>13 DEF listingVars
  <2>2. DriveInv' BY <1>1, <1>2, <2>1, DriveSame
  <2>3. GraphInv' BY <1>1, <1>2, <2>1, CalendarElsewhere
  <2>4. AnswerInv' BY <1>1, <2>1 DEF AnswerInv, graphVars, driveVars
  <2> QED BY <2>2, <2>3, <2>4 DEF ListInv
<1> QED BY <1>3, <1>5, <1>6, <1>7, <1>8, <1>9, <1>10, <1>11, <1>12, <1>13 DEF ListingNext

\* A walk that is over has read the tree: what it has read is closed under the folders
\* that lie in it.
LEMMA AllRead ==
    ASSUME DriveInv, drive = "done", ~skipped, moves = 0
    PROVE  InTree \subseteq Listed
<1>1. PICK V \in SUBSET Folders : Walked(V) BY DEF DriveInv, WalkCovers
<1>2. \A i : i \notin 1..Len(stack)
  <2>1. Len(stack) \in Nat /\ ~(Len(stack) > 0) BY DEF DriveInv, DriveTyped, WalkShape
  <2> QED BY <2>1
<1>3. Listed \cap Folders = {}
  <2>1. Listed \subseteq Mp4s BY DEF Listed, DriveInv, DriveTyped
  <2> QED BY <2>1, ListingAssumption
<1>4. TopFolder \in V BY <1>1, <1>2 DEF Walked
<1>5. ASSUME NEW d \in Folders, FolderIn[d] \in V PROVE d \in V
  <2>1. CASE d = TopFolder BY <2>1, <1>4
  <2>2. CASE d # TopFolder
    <3>1. d \in Children(FolderIn[d]) BY <2>2 DEF Children
    <3> QED BY <3>1, <1>1, <1>2, <1>3, <1>5 DEF Walked
  <2> QED BY <2>1, <2>2
<1>6. V = Folders BY <1>4, <1>5, ListingAssumption
<1>7. ASSUME NEW m \in InTree PROVE m \in Listed
  <2>1. m \in Children(home[m]) /\ home[m] \in V BY <1>6 DEF Children, InTree
  <2>2. m \in Listed \/ m \in V BY <2>1, <1>1, <1>2 DEF Walked
  <2>3. m \notin V BY ListingAssumption DEF InTree
  <2> QED BY <2>2, <2>3
<1> QED BY <1>7

LEMMA ListMeans == ASSUME ListInv PROVE ListingRight
<1>1. DriveInv /\ GraphInv /\ AnswerInv BY DEF ListInv
<1>2. ListedOnce BY <1>1 DEF DriveInv, OnceListed, ListedOnce
<1>3. ASSUME answer.status = "list", ~skipped, moves = 0
      PROVE  /\ {answer.drive[i] : i \in DOMAIN answer.drive} = InTree
             /\ answer.graph = UNION {Taped[m] : m \in Meetings}
  <2>1. graph = "done" /\ drive = "done" /\ answer.drive = found
        /\ answer.graph = UNION {taped[l] : l \in JoinLinks}
    BY <1>1, <1>3 DEF AnswerInv
  <2>2. Listed = InTree BY <1>1, <1>3, <2>1, AllRead DEF DriveInv, ListedThere
  <2>3. \A l \in JoinLinks : taped[l] = Yield(l) BY <1>1, <1>3, <2>1 DEF GraphInv
  <2>4. UNION {Yield(l) : l \in JoinLinks} = UNION {Taped[m] : m \in Meetings}
    BY DEF Yield, Meetings
  <2>5. UNION {taped[l] : l \in JoinLinks} = UNION {Yield(l) : l \in JoinLinks} BY <2>3
  <2> QED BY <2>1, <2>2, <2>4, <2>5 DEF Listed
<1>4. NothingMissed BY <1>3 DEF NothingMissed, InTree
<1>5. WalkStops
  <2>1. PICK C \in SUBSET Folders : Len(found) <= MaxFiles - 1 + Cardinality(C)
    BY <1>1 DEF DriveInv, WalkBounded
  <2>2. Len(found) \in Nat BY <1>1 DEF DriveInv, DriveTyped
  <2>3. PICK c \in Nat, k \in Nat, n \in Nat :
            c = Cardinality(C) /\ k = Cardinality(Folders) /\ n = Len(found) /\ c <= k
    BY <2>2, SizeOver
  <2>4. n <= MaxFiles + k - 1 BY <2>1, <2>3, FilesLimit
  <2> QED BY <2>3, <2>4 DEF WalkStops
<1> QED BY <1>2, <1>4, <1>5 DEF ListingRight

(***************************************************************************)
(* The list of recordings is right (msgraph/client.go:691-765): no file    *)
(* is listed twice, a walk that passed nothing over and met no move lists  *)
(* every file of the tree, the look-ups lose no recording, and the walk    *)
(* ends at most one file for each folder past its limit.                   *)
(***************************************************************************)
THEOREM TheListStaysRight == ListingSpec => []ListingRight
<1>1. ListingInit => ListInv BY ListingStarts
<1>2. ListInv /\ [ListingNext]_listingVars => ListInv' BY ListingSteps
<1>3. ListInv => ListingRight BY ListMeans
<1> QED BY <1>1, <1>2, <1>3, PTL DEF ListingSpec

-----------------------------------------------------------------------------
(* The types of the parts.                                                  *)

\* A recording that is being run has been started, within the bound, by one driver.
RunsCounted ==
  /\ driver \in Drivers /\ runs \in [Recordings -> 0..MaxRuns]
  /\ \A r \in Recordings : import[r] \in Working => runs[r] # 0
  /\ clips \subseteq Recordings \X (1..MaxRuns) /\ missed \subseteq Recordings
IngestShape == IngestInv /\ RunsCounted

LEMMA RunsKept ==
  ASSUME IngestShape, import' \in [Recordings -> Stages], UNCHANGED <<driver, runs>>,
         \A r \in Recordings : import'[r] \in Working => import[r] \in Working,
         \A clip \in clips' : clip \in clips \/ \E r \in Recordings : clip = <<r, runs[r]>> /\ import[r] \in Working,
         missed' \subseteq Recordings
  PROVE  RunsCounted'
<1>1. \A r \in Recordings : runs[r] \in 0..MaxRuns /\ (import[r] \in Working => runs[r] \in 1..MaxRuns)
  BY RecordingIngestAssumption DEF IngestShape, RunsCounted
<1>2. clips' \subseteq Recordings \X (1..MaxRuns) BY <1>1 DEF IngestShape, RunsCounted
<1> QED BY <1>2 DEF IngestShape, RunsCounted

LEMMA RunsCount == IngestShape /\ [IngestNext]_ingestVars => RunsCounted'
<1> SUFFICES ASSUME IngestShape, [IngestNext]_ingestVars PROVE RunsCounted' OBVIOUS
<1>1. IngestTyped /\ IngestTyped' /\ RunsCounted BY IngestStep DEF IngestShape, IngestInv
<1>2. import \in [Recordings -> Stages] /\ import' \in [Recordings -> Stages] /\ missed \subseteq Recordings
  BY <1>1 DEF IngestTyped, RunsCounted
<1>3. ASSUME NEW r \in Recordings, StartRun(r) PROVE RunsCounted'
  <2>1. runs[r] \in Nat /\ runs[r] + 1 \in 0..MaxRuns /\ runs[r] + 1 # 0
    BY <1>1, <1>3, RecordingIngestAssumption DEF RunsCounted, StartRun
  <2>2. runs' = [runs EXCEPT ![r] = runs[r] + 1] /\ import' = [import EXCEPT ![r] = "store"]
        /\ UNCHANGED <<driver, clips, missed>>
    BY <1>3 DEF StartRun, Move
  <2> QED BY <1>1, <1>2, <2>1, <2>2 DEF RunsCounted
<1>4. ASSUME NEW c \in Attachers, AttachEnqueue(c) \/ (\E r \in Recordings : AttachCheck(c, r)) PROVE RunsCounted'
  <2>1. UNCHANGED <<driver, runs, clips, missed>> BY <1>4 DEF AttachEnqueue, AttachCheck
  <2>2. \A r \in Recordings : import'[r] \in Working => import[r] \in Working
    BY <1>2, <1>4 DEF AttachEnqueue, AttachCheck, Move, Working
  <2> QED BY <1>2, <2>1, <2>2, RunsKept
<1>5. ASSUME NEW r \in Recordings, RunAgain(r) \/ Stop(r) \/ Die(r) PROVE RunsCounted'
  <2>1. UNCHANGED <<driver, runs, clips, missed>> BY <1>5 DEF RunAgain, Stop, Die
  <2>2. \A s \in Recordings : import'[s] \in Working => import[s] \in Working
    BY <1>2, <1>5 DEF RunAgain, Stop, Die, Move, Working
  <2> QED BY <1>2, <2>1, <2>2, RunsKept
<1>6. ASSUME NEW r \in Recordings, StoreRow(r) \/ PutFile(r) \/ VerifyFile(r) \/ WriteFile(r) \/ LocalRow(r)
      PROVE  RunsCounted'
  <2>1. UNCHANGED <<driver, runs, clips, missed>>
    BY <1>6 DEF StoreRow, PutFile, VerifyFile, WriteFile, LocalRow
  <2>2. import[r] \in Working /\ \E stage \in Stages : Move(r, stage)
    BY <1>6 DEF StoreRow, PutFile, VerifyFile, WriteFile, LocalRow, At, Working, Stages
  <2>3. \A s \in Recordings : import'[s] \in Working => import[s] \in Working
    BY <1>2, <2>2 DEF Move
  <2> QED BY <1>2, <2>1, <2>3, RunsKept
<1>7. ASSUME NEW r \in Recordings, NativeTranscript(r) \/ FallBackToWhisper(r) \/ IndexRun(r) PROVE RunsCounted'
  <2>1. UNCHANGED <<driver, runs, missed>> BY <1>7 DEF NativeTranscript, FallBackToWhisper, IndexRun
  <2>2. import[r] \in Working /\ \E stage \in Stages : Move(r, stage)
    BY <1>7 DEF NativeTranscript, FallBackToWhisper, IndexRun, At, Working, Stages
  <2>3. clips' = clips \/ clips' = clips \union {<<r, runs[r]>>}
    BY <1>7 DEF NativeTranscript, FallBackToWhisper, IndexRun
  <2>4. \A s \in Recordings : import'[s] \in Working => import[s] \in Working
    BY <1>2, <2>2 DEF Move
  <2> QED BY <1>2, <2>1, <2>2, <2>3, <2>4, RunsKept
<1>8. ASSUME NEW r \in Recordings, WhisperJob(r) \/ HandOff(r) PROVE RunsCounted'
  <2>1. UNCHANGED <<driver, runs, clips>> /\ missed' \subseteq Recordings
    BY <1>2, <1>8 DEF WhisperJob, HandOff
  <2>2. import[r] \in Working /\ \E stage \in Stages : Move(r, stage)
    BY <1>8 DEF WhisperJob, HandOff, At, Working, Stages
  <2>3. \A s \in Recordings : import'[s] \in Working => import[s] \in Working
    BY <1>2, <2>2 DEF Move
  <2> QED BY <1>2, <2>1, <2>3, RunsKept
<1>9. ASSUME NEW r \in Recordings, DeleteVideoSource(r) PROVE RunsCounted'
  BY <1>2, <1>9, RunsKept DEF DeleteVideoSource
<1>10. ASSUME OtherJobCompletes \/ \E s \in Sources : WhisperEnds(s) \/ Flip(s) PROVE RunsCounted'
  <2>1. UNCHANGED <<driver, runs, clips, missed>> BY <1>10 DEF OtherJobCompletes, WhisperEnds, Flip
  <2>2. \A s \in Recordings : import'[s] \in Working => import[s] \in Working
    BY <1>10 DEF OtherJobCompletes, WhisperEnds, Flip, FlipAwaiting, Awaiting, Working
  <2> QED BY <1>2, <2>1, <2>2, RunsKept
<1>11. CASE UNCHANGED ingestVars BY <1>1, <1>11 DEF RunsCounted, ingestVars
<1> QED BY <1>3, <1>4, <1>5, <1>6, <1>7, <1>8, <1>9, <1>10, <1>11 DEF IngestNext

LEMMA IngestIsTyped == IngestSpec => []IngestTypeOK
<1>1. IngestInit => IngestShape
  <2> SUFFICES ASSUME IngestInit PROVE IngestShape OBVIOUS
  <2>1. 0 \in 0..MaxRuns BY RecordingIngestAssumption
  <2> QED BY <2>1, IngestStart DEF IngestInit, IngestShape, RunsCounted, Working
<1>2. IngestShape /\ [IngestNext]_ingestVars => IngestShape' BY IngestStep, RunsCount DEF IngestShape
<1>3. IngestShape => IngestTypeOK
  BY DEF IngestShape, IngestInv, IngestTyped, RunsCounted, IngestTypeOK, Stages, Working, ArtifactRows
<1> QED BY <1>1, <1>2, <1>3, PTL DEF IngestSpec

LEMMA WatchIsTyped == WatchSpec => []WatchTypeOK
<1>1. WatchInv => WatchTypeOK BY DEF WatchInv, WatchTypeOK, RunSound, RunRows, BundleSound
<1> QED BY <1>1, WatchStart, WatchStep, PTL DEF WatchSpec

-----------------------------------------------------------------------------
\* An upsert leaves one row, and nothing else makes a row.
OneRow == \E r : connection \subseteq {r}

LEMMA RowsStayOne == OneRow /\ [ConnectionsNext]_connVars => OneRow'
<1> SUFFICES ASSUME OneRow, [ConnectionsNext]_connVars PROVE OneRow' OBVIOUS
<1>1. PICK r : connection \subseteq {r} BY DEF OneRow
<1>2. ASSUME Deleted PROVE OneRow' BY <1>2 DEF Deleted, OneRow
<1>3. CASE ComesDue BY <1>3 DEF ComesDue, OneRow
<1>4. ASSUME NEW u \in Users, CallbackStore(u) PROVE OneRow' BY <1>1, <1>4 DEF CallbackStore, Upserted, OneRow
<1>5. ASSUME NEW u \in Users, Save(u) PROVE OneRow'
  <2>1. PICK pair : connection' = {Saved(s, pair) : s \in connection} \/ connection' = connection
    BY <1>5 DEF Save
  <2>2. connection' \subseteq {Saved(r, pair)} \/ connection' \subseteq {r} BY <1>1, <2>1
  <2> QED BY <2>2 DEF OneRow
<1>6. ASSUME UNCHANGED connection PROVE OneRow' BY <1>6 DEF OneRow
<1>7. ASSUME NEW u \in Users, \/ \E a \in Accounts : ZoomConsent(u, a) \/ TeamsConsent(u, a) \/ MeetConsent(u, a)
                              \/ ReadConnection(u) \/ Renew(u) \/ ReplyLost(u)
      PROVE  OneRow'
  BY <1>6, <1>7 DEF ZoomConsent, TeamsConsent, MeetConsent, Exchange, NoRefreshToken, ReadConnection, Renew, ReplyLost
<1>8. CASE UNCHANGED connVars BY <1>6, <1>8 DEF connVars
<1> QED BY <1>2, <1>3, <1>4, <1>5, <1>7, <1>8
        DEF ConnectionsNext, ZoomDisconnect, TeamsDisconnect, MeetDisconnect

LEMMA ConnectionsAreTyped == ConnectionsSpec => []ConnectionsTypeOK
<1>1. ConnectionsInit => OneRow BY DEF ConnectionsInit, OneRow
<1>2. OneRow => Cardinality(connection) <= 1
  <2> SUFFICES ASSUME NEW r, connection \subseteq {r} PROVE Cardinality(connection) <= 1 BY DEF OneRow
  <2>1. connection = {} \/ connection = {r} OBVIOUS
  <2>2. Cardinality({r}) = 1 /\ Cardinality({}) = 0 BY FS_Singleton, FS_EmptySet
  <2> QED BY <2>1, <2>2
<1>3. ConnInv /\ OneRow => ConnectionsTypeOK BY <1>2 DEF ConnInv, ConnTyped, ConnectionsTypeOK
<1> QED BY <1>1, <1>3, ConnStart, ConnStep, RowsStayOne, PTL DEF ConnectionsSpec

-----------------------------------------------------------------------------
\* The buffer and what is taken from it stay within its capacity.
TapeFits ==
  /\ Len(rows) <= RowsMax /\ Len(batch) <= RowsMax /\ losses \in Nat
  /\ \A r \in stored : r.of \in Asks /\ r.status \in Statuses
PipeShape == PipeInv /\ TapeFits

LEMMA LogFits == ASSUME PipeShape, NEW row, LogLLMCall(row) PROVE Len(rows') <= RowsMax /\ UNCHANGED <<batch, losses>>
<1>1. rows \in Seq(Kinds) BY DEF PipeShape, PipeInv, TapeTyped
<1>2. RowsMax \in Nat \ {0} /\ Len(rows) \in Nat /\ Len(rows) <= RowsMax
  BY <1>1, PipelineAssumption DEF PipeShape, TapeFits
<1>3. CASE Len(rows) >= RowsMax
  <2>1. rows # << >> BY <1>2, <1>3
  <2>2. rows' = Append(Tail(rows), row) BY <1>3 DEF LogLLMCall, Appended
  <2>3. Len(rows') = Len(rows) BY <1>1, <2>1, <2>2
  <2> QED BY <1>2, <2>3 DEF LogLLMCall
<1>4. CASE ~(Len(rows) >= RowsMax)
  <2>1. rows' = Append(rows, row) BY <1>4 DEF LogLLMCall, Appended
  <2>2. Len(rows') = Len(rows) + 1 BY <1>1, <2>1
  <2> QED BY <1>2, <1>4, <2>2 DEF LogLLMCall
<1> QED BY <1>3, <1>4

LEMMA FitsWith ==
  ASSUME PipeShape, (\E row : LogLLMCall(row)) \/ UNCHANGED tapeVars,
         \A r \in stored' : r \in stored \/ \E a \in Asks, status \in Statuses : r.of = a /\ r.status = status
  PROVE  TapeFits'
<1>1. Len(rows') <= RowsMax /\ UNCHANGED <<batch, losses>>
  BY LogFits DEF tapeVars, PipeShape, TapeFits
<1> QED BY <1>1 DEF PipeShape, TapeFits

LEMMA FitsOn == PipeShape /\ [PipelineNext]_pipeVars => TapeFits'
<1> SUFFICES ASSUME PipeShape, [PipelineNext]_pipeVars PROVE TapeFits' OBVIOUS
<1>1. TapeFits /\ rows \in Seq(Kinds) /\ batch \in Seq(Kinds) /\ query \in [Asks -> Queries]
  BY DEF PipeShape, PipeInv, TapeTyped
<1>2. CASE DrainTake
  <2>1. batch' = rows /\ rows' = << >> /\ UNCHANGED <<losses, stored>> BY <1>2 DEF DrainTake, Remaining
  <2> QED BY <1>1, <2>1, PipelineAssumption DEF TapeFits
<1>3. CASE DrainInsert
  <2>1. batch # << >> /\ batch' = Tail(batch) /\ UNCHANGED <<rows, stored>> /\ losses' \in {losses, losses + 1}
    BY <1>3 DEF DrainInsert
  <2>2. Len(batch') = Len(batch) - 1 BY <1>1, <2>1
  <2> QED BY <1>1, <2>1, <2>2, PipelineAssumption DEF TapeFits
<1>4. CASE Restarted BY <1>1, <1>4, PipelineAssumption DEF Restarted, TapeFits
<1>5. ASSUME NEW a \in Asks, UNCHANGED stored, (\E row : LogLLMCall(row)) \/ UNCHANGED tapeVars PROVE TapeFits'
  BY <1>5, FitsWith
<1>6. ASSUME NEW a \in Asks,
             \/ \E path \in {"ask", "voice"}, chunks \in SUBSET Retrieved : AskBegin(a, path, chunks)
             \/ InputRefused(a) \/ AskRound(a) \/ CiteCheck(a) \/ CitationRetry(a)
      PROVE  TapeFits'
  <2>1. UNCHANGED stored
    BY <1>6 DEF AskBegin, InputRefused, AskRound, CiteCheck, CitationRetry, Round, Kept
  <2>2. LogLLMCall("other") \/ UNCHANGED tapeVars
    BY <1>6 DEF AskBegin, InputRefused, AskRound, CiteCheck, CitationRetry
  <2> QED BY <1>5, <2>1, <2>2
<1>7. ASSUME NEW a \in Asks, CiteRecheck(a) \/ GroundingRetry(a) \/ Regrounded(a) \/ RejudgeRefused(a)
      PROVE  TapeFits'
  <2>1. UNCHANGED stored
    BY <1>7 DEF CiteRecheck, GroundingRetry, Regrounded, RejudgeRefused, Refused, Round, Kept
  <2>2. LogLLMCall("other") \/ UNCHANGED tapeVars
    BY <1>7 DEF CiteRecheck, GroundingRetry, Regrounded, RejudgeRefused, Refused
  <2> QED BY <1>5, <2>1, <2>2
<1>8. ASSUME NEW a \in Asks, QuotaCheck(a) PROVE TapeFits' BY <1>5, <1>8 DEF QuotaCheck
<1>9. ASSUME NEW a \in Asks, JudgeRound(a) \/ Rejudge(a) PROVE TapeFits'
  <2>1. UNCHANGED stored BY <1>9 DEF JudgeRound, Rejudge, Verdict, Kept
  <2>2. LogLLMCall("judge") \/ UNCHANGED tapeVars BY <1>9 DEF JudgeRound, Rejudge, Verdict
  <2> QED BY <1>5, <2>1, <2>2
<1>10. ASSUME NEW a \in Asks, Store(a) \/ StoreRefusal(a) PROVE TapeFits'
  <2>1. LogLLMCall("other") \/ UNCHANGED tapeVars BY <1>10 DEF Store, StoreRefusal
  <2>2. query[a].status \in Statuses /\ "error" \in Statuses BY <1>1 DEF Queries, Statuses
  <2>3. \E status \in Statuses : stored' = Written(a, status) \/ stored' = stored
    BY <1>10, <2>2 DEF Store, StoreRefusal
  <2>4. ASSUME NEW r \in stored' PROVE r \in stored \/ \E b \in Asks, status \in Statuses : r.of = b /\ r.status = status
    BY <2>3, <2>4 DEF Written
  <2> QED BY <2>1, <2>4, FitsWith
<1>11. CASE UNCHANGED pipeVars BY <1>1, <1>11 DEF pipeVars, TapeFits
<1> QED BY <1>2, <1>3, <1>4, <1>6, <1>7, <1>8, <1>9, <1>10, <1>11 DEF PipelineNext

LEMMA PipelineIsTyped == PipelineSpec => []PipelineTypeOK
<1>1. PipelineInit => PipeShape
  BY PipeStart, PipelineAssumption DEF PipelineInit, PipeShape, TapeFits
<1>2. PipeShape /\ [PipelineNext]_pipeVars => PipeShape' BY PipeStep, FitsOn DEF PipeShape
<1>3. PipeShape => PipelineTypeOK
  BY DEF PipeShape, PipeInv, TapeTyped, TapeFits, Queries, PipelineTypeOK
<1> QED BY <1>1, <1>2, <1>3, PTL DEF PipelineSpec

-----------------------------------------------------------------------------
ListShape ==
  /\ ListInv /\ moves \in 0..MaxMoves
  /\ graph \in {"calendar", "looking", "done", "failed"} /\ answer.status \in {"none", "error", "list"}

LEMMA ListShapeKept == ListShape /\ [ListingNext]_listingVars => ListShape'
<1> SUFFICES ASSUME ListShape, [ListingNext]_listingVars PROVE ListShape' OBVIOUS
<1>0. ListInv' BY ListingSteps DEF ListShape
<1>1. CASE CalendarRead \/ CalendarFails \/ GraphDone
  <2>1. graph' \in {"looking", "done", "failed"} /\ UNCHANGED <<moves, answer>>
    BY <1>1 DEF CalendarRead, CalendarFails, GraphDone, GraphOnly
  <2> QED BY <1>0, <2>1 DEF ListShape
<1>2. ASSUME NEW l \in JoinLinks, LookupStart(l) \/ LookupEnd(l) PROVE ListShape'
  BY <1>0, <1>2 DEF LookupStart, LookupEnd, GraphOnly, ListShape
<1>3. CASE FolderResolved \/ WalkRead \/ WalkUp
  BY <1>0, <1>3 DEF FolderResolved, WalkRead, WalkUp, DriveOnly, graphVars, ListShape
<1>4. ASSUME NEW refused \in BOOLEAN, WalkReadFails(refused) PROVE ListShape'
  BY <1>0, <1>4 DEF WalkReadFails, DriveOnly, graphVars, ListShape
<1>5. ASSUME NEW d \in Folders, WalkFolder(d) PROVE ListShape'
  BY <1>0, <1>5 DEF WalkFolder, DriveOnly, graphVars, ListShape
<1>6. ASSUME NEW m \in Mp4s, WalkFile(m) PROVE ListShape'
  BY <1>0, <1>6 DEF WalkFile, DriveOnly, graphVars, ListShape
<1>7. ASSUME NEW m \in Mp4s, NEW f \in Folders \cup {Elsewhere}, FileMoved(m, f) PROVE ListShape'
  <2>1. moves' \in 0..MaxMoves BY <1>7, ListingAssumption DEF FileMoved, ListShape
  <2> QED BY <1>0, <1>7, <2>1 DEF FileMoved, graphVars, ListShape
<1>8. CASE Answered
  <2>1. answer'.status \in {"error", "list"}
    <3>1. CASE graph = "failed" BY <1>8, <3>1 DEF Answered, NoAnswerYet
    <3>2. CASE graph # "failed" BY <1>8, <3>2 DEF Answered
    <3> QED BY <3>1, <3>2
  <2> QED BY <1>0, <1>8, <2>1 DEF Answered, graphVars, ListShape
<1>9. CASE UNCHANGED listingVars BY <1>0, <1>9 DEF listingVars, graphVars, ListShape
<1> QED BY <1>1, <1>2, <1>3, <1>4, <1>5, <1>6, <1>7, <1>8, <1>9 DEF ListingNext

LEMMA ListingIsTyped == ListingSpec => []ListingTypeOK
<1>1. ListingInit => ListShape
  <2> SUFFICES ASSUME ListingInit PROVE ListShape OBVIOUS
  <2>1. answer.status = "none" BY DEF ListingInit, NoAnswerYet
  <2>2. moves \in 0..MaxMoves BY ListingAssumption DEF ListingInit
  <2>3. graph = "calendar" BY DEF ListingInit
  <2> QED BY <2>1, <2>2, <2>3, ListingStarts DEF ListShape
<1>2. ListShape => ListingTypeOK
  <2> SUFFICES ASSUME ListShape PROVE ListingTypeOK OBVIOUS
  <2>1. DriveTyped /\ GraphInv BY DEF ListShape, ListInv, DriveInv
  <2>2. Listed \subseteq Mp4s BY <2>1 DEF DriveTyped, Listed
  <2>3. \A i \in DOMAIN stack : stack[i] \in Frames BY <2>1 DEF DriveTyped
  <2>4. \A i \in DOMAIN stack : stack[i].folder \in Folders /\ stack[i].left \subseteq Folders \cup Mp4s
    BY <2>3 DEF Frames
  <2> QED BY <2>1, <2>2, <2>4 DEF ListShape, DriveTyped, GraphInv, ListingTypeOK
<1> QED BY <1>1, <1>2, ListShapeKept, PTL DEF ListingSpec
=============================================================================
