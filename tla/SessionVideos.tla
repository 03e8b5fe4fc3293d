---------------------------- MODULE SessionVideos ----------------------------
(***************************************************************************)
(* How a video gets into a session, by the requests that bring one, which  *)
(* of them is the primary recording, and the deletion of the session while *)
(* they are under way.  A request is the sequence of the steps its handler *)
(* has left; a step that fails ends it.                                    *)
(***************************************************************************)
EXTENDS Naturals, Sequences, FiniteSets

CONSTANTS
  Clips,          \* videos that requests bring, one request for each
  BroughtBy,      \* the handler each comes by
  Choosers,       \* requests that choose a primary recording
  Remote,         \* whether an object store is configured
  MaxStumbles,    \* bound of the model: failing statements and storage calls
  NoClip

Handlers == {"upload", "transcript", "url", "embed", "zoom", "presigned"}

ASSUME SessionVideosAssumption ==
  /\ BroughtBy \in [Clips -> Handlers]
  /\ Remote \in BOOLEAN
  /\ MaxStumbles \in Nat
  /\ NoClip \notin Clips /\ Choosers \intersect Clips = {}

VARIABLES
  standing,   \* "open", "gone", or the last step that a DELETE of the session has done
  intake,     \* the steps that are left to the request of a clip
  kept,       \* clips whose bytes are in the store or on the disk
  filed,      \* file_artifacts of the clips: status, or "none"
  role,       \* video_sources: "absent", or the video_role, "unset" for NULL
  asked,      \* clips with a transcript job
  roleTx,     \* open transactions of SetVideoSourceVideoRole
  stumbles,
  late,       \* history: clips that were stored or filed after the DELETE had looked, or that it missed
  leaderless  \* history: a primary was deleted, or choosing the first one failed

videosVars == <<standing, intake, kept, filed, role, asked, roleTx, stumbles, late, leaderless>>

UploadVideoFile == <<"open", "store", "file", "video", "lead", "ask">>
UploadTranscriptFile == <<"open", "store", "video", "lead", "ask">>
IngestVideoFromURL == <<"open", "store", "video", "ask">>
AttachVideoURL == <<"open", "video">>
CreateSessionFromZoom == <<"open", "video", "lead">>
PresignPut == <<"open", "file", "store", "complete">>

StepsOf(v) ==
  CASE BroughtBy[v] = "upload" -> UploadVideoFile
    [] BroughtBy[v] = "transcript" -> UploadTranscriptFile
    [] BroughtBy[v] = "url" -> IngestVideoFromURL
    [] BroughtBy[v] = "embed" -> AttachVideoURL
    [] BroughtBy[v] = "zoom" -> CreateSessionFromZoom
    [] BroughtBy[v] = "presigned" -> PresignPut

InStore(v) == Remote /\ BroughtBy[v] # "url"
Leaders == {v \in Clips : role[v] = "primary"}

NextStepIs(v, step) == intake[v] # <<>> /\ Head(intake[v]) = step
Advance(v) == intake' = [intake EXCEPT ![v] = Tail(@)]
GiveUp(v) == intake' = [intake EXCEPT ![v] = <<>>]
Stumble == stumbles < MaxStumbles /\ stumbles' = stumbles + 1

NoTx == [on |-> NoClip, demoted |-> NoClip]

-----------------------------------------------------------------------------
(* The steps of the requests.  A row of a session that is gone fails its     *)
(* foreign key.                                                              *)

OpenSession(v) ==
  /\ NextStepIs(v, "open")
  /\ IF standing = "gone" THEN GiveUp(v) ELSE Advance(v)
  /\ UNCHANGED <<standing, kept, filed, role, asked, roleTx, stumbles, late, leaderless>>

\* The sweeps of a DELETE that runs find it from now on, or they do not any more.
SweptAlready(v) ==
  IF InStore(v) THEN standing \in {"swept", "emptied", "unfiled", "gone"}
                ELSE standing \in {"emptied", "unfiled", "gone"}

StoreClip(v) ==
  /\ NextStepIs(v, "store")
  /\ \/ /\ kept' = kept \union {v}
        /\ late' = IF SweptAlready(v) THEN late \union {v} ELSE late
        /\ Advance(v)
        /\ UNCHANGED stumbles
     \/ Stumble /\ GiveUp(v) /\ UNCHANGED <<kept, late>>
  /\ UNCHANGED <<standing, filed, role, asked, roleTx, leaderless>>

\* An upload goes on without its row; a presigned one is refused.
CreateFileArtifact(v) ==
  /\ NextStepIs(v, "file")
  /\ \/ /\ standing # "gone"
        /\ filed' = [filed EXCEPT ![v] = IF BroughtBy[v] = "presigned" THEN "pending" ELSE "ready"]
        /\ late' = IF standing = "unfiled" THEN late \union {v} ELSE late
        /\ Advance(v)
        /\ UNCHANGED stumbles
     \/ /\ IF standing = "gone" THEN UNCHANGED stumbles ELSE Stumble
        /\ IF BroughtBy[v] = "presigned" THEN GiveUp(v) ELSE Advance(v)
        /\ UNCHANGED <<filed, late>>
  /\ UNCHANGED <<standing, kept, role, asked, roleTx, leaderless>>

CompleteArtifact(v) ==
  /\ NextStepIs(v, "complete")
  /\ filed' = IF filed[v] = "pending" /\ v \in kept THEN [filed EXCEPT ![v] = "ready"] ELSE filed
  /\ Advance(v)
  /\ UNCHANGED <<standing, kept, role, asked, roleTx, stumbles, late, leaderless>>

CreateVideoSource(v) ==
  /\ NextStepIs(v, "video")
  /\ \/ standing # "gone" /\ role' = [role EXCEPT ![v] = "unset"] /\ Advance(v) /\ UNCHANGED stumbles
     \/ standing = "gone" /\ GiveUp(v) /\ UNCHANGED <<role, stumbles>>
     \/ standing # "gone" /\ Stumble /\ GiveUp(v) /\ UNCHANGED role
  /\ UNCHANGED <<standing, kept, filed, asked, roleTx, late, leaderless>>

\* The job of an upload is asked for once; without one the clip stays pending.
CreateTranscriptJob(v) ==
  /\ NextStepIs(v, "ask")
  /\ roleTx[v] = NoTx
  /\ \/ asked' = (IF role[v] = "absent" THEN asked ELSE asked \union {v}) /\ UNCHANGED stumbles
     \/ Stumble /\ UNCHANGED asked
  /\ Advance(v)
  /\ UNCHANGED <<standing, kept, filed, role, roleTx, late, leaderless>>

-----------------------------------------------------------------------------
(* The primary recording *)

\* SetVideoSourceVideoRole: the first statement of its transaction
BeginRole(a, v) == roleTx' = [roleTx EXCEPT ![a] =
  [on |-> v, demoted |-> IF Leaders = {} THEN NoClip ELSE CHOOSE p \in Leaders : TRUE]]

\* ensurePrimaryVideoIfNone
EnsurePrimary(v) ==
  /\ NextStepIs(v, "lead") /\ roleTx[v] = NoTx
  /\ IF Leaders # {} \/ role[v] = "absent"
     THEN roleTx' = roleTx
     ELSE BeginRole(v, v)
  /\ Advance(v)
  /\ UNCHANGED <<standing, kept, filed, role, asked, stumbles, late, leaderless>>

ChoosePrimary(c, v) ==
  /\ roleTx[c] = NoTx
  /\ role[v] # "absent"
  /\ BeginRole(c, v)
  /\ UNCHANGED <<standing, intake, kept, filed, role, asked, stumbles, late, leaderless>>

\* The row is there, and the unique index holds no primary but the one that was demoted.
RoleGranted(a) ==
  /\ role[roleTx[a].on] # "absent"
  /\ Leaders \subseteq {roleTx[a].on, roleTx[a].demoted}

\* The second statement and the commit, or a failure and the rollback.
CommitRole(a) ==
  /\ roleTx[a] # NoTx
  /\ \/ /\ RoleGranted(a)
        /\ role' = [v \in Clips |-> IF v = roleTx[a].on THEN "primary"
                                    ELSE IF v = roleTx[a].demoted /\ role[v] # "absent" THEN "secondary"
                                    ELSE role[v]]
        /\ UNCHANGED <<stumbles, leaderless>>
     \/ ~RoleGranted(a) /\ UNCHANGED <<role, stumbles, leaderless>>
     \/ RoleGranted(a) /\ Stumble /\ leaderless' = (leaderless \/ a \in Clips) /\ UNCHANGED role
  /\ roleTx' = [roleTx EXCEPT ![a] = NoTx]
  /\ UNCHANGED <<standing, intake, kept, filed, asked, late>>

\* A row that a transaction has demoted is locked.  The file stays.
DeleteSessionVideoSource(v) ==
  /\ role[v] # "absent"
  /\ \A a \in Clips \union Choosers : roleTx[a].demoted # v
  /\ role' = [role EXCEPT ![v] = "absent"]
  /\ asked' = asked \ {v}
  /\ leaderless' = (leaderless \/ v \in Leaders)
  /\ UNCHANGED <<standing, intake, kept, filed, roleTx, stumbles, late>>

-----------------------------------------------------------------------------
(* DELETE of the session: objects by key, objects by prefix, the directory,  *)
(* the rows of the files, the session with all that hangs on it.             *)

\* A storage call that fails is logged, and its object stays.
RemoveVideo(wanted) ==
  \E left \in SUBSET wanted :
    /\ IF left = {} THEN UNCHANGED stumbles ELSE Stumble
    /\ kept' = kept \ (wanted \ left)
    /\ late' = late \union left

DeleteObjects ==
  /\ standing = "open"
  /\ RemoveVideo({v \in kept : filed[v] # "none" /\ InStore(v)})
  /\ standing' = "keyed"
  /\ UNCHANGED <<intake, filed, role, asked, roleTx, leaderless>>

\* mutant: only the objects of file artifacts are deleted
UnderNoPrefix == {}

UnderPrefix == {v \in kept : InStore(v)}

SweepPrefix ==
  /\ standing = "keyed"
  /\ RemoveVideo(UnderPrefix)
  /\ standing' = "swept"
  /\ UNCHANGED <<intake, filed, role, asked, roleTx, leaderless>>

RemoveDirectory ==
  /\ standing = "swept"
  /\ RemoveVideo({v \in kept : ~InStore(v)})
  /\ standing' = "emptied"
  /\ UNCHANGED <<intake, filed, role, asked, roleTx, leaderless>>

\* The answer is 500, and the session stays, without its files, until the next DELETE.
RefuseDelete ==
  /\ Stumble
  /\ standing' = "open"
  /\ UNCHANGED <<intake, kept, filed, role, asked, roleTx, late, leaderless>>

DeleteFileArtifacts ==
  /\ standing = "emptied"
  /\ \/ RefuseDelete
     \/ /\ filed' = [v \in Clips |-> "none"]
        /\ standing' = "unfiled"
        /\ UNCHANGED <<intake, kept, role, asked, roleTx, stumbles, late, leaderless>>

DeleteSession ==
  /\ standing = "unfiled"
  /\ \A a \in Clips \union Choosers : roleTx[a].demoted = NoClip
  /\ \/ RefuseDelete
     \/ /\ role' = [v \in Clips |-> "absent"]
        /\ asked' = {}
        /\ standing' = "gone"
        /\ UNCHANGED <<intake, kept, filed, roleTx, stumbles, late, leaderless>>

-----------------------------------------------------------------------------
VideosInit ==
  /\ standing = "open"
  /\ intake = [v \in Clips |-> StepsOf(v)]
  /\ kept = {} /\ asked = {} /\ late = {}
  /\ filed = [v \in Clips |-> "none"]
  /\ role = [v \in Clips |-> "absent"]
  /\ roleTx = [a \in Clips \union Choosers |-> NoTx]
  /\ stumbles = 0
  /\ leaderless = FALSE

VideosNext ==
  \/ \E v \in Clips :
       \/ OpenSession(v) \/ StoreClip(v) \/ CreateFileArtifact(v) \/ CompleteArtifact(v)
       \/ CreateVideoSource(v) \/ CreateTranscriptJob(v)
       \/ EnsurePrimary(v) \/ DeleteSessionVideoSource(v)
       \/ \E c \in Choosers : ChoosePrimary(c, v)
  \/ \E a \in Clips \union Choosers : CommitRole(a)
  \/ DeleteObjects \/ SweepPrefix \/ RemoveDirectory \/ DeleteFileArtifacts \/ DeleteSession

VideosSpec == VideosInit /\ [][VideosNext]_videosVars

-----------------------------------------------------------------------------
VideosTypeOK ==
  /\ standing \in {"open", "keyed", "swept", "emptied", "unfiled", "gone"}
  /\ \A v \in Clips : \E n \in 0..Len(StepsOf(v)) : intake[v] = SubSeq(StepsOf(v), n + 1, Len(StepsOf(v)))
  /\ kept \subseteq Clips /\ asked \subseteq Clips /\ late \subseteq Clips
  /\ filed \in [Clips -> {"none", "pending", "ready"}]
  /\ role \in [Clips -> {"absent", "unset", "primary", "secondary"}]
  /\ roleTx \in [Clips \union Choosers -> [on : Clips \union {NoClip}, demoted : Clips \union {NoClip}]]
  /\ stumbles \in 0..MaxStumbles
  /\ leaderless \in BOOLEAN

\* Requests that find no primary recording at the same time, or choose different
\* ones, leave exactly one: of two transactions the index refuses the second, and
\* its rollback gives the demoted one its role back (session_helpers.go:45-59,
\* video_sources.go:399-421).
OnePrimary ==
  /\ Cardinality(Leaders) <= 1
  /\ ~leaderless /\ standing # "gone" =>
       \A v \in Clips : /\ BroughtBy[v] \in {"upload", "transcript", "zoom"}
                        /\ role[v] # "absent" /\ roleTx[v] = NoTx
                        /\ "lead" \notin {intake[v][i] : i \in DOMAIN intake[v]}
                        => Leaders # {}

\* A deleted session leaves no file and no file row, of whatever request, the
\* videos deleted one by one included, but for those that were stored or filed
\* behind the back of the DELETE and those the storage kept (sessions.go:571-660).
NothingLeftBehind ==
  standing = "gone" => \A v \in Clips : v \in kept \/ filed[v] # "none" => v \in late

\* The recordings of a session through uploads, choices and its deletion.
VideosHold == OnePrimary /\ NothingLeftBehind
===============================================================================
