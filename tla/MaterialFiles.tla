----------------------------- MODULE MaterialFiles -----------------------------
(***************************************************************************)
(* The materials of a session and the files behind them: uploads and       *)
(* pastes against the limit of the session and the names in it, the object *)
(* a file name leads to, the video source and the file artifact of an      *)
(* uploaded video, the extraction job, and the deletion.  Requests run     *)
(* concurrently, each in several steps.                                    *)
(***************************************************************************)
EXTENDS UploadRules, FiniteSets

CONSTANTS
  Materials,     \* rows that may be created
  Names,         \* file names of uploads
  Keys,          \* object keys, or paths
  KeyOf,         \* BuildArtifactStorageKey / SessionArtifactPath of a name
  Files,         \* kinds of file that are uploaded
  Requests,
  MaxMaterials,  \* MAX_MATERIALS_PER_SESSION
  MaxFaults,     \* bound of the model: failing statements and storage calls
  Provider,      \* "r2" or "local"
  Nobody

ASSUME MaterialFilesAssumption ==
  /\ KeyOf \in [Names -> Keys]
  /\ Files \subseteq FileKinds
  /\ MaxMaterials \in Nat \ {0} /\ MaxFaults \in Nat
  /\ Provider \in {"r2", "local"}
  /\ Nobody \notin Materials /\ Nobody \notin Names
  /\ IsFiniteSet(Requests)

VARIABLES
  row,           \* table materials
  object,        \* which upload's bytes are stored under a key
  artifact,      \* keys of file_artifacts: they are unique
  video,         \* the video source of an upload: its key is that of the upload
  request,
  mishaps,
  muddled        \* history: keys two requests worked on at a time, or one failed on

filesVars == <<row, object, artifact, video, request, mishaps, muddled>>

Live == {m \in Materials : row[m].state = "live"}
Stored(m) == row[m].name # Nobody
Key(m) == KeyOf[row[m].name]

NoRow == [state |-> "absent", name |-> Nobody, text |-> "none", job |-> FALSE]
Idle == [step |-> "idle", m |-> Nobody, name |-> Nobody, file |-> Nobody, keyed |-> FALSE]

Mishap == mishaps < MaxFaults /\ mishaps' = mishaps + 1
Busy(k) == \E q \in Requests : request[q].name # Nobody /\ KeyOf[request[q].name] = k
Taken(m) == \E q \in Requests : request[q].m = m
Muddle(k) == muddled' = muddled \union {k}
NoteOverlap(k) == muddled' = IF Busy(k) THEN muddled \union {k} ELSE muddled
Done(q) == request' = [request EXCEPT ![q] = Idle]
To(q, step) == request' = [request EXCEPT ![q].step = step]

-----------------------------------------------------------------------------
(* Upload *)

BelowLimit == Cardinality(Live) < MaxMaterials

\* The limit and the name are checked long before the row is created: the body
\* is read and the file is stored in between.
UploadStart(q, m, n, f) ==
  /\ request[q] = Idle
  /\ row[m].state = "absent" /\ ~Taken(m)
  /\ BelowLimit
  /\ \A l \in Live : row[l].name # n
  /\ request' = [request EXCEPT ![q] = [step |-> "put", m |-> m, name |-> n, file |-> f, keyed |-> FALSE]]
  /\ NoteOverlap(KeyOf[n])
  /\ UNCHANGED <<row, object, artifact, video, mishaps>>

UploadPut(q) ==
  /\ request[q].step = "put"
  /\ \/ /\ object' = [object EXCEPT ![KeyOf[request[q].name]] = request[q].m]
        /\ To(q, "create")
        /\ mishaps' = mishaps
     \/ Mishap /\ object' = object /\ Done(q)
  /\ UNCHANGED <<row, artifact, video, muddled>>

\* A failed insert takes the object away again, whoever stored it last.
UploadCreate(q) ==
  /\ request[q].step = "create"
  /\ LET m == request[q].m
         n == request[q].name
     IN  \/ /\ row' = [row EXCEPT ![m] = [state |-> "live", name |-> n,
                                          text |-> TextStatus(request[q].file), job |-> FALSE]]
            /\ To(q, "follow")
            /\ UNCHANGED <<object, mishaps, muddled>>
         \/ /\ Mishap
            /\ object' = [object EXCEPT ![KeyOf[n]] = Nobody]
            /\ Muddle(KeyOf[n])
            /\ Done(q)
            /\ row' = row
  /\ UNCHANGED <<artifact, video>>

\* The extraction job, then the artifact (one per key, for ever) and the video source.
UploadFollow(q) ==
  /\ request[q].step = "follow"
  /\ LET m == request[q].m
         k == KeyOf[request[q].name]
         f == request[q].file
     IN  \/ /\ row' = [row EXCEPT ![m].job = NeedsExtraction(f)]
            /\ artifact' = IF IsVideo(f) THEN artifact \union {k} ELSE artifact
            /\ video' = [video EXCEPT ![m] = IF ~IsVideo(f) THEN "none"
                                             ELSE IF k \in artifact THEN "bare" ELSE "linked"]
            /\ UNCHANGED <<mishaps, muddled>>
         \/ Mishap /\ Muddle(k) /\ UNCHANGED <<row, artifact, video>>
  /\ Done(q)
  /\ UNCHANGED object

-----------------------------------------------------------------------------
(* Paste: a row without a file *)

PasteStart(q, m) ==
  /\ request[q] = Idle
  /\ row[m].state = "absent" /\ ~Taken(m)
  /\ BelowLimit
  /\ request' = [request EXCEPT ![q] = [Idle EXCEPT !.step = "paste", !.m = m]]
  /\ UNCHANGED <<row, object, artifact, video, mishaps, muddled>>

PasteCreate(q) ==
  /\ request[q].step = "paste"
  /\ row' = [row EXCEPT ![request[q].m] = [NoRow EXCEPT !.state = "live", !.text = "ready"]]
  /\ Done(q)
  /\ UNCHANGED <<object, artifact, video, mishaps, muddled>>

\* The worker of the extraction job writes its outcome, whether the row is live or not.
Extracted(m) ==
  /\ row[m].job
  /\ \E t \in {"ready", "failed"} : row' = [row EXCEPT ![m].text = t, ![m].job = FALSE]
  /\ UNCHANGED <<object, artifact, video, request, mishaps, muddled>>

-----------------------------------------------------------------------------
(* Deletion *)

\* A row that is deleted already is found too, in R2 without its key.
DeleteStart(q, m) ==
  /\ request[q] = Idle
  /\ row[m].state # "absent"
  /\ request' = [request EXCEPT ![q] = [step |-> "unstore", m |-> m, name |-> row[m].name, file |-> Nobody,
                    keyed |-> Stored(m) /\ (Provider = "local" \/ row[m].state = "live")]]
  /\ IF Stored(m) THEN NoteOverlap(Key(m)) ELSE muddled' = muddled
  /\ UNCHANGED <<row, object, artifact, video, mishaps>>

DeleteFile(q) ==
  /\ request[q].step = "unstore"
  /\ \/ /\ object' = IF request[q].keyed THEN [object EXCEPT ![KeyOf[request[q].name]] = Nobody]
                                         ELSE object
        /\ mishaps' = mishaps
     \/ Mishap /\ object' = object
  /\ To(q, "unlink")
  /\ UNCHANGED <<row, artifact, video, muddled>>

\* The oldest video source with the key of the material, which may not be its own.
DeleteVideo(q) ==
  /\ request[q].step = "unlink"
  /\ LET of == {v \in Materials : video[v] # "none" /\ request[q].keyed
                                  /\ Key(v) = KeyOf[request[q].name]}
     IN  \/ /\ of = {} /\ video' = video
            /\ UNCHANGED <<mishaps, muddled>>
         \/ /\ \E v \in of : video' = [video EXCEPT ![v] = "none"]
            /\ UNCHANGED <<mishaps, muddled>>
         \/ of # {} /\ Mishap /\ Muddle(KeyOf[request[q].name]) /\ video' = video
  /\ To(q, "tombstone")
  /\ UNCHANGED <<row, object, artifact>>

SoftDeleteMaterial(q) ==
  /\ request[q].step = "tombstone"
  /\ \/ row' = [row EXCEPT ![request[q].m].state = "deleted"] /\ UNCHANGED <<mishaps, muddled>>
     \/ /\ Mishap /\ row' = row
        /\ IF request[q].keyed THEN Muddle(KeyOf[request[q].name]) ELSE muddled' = muddled
  /\ Done(q)
  /\ UNCHANGED <<object, artifact, video>>

-----------------------------------------------------------------------------
FilesInit ==
  /\ row = [m \in Materials |-> NoRow]
  /\ object = [k \in Keys |-> Nobody]
  /\ artifact = {}
  /\ video = [m \in Materials |-> "none"]
  /\ request = [q \in Requests |-> Idle]
  /\ mishaps = 0
  /\ muddled = {}

FilesNext ==
  \/ \E q \in Requests, m \in Materials :
       \/ \E n \in Names, f \in Files : UploadStart(q, m, n, f)
       \/ PasteStart(q, m)
       \/ DeleteStart(q, m)
  \/ \E q \in Requests : UploadPut(q) \/ UploadCreate(q) \/ UploadFollow(q) \/ PasteCreate(q)
                         \/ DeleteFile(q) \/ DeleteVideo(q) \/ SoftDeleteMaterial(q)
  \/ \E m \in Materials : Extracted(m)

FilesSpec == FilesInit /\ [][FilesNext]_filesVars

-----------------------------------------------------------------------------
FilesTypeOK ==
  /\ row \in [Materials -> [state : {"absent", "live", "deleted"}, name : Names \union {Nobody},
                            text : {"none", "pending", "ready", "failed"}, job : BOOLEAN]]
  /\ object \in [Keys -> Materials \union {Nobody}]
  /\ artifact \subseteq Keys
  /\ video \in [Materials -> {"none", "bare", "linked"}]
  /\ request \in [Requests ->
       [step : {"idle", "put", "create", "follow", "paste", "unstore", "unlink", "tombstone"},
        m : Materials \union {Nobody}, name : Names \union {Nobody},
        file : Files \union {Nobody}, keyed : BOOLEAN]]
  /\ mishaps \in 0..MaxFaults
  /\ muddled \subseteq Keys

\* The file of a material that is shown is the one that was uploaded for it, as
\* long as no two requests work on its key at a time (session_materials.go:228-238,
\* 765-786; storage/keys.go:73-86).
LiveFileIsOwn ==
  \A m \in Live : Stored(m) /\ ~Busy(Key(m)) /\ Key(m) \notin muddled => object[Key(m)] = m

\* A row whose text is pending has a job that will write it: no kind of file is
\* left waiting without one (session_materials.go:336-343, 440-451).
NeverSilentlyPending ==
  \A m \in Live : row[m].text = "pending" /\ Stored(m) /\ ~Taken(m) /\ Key(m) \notin muddled => row[m].job

\* Requests that passed the check together exceed the limit, by one less than
\* their number and no more, in any order of uploads and pastes
\* (session_materials.go:184-200, 672-686).
LimitOvershoot == Cardinality(Live) <= MaxMaterials + Cardinality(Requests) - 1

\* A video source has the file it plays: the deletion of a material takes both
\* (session_materials.go:787-806).
VideoHasFile ==
  \A m \in Materials : video[m] # "none" /\ ~Busy(Key(m)) /\ Key(m) \notin muddled => object[Key(m)] = m

\* Rows, files, jobs and video sources of the uploads of a session agree.
FilesAgree == LiveFileIsOwn /\ NeverSilentlyPending /\ LimitOvershoot /\ VideoHasFile
===============================================================================
