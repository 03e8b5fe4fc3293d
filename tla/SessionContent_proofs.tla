------------------------ MODULE SessionContent_proofs ------------------------
(***************************************************************************)
(* Proofs about the parts that MCSessionContent runs, a section for each.  *)
(***************************************************************************)
EXTENDS MCSessionContent, TextChunks_proofs,
        SequenceTheorems, FiniteSetTheorems, TLAPS

-----------------------------------------------------------------------------
(* The primary of a session is there (PrimaryContent).                      *)

\* What a request has checked stays ready, because nothing that was ready is
\* settled again; an import that promotes its video has seen none that is ready;
\* and while no write was overrun, what is shown is not being removed either.
ChecksLast ==
  \A p \in Patches : patch[p].step # "none" =>
    /\ patch[p].id \in Contents /\ content[patch[p].id] = "ready"
    /\ patch[p].step = "point" => patch[p].id \in Videos
PromotersSawNone == \A v \in Videos : promoting[v] \in {"no", "free", "done"}
Shows(x) == x \in Contents /\ content[x] = "ready" /\ x \notin gone \union removing
PrimaryShows ==
  ~overrun => /\ primary.kind = "video" => Shows(primary.video)
              /\ primary.kind = "document" => Shows(primary.document)
              /\ primary.kind = "link" => Shows(primary.link)
PrimaryInv == PrimaryTypeOK /\ ChecksLast /\ PromotersSawNone /\ PrimaryShows /\ NoStalePointer

LEMMA KindsOfContents ==
  /\ \A x \in Videos : KindOf(x) = "video" /\ x \notin Documents \union Links
  /\ \A x \in Documents : KindOf(x) = "document" /\ x \notin Videos \union Links
  /\ \A x \in Links : KindOf(x) = "link" /\ x \notin Videos \union Documents
  /\ Nothing \notin Contents
  BY PrimaryContentAssumption DEF KindOf, Contents

LEMMA PrimaryFields ==
  ASSUME PrimaryTypeOK
  PROVE  /\ primary.kind \in {"none", "video", "document", "link"}
         /\ primary.video \in Videos \union {Nothing}
         /\ primary.document \in Documents \union {Nothing}
         /\ primary.link \in Links \union {Nothing}
         /\ primary = [kind |-> primary.kind, video |-> primary.video,
                       document |-> primary.document, link |-> primary.link]
  BY DEF PrimaryTypeOK

\* While the pointers and the removals stay, a step that turns nothing unready
\* keeps what is shown.
LEMMA PointersKept ==
  ASSUME PrimaryInv, UNCHANGED <<primary, gone, removing, overrun>>,
         \A x \in Contents : content[x] = "ready" => content'[x] = "ready"
  PROVE  PrimaryShows' /\ NoStalePointer'
  BY DEF PrimaryInv, PrimaryShows, Shows, NoStalePointer

LEMMA SettleKeeps == ASSUME PrimaryInv, NEW x \in Contents, Settle(x) PROVE PrimaryInv'
<1> USE DEF PrimaryInv
<1>0. PICK s \in {"ready", "failed"} :
        /\ content[x] = "pending" /\ content' = [content EXCEPT ![x] = s]
        /\ UNCHANGED <<primary, gone, removing, patch, promoting, overrun>>
  BY DEF Settle
<1>1. content \in [Contents -> {"pending", "ready", "failed"}] BY DEF PrimaryTypeOK
<1>2. \A y \in Contents : content[y] = "ready" => content'[y] = "ready" BY <1>0, <1>1
<1>3. PrimaryTypeOK' BY <1>0, <1>1 DEF PrimaryTypeOK
<1>4. ChecksLast' BY <1>0, <1>2 DEF ChecksLast
<1>5. PromotersSawNone' BY <1>0 DEF PromotersSawNone
<1>6. PrimaryShows' /\ NoStalePointer' BY <1>0, <1>2, PointersKept
<1> QED BY <1>3, <1>4, <1>5, <1>6

LEMMA PatchCheckKeeps ==
  ASSUME PrimaryInv, NEW p \in Patches, NEW x \in Contents, PatchCheck(p, x) PROVE PrimaryInv'
<1> USE DEF PrimaryInv
<1>0. PICK step \in {"write"} \union (IF x \in Videos THEN {"point"} ELSE {}) :
        /\ content[x] = "ready" /\ patch' = [patch EXCEPT ![p] = [step |-> step, id |-> x]]
        /\ UNCHANGED <<primary, content, gone, removing, promoting, overrun>>
  BY DEF PatchCheck
<1>1. PrimaryTypeOK' BY <1>0 DEF PrimaryTypeOK
<1>2. ChecksLast' BY <1>0 DEF ChecksLast, PrimaryTypeOK
<1>3. PromotersSawNone' BY <1>0 DEF PromotersSawNone
<1>4. PrimaryShows' /\ NoStalePointer' BY <1>0, PointersKept
<1> QED BY <1>1, <1>2, <1>3, <1>4

LEMMA PatchWriteKeeps == ASSUME PrimaryInv, NEW p \in Patches, PatchWrite(p) PROVE PrimaryInv'
<1> USE DEF PrimaryInv
<1>1. PICK x \in Contents : x = patch[p].id /\ content[x] = "ready"
  BY DEF ChecksLast, PatchWrite
<1>0. /\ patch[p].step = "write"
      /\ IF x \in gone \intersect Links
         THEN UNCHANGED <<primary, overrun>>
         ELSE primary' = Pointed(x) /\ overrun' = (overrun \/ x \in gone \union removing)
      /\ patch' = [patch EXCEPT ![p] = NoPatch]
      /\ UNCHANGED <<content, gone, removing, promoting>>
  BY <1>1 DEF PatchWrite
<1>2. patch' \in [Patches -> [step : {"none", "write", "point"}, id : Contents \union {Nothing}]]
  BY <1>0 DEF PrimaryTypeOK, NoPatch
<1>3. ChecksLast' BY <1>0, <1>2 DEF ChecksLast, PrimaryTypeOK, NoPatch
<1>4. PromotersSawNone' BY <1>0 DEF PromotersSawNone
<1>5. CASE x \in gone \intersect Links
  <2>1. PrimaryTypeOK' BY <1>0, <1>2, <1>5 DEF PrimaryTypeOK
  <2>2. PrimaryShows' /\ NoStalePointer' BY <1>0, <1>5, PointersKept
  <2> QED BY <1>3, <1>4, <2>1, <2>2
<1>6. CASE x \notin gone \intersect Links
  <2>0. primary' = Pointed(x) /\ overrun' = (overrun \/ x \in gone \union removing) BY <1>0, <1>6
  <2>1. primary' \in [kind : {"none", "video", "document", "link"}, video : Videos \union {Nothing},
                      document : Documents \union {Nothing}, link : Links \union {Nothing}]
    BY <1>1, <2>0, PrimaryFields DEF Pointed, KindOf, Contents
  <2>2. PrimaryTypeOK' BY <1>0, <1>2, <2>0, <2>1 DEF PrimaryTypeOK
  <2>3. ~overrun' => Shows(x)' BY <1>0, <1>1, <2>0 DEF Shows
  <2>4. /\ primary'.kind = KindOf(x)
        /\ x \in Videos => primary'.video = x
        /\ x \in Documents => primary'.document = x
        /\ x \in Links => primary'.link = x
    BY <2>0 DEF Pointed
  <2>6. PrimaryShows'
    <3>1. CASE x \in Videos BY <2>3, <2>4, <3>1, KindsOfContents DEF PrimaryShows
    <3>2. CASE x \in Documents BY <2>3, <2>4, <3>2, KindsOfContents DEF PrimaryShows
    <3>3. CASE x \in Links BY <2>3, <2>4, <3>3, KindsOfContents DEF PrimaryShows
    <3> QED BY <1>1, <3>1, <3>2, <3>3 DEF Contents
  <2>5. NoStalePointer' BY <1>1, <2>0, KindsOfContents DEF NoStalePointer, Pointed, Contents
  <2> QED BY <1>3, <1>4, <2>2, <2>5, <2>6
<1> QED BY <1>5, <1>6

LEMMA PointVideoKeeps == ASSUME PrimaryInv, NEW p \in Patches, PointVideo(p) PROVE PrimaryInv'
<1> USE DEF PrimaryInv
<1> DEFINE x == patch[p].id
<1>0. /\ patch[p].step = "point" /\ primary' = [primary EXCEPT !.video = x]
      /\ patch' = [patch EXCEPT ![p] = NoPatch]
      /\ UNCHANGED <<content, gone, removing, promoting, overrun>>
  BY DEF PointVideo
<1>1. x \in Videos /\ x \in Contents /\ content[x] = "ready" BY <1>0 DEF ChecksLast
<1> HIDE DEF x
<1>2. patch' \in [Patches -> [step : {"none", "write", "point"}, id : Contents \union {Nothing}]]
  BY <1>0 DEF PrimaryTypeOK, NoPatch
<1>3. PrimaryTypeOK' BY <1>0, <1>1, <1>2 DEF PrimaryTypeOK
<1>4. ChecksLast' BY <1>0, <1>2 DEF ChecksLast, PrimaryTypeOK, NoPatch
<1>5. PromotersSawNone' BY <1>0 DEF PromotersSawNone
<1>6. x \notin gone \union removing BY <1>1, KindsOfContents DEF PrimaryTypeOK
<1>7. /\ primary'.video = x /\ primary'.kind = primary.kind
      /\ primary'.document = primary.document /\ primary'.link = primary.link
  BY <1>0, PrimaryFields
<1>8. PrimaryShows' BY <1>0, <1>1, <1>6, <1>7 DEF PrimaryShows, Shows
<1>9. NoStalePointer' BY <1>7 DEF NoStalePointer
<1> QED BY <1>3, <1>4, <1>5, <1>8, <1>9

LEMMA PatchClearKeeps == ASSUME PrimaryInv, PatchClear PROVE PrimaryInv'
<1> USE DEF PrimaryInv
<1>0. /\ primary' = [primary EXCEPT !.kind = "none", !.document = Nothing, !.link = Nothing]
      /\ UNCHANGED <<content, gone, removing, patch, promoting, overrun>>
  BY DEF PatchClear
<1>1. primary'.kind = "none" /\ primary'.document = Nothing /\ primary'.link = Nothing
  BY <1>0, PrimaryFields
<1>2. PrimaryTypeOK' BY <1>0 DEF PrimaryTypeOK
<1>3. ChecksLast' /\ PromotersSawNone' BY <1>0 DEF ChecksLast, PromotersSawNone
<1>4. PrimaryShows' /\ NoStalePointer' BY <1>1 DEF PrimaryShows, NoStalePointer
<1> QED BY <1>2, <1>3, <1>4

LEMMA PromoteReadKeeps == ASSUME PrimaryInv, NEW v \in Videos, PromoteRead(v) PROVE PrimaryInv'
<1> USE DEF PrimaryInv
<1>0. /\ promoting' = [promoting EXCEPT ![v] = "free"]
      /\ UNCHANGED <<primary, content, gone, removing, patch, overrun>>
  BY DEF PromoteRead, NoReadyPrimary
<1>1. PrimaryTypeOK' BY <1>0 DEF PrimaryTypeOK
<1>2. ChecksLast' BY <1>0 DEF ChecksLast
<1>3. PromotersSawNone' BY <1>0 DEF PromotersSawNone, PrimaryTypeOK
<1>4. PrimaryShows' /\ NoStalePointer' BY <1>0, PointersKept
<1> QED BY <1>1, <1>2, <1>3, <1>4

LEMMA PromoteWriteKeeps == ASSUME PrimaryInv, NEW v \in Videos, PromoteWrite(v) PROVE PrimaryInv'
<1> USE DEF PrimaryInv
<1>0. /\ promoting[v] \notin {"no", "done"} /\ primary' = [primary EXCEPT !.video = v]
      /\ overrun' = (overrun \/ (promoting[v] = "free" /\ ReadyVideo(primary.video)))
      /\ promoting' = [promoting EXCEPT ![v] = "done"]
      /\ UNCHANGED <<content, gone, removing, patch>>
  BY DEF PromoteWrite
<1>1. promoting[v] = "free" BY <1>0 DEF PromotersSawNone
<1>2. PrimaryTypeOK' BY <1>0 DEF PrimaryTypeOK
<1>3. ChecksLast' BY <1>0 DEF ChecksLast
<1>4. PromotersSawNone' BY <1>0 DEF PromotersSawNone, PrimaryTypeOK
<1>5. /\ primary'.kind = primary.kind
      /\ primary'.document = primary.document /\ primary'.link = primary.link
  BY <1>0, PrimaryFields
<1>6. ~overrun' /\ primary.kind = "video" => FALSE
  BY <1>0, <1>1, KindsOfContents DEF PrimaryShows, Shows, ReadyVideo
<1>7. PrimaryShows' BY <1>0, <1>5, <1>6 DEF PrimaryShows, Shows
<1>8. NoStalePointer' BY <1>5 DEF NoStalePointer
<1> QED BY <1>2, <1>3, <1>4, <1>7, <1>8

LEMMA RemoveBeginKeeps == ASSUME PrimaryInv, NEW x \in Contents, RemoveBegin(x) PROVE PrimaryInv'
<1> USE DEF PrimaryInv
<1>0. /\ x \notin gone \union removing \union Videos
      /\ UNCHANGED <<content, patch, promoting, overrun>>
  BY DEF RemoveBegin
<1>1. x \in Documents \union Links BY <1>0 DEF Contents
<1>2. ChecksLast' /\ PromotersSawNone' BY <1>0 DEF ChecksLast, PromotersSawNone
<1>3. CASE IsPrimary(x)
  <2>0. primary' = Unset(x) /\ gone' = gone \union {x} /\ removing' = removing BY <1>3 DEF RemoveBegin
  <2>1. /\ primary'.kind = "none" /\ primary'.video = primary.video
        /\ primary'.document = IF x \in Documents THEN Nothing ELSE primary.document
        /\ primary'.link = IF x \in Links THEN Nothing ELSE primary.link
        /\ primary' \in [kind : {"none", "video", "document", "link"}, video : Videos \union {Nothing},
                         document : Documents \union {Nothing}, link : Links \union {Nothing}]
    <3>1. CASE x \in Documents
      <4>1. KindOf(x) = "document" /\ x \notin Links BY <3>1, KindsOfContents
      <4>2. primary' = [primary EXCEPT !.kind = "none", !.document = Nothing]
        BY <2>0, <4>1 DEF Unset
      <4> QED BY <3>1, <4>1, <4>2, PrimaryFields
    <3>2. CASE x \in Links
      <4>1. KindOf(x) = "link" /\ x \notin Documents BY <3>2, KindsOfContents
      <4>2. primary' = [primary EXCEPT !.kind = "none", !.link = Nothing]
        BY <2>0, <4>1 DEF Unset
      <4> QED BY <3>2, <4>1, <4>2, PrimaryFields
    <3> QED BY <1>1, <3>1, <3>2
  <2>2. PrimaryTypeOK' BY <1>0, <1>1, <2>0, <2>1 DEF PrimaryTypeOK
  <2>3. PrimaryShows' BY <2>1 DEF PrimaryShows
  <2>4. NoStalePointer'
    <3>1. primary.kind = KindOf(x) BY <1>3 DEF IsPrimary
    <3>2. x \in Documents => primary.link = Nothing BY <3>1, KindsOfContents DEF NoStalePointer
    <3>3. x \in Links => primary.document = Nothing BY <3>1, KindsOfContents DEF NoStalePointer
    <3> QED BY <1>1, <2>1, <3>2, <3>3 DEF NoStalePointer
  <2> QED BY <1>2, <2>2, <2>3, <2>4
<1>4. CASE ~IsPrimary(x)
  <2>0. removing' = removing \union {x} /\ UNCHANGED <<primary, gone>> BY <1>4 DEF RemoveBegin
  <2>1. PrimaryTypeOK' BY <1>0, <1>1, <2>0 DEF PrimaryTypeOK
  <2>2. /\ primary.kind = "document" => primary.document # x
        /\ primary.kind = "link" => primary.link # x
    <3>1. CASE x \in Documents BY <1>4, <3>1, KindsOfContents, PrimaryFields DEF IsPrimary
    <3>2. CASE x \in Links BY <1>4, <3>2, KindsOfContents, PrimaryFields DEF IsPrimary
    <3> QED BY <1>1, <3>1, <3>2
  <2>3. primary.video # x BY <1>1, KindsOfContents, PrimaryFields DEF Contents
  <2>4. PrimaryShows' BY <1>0, <2>0, <2>2, <2>3 DEF PrimaryShows, Shows
  <2>5. NoStalePointer' BY <2>0 DEF NoStalePointer
  <2> QED BY <1>2, <2>1, <2>4, <2>5
<1> QED BY <1>3, <1>4

LEMMA RemoveCommitKeeps == ASSUME PrimaryInv, NEW x \in Contents, RemoveCommit(x) PROVE PrimaryInv'
<1> USE DEF PrimaryInv
<1>0. /\ x \in removing /\ removing' = removing \ {x} /\ gone' = gone \union {x}
      /\ primary' = IF primary.link = x THEN [primary EXCEPT !.link = Nothing] ELSE primary
      /\ UNCHANGED <<content, patch, promoting, overrun>>
  BY DEF RemoveCommit
<1>1. /\ primary'.kind = primary.kind /\ primary'.video = primary.video
      /\ primary'.document = primary.document
      /\ primary'.link = IF primary.link = x THEN Nothing ELSE primary.link
  BY <1>0, PrimaryFields
<1>2. PrimaryTypeOK' BY <1>0 DEF PrimaryTypeOK
<1>3. ChecksLast' /\ PromotersSawNone' BY <1>0 DEF ChecksLast, PromotersSawNone
<1>4. PrimaryShows' BY <1>0, <1>1 DEF PrimaryShows, Shows
<1>5. NoStalePointer' BY <1>1 DEF NoStalePointer
<1> QED BY <1>2, <1>3, <1>4, <1>5

LEMMA PrimaryStart == PrimaryInit => PrimaryInv
<1> SUFFICES ASSUME PrimaryInit PROVE PrimaryInv OBVIOUS
<1> USE DEF PrimaryInit
<1>1. PrimaryTypeOK BY DEF PrimaryTypeOK, NoPatch
<1>2. ChecksLast /\ PromotersSawNone BY DEF ChecksLast, PromotersSawNone, NoPatch
<1>3. PrimaryShows /\ NoStalePointer BY DEF PrimaryShows, NoStalePointer
<1> QED BY <1>1, <1>2, <1>3 DEF PrimaryInv

LEMMA PrimaryStep == PrimaryInv /\ [PrimaryNext]_primaryVars => PrimaryInv'
<1> SUFFICES ASSUME PrimaryInv, [PrimaryNext]_primaryVars PROVE PrimaryInv' OBVIOUS
<1>1. CASE UNCHANGED primaryVars
  <2> USE <1>1 DEF PrimaryInv, primaryVars
  <2>1. PrimaryTypeOK' BY DEF PrimaryTypeOK
  <2>2. ChecksLast' /\ PromotersSawNone' BY DEF ChecksLast, PromotersSawNone
  <2>3. PrimaryShows' /\ NoStalePointer' BY DEF PrimaryShows, Shows, NoStalePointer
  <2> QED BY <2>1, <2>2, <2>3
<1>2. ASSUME NEW x \in Contents,
             Settle(x) \/ RemoveBegin(x) \/ RemoveCommit(x) \/ \E p \in Patches : PatchCheck(p, x)
      PROVE  PrimaryInv'
  BY <1>2, SettleKeeps, RemoveBeginKeeps, RemoveCommitKeeps, PatchCheckKeeps
<1>3. ASSUME NEW p \in Patches, PatchWrite(p) \/ PointVideo(p) PROVE PrimaryInv'
  BY <1>3, PatchWriteKeeps, PointVideoKeeps
<1>4. ASSUME NEW v \in Videos, PromoteRead(v) \/ PromoteWrite(v) PROVE PrimaryInv'
  BY <1>4, PromoteReadKeeps, PromoteWriteKeeps
<1> QED BY <1>1, <1>2, <1>3, <1>4, PatchClearKeeps DEF PrimaryNext

\* Through any order of requests, promotions and removals the primary is a content
\* that is there and ready, and no pointer of another kind is left behind
\* (UpdateSessionPrimary, setPrimaryIfNotSet, SoftDeleteMaterial, DeleteSessionLink).
THEOREM PrimaryIsHeld == PrimarySpec => []PrimaryHolds
<1>1. PrimaryInv => PrimaryHolds
  <2> SUFFICES ASSUME PrimaryInv PROVE PrimaryHolds OBVIOUS
  <2> USE DEF PrimaryInv
  <2>1. ASSUME primary.kind # "none", ~overrun
        PROVE  LET x == primary[primary.kind] IN x # Nothing /\ x \notin gone /\ content[x] = "ready"
    <3>1. CASE primary.kind = "video" BY <2>1, <3>1, KindsOfContents DEF PrimaryShows, Shows
    <3>2. CASE primary.kind = "document" BY <2>1, <3>2, KindsOfContents DEF PrimaryShows, Shows
    <3>3. CASE primary.kind = "link" BY <2>1, <3>3, KindsOfContents DEF PrimaryShows, Shows
    <3> QED BY <2>1, <3>1, <3>2, <3>3, PrimaryFields
  <2>2. PrimaryIsThere BY <2>1 DEF PrimaryIsThere
  <2> QED BY <2>2 DEF PrimaryHolds
<1> QED BY <1>1, PrimaryStart, PrimaryStep, PTL DEF PrimarySpec

-----------------------------------------------------------------------------
(* The answers and the panel (AnswerReview).                                *)

DutyType == [op : {"none", "manual", "draft", "drop", "confirm", "delete", "sync"},
             at : {"start", "delete", "write", "look", "clear", "insert", "over"},
             on : AnswerIds \union {NoAnswer}, seen : AnswerIds \union {NoAnswer},
             todo : SUBSET Questions, found : SUBSET Recommendations]

\* What a draft's request is about to delete is not confirmed, unless the
\* confirmation came between; and a confirmation is of an answer.
Spares(w) ==
  /\ w.op \in {"draft", "drop"} /\ w.at = "delete" => w.seen \notin confirmed \ overtaken
  /\ w.op = "confirm" => w.seen \in AnswerIds
DraftsSpare == \A c \in Clerks : Spares(duty[c])

\* An answer is written by the ask of its question, or by a request that began.
WritersKnown ==
  \A q \in Questions : \A i \in DOMAIN thread[q] :
    thread[q][i] \in Clerks => duty[thread[q][i]].op # "none"

\* While a draft is generated its question has nothing but drafts, unless another
\* answer was given since.
DraftsAlone ==
  \A c \in Generating \ overtaken :
    /\ duty[c].on \in Questions
    /\ \A i \in DOMAIN thread[duty[c].on] : IsDraft(thread[duty[c].on][i])

\* A sync inserts advice of its own; one that no other sync and no deletion runs
\* beside has advice on published questions only, once each, and the panel to itself.
Advises(c, w) ==
  /\ \A r \in w.found : r.by = c
  /\ c \notin blurred =>
       /\ Syncing = {c} /\ w.todo \subseteq published
       /\ \A r \in w.found :
            /\ r.on \in published \ w.todo
            /\ \A s \in w.found : s.on = r.on => s = r
       /\ w.at = "insert" => \A s \in panel : s.by = c /\ \A r \in w.found : s.on # r.on
SyncsAlone == \A c \in Syncing : Advises(c, duty[c])

ThreadInv == WritersKnown /\ DraftsAlone /\ NoAnswerShadowed
SyncInv == SyncsAlone /\ PanelAgrees
ReviewInv == ReviewTypeOK /\ DraftsSpare /\ ThreadInv /\ SyncInv

LEMMA ReviewTypes ==
  ReviewTypeOK <=>
    /\ thread \in [Questions -> Seq(AnswerIds)]
    /\ published \subseteq Questions /\ asking \subseteq Questions
    /\ confirmed \subseteq AnswerIds /\ overtaken \subseteq AnswerIds
    /\ duty \in [Clerks -> DutyType]
    /\ panel \subseteq Recommendations /\ blurred \subseteq Clerks
  BY DEF ReviewTypeOK, DutyType

LEMMA ReviewInitInv == ReviewInit => ReviewInv
<1> SUFFICES ASSUME ReviewInit PROVE ReviewInv OBVIOUS
<1> USE DEF ReviewInit
<1>1. Waiting \in DutyType BY DEF Waiting, DutyType
<1>2. ReviewTypeOK BY <1>1, ReviewTypes
<1>3. DraftsSpare /\ WritersKnown /\ NoAnswerShadowed /\ PanelAgrees
  BY DEF DraftsSpare, Spares, WritersKnown, NoAnswerShadowed, PanelAgrees, Waiting
<1>4. DraftsAlone BY DEF DraftsAlone, Generating, Waiting
<1>5. SyncsAlone BY DEF SyncsAlone, Syncing, Waiting
<1> QED BY <1>2, <1>3, <1>4, <1>5 DEF ReviewInv, ThreadInv, SyncInv

-----------------------------------------------------------------------------
(* Threads *)

\* A thread of which rows are gone: the ones that are left keep their order.
Thinned(t, s) ==
  \A j \in DOMAIN t : \E k \in DOMAIN s :
    t[j] = s[k] /\ \A l \in 1..(j - 1) : \E m \in 1..(k - 1) : t[l] = s[m]

LEMMA ThinnedBasics ==
  ASSUME NEW S, NEW s \in Seq(S)
  PROVE  Thinned(s, s) /\ Thinned(<< >>, s)
  BY DEF Thinned

LEMMA RemovedOne ==
  ASSUME NEW S, NEW s \in Seq(S), NEW i \in 1..Len(s)
  PROVE  /\ RemoveAt(s, i) \in Seq(S) /\ Thinned(RemoveAt(s, i), s)
         /\ \A k \in 1..Len(s) : k # i => Contains(RemoveAt(s, i), s[k])
<1>1. PICK t : t = RemoveAt(s, i) OBVIOUS
<1>a. PICK u : u = SubSeq(s, 1, i - 1) OBVIOUS
<1>b. PICK v : v = SubSeq(s, i + 1, Len(s)) OBVIOUS
<1>c. u \in Seq(S) /\ Len(u) = i - 1 /\ \A j \in 1..(i - 1) : u[j] = s[j]
  BY <1>a, SubSeqProperties
<1>d. v \in Seq(S) /\ Len(v) = Len(s) - i /\ \A j \in 1..(Len(s) - i) : v[j] = s[i + j]
  <2>1. Len(s) \in Nat /\ i + 1 \in Int /\ \A k \in (i + 1)..Len(s) : s[k] \in S OBVIOUS
  <2>2. /\ v \in Seq(S) /\ Len(v) = IF i + 1 <= Len(s) THEN Len(s) - (i + 1) + 1 ELSE 0
        /\ \A j \in 1..(Len(s) - (i + 1) + 1) : v[j] = s[(i + 1) + j - 1]
    BY <2>1, <1>b, SubSeqProperties
  <2>3. Len(v) = Len(s) - i BY <2>1, <2>2
  <2>4. ASSUME NEW j \in 1..(Len(s) - i) PROVE v[j] = s[i + j]
    <3>1. j \in 1..(Len(s) - (i + 1) + 1) /\ (i + 1) + j - 1 = i + j BY <2>1
    <3> QED BY <3>1, <2>2
  <2> QED BY <2>2, <2>3, <2>4
<1>e. t = u \o v BY <1>1, <1>a, <1>b DEF RemoveAt
<1>2. t \in Seq(S) /\ Len(t) = Len(s) - 1 BY <1>c, <1>d, <1>e
<1>3. \A j \in 1..Len(t) : t[j] = IF j < i THEN s[j] ELSE s[j + 1]
  <2>1. Len(s) \in Nat /\ \A j \in 1..Len(t) : j \in 1..(Len(u) + Len(v))
    BY <1>2, <1>c, <1>d
  <2>2. \A j \in 1..(Len(u) + Len(v)) : t[j] = IF j <= Len(u) THEN u[j] ELSE v[j - Len(u)]
    BY <1>c, <1>d, <1>e, ConcatProperties
  <2> SUFFICES ASSUME NEW j \in 1..Len(t) PROVE t[j] = IF j < i THEN s[j] ELSE s[j + 1]
    OBVIOUS
  <2>3. CASE j < i
    <3>1. j <= Len(u) /\ j \in 1..(i - 1) BY <2>1, <2>3, <1>c
    <3> QED BY <3>1, <2>1, <2>2, <2>3, <1>c
  <2>4. CASE ~(j < i)
    <3>1. PICK k \in 1..(Len(s) - i) : k = j - (i - 1) BY <2>1, <2>4, <1>2
    <3>2. ~(j <= Len(u)) /\ j - Len(u) = k /\ i + k = j + 1 BY <2>1, <2>4, <3>1, <1>c
    <3> QED BY <2>1, <2>2, <2>4, <3>1, <3>2, <1>d
  <2> QED BY <2>3, <2>4
<1>4. Len(s) \in Nat /\ Len(t) \in Nat /\ DOMAIN t = 1..Len(t) /\ DOMAIN s = 1..Len(s)
  BY <1>2
<1>5. Thinned(t, s)
  <2> SUFFICES ASSUME NEW j \in DOMAIN t
               PROVE  \E k \in DOMAIN s :
                        t[j] = s[k] /\ \A l \in 1..(j - 1) : \E m \in 1..(k - 1) : t[l] = s[m]
    BY DEF Thinned
  <2>1. PICK k \in 1..Len(s) : k = (IF j < i THEN j ELSE j + 1) BY <1>2, <1>4
  <2>2. t[j] = s[k] BY <1>3, <2>1
  <2>3. ASSUME NEW l \in 1..(j - 1) PROVE \E m \in 1..(k - 1) : t[l] = s[m]
    <3>1. PICK m \in 1..(k - 1) : m = (IF l < i THEN l ELSE l + 1) BY <1>4, <2>1
    <3>2. l \in 1..Len(t) BY <1>4
    <3> QED BY <1>3, <3>1, <3>2
  <2> QED BY <1>4, <2>2, <2>3
<1>6. ASSUME NEW k \in 1..Len(s), k # i PROVE Contains(t, s[k])
  <2>1. PICK j \in 1..Len(t) : j = (IF k < i THEN k ELSE k - 1) BY <1>2, <1>4, <1>6
  <2>2. t[j] = s[k] BY <1>3, <1>4, <1>6, <2>1
  <2> QED BY <2>2 DEF Contains
<1> QED BY <1>1, <1>2, <1>5, <1>6

LEMMA Deletes ==
  ASSUME ReviewTypeOK, NEW a, thread' = DeleteAnswer(a)
  PROVE  /\ thread' \in [Questions -> Seq(AnswerIds)]
         /\ \A q \in Questions : Thinned(thread'[q], thread[q])
         /\ \A q \in Questions, b \in AnswerIds :
              b # a /\ Contains(thread[q], b) => Contains(thread'[q], b)
<1>1. ASSUME NEW q \in Questions
      PROVE  /\ thread'[q] \in Seq(AnswerIds) /\ Thinned(thread'[q], thread[q])
             /\ \A b \in AnswerIds : b # a /\ Contains(thread[q], b) => Contains(thread'[q], b)
  <2>1. thread[q] \in Seq(AnswerIds) BY DEF ReviewTypeOK
  <2>2. CASE ~Contains(thread[q], a)
    BY <2>1, <2>2, ThinnedBasics DEF DeleteAnswer
  <2>3. CASE Contains(thread[q], a)
    <3>1. PICK i : i = CHOOSE n \in DOMAIN thread[q] : thread[q][n] = a OBVIOUS
    <3>2. i \in 1..Len(thread[q]) /\ thread[q][i] = a BY <2>1, <2>3, <3>1 DEF Contains
    <3>3. thread'[q] = RemoveAt(thread[q], i) BY <2>3, <3>1 DEF DeleteAnswer
    <3>4. /\ thread'[q] \in Seq(AnswerIds) /\ Thinned(thread'[q], thread[q])
          /\ \A k \in 1..Len(thread[q]) : k # i => Contains(thread'[q], thread[q][k])
      BY <2>1, <3>2, <3>3, RemovedOne
    <3> QED BY <3>2, <3>4 DEF Contains
  <2> QED BY <2>2, <2>3
<1>2. thread' = [q \in Questions |-> thread'[q]] BY DEF DeleteAnswer
<1> QED BY <1>1, <1>2

-----------------------------------------------------------------------------
(* Requests move on *)

LEMMA DutyMoves ==
  ASSUME ReviewTypeOK, NEW c \in Clerks, NEW w \in DutyType, duty' = [duty EXCEPT ![c] = w]
  PROVE  /\ duty' \in [Clerks -> DutyType] /\ duty'[c] = w
         /\ \A d \in Clerks : d # c => duty'[d] = duty[d]
  BY ReviewTypes

LEMMA Enters ==
  ASSUME NEW c \in Clerks, NEW op \in {"manual", "draft", "drop", "confirm", "delete"},
         NEW next \in {"delete", "write"}, NEW on \in AnswerIds, NEW found \in AnswerIds \union {NoAnswer},
         Enter(c, op, next, on, found)
  PROVE  \E w \in DutyType :
           /\ duty' = [duty EXCEPT ![c] = w]
           /\ w.op = op /\ w.at = next /\ w.on = on /\ w.seen = found
<1>1. PICK w : w = [Waiting EXCEPT !.op = op, !.at = next, !.on = on, !.seen = found] OBVIOUS
<1>2. w \in DutyType /\ w.op = op /\ w.at = next /\ w.on = on /\ w.seen = found
  BY <1>1 DEF Waiting, DutyType
<1> QED BY <1>1, <1>2 DEF Enter

LEMMA GoesOn ==
  ASSUME ReviewTypeOK, NEW c \in Clerks, NEW next \in {"write", "insert", "over"}, Go(c, next)
  PROVE  \E w \in DutyType :
           /\ duty' = [duty EXCEPT ![c] = w] /\ w.at = next
           /\ w.op = duty[c].op /\ w.on = duty[c].on /\ w.seen = duty[c].seen
           /\ w.todo = duty[c].todo /\ w.found = duty[c].found
<1>1. duty[c] \in DutyType /\ duty \in [Clerks -> DutyType] BY ReviewTypes
<1>2. PICK w : w = [duty[c] EXCEPT !.at = next] OBVIOUS
<1>3. /\ w \in DutyType /\ w.at = next
      /\ w.op = duty[c].op /\ w.on = duty[c].on /\ w.seen = duty[c].seen
      /\ w.todo = duty[c].todo /\ w.found = duty[c].found
  BY <1>1, <1>2 DEF DutyType
<1>4. duty' = [duty EXCEPT ![c] = w] BY <1>1, <1>2 DEF DutyType, Go
<1> QED BY <1>3, <1>4

\* What is no sync leaves the syncs as they are.
LEMMA SyncKept ==
  ASSUME ReviewInv, NEW c \in Clerks, NEW w \in DutyType, duty' = [duty EXCEPT ![c] = w],
         duty[c].op # "sync", w.op # "sync", UNCHANGED <<published, panel, blurred>>
  PROVE  SyncInv'
<1>1. /\ duty'[c] = w /\ \A d \in Clerks : d # c => duty'[d] = duty[d]
  BY DutyMoves DEF ReviewInv
<1>2. Syncing' = Syncing /\ \A d \in Syncing : duty'[d] = duty[d] BY <1>1 DEF Syncing
<1>3. SyncsAlone'
  <2> SUFFICES ASSUME NEW d \in Syncing, NEW u, u = duty'[d] PROVE Advises(d, u)'
    BY <1>2 DEF SyncsAlone, Advises
  <2>1. Advises(d, duty[d]) BY DEF ReviewInv, SyncInv, SyncsAlone
  <2> QED BY <1>2, <2>1 DEF Advises
<1>4. PanelAgrees' BY DEF ReviewInv, SyncInv, PanelAgrees
<1> QED BY <1>3, <1>4 DEF SyncInv

\* No request changes its kind, so no answer stops being a draft.
LEMMA DraftsStay ==
  ASSUME ReviewTypeOK, NEW c \in Clerks, NEW w \in DutyType, duty' = [duty EXCEPT ![c] = w],
         duty[c].op = "none" \/ w.op = duty[c].op
  PROVE  /\ \A a : IsDraft(a) => IsDraft(a)'
         /\ \A a \in Clerks : duty[a].op # "none" => duty'[a].op = duty[a].op
  BY DutyMoves DEF IsDraft

\* The generic step of a request on the threads: rows may go, none comes.
LEMMA ThreadKept ==
  ASSUME ReviewInv, NEW c \in Clerks, NEW w \in DutyType, duty' = [duty EXCEPT ![c] = w],
         duty[c].op = "none" \/ w.op = duty[c].op,
         thread' \in [Questions -> Seq(AnswerIds)],
         \A q \in Questions : Thinned(thread'[q], thread[q]),
         overtaken \subseteq overtaken',
         w.op = "draft" /\ w.at \in {"delete", "write"} /\ c \notin overtaken' =>
           /\ w.on \in Questions
           /\ \A i \in DOMAIN thread[w.on] : IsDraft(thread[w.on][i])
  PROVE  ThreadInv'
<1>1. ReviewTypeOK /\ WritersKnown /\ DraftsAlone /\ NoAnswerShadowed BY DEF ReviewInv, ThreadInv
<1>2. /\ duty'[c] = w /\ \A d \in Clerks : d # c => duty'[d] = duty[d]
      /\ \A a : IsDraft(a) => IsDraft(a)'
      /\ \A a \in Clerks : duty[a].op # "none" => duty'[a].op = duty[a].op
  BY <1>1, DutyMoves, DraftsStay
<1>3. WritersKnown'
  <2> SUFFICES ASSUME NEW q \in Questions, NEW i \in DOMAIN thread'[q], thread'[q][i] \in Clerks
               PROVE  duty'[thread'[q][i]].op # "none"
    BY DEF WritersKnown
  <2>1. PICK k \in DOMAIN thread[q] : thread'[q][i] = thread[q][k] BY DEF Thinned
  <2> QED BY <1>1, <1>2, <2>1 DEF WritersKnown
<1>4. NoAnswerShadowed'
  <2> SUFFICES ASSUME NEW q \in Questions, NEW i \in DOMAIN thread'[q], NEW a, a = thread'[q][i],
                      IsDraft(a)', a \notin overtaken', NEW j \in 1..(i - 1),
                      NEW b, b = thread'[q][j]
               PROVE  IsDraft(b)'
    BY DEF NoAnswerShadowed, IsDraft
  <2>1. PICK k \in DOMAIN thread[q] :
          a = thread[q][k] /\ \E m \in 1..(k - 1) : b = thread[q][m]
    BY DEF Thinned
  <2>2. IsDraft(a) BY <1>1, <1>2, <2>1 DEF IsDraft, WritersKnown
  <2>3. IsDraft(b) BY <1>1, <2>1, <2>2 DEF NoAnswerShadowed
  <2> QED BY <1>2, <2>3
<1>5. DraftsAlone'
  <2> SUFFICES ASSUME NEW d \in Clerks, duty'[d].op = "draft", duty'[d].at \in {"delete", "write"},
                      d \notin overtaken'
               PROVE  /\ duty'[d].on \in Questions
                      /\ \A i \in DOMAIN thread'[duty'[d].on] : IsDraft(thread[duty[d].on][i])'
    BY DEF DraftsAlone, Generating
  <2>1. PICK q : q = duty'[d].on OBVIOUS
  <2>2. q \in Questions /\ \A i \in DOMAIN thread[q] : IsDraft(thread[q][i])
    <3>1. CASE d = c BY <2>1, <3>1, <1>2
    <3>2. CASE d # c BY <2>1, <3>2, <1>1, <1>2 DEF DraftsAlone, Generating
    <3> QED BY <3>1, <3>2
  <2>3. ASSUME NEW i \in DOMAIN thread'[q], NEW a, a = thread'[q][i] PROVE IsDraft(a)'
    <3>1. PICK k \in DOMAIN thread[q] : a = thread[q][k] BY <2>2, <2>3 DEF Thinned
    <3> QED BY <1>2, <2>2, <3>1
  <2> QED BY <2>1, <2>2, <2>3 DEF IsDraft
<1> QED BY <1>3, <1>4, <1>5 DEF ThreadInv

\* The generic step of a new answer: behind drafts only when it is one, and given
\* beside the drafts of its question under way only when they are told of it.
LEMMA AnswerStands ==
  ASSUME ReviewInv, NEW q \in Questions, NEW a \in AnswerIds, CreateAnswer(q, a),
         duty' \in [Clerks -> DutyType],
         \A d \in Clerks :
           /\ duty'[d].op = duty[d].op /\ duty'[d].on = duty[d].on
           /\ duty'[d].at \in {"delete", "write"} => duty'[d].at = duty[d].at,
         a \in Clerks => duty[a].op # "none",
         overtaken \subseteq overtaken',
         IF IsDraft(a) THEN a \notin overtaken' => \A i \in DOMAIN thread[q] : IsDraft(thread[q][i])
                       ELSE GeneratingFor(q) \subseteq overtaken'
  PROVE  thread' \in [Questions -> Seq(AnswerIds)] /\ ThreadInv'
<1>1. /\ ReviewTypeOK /\ WritersKnown /\ DraftsAlone /\ NoAnswerShadowed
      /\ thread \in [Questions -> Seq(AnswerIds)]
  BY DEF ReviewInv, ThreadInv, ReviewTypeOK
<1>2. \A b : IsDraft(b)' <=> IsDraft(b) BY DEF IsDraft
<1>3. thread' \in [Questions -> Seq(AnswerIds)] BY <1>1 DEF CreateAnswer
<1>4. ASSUME NEW p \in Questions, NEW i \in DOMAIN thread'[p]
      PROVE  \/ /\ i \in DOMAIN thread[p] /\ thread'[p][i] = thread[p][i]
                /\ \A j \in 1..(i - 1) : j \in DOMAIN thread[p] /\ thread'[p][j] = thread[p][j]
             \/ /\ p = q /\ thread'[p][i] = a
                /\ \A j \in 1..(i - 1) : j \in DOMAIN thread[p] /\ thread'[p][j] = thread[p][j]
  <2>1. thread[p] \in Seq(AnswerIds) BY <1>1
  <2>2. CASE thread'[p] = thread[p] BY <2>1, <2>2, <1>4
  <2>3. CASE p = q /\ thread'[p] = Append(thread[p], a)
    <3>1. i \in 1..(Len(thread[p]) + 1) /\ Len(thread[p]) \in Nat BY <2>1, <2>3, <1>4
    <3>2. \A j \in 1..Len(thread[p]) : thread'[p][j] = thread[p][j] BY <2>1, <2>3
    <3>3. thread'[p][Len(thread[p]) + 1] = a BY <2>1, <2>3
    <3>4. DOMAIN thread[p] = 1..Len(thread[p]) BY <2>1
    <3> QED BY <2>3, <3>1, <3>2, <3>3, <3>4
  <2>4. thread'[p] = thread[p] \/ (p = q /\ thread'[p] = Append(thread[p], a))
    BY <1>1 DEF CreateAnswer
  <2> QED BY <2>2, <2>3, <2>4
<1>5. WritersKnown'
  <2> SUFFICES ASSUME NEW p \in Questions, NEW i \in DOMAIN thread'[p], thread'[p][i] \in Clerks
               PROVE  duty'[thread'[p][i]].op # "none"
    BY DEF WritersKnown
  <2>1. PICK b : b = thread'[p][i] OBVIOUS
  <2>2. b = a \/ \E k \in DOMAIN thread[p] : b = thread[p][k] BY <2>1, <1>4
  <2>3. b \in Clerks => duty[b].op # "none" BY <1>1, <2>2 DEF WritersKnown
  <2> QED BY <2>1, <2>3
<1>6. NoAnswerShadowed'
  <2> SUFFICES ASSUME NEW p \in Questions, NEW i \in DOMAIN thread'[p], NEW b, b = thread'[p][i],
                      IsDraft(b), b \notin overtaken', NEW j \in 1..(i - 1)
               PROVE  IsDraft(thread'[p][j])
    BY <1>2 DEF NoAnswerShadowed, IsDraft
  <2>1. CASE i \in DOMAIN thread[p] /\ thread'[p][i] = thread[p][i]
    <3>1. thread'[p][j] = thread[p][j]
      BY <1>4, <1>1, <2>1
    <3> QED BY <1>1, <2>1, <3>1 DEF NoAnswerShadowed
  <2>2. CASE p = q /\ thread'[p][i] = a /\ i \notin DOMAIN thread[p]
    <3>1. j \in DOMAIN thread[p] /\ thread'[p][j] = thread[p][j] BY <1>4, <2>2
    <3> QED BY <2>2, <3>1
  <2> QED BY <1>4, <2>1, <2>2
<1>7. DraftsAlone'
  <2> SUFFICES ASSUME NEW d \in Clerks, duty'[d].op = "draft", duty'[d].at \in {"delete", "write"},
                      d \notin overtaken'
               PROVE  /\ duty'[d].on \in Questions
                      /\ \A i \in DOMAIN thread'[duty'[d].on] : IsDraft(thread[duty[d].on][i])'
    BY DEF DraftsAlone, Generating
  <2>1. PICK p : p = duty[d].on /\ p = duty'[d].on OBVIOUS
  <2>2. d \in Generating \ overtaken BY DEF Generating
  <2>3. p \in Questions /\ \A i \in DOMAIN thread[p] : IsDraft(thread[p][i])
    BY <1>1, <2>1, <2>2 DEF DraftsAlone
  <2>4. ASSUME NEW i \in DOMAIN thread'[p], NEW b, b = thread'[p][i] PROVE IsDraft(b)
    <3>1. CASE i \in DOMAIN thread[p] /\ b = thread[p][i] BY <2>3, <3>1
    <3>2. CASE p = q /\ b = a BY <2>1, <2>2, <3>2 DEF GeneratingFor
    <3> QED BY <1>4, <2>3, <2>4, <3>1, <3>2
  <2> QED BY <1>2, <2>1, <2>3, <2>4 DEF IsDraft
<1> QED BY <1>3, <1>5, <1>6, <1>7 DEF ThreadInv

LEMMA SpareKept ==
  ASSUME ReviewInv, NEW c \in Clerks, NEW w \in DutyType, duty' = [duty EXCEPT ![c] = w],
         \A d \in Clerks : duty[d].at = "delete" /\ duty[d].seen \in confirmed' \ overtaken' =>
                             duty[d].seen \in confirmed \ overtaken,
         w.op \in {"draft", "drop"} /\ w.at = "delete" => w.seen \notin confirmed' \ overtaken',
         w.op = "confirm" => w.seen \in AnswerIds
  PROVE  DraftsSpare'
<1>1. /\ duty'[c] = w /\ \A d \in Clerks : d # c => duty'[d] = duty[d]
  BY DutyMoves DEF ReviewInv
<1> QED BY <1>1 DEF ReviewInv, DraftsSpare, Spares

LEMMA LatestKnown ==
  ASSUME ReviewTypeOK, NEW q \in Questions
  PROVE  \/ LatestAnswer(q) = NoAnswer /\ thread[q] = << >>
         \/ /\ LatestAnswer(q) \in AnswerIds /\ LatestAnswer(q) # NoAnswer
            /\ Len(thread[q]) \in DOMAIN thread[q] /\ DOMAIN thread[q] = 1..Len(thread[q])
            /\ LatestAnswer(q) = thread[q][Len(thread[q])]
<1>1. thread[q] \in Seq(AnswerIds) BY DEF ReviewTypeOK
<1>2. NoAnswer \notin AnswerIds BY ReviewAssumption DEF AnswerIds
<1>3. CASE thread[q] = << >> BY <1>3 DEF LatestAnswer
<1>4. CASE thread[q] # << >> BY <1>1, <1>2, <1>4 DEF LatestAnswer, Last
<1> QED BY <1>3, <1>4

LEMMA QuestionFound ==
  ASSUME ReviewTypeOK, NEW a, Standing(a)
  PROVE  QuestionOf(a) \in AnswerIds
  BY DEF ReviewTypeOK, Standing, QuestionOf, AnswerIds

\* A request that only reads, and what it may decide on.
LEMMA ReadKeeps ==
  ASSUME ReviewInv, NEW c \in Clerks, NEW w \in DutyType, duty' = [duty EXCEPT ![c] = w],
         duty[c].op = "none", w.op \in {"manual", "draft", "drop", "confirm", "delete"},
         UNCHANGED <<thread, published, asking, confirmed, panel, blurred>>,
         overtaken \subseteq overtaken', overtaken' \subseteq AnswerIds,
         w.op \in {"draft", "drop"} /\ w.at = "delete" => w.seen \notin confirmed,
         w.op = "confirm" => w.seen \in AnswerIds,
         w.op = "draft" /\ c \notin overtaken' =>
           /\ w.on \in Questions
           /\ \A i \in DOMAIN thread[w.on] : IsDraft(thread[w.on][i])
  PROVE  ReviewInv'
<1>0. ReviewTypeOK /\ thread \in [Questions -> Seq(AnswerIds)]
  BY DEF ReviewInv, ReviewTypeOK
<1>1. duty' \in [Clerks -> DutyType] BY <1>0, DutyMoves
<1>2. ReviewTypeOK' BY <1>0, <1>1 DEF ReviewTypeOK, DutyType
<1>3. DraftsSpare' BY SpareKept
<1>4. \A q \in Questions : Thinned(thread'[q], thread[q]) BY <1>0, ThinnedBasics
<1>5. ThreadInv' BY <1>0, <1>4, ThreadKept
<1>6. SyncInv' BY SyncKept
<1> QED BY <1>2, <1>3, <1>5, <1>6 DEF ReviewInv

LEMMA ManualReadKeeps ==
  ASSUME ReviewInv, NEW c \in Clerks, NEW q \in Questions, ManualRead(c, q) PROVE ReviewInv'
<1>1. LatestAnswer(q) \in AnswerIds \union {NoAnswer} /\ q \in AnswerIds /\ overtaken \subseteq AnswerIds
  BY LatestKnown DEF ReviewInv, AnswerIds, ReviewTypeOK
<1>2. PICK w \in DutyType : duty' = [duty EXCEPT ![c] = w] /\ w.op = "manual"
  BY <1>1, Enters DEF ManualRead
<1> QED BY <1>1, <1>2, ReadKeeps DEF ManualRead, PanelUntouched

LEMMA DraftReadKeeps ==
  ASSUME ReviewInv, NEW c \in Clerks, NEW q \in Questions, DraftRead(c, q) PROVE ReviewInv'
<1>1. /\ ReviewTypeOK /\ NoAnswerShadowed
      /\ LatestAnswer(q) \in AnswerIds \union {NoAnswer} /\ q \in AnswerIds
      /\ overtaken \subseteq AnswerIds /\ c \in AnswerIds
  BY LatestKnown DEF ReviewInv, ThreadInv, AnswerIds, ReviewTypeOK
<1>2. PICK w \in DutyType :
        /\ duty' = [duty EXCEPT ![c] = w] /\ w.op = "draft" /\ w.on = q /\ w.seen = LatestAnswer(q)
        /\ w.at = IF LatestAnswer(q) = NoAnswer THEN "write" ELSE "delete"
  <2>1. PICK next \in {"delete", "write"} :
          /\ next = IF LatestAnswer(q) = NoAnswer THEN "write" ELSE "delete"
          /\ Enter(c, "draft", next, q, LatestAnswer(q))
    BY DEF DraftRead
  <2> QED BY <1>1, <2>1, Enters
<1>3. overtaken \subseteq overtaken' /\ overtaken' \subseteq AnswerIds
      /\ (c \notin overtaken' => LatestAnswer(q) \notin overtaken)
  BY <1>1 DEF DraftRead
<1>4. w.at = "delete" => w.seen \notin confirmed BY <1>2 DEF DraftRead, MayDraft, Replaceable
<1>5. ASSUME c \notin overtaken', NEW i \in DOMAIN thread[q] PROVE IsDraft(thread[q][i])
  <2>1. PICK n : n = Len(thread[q]) OBVIOUS
  <2>2. n \in DOMAIN thread[q] /\ DOMAIN thread[q] = 1..n /\ LatestAnswer(q) = thread[q][n]
        /\ LatestAnswer(q) # NoAnswer
    BY <1>1, <1>5, <2>1, LatestKnown
  <2>3. IsDraft(thread[q][n]) /\ thread[q][n] \notin overtaken
    BY <1>3, <1>5, <2>2 DEF DraftRead, MayDraft, Replaceable
  <2>4. \A j \in 1..(n - 1) : IsDraft(thread[q][j]) BY <1>1, <2>2, <2>3 DEF NoAnswerShadowed
  <2>5. n \in Nat BY <1>1, <2>1 DEF ReviewTypeOK
  <2>6. i = n \/ i \in 1..(n - 1) BY <2>2, <2>5, <1>5
  <2> QED BY <2>3, <2>4, <2>6
<1>6. duty[c].op = "none" /\ UNCHANGED <<thread, published, asking, confirmed, panel, blurred>>
  BY DEF DraftRead, PanelUntouched
<1> QED BY <1>2, <1>3, <1>4, <1>5, <1>6, ReadKeeps

LEMMA DropReadKeeps ==
  ASSUME ReviewInv, NEW c \in Clerks, NEW a \in AnswerIds, DropRead(c, a) PROVE ReviewInv'
<1>1. QuestionOf(a) \in AnswerIds /\ overtaken \subseteq AnswerIds
  BY QuestionFound DEF ReviewInv, DropRead, ReviewTypeOK
<1>2. PICK w \in DutyType : duty' = [duty EXCEPT ![c] = w] /\ w.op = "drop" /\ w.seen = a
  BY <1>1, Enters DEF DropRead
<1> QED BY <1>1, <1>2, ReadKeeps DEF DropRead, PanelUntouched, Replaceable

LEMMA ConfirmReadKeeps ==
  ASSUME ReviewInv, NEW c \in Clerks, NEW a \in AnswerIds, ConfirmRead(c, a) PROVE ReviewInv'
<1>1. QuestionOf(a) \in AnswerIds /\ overtaken \subseteq AnswerIds
  BY QuestionFound DEF ReviewInv, ConfirmRead, ReviewTypeOK
<1>2. PICK w \in DutyType : duty' = [duty EXCEPT ![c] = w] /\ w.op = "confirm" /\ w.seen = a
  BY <1>1, Enters DEF ConfirmRead
<1> QED BY <1>1, <1>2, ReadKeeps DEF ConfirmRead, PanelUntouched

LEMMA DeleteReadKeeps ==
  ASSUME ReviewInv, NEW c \in Clerks, NEW q \in Questions, DeleteRead(c, q) PROVE ReviewInv'
<1>1. q \in AnswerIds /\ overtaken \subseteq AnswerIds BY DEF AnswerIds, ReviewInv, ReviewTypeOK
<1>2. PICK w \in DutyType : duty' = [duty EXCEPT ![c] = w] /\ w.op = "delete"
  BY <1>1, Enters DEF DeleteRead
<1> QED BY <1>1, <1>2, ReadKeeps DEF DeleteRead, PanelUntouched

\* The deletion of the row that was read.
LEMMA RowDeleteKeeps ==
  ASSUME ReviewInv, NEW c \in Clerks, ManualDelete(c) \/ DraftReplace(c) \/ DropDelete(c)
  PROVE  ReviewInv'
<1> USE DEF ManualDelete, DraftReplace, DropDelete
<1>0. ReviewTypeOK BY DEF ReviewInv
<1>1. PICK next \in {"write", "over"} : Go(c, next) OBVIOUS
<1>2. PICK w \in DutyType :
        /\ duty' = [duty EXCEPT ![c] = w] /\ w.at = next /\ w.op = duty[c].op /\ w.on = duty[c].on
  BY <1>0, <1>1, GoesOn
<1>3. /\ thread' \in [Questions -> Seq(AnswerIds)]
      /\ \A q \in Questions : Thinned(thread'[q], thread[q])
  BY <1>0, Deletes
<1>4. duty' \in [Clerks -> DutyType] BY <1>0, <1>2, DutyMoves
<1>5. ReviewTypeOK' BY <1>0, <1>3, <1>4 DEF ReviewTypeOK, DutyType, PanelUntouched
<1>6. DraftsSpare' BY <1>2, SpareKept
<1>7. c \notin overtaken /\ w.op = "draft" =>
        w.on \in Questions /\ \A i \in DOMAIN thread[w.on] : IsDraft(thread[w.on][i])
  BY <1>2 DEF ReviewInv, ThreadInv, DraftsAlone, Generating
<1>8. ThreadInv' BY <1>2, <1>3, <1>7, ThreadKept
<1>9. SyncInv' BY <1>2, SyncKept DEF PanelUntouched
<1> QED BY <1>5, <1>6, <1>8, <1>9 DEF ReviewInv

\* The answer of a request: a manual one is told to the drafts under way; a draft
\* stands behind drafts only, or was overtaken.
LEMMA RowWriteKeeps ==
  ASSUME ReviewInv, NEW c \in Clerks, ManualWrite(c) \/ DraftWrite(c) PROVE ReviewInv'
<1> USE DEF ManualWrite, DraftWrite
<1>0. /\ ReviewTypeOK /\ thread \in [Questions -> Seq(AnswerIds)] /\ published \subseteq Questions
      /\ c \in AnswerIds /\ Generating \subseteq AnswerIds /\ overtaken \subseteq AnswerIds
  BY DEF ReviewInv, ReviewTypeOK, AnswerIds, Generating
<1>1. Go(c, "over") OBVIOUS
<1>2. PICK w \in DutyType :
        /\ duty' = [duty EXCEPT ![c] = w] /\ w.at = "over" /\ w.op = duty[c].op /\ w.on = duty[c].on
  BY <1>0, <1>1, GoesOn
<1>3. /\ duty' \in [Clerks -> DutyType] /\ duty'[c] = w
      /\ \A d \in Clerks : d # c => duty'[d] = duty[d]
  BY <1>0, <1>2, DutyMoves
<1>4. PICK q : q = duty[c].on /\ CreateAnswer(q, c) OBVIOUS
<1>5. overtaken \subseteq overtaken' /\ overtaken' \subseteq AnswerIds
      /\ (duty[c].op = "manual" => GeneratingFor(q) \subseteq overtaken')
  BY <1>0, <1>4 DEF GeneratingFor
<1>6. thread' \in [Questions -> Seq(AnswerIds)] /\ ThreadInv'
  <2>1. CASE q \in Questions
    <3>1. \A d \in Clerks :
            /\ duty'[d].op = duty[d].op /\ duty'[d].on = duty[d].on
            /\ duty'[d].at \in {"delete", "write"} => duty'[d].at = duty[d].at
      BY <1>2, <1>3
    <3>2. CASE duty[c].op = "manual"
      <4>1. ~IsDraft(c) BY <3>2 DEF IsDraft
      <4> QED BY <1>0, <1>3, <1>4, <1>5, <2>1, <3>1, <3>2, <4>1, AnswerStands
    <3>3. CASE duty[c].op = "draft" /\ duty[c].at = "write"
      <4>1. IsDraft(c) BY <3>3 DEF IsDraft
      <4>2. c \notin overtaken => \A i \in DOMAIN thread[q] : IsDraft(thread[q][i])
        BY <1>4, <3>3 DEF ReviewInv, ThreadInv, DraftsAlone, Generating
      <4> QED BY <1>0, <1>3, <1>4, <1>5, <2>1, <3>1, <3>3, <4>1, <4>2, AnswerStands
    <3> QED BY <3>2, <3>3
  <2>2. CASE q \notin Questions
    <3>1. thread' = thread BY <1>0, <1>4, <2>2 DEF CreateAnswer
    <3>2. \A p \in Questions : Thinned(thread'[p], thread[p]) BY <1>0, <3>1, ThinnedBasics
    <3> QED BY <1>0, <1>2, <1>5, <3>1, <3>2, ThreadKept
  <2> QED BY <2>1, <2>2
<1>7. ReviewTypeOK' BY <1>0, <1>3, <1>5, <1>6 DEF ReviewTypeOK, DutyType, PanelUntouched
<1>8. DraftsSpare' BY <1>2, <1>5, SpareKept
<1>9. SyncInv' BY <1>2, SyncKept DEF PanelUntouched
<1> QED BY <1>6, <1>7, <1>8, <1>9 DEF ReviewInv

LEMMA AskKeeps == ASSUME ReviewInv, NEW q \in Questions, AskStoresAnswer(q) PROVE ReviewInv'
<1> USE DEF AskStoresAnswer
<1>0. /\ ReviewTypeOK /\ q \in AnswerIds /\ q \notin Clerks /\ Generating \subseteq AnswerIds
      /\ duty \in [Clerks -> DutyType]
  BY ReviewAssumption, ReviewTypes DEF ReviewInv, AnswerIds, Generating
<1>1. ~IsDraft(q) BY <1>0 DEF IsDraft
<1>2. overtaken \subseteq overtaken' /\ GeneratingFor(q) \subseteq overtaken' OBVIOUS
<1>3. thread' \in [Questions -> Seq(AnswerIds)] /\ ThreadInv'
  BY <1>0, <1>1, <1>2, AnswerStands
<1>4. ReviewTypeOK' BY <1>0, <1>3 DEF ReviewTypeOK, PanelUntouched, GeneratingFor
<1>5. DraftsSpare' BY DEF ReviewInv, DraftsSpare, Spares
<1>6. SyncInv' BY DEF ReviewInv, SyncInv, SyncsAlone, Advises, PanelAgrees, Syncing, PanelUntouched
<1> QED BY <1>3, <1>4, <1>5, <1>6 DEF ReviewInv

\* A confirmation takes the answer from every request that is about to delete it.
LEMMA ConfirmWriteKeeps ==
  ASSUME ReviewInv, NEW c \in Clerks, NEW yes \in BOOLEAN, ConfirmWrite(c, yes) PROVE ReviewInv'
<1> USE DEF ConfirmWrite
<1>0. /\ ReviewTypeOK /\ thread \in [Questions -> Seq(AnswerIds)] /\ confirmed \subseteq AnswerIds
      /\ overtaken \subseteq AnswerIds
  BY DEF ReviewInv, ReviewTypeOK
<1>1. Go(c, "over") OBVIOUS
<1>2. PICK w \in DutyType :
        /\ duty' = [duty EXCEPT ![c] = w] /\ w.at = "over" /\ w.op = duty[c].op /\ w.seen = duty[c].seen
  BY <1>0, <1>1, GoesOn
<1>3. duty' \in [Clerks -> DutyType] BY <1>0, <1>2, DutyMoves
<1>4. PICK a : a = duty[c].seen OBVIOUS
<1>5. /\ confirmed' \subseteq confirmed \union {a} /\ overtaken \subseteq overtaken'
      /\ overtaken' \subseteq overtaken \union {a}
      /\ \A d \in Clerks : duty[d].seen = a /\ duty[d].at = "delete" => a \in overtaken'
  BY <1>4
<1>6. a \in AnswerIds BY <1>4 DEF ReviewInv, DraftsSpare, Spares
<1>7. ReviewTypeOK' BY <1>0, <1>3, <1>5, <1>6 DEF ReviewTypeOK, DutyType, PanelUntouched
<1>8. DraftsSpare'
  <2>1. \A d \in Clerks : duty[d].at = "delete" /\ duty[d].seen \in confirmed' \ overtaken' =>
                             duty[d].seen \in confirmed \ overtaken
    BY <1>5
  <2>2. w.op = "confirm" /\ w.at = "over" BY <1>2
  <2>3. w.op = "confirm" => w.seen \in AnswerIds BY <1>2, <1>4, <1>6
  <2> QED BY <1>2, <2>1, <2>2, <2>3, SpareKept
<1>9. \A q \in Questions : Thinned(thread'[q], thread[q]) BY <1>0, ThinnedBasics
<1>10. ThreadInv' BY <1>0, <1>2, <1>5, <1>9, ThreadKept
<1>11. SyncInv' BY <1>2, SyncKept DEF PanelUntouched
<1> QED BY <1>7, <1>8, <1>10, <1>11 DEF ReviewInv

-----------------------------------------------------------------------------
(* The panel *)

\* The step of a sync, or of a deletion, leaves the threads in order.
LEMMA PanelStep ==
  ASSUME ReviewInv, NEW c \in Clerks, NEW w \in DutyType, duty' = [duty EXCEPT ![c] = w],
         w.op \in {"sync", "delete"}, duty[c].op \in {"none", w.op},
         thread' \in [Questions -> Seq(AnswerIds)],
         \A q \in Questions : Thinned(thread'[q], thread[q]),
         UNCHANGED <<asking, confirmed, overtaken>>,
         published' \subseteq Questions, panel' \subseteq Recommendations, blurred' \subseteq Clerks
  PROVE  /\ ReviewTypeOK' /\ DraftsSpare' /\ ThreadInv'
         /\ duty'[c] = w /\ \A d \in Clerks : d # c => duty'[d] = duty[d]
<1>0. ReviewTypeOK BY DEF ReviewInv
<1>1. /\ duty' \in [Clerks -> DutyType] /\ duty'[c] = w
      /\ \A d \in Clerks : d # c => duty'[d] = duty[d]
  BY <1>0, DutyMoves
<1>2. ReviewTypeOK' BY <1>0, <1>1 DEF ReviewTypeOK, DutyType
<1>3. DraftsSpare' BY SpareKept
<1>4. ThreadInv' BY ThreadKept
<1> QED BY <1>1, <1>2, <1>3, <1>4

\* A sync that is not alone owes nothing; one that is alone is the only one.
LEMMA AloneSyncs ==
  ASSUME SyncsAlone, NEW c \in Syncing, NEW d \in Syncing, d \notin blurred PROVE d = c
  BY DEF SyncsAlone, Advises

\* What the syncs owe after a step of c, when the others go on as before.
LEMMA SyncsOwe ==
  ASSUME ReviewInv, NEW c \in Clerks, NEW w, duty'[c] = w,
         \A d \in Clerks : d # c => duty'[d] = duty[d],
         w.op = "sync" /\ w.at # "over" => Advises(c, w)',
         \A d \in Syncing : d # c => d \in blurred'
  PROVE  SyncsAlone'
<1> SUFFICES ASSUME NEW d \in Clerks, duty'[d].op = "sync", duty'[d].at # "over",
                    NEW u, u = duty'[d]
             PROVE  Advises(d, u)'
  BY DEF SyncsAlone, Syncing, Advises
<1>1. CASE d = c BY <1>1 DEF Advises
<1>2. CASE d # c
  <2>1. d \in Syncing /\ u = duty[d] BY <1>2 DEF Syncing
  <2>2. \A r \in u.found : r.by = d BY <2>1 DEF ReviewInv, SyncInv, SyncsAlone, Advises
  <2> QED BY <1>2, <2>1, <2>2 DEF Advises
<1> QED BY <1>1, <1>2

LEMMA SyncListKeeps == ASSUME ReviewInv, NEW c \in Clerks, SyncList(c) PROVE ReviewInv'
<1> USE DEF SyncList
<1>0. /\ thread \in [Questions -> Seq(AnswerIds)] /\ published \subseteq Questions
      /\ blurred \subseteq Clerks /\ panel \subseteq Recommendations /\ Syncing \subseteq Clerks
  BY DEF ReviewInv, ReviewTypeOK, Syncing
<1>1. PICK w : w = [Waiting EXCEPT !.op = "sync", !.at = "look", !.todo = published] OBVIOUS
<1>2. /\ w \in DutyType /\ w.op = "sync" /\ w.at = "look" /\ w.todo = published /\ w.found = {}
  BY <1>0, <1>1 DEF Waiting, DutyType
<1>3. duty' = [duty EXCEPT ![c] = w] BY <1>1
<1>4. \A q \in Questions : Thinned(thread'[q], thread[q]) BY <1>0, ThinnedBasics
<1>5. blurred \subseteq blurred' /\ blurred' \subseteq Clerks
      /\ (Syncing # {} => Syncing \union {c} \subseteq blurred')
  BY <1>0
<1>6. /\ ReviewTypeOK' /\ DraftsSpare' /\ ThreadInv'
      /\ duty'[c] = w /\ \A d \in Clerks : d # c => duty'[d] = duty[d]
  BY <1>0, <1>2, <1>3, <1>4, <1>5, PanelStep
<1>7. SyncsAlone'
  <2>1. c \notin blurred' => Syncing' = {c} BY <1>2, <1>5, <1>6 DEF Syncing
  <2>2. Advises(c, w)' BY <1>2, <2>1 DEF Advises
  <2> QED BY <1>5, <1>6, <2>2, SyncsOwe
<1>8. PanelAgrees' BY <1>5 DEF ReviewInv, SyncInv, PanelAgrees
<1> QED BY <1>6, <1>7, <1>8 DEF ReviewInv, SyncInv

LEMMA SyncLookKeeps ==
  ASSUME ReviewInv, NEW c \in Clerks, NEW q \in Questions, SyncLook(c, q) PROVE ReviewInv'
<1> USE DEF SyncLook, PanelUntouched
<1>0. /\ thread \in [Questions -> Seq(AnswerIds)] /\ published \subseteq Questions
      /\ blurred \subseteq Clerks /\ panel \subseteq Recommendations
      /\ duty \in [Clerks -> DutyType] /\ c \in Syncing /\ SyncsAlone
  BY ReviewTypes DEF ReviewInv, Syncing, SyncInv
<1>1. PICK A : A = Advised(c, q) OBVIOUS
<1>2. /\ A \subseteq Recommendations /\ \A r \in A : r.by = c /\ r.on = q
      /\ \A r, s \in A : r = s
  BY <1>1 DEF Advised, Recommendations, Advice
<1>3. PICK w : w = [duty[c] EXCEPT !.todo = @ \ {q}, !.found = @ \union A] OBVIOUS
<1>4. /\ w \in DutyType /\ w.op = "sync" /\ w.at = "look"
      /\ w.todo = duty[c].todo \ {q} /\ w.found = duty[c].found \union A
  BY <1>0, <1>2, <1>3 DEF DutyType
<1>5. duty' = [duty EXCEPT ![c] = w] BY <1>0, <1>1, <1>3 DEF DutyType
<1>6. \A p \in Questions : Thinned(thread'[p], thread[p]) BY <1>0, ThinnedBasics
<1>7. /\ ReviewTypeOK' /\ DraftsSpare' /\ ThreadInv'
      /\ duty'[c] = w /\ \A d \in Clerks : d # c => duty'[d] = duty[d]
  <2>1. /\ duty[c].op = "sync" /\ UNCHANGED <<asking, confirmed, overtaken, published, panel, blurred>>
        /\ panel' \subseteq Recommendations /\ thread' \in [Questions -> Seq(AnswerIds)]
        /\ published' \subseteq Questions /\ blurred' \subseteq Clerks
    BY <1>0
  <2> HIDE DEF SyncLook
  <2> QED BY <1>0, <1>4, <1>5, <1>6, <2>1, PanelStep
<1>8. SyncsAlone'
  <2>1. Syncing' = Syncing BY <1>0, <1>4, <1>7 DEF Syncing
  <2>2. Advises(c, duty[c]) BY <1>0 DEF SyncsAlone
  <2>3. Advises(c, w)' BY <1>2, <1>4, <2>1, <2>2 DEF Advises
  <2> QED BY <1>0, <1>7, <2>3, AloneSyncs, SyncsOwe
<1>9. PanelAgrees' BY DEF ReviewInv, SyncInv, PanelAgrees
<1> QED BY <1>7, <1>8, <1>9 DEF ReviewInv, SyncInv

LEMMA SyncClearKeeps == ASSUME ReviewInv, NEW c \in Clerks, SyncClear(c) PROVE ReviewInv'
<1> USE DEF SyncClear, Cleared
<1>0. /\ thread \in [Questions -> Seq(AnswerIds)] /\ published \subseteq Questions
      /\ blurred \subseteq Clerks /\ ReviewTypeOK /\ c \in Syncing /\ SyncsAlone
  BY DEF ReviewInv, ReviewTypeOK, Syncing, SyncInv
<1>1. PICK next \in {"over", "insert"} : Go(c, next) OBVIOUS
<1>2. PICK w \in DutyType :
        /\ duty' = [duty EXCEPT ![c] = w] /\ w.at = next /\ w.op = duty[c].op
        /\ w.todo = duty[c].todo /\ w.found = duty[c].found
  BY <1>0, <1>1, GoesOn
<1>3. \A p \in Questions : Thinned(thread'[p], thread[p]) BY <1>0, ThinnedBasics
<1>4. /\ ReviewTypeOK' /\ DraftsSpare' /\ ThreadInv'
      /\ duty'[c] = w /\ \A d \in Clerks : d # c => duty'[d] = duty[d]
  BY <1>0, <1>2, <1>3, PanelStep
<1>5. SyncsAlone'
  <2>1. Advises(c, duty[c]) BY <1>0 DEF SyncsAlone
  <2>2. ASSUME w.at # "over" PROVE Advises(c, w)'
    <3>1. Syncing' = Syncing BY <1>0, <1>2, <1>4, <2>2 DEF Syncing
    <3> QED BY <1>2, <2>1, <3>1 DEF Advises
  <2> QED BY <1>0, <1>4, <2>2, AloneSyncs, SyncsOwe
<1>6. PanelAgrees' BY DEF PanelAgrees
<1> QED BY <1>4, <1>5, <1>6 DEF ReviewInv, SyncInv

LEMMA SyncInsertKeeps ==
  ASSUME ReviewInv, NEW c \in Clerks, NEW r \in Recommendations, SyncInsert(c, r) PROVE ReviewInv'
<1> USE DEF SyncInsert
<1>0. /\ thread \in [Questions -> Seq(AnswerIds)] /\ published \subseteq Questions
      /\ blurred \subseteq Clerks /\ panel \subseteq Recommendations
      /\ duty \in [Clerks -> DutyType] /\ c \in Syncing /\ SyncsAlone /\ PanelAgrees
  BY ReviewTypes DEF ReviewInv, Syncing, SyncInv
<1>1. PICK next \in {"over", "insert"} : next = IF duty[c].found = {r} THEN "over" ELSE duty[c].at
  OBVIOUS
<1>2. PICK w : w = [duty[c] EXCEPT !.found = @ \ {r}, !.at = next] OBVIOUS
<1>3. /\ w \in DutyType /\ w.op = "sync" /\ w.at = next
      /\ w.todo = duty[c].todo /\ w.found = duty[c].found \ {r}
  BY <1>0, <1>2 DEF DutyType
<1>4. duty' = [duty EXCEPT ![c] = w] BY <1>0, <1>1, <1>2 DEF DutyType
<1>5. \A p \in Questions : Thinned(thread'[p], thread[p]) BY <1>0, ThinnedBasics
<1>6. /\ ReviewTypeOK' /\ DraftsSpare' /\ ThreadInv'
      /\ duty'[c] = w /\ \A d \in Clerks : d # c => duty'[d] = duty[d]
  <2>1. /\ duty[c].op = "sync" /\ UNCHANGED <<asking, confirmed, overtaken, published, blurred>>
        /\ panel' \subseteq Recommendations /\ thread' \in [Questions -> Seq(AnswerIds)]
    BY <1>0
  <2> HIDE DEF SyncInsert
  <2> QED BY <1>0, <1>3, <1>4, <1>5, <2>1, PanelStep
<1>7. Advises(c, duty[c]) BY <1>0 DEF SyncsAlone
<1>8. SyncsAlone'
  <2>1. ASSUME w.at # "over" PROVE Advises(c, w)'
    <3>1. Syncing' = Syncing BY <1>0, <1>3, <1>6, <2>1 DEF Syncing
    <3> QED BY <1>3, <1>7, <3>1 DEF Advises
  <2> QED BY <1>0, <1>6, <2>1, AloneSyncs, SyncsOwe
<1>9. PanelAgrees'
  <2>1. r.by = c /\ panel' = panel \union {r} BY <1>7 DEF Advises
  <2>2. CASE c \in blurred BY <1>0, <2>1, <2>2 DEF PanelAgrees
  <2>3. CASE c \notin blurred
    <3>1. r.on \in published /\ \A s \in panel : s.on # r.on BY <1>7, <2>3 DEF Advises
    <3> QED BY <1>0, <2>1, <3>1 DEF PanelAgrees
  <2> QED BY <2>2, <2>3
<1> QED BY <1>6, <1>8, <1>9 DEF ReviewInv, SyncInv

LEMMA DeleteWriteKeeps == ASSUME ReviewInv, NEW c \in Clerks, DeleteWrite(c) PROVE ReviewInv'
<1> USE DEF DeleteWrite, PurgeEvidence
<1>0. /\ thread \in [Questions -> Seq(AnswerIds)] /\ published \subseteq Questions
      /\ blurred \subseteq Clerks /\ panel \subseteq Recommendations /\ Syncing \subseteq Clerks
      /\ ReviewTypeOK
  BY DEF ReviewInv, ReviewTypeOK, Syncing
<1>1. Go(c, "over") OBVIOUS
<1>2. PICK w \in DutyType :
        duty' = [duty EXCEPT ![c] = w] /\ w.at = "over" /\ w.op = duty[c].op
  BY <1>0, <1>1, GoesOn
<1>3. /\ thread' \in [Questions -> Seq(AnswerIds)]
      /\ \A p \in Questions : Thinned(thread'[p], thread[p])
  <2>1. \A p \in Questions : thread'[p] = thread[p] \/ thread'[p] = << >> BY <1>0
  <2>2. << >> \in Seq(AnswerIds) OBVIOUS
  <2> QED BY <1>0, <2>1, <2>2, ThinnedBasics
<1>4. /\ ReviewTypeOK' /\ DraftsSpare' /\ ThreadInv'
      /\ duty'[c] = w /\ \A d \in Clerks : d # c => duty'[d] = duty[d]
  BY <1>0, <1>2, <1>3, PanelStep
<1>5. SyncsAlone' BY <1>2, <1>4, SyncsOwe
<1>6. PanelAgrees' BY DEF ReviewInv, SyncInv, PanelAgrees
<1> QED BY <1>4, <1>5, <1>6 DEF ReviewInv, SyncInv

LEMMA GivesUpKeeps == ASSUME ReviewInv, NEW c \in Clerks, GivesUp(c) PROVE ReviewInv'
<1> USE DEF GivesUp, PanelUntouched
<1>0. /\ thread \in [Questions -> Seq(AnswerIds)] /\ published \subseteq Questions
      /\ blurred \subseteq Clerks /\ panel \subseteq Recommendations
      /\ duty \in [Clerks -> DutyType] /\ ReviewTypeOK
  BY ReviewTypes DEF ReviewInv
<1>1. Go(c, "over") OBVIOUS
<1>2. PICK w \in DutyType :
        /\ duty' = [duty EXCEPT ![c] = w] /\ w.at = "over" /\ w.op = duty[c].op /\ w.seen = duty[c].seen
  BY <1>0, <1>1, GoesOn
<1>3. \A p \in Questions : Thinned(thread'[p], thread[p]) BY <1>0, ThinnedBasics
<1>4. duty'[c] = w /\ \A d \in Clerks : d # c => duty'[d] = duty[d]
  BY <1>0, <1>2, DutyMoves
<1>5. ReviewTypeOK'
  <2>1. duty' \in [Clerks -> DutyType] BY <1>0, <1>2, DutyMoves
  <2> QED BY <1>0, <2>1 DEF ReviewTypeOK, DutyType
<1>6. DraftsSpare'
  <2>1. w.op = "confirm" => w.seen \in AnswerIds BY <1>2 DEF ReviewInv, DraftsSpare, Spares
  <2> QED BY <1>2, <2>1, SpareKept
<1>7. ThreadInv' BY <1>0, <1>2, <1>3, ThreadKept
<1>8. SyncInv'
  <2>1. CASE duty[c].op # "sync" BY <1>2, <2>1, SyncKept
  <2>2. CASE duty[c].op = "sync"
    <3>1. c \in Syncing /\ SyncsAlone BY <2>2 DEF Syncing, ReviewInv, SyncInv
    <3>2. SyncsAlone' BY <1>2, <1>4, <3>1, AloneSyncs, SyncsOwe
    <3>3. PanelAgrees' BY DEF ReviewInv, SyncInv, PanelAgrees
    <3> QED BY <3>2, <3>3 DEF SyncInv
  <2> QED BY <2>1, <2>2
<1> QED BY <1>5, <1>6, <1>7, <1>8 DEF ReviewInv

LEMMA ReviewStep == ASSUME ReviewInv, [ReviewNext]_reviewVars PROVE ReviewInv'
<1>1. CASE UNCHANGED reviewVars
  <2> USE <1>1 DEF reviewVars
  <2>1. ReviewTypeOK' BY DEF ReviewInv, ReviewTypeOK
  <2>2. DraftsSpare' BY DEF ReviewInv, DraftsSpare, Spares
  <2>3. WritersKnown' BY DEF ReviewInv, ThreadInv, WritersKnown
  <2>4. DraftsAlone' BY DEF ReviewInv, ThreadInv, DraftsAlone, Generating, IsDraft
  <2>5. NoAnswerShadowed' BY DEF ReviewInv, ThreadInv, NoAnswerShadowed, IsDraft
  <2>6. SyncsAlone' BY DEF ReviewInv, SyncInv, SyncsAlone, Advises, Syncing
  <2>7. PanelAgrees' BY DEF ReviewInv, SyncInv, PanelAgrees
  <2> QED BY <2>1, <2>2, <2>3, <2>4, <2>5, <2>6, <2>7 DEF ReviewInv, ThreadInv, SyncInv
<1>2. ASSUME NEW q \in Questions, AskStoresAnswer(q) PROVE ReviewInv' BY <1>2, AskKeeps
<1>3. ASSUME NEW c \in Clerks, NEW q \in Questions,
             ManualRead(c, q) \/ DraftRead(c, q) \/ DeleteRead(c, q) \/ SyncLook(c, q)
      PROVE  ReviewInv'
  BY <1>3, ManualReadKeeps, DraftReadKeeps, DeleteReadKeeps, SyncLookKeeps
<1>4. ASSUME NEW c \in Clerks, NEW a \in AnswerIds, DropRead(c, a) \/ ConfirmRead(c, a)
      PROVE  ReviewInv'
  BY <1>4, DropReadKeeps, ConfirmReadKeeps
<1>5. ASSUME NEW c \in Clerks, NEW yes \in BOOLEAN, ConfirmWrite(c, yes) PROVE ReviewInv'
  BY <1>5, ConfirmWriteKeeps
<1>6. ASSUME NEW c \in Clerks, NEW r \in Recommendations, SyncInsert(c, r) PROVE ReviewInv'
  BY <1>6, SyncInsertKeeps
<1>7. ASSUME NEW c \in Clerks,
             \/ ManualDelete(c) \/ ManualWrite(c) \/ DraftReplace(c) \/ DraftWrite(c)
             \/ DropDelete(c) \/ DeleteWrite(c) \/ SyncList(c) \/ SyncClear(c) \/ GivesUp(c)
      PROVE  ReviewInv'
  BY <1>7, RowDeleteKeeps, RowWriteKeeps, DeleteWriteKeeps, SyncListKeeps, SyncClearKeeps,
     GivesUpKeeps
<1> QED BY <1>1, <1>2, <1>3, <1>4, <1>5, <1>6, <1>7 DEF ReviewNext

LEMMA ReviewInvariant == ReviewSpec => []ReviewInv
  BY ReviewInitInv, ReviewStep, PTL DEF ReviewSpec

\* Answers, drafts and the panel agree, through any requests at once, syncs and
\* deletions (generateOrchestrationDraftAnswer, SyncSessionRecommendations).
THEOREM ReviewsAgree == ReviewSpec => []ReviewAgrees
<1>1. ReviewInv => ReviewAgrees BY DEF ReviewInv, ThreadInv, SyncInv, ReviewAgrees
<1> QED BY <1>1, ReviewInvariant, PTL

\* A new answer takes nothing from a thread.
LEMMA CreationKeepsRows ==
  ASSUME ReviewTypeOK, NEW p, NEW b, CreateAnswer(p, b), NEW q \in Questions, NEW a,
         Contains(thread[q], a)
  PROVE  Contains(thread'[q], a)
<1>1. thread \in [Questions -> Seq(AnswerIds)] /\ thread[q] \in Seq(AnswerIds) BY DEF ReviewTypeOK
<1>2. PICK i \in 1..Len(thread[q]) : thread[q][i] = a BY DEF Contains
<1>3. CASE thread'[q] = thread[q] BY <1>3
<1>4. CASE thread'[q] = Append(thread[q], b)
  <2>1. thread'[q][i] = a /\ i \in 1..Len(thread'[q]) BY <1>1, <1>2, <1>4
  <2> QED BY <2>1 DEF Contains
<1> QED BY <1>1, <1>3, <1>4 DEF CreateAnswer

\* What an editor confirmed is lost on purpose only (CreateSessionAnswer,
\* CreateOrchestrationDraftAnswer, DeleteOrchestrationDraftAnswer, UpdateAnswerConfirmed).
THEOREM ConfirmedIsKept == ReviewSpec => ConfirmedStays
<1> DEFINE Kept == \A q \in Questions : \A a \in confirmed \ overtaken :
          Contains(thread[q], a) /\ ~Contains(thread'[q], a) =>
             \/ q \notin published'
             \/ \E c \in Clerks : duty[c].op = "manual" /\ duty[c].at = "delete" /\ duty[c].seen = a
<1>1. ASSUME ReviewInv, [ReviewNext]_reviewVars PROVE [Kept]_reviewVars
  <2> SUFFICES ASSUME ReviewNext, NEW q \in Questions, NEW a \in confirmed \ overtaken,
                      Contains(thread[q], a), ~Contains(thread'[q], a), q \in published',
                      \A c \in Clerks :
                        ~(duty[c].op = "manual" /\ duty[c].at = "delete" /\ duty[c].seen = a)
               PROVE  FALSE
    BY <1>1
  <2>0. /\ ReviewTypeOK /\ DraftsSpare /\ a \in AnswerIds
        /\ thread \in [Questions -> Seq(AnswerIds)]
    BY <1>1 DEF ReviewInv, ReviewTypeOK
  <2>1. thread'[q] # thread[q] OBVIOUS
  <2>2. ASSUME NEW p, NEW b, CreateAnswer(p, b) PROVE FALSE BY <2>0, <2>2, CreationKeepsRows
  <2>3. ASSUME NEW c \in Clerks, ManualDelete(c) \/ DraftReplace(c) \/ DropDelete(c) PROVE FALSE
    <3>1. thread' = DeleteAnswer(duty[c].seen) /\ duty[c].at = "delete"
          /\ duty[c].op \in {"manual", "draft", "drop"}
      BY <2>3 DEF ManualDelete, DraftReplace, DropDelete
    <3>2. duty[c].seen # a BY <2>0, <3>1 DEF DraftsSpare, Spares
    <3> QED BY <2>0, <3>1, <3>2, Deletes
  <2>4. ASSUME NEW c \in Clerks, DeleteWrite(c) PROVE FALSE
    BY <2>0, <2>1, <2>4 DEF DeleteWrite
  <2>5. ASSUME NEW p \in Questions, AskStoresAnswer(p) PROVE FALSE
    BY <2>2, <2>5 DEF AskStoresAnswer
  <2>6. ASSUME NEW c \in Clerks, ManualWrite(c) \/ DraftWrite(c) PROVE FALSE
    BY <2>2, <2>6 DEF ManualWrite, DraftWrite
  <2>7. thread' # thread BY <2>1
  <2>8. ASSUME NEW c \in Clerks, NEW p \in Questions,
               ManualRead(c, p) \/ DraftRead(c, p) \/ DeleteRead(c, p) \/ SyncLook(c, p)
        PROVE  FALSE
    BY <2>7, <2>8 DEF ManualRead, DraftRead, DeleteRead, SyncLook
  <2>9. ASSUME NEW c \in Clerks, NEW b \in AnswerIds, DropRead(c, b) \/ ConfirmRead(c, b)
        PROVE  FALSE
    BY <2>7, <2>9 DEF DropRead, ConfirmRead
  <2>10. ASSUME NEW c \in Clerks, NEW yes \in BOOLEAN, ConfirmWrite(c, yes) PROVE FALSE
    BY <2>7, <2>10 DEF ConfirmWrite
  <2>11. ASSUME NEW c \in Clerks, NEW r \in Recommendations, SyncInsert(c, r) PROVE FALSE
    BY <2>7, <2>11 DEF SyncInsert
  <2>12. ASSUME NEW c \in Clerks, SyncList(c) \/ SyncClear(c) \/ GivesUp(c) PROVE FALSE
    BY <2>7, <2>12 DEF SyncList, SyncClear, GivesUp
  <2> QED BY <2>3, <2>4, <2>5, <2>6, <2>8, <2>9, <2>10, <2>11, <2>12 DEF ReviewNext
<1> QED BY <1>1, ReviewInvariant, PTL DEF ReviewSpec, ConfirmedStays

-----------------------------------------------------------------------------
(* The index and the questions (SessionIndex).                              *)

Sources == Texts \union {Metadata}
IndexRuns == [step : {"idle", "begin", "read", "upsert", "clear", "embed", "insert", "failed"},
              read : SUBSET Sources, rows : SUBSET Sources]
\* Who answers has a question to answer.
Asks == {a \in [step : {"idle", "ensure", "retrieve", "again", "count", "create", "answer"},
                via : {"web", "mcp"}, number : Numbers \union {0},
                retry : BOOLEAN, saw : BOOLEAN, moved : BOOLEAN] :
           a.retry \/ a.step = "answer" => a.number # 0}

IndexTyped ==
  /\ text \in [Texts -> {"none", "there", "leaving", "deleted"}]
  /\ chunkRows \subseteq Sources /\ vectors \subseteq chunkRows
  /\ indexing \in [Indexers -> IndexRuns]
  /\ \A i \in Indexers : indexing[i].rows \subseteq chunkRows
  /\ ask \in [Askers -> Asks]
  /\ answers \in [Numbers -> {"none", "answered", "not_covered"}]
  /\ fresher \subseteq Numbers /\ blind \subseteq Numbers
  /\ dropped \subseteq Texts /\ echoed \subseteq Texts
  /\ slips \in 0..MaxSlips

\* A run has still to put the source into the index.
Underway(w, s) ==
  \/ w.step \in {"begin", "read"}
  \/ w.step = "upsert" /\ s \in w.read
  \/ w.step \in {"clear", "embed", "insert"} /\ s \in w.rows

Awaited(s) == s \in vectors \union dropped \/ \E i \in Indexers : Underway(indexing[i], s)
TextsAwaited == \A s \in Texts : text[s] = "there" => Awaited(s)

\* Nothing of a text that was deleted is left, in no run either.
Forgotten(s) ==
  s \notin vectors /\ \A i \in Indexers : s \notin indexing[i].read \union indexing[i].rows
TextsForgotten == \A s \in Texts \ echoed : text[s] \in {"leaving", "deleted"} => Forgotten(s)

\* An asker starts a run of its own only when it has none.
AskersRun == \A k \in Askers : ask[k].step \notin {"retrieve", "again"} => Free(k)

\* While an answer "not covered", given or under way, is older than what the index
\* has got, some run is still there that will date the index.
Inserting == \E i \in Indexers : indexing[i].step = "insert"
LateSteps == {"again", "count", "create", "answer"}
AskersHear ==
  \A k \in Askers :
    ask[k].step \in LateSteps /\ ~ask[k].saw /\ ~ask[k].moved /\ Subject \in vectors => Inserting
AnswersHear ==
  \A n \in Numbers \ (blind \union fresher) :
    answers[n] = "not_covered" /\ Subject \in vectors => Inserting

\* Requests past the check of the limit have room for their question.
Counted == {k \in Askers : ask[k].step = "create"}
LimitKept ==
  questions \in Nat /\ questions + Cardinality(Counted) <= MaxQuestions + Cardinality(Askers) - 1

IndexInv ==
  /\ IndexTyped /\ AskersRun /\ LimitKept
  /\ TextsAwaited /\ TextsForgotten /\ AskersHear /\ AnswersHear

-----------------------------------------------------------------------------
\* What the steps of a run, the touches of the index and its wipes do to the runs.

LEMMA IndexConstants ==
  /\ NoRun \in IndexRuns /\ NoRun.step = "idle" /\ NoRun.read = {} /\ NoRun.rows = {}
  /\ [NoRun EXCEPT !.step = "begin"] \in IndexRuns
  /\ [NoRun EXCEPT !.step = "begin"].step = "begin"
  /\ [NoRun EXCEPT !.step = "begin"].rows = {} /\ [NoRun EXCEPT !.step = "begin"].read = {}
  /\ NotAsking \in Asks /\ NotAsking.step = "idle"
  BY DEF NoRun, IndexRuns, NotAsking, Asks

LEMMA RunToMoves ==
  ASSUME IndexTyped, NEW i \in Indexers,
         NEW step \in {"read", "embed", "insert"}, RunTo(i, step)
  PROVE  /\ indexing' \in [Indexers -> IndexRuns]
         /\ indexing'[i].step = step /\ indexing'[i].read = indexing[i].read
         /\ indexing'[i].rows = indexing[i].rows
         /\ \A j \in Indexers \ {i} : indexing'[j] = indexing[j]
  BY DEF IndexTyped, RunTo, IndexRuns

LEMMA FailedStops ==
  ASSUME IndexTyped, NEW i \in Indexers, Failed(i)
  PROVE  /\ indexing' \in [Indexers -> IndexRuns]
         /\ indexing'[i].step \in {"idle", "failed"}
         /\ indexing'[i].read = {} /\ indexing'[i].rows = {}
         /\ \A j \in Indexers \ {i} : indexing'[j] = indexing[j]
         /\ dropped' \subseteq Texts /\ dropped \subseteq dropped'
         /\ \A s \in Texts : text[s] = "there" => s \in dropped'
<1>1. PICK w : w = [NoRun EXCEPT !.step = IF i \in Askers THEN "failed" ELSE "idle"] OBVIOUS
<1>2. w \in IndexRuns /\ w.step \in {"idle", "failed"} /\ w.read = {} /\ w.rows = {}
  BY <1>1 DEF NoRun, IndexRuns
<1>3. indexing' = [indexing EXCEPT ![i] = w] BY <1>1 DEF Failed
<1>4. HasIndexableText \subseteq Texts /\ \A s \in Texts : text[s] = "there" => s \in HasIndexableText
  BY DEF HasIndexableText
<1> QED BY <1>2, <1>3, <1>4 DEF IndexTyped, Failed

\* A new run of b, which had none.
LEMMA BeginStarts ==
  ASSUME IndexTyped, NEW b \in Indexers, NEW x \in [Indexers -> IndexRuns],
         indexing' = [x EXCEPT ![b] = [NoRun EXCEPT !.step = "begin"]]
  PROVE  /\ indexing' \in [Indexers -> IndexRuns]
         /\ indexing'[b].step = "begin" /\ indexing'[b].read = {} /\ indexing'[b].rows = {}
         /\ \A j \in Indexers \ {b} : indexing'[j] = x[j]
  BY IndexConstants

LEMMA WithoutRowsOf ==
  ASSUME IndexTyped, NEW S
  PROVE  /\ WithoutRows(S) \in [Indexers -> IndexRuns]
         /\ \A i \in Indexers : /\ WithoutRows(S)[i].step = indexing[i].step
                                /\ WithoutRows(S)[i].read = indexing[i].read
                                /\ WithoutRows(S)[i].rows = indexing[i].rows \ S
  BY DEF IndexTyped, WithoutRows, IndexRuns

\* Dating the index tells every answer there is, and every asker that has retrieved.
LEMMA TouchTells ==
  ASSUME IndexTyped, TouchIndex
  PROVE  /\ fresher' \subseteq Numbers /\ ask' \in [Askers -> Asks]
         /\ \A k \in Askers : ask'[k].step = ask[k].step /\ (ask[k].step \in LateSteps => ask'[k].moved)
         /\ \A n \in Numbers \ fresher' : answers[n] = "none"
<1>1. ASSUME NEW k \in Askers
      PROVE  ask'[k] \in Asks /\ ask'[k].step = ask[k].step /\ (ask[k].step \in LateSteps => ask'[k].moved)
  <2>1. ask[k] \in Asks BY DEF IndexTyped
  <2>2. CASE ask[k].step \in LateSteps
    BY <2>1, <2>2 DEF TouchIndex, Asks, LateSteps
  <2>3. CASE ask[k].step \notin LateSteps
    BY <2>1, <2>3 DEF TouchIndex, Asks, LateSteps
  <2> QED BY <2>2, <2>3
<1>2. ask' \in [Askers -> Asks]
  <2>1. ask' = [k \in Askers |-> ask'[k]] BY DEF TouchIndex
  <2> QED BY <1>1, <2>1, Zenon
<1>3. fresher' \subseteq Numbers /\ \A n \in Numbers \ fresher' : answers[n] = "none"
  BY DEF TouchIndex
<1> QED BY <1>1, <1>2, <1>3

\* What an action has to leave of the askers and of the limit.
LEMMA LimitStays ==
  ASSUME LimitKept, questions' = questions,
         \A k \in Askers : ask'[k].step = "create" => ask[k].step = "create"
  PROVE  LimitKept'
<1>1. Counted' \subseteq Counted /\ Counted \subseteq Askers BY DEF Counted
<1>2. IsFiniteSet(Counted) BY <1>1, FS_Subset, SessionIndexAssumption
<1>3. Cardinality(Counted') \in Nat /\ Cardinality(Counted) \in Nat /\ Cardinality(Counted') <= Cardinality(Counted)
      /\ Cardinality(Askers) \in Nat
  BY <1>1, <1>2, FS_Subset, FS_CardinalityType, SessionIndexAssumption
<1> QED BY <1>3, SessionIndexAssumption DEF LimitKept

LEMMA AskersStay ==
  ASSUME AskersRun, \A k \in Askers : ask'[k].step = ask[k].step /\ (Free(k) => Free(k)')
  PROVE  AskersRun'
  BY DEF AskersRun

LEMMA HearsStill ==
  ASSUME AskersHear, AnswersHear, UNCHANGED <<ask, answers, fresher, blind>>,
         Subject \in vectors' => (Subject \in vectors /\ (Inserting => Inserting')) \/ Inserting'
  PROVE  AskersHear' /\ AnswersHear'
  BY DEF AskersHear, AnswersHear

LEMMA TouchedHears ==
  ASSUME IndexTyped, TouchIndex, answers' = answers
  PROVE  AskersHear' /\ AnswersHear'
  BY TouchTells DEF AskersHear, AnswersHear

LEMMA AwaitedStill ==
  ASSUME TextsAwaited,
         \A s \in Texts : text'[s] = "there" =>
           \/ \E j \in Indexers : Underway(indexing'[j], s)
           \/ s \in vectors' \union dropped'
           \/ /\ text[s] = "there" /\ s \notin (vectors \union dropped)
              /\ \A j \in Indexers : Underway(indexing[j], s) => Underway(indexing'[j], s)
  PROVE  TextsAwaited'
  BY DEF TextsAwaited, Awaited

LEMMA ForgottenStill ==
  ASSUME TextsForgotten,
         \A s \in Texts \ echoed' : text'[s] \in {"leaving", "deleted"} =>
           /\ s \notin echoed /\ text[s] \in {"leaving", "deleted"}
           /\ s \in vectors' => s \in vectors \/ \E i \in Indexers : s \in indexing[i].rows
           /\ \A i \in Indexers : s \in indexing'[i].read \union indexing'[i].rows
                                     => s \in indexing[i].read \union indexing[i].rows
  PROVE  TextsForgotten'
  BY DEF TextsForgotten, Forgotten

-----------------------------------------------------------------------------
\* Content comes, goes, and is indexed anew.

LEMMA TriggerStarts ==
  ASSUME IndexTyped, NEW b \in Builders, TriggerIndex(b)
  PROVE  /\ b \in Indexers /\ Free(b) /\ indexing' \in [Indexers -> IndexRuns]
         /\ indexing'[b].step = "begin" /\ indexing'[b].read = {} /\ indexing'[b].rows = {}
         /\ \A j \in Indexers \ {b} : indexing'[j] = indexing[j]
         /\ b \notin Askers
  BY IndexConstants, SessionIndexAssumption DEF IndexTyped, TriggerIndex, Indexers

\* A run that was free does no harm by starting.
LEMMA TriggerKeeps ==
  ASSUME IndexInv, NEW b \in Builders, TriggerIndex(b),
         UNCHANGED <<chunkRows, vectors, ask, questions, answers, fresher, slips, dropped, echoed, blind>>,
         NEW s \in Texts,
         \/ text[s] = "none" /\ text' = [text EXCEPT ![s] = "there"]
         \/ text[s] = "leaving" /\ text' = [text EXCEPT ![s] = "deleted"]
  PROVE  IndexInv'
<1> USE DEF IndexInv
<1>1. /\ b \in Indexers /\ Free(b) /\ indexing' \in [Indexers -> IndexRuns]
      /\ indexing'[b].step = "begin" /\ indexing'[b].read = {} /\ indexing'[b].rows = {}
      /\ \A j \in Indexers \ {b} : indexing'[j] = indexing[j]
      /\ b \notin Askers
  BY TriggerStarts
<1>2. IndexTyped' BY <1>1 DEF IndexTyped
<1>3. AskersRun' BY <1>1, AskersStay DEF Free, Indexers
<1>4. LimitKept' BY LimitStays
<1>5. Inserting => Inserting' BY <1>1 DEF Inserting, Free
<1>6. AskersHear' /\ AnswersHear' BY <1>5, HearsStill
<1>7. TextsAwaited'
  <2>1. \A x \in Texts : Underway(indexing'[b], x) BY <1>1 DEF Underway
  <2> QED BY <1>1, <2>1, AwaitedStill
<1>8. TextsForgotten'
  <2>1. \A x \in Texts : text'[x] \in {"leaving", "deleted"} => text[x] \in {"leaving", "deleted"}
    BY DEF IndexTyped
  <2> QED BY <1>1, <2>1, ForgottenStill
<1> QED BY <1>2, <1>3, <1>4, <1>6, <1>7, <1>8

LEMMA AddTextKeeps ==
  ASSUME IndexInv, NEW s \in Texts, NEW b \in Builders, AddText(s, b) PROVE IndexInv'
  BY TriggerKeeps DEF AddText

LEMMA DeleteLinkTextKeeps ==
  ASSUME IndexInv, NEW s \in Texts, NEW b \in Builders, DeleteLinkText(s, b) PROVE IndexInv'
  BY TriggerKeeps DEF DeleteLinkText

LEMMA DeleteMaterialTextKeeps ==
  ASSUME IndexInv, NEW s \in Texts, DeleteMaterialText(s) PROVE IndexInv'
<1> USE DEF IndexInv, DeleteMaterialText
<1>1. IndexTyped' BY DEF IndexTyped
<1>2. \A x \in Texts : /\ text'[x] = "there" => text[x] = "there"
                       /\ text'[x] \in {"leaving", "deleted"} => text[x] \in {"leaving", "deleted"}
  BY DEF IndexTyped
<1>3. AskersRun' /\ LimitKept' BY AskersStay, LimitStays DEF Free
<1>4. AskersHear' /\ AnswersHear' BY HearsStill DEF Inserting
<1>5. TextsAwaited' /\ TextsForgotten' BY <1>2, AwaitedStill, ForgottenStill
<1> QED BY <1>1, <1>3, <1>4, <1>5

\* The chunks of a text go, and with them its vectors and what runs were to embed.
LEMMA DeleteTextChunksKeeps ==
  ASSUME IndexInv, NEW s \in Texts, DeleteTextChunks(s) PROVE IndexInv'
<1> USE DEF IndexInv, DeleteTextChunks, DeleteChunks
<1>1. /\ indexing' \in [Indexers -> IndexRuns]
      /\ \A i \in Indexers : /\ indexing'[i].step = indexing[i].step
                             /\ indexing'[i].read = indexing[i].read
                             /\ indexing'[i].rows = indexing[i].rows \ {s}
  BY WithoutRowsOf
<1>2. IndexTyped' BY <1>1 DEF IndexTyped
<1>3. AskersRun' /\ LimitKept' BY <1>1, AskersStay, LimitStays DEF Free, Indexers
<1>4. AskersHear' /\ AnswersHear' BY <1>1, HearsStill DEF Inserting
<1>5. \A x \in Texts \ {s} : text'[x] = text[x] BY DEF IndexTyped
<1>6. text'[s] = "leaving" BY DEF IndexTyped
<1>7. TextsAwaited'
  <2>1. \A x \in Texts \ {s} : \A j \in Indexers : Underway(indexing[j], x) => Underway(indexing'[j], x)
    BY <1>1 DEF Underway
  <2> QED BY <1>5, <1>6, <2>1, AwaitedStill
<1>8. TextsForgotten'
  <2>1. ASSUME NEW x \in Texts \ echoed', text'[x] \in {"leaving", "deleted"} PROVE Forgotten(x)'
    <3>1. CASE x = s BY <1>1, <2>1, <3>1 DEF Forgotten
    <3>2. CASE x # s BY <1>1, <1>5, <2>1, <3>2 DEF Forgotten, TextsForgotten
    <3> QED BY <3>1, <3>2
  <2> QED BY <2>1 DEF TextsForgotten
<1> QED BY <1>2, <1>3, <1>4, <1>7, <1>8

\* A wipe takes everything, and the run that does it begins again.
LEMMA WipeKeeps ==
  ASSUME IndexInv, NEW b \in Indexers, Free(b), WipeIndex,
         indexing' = [WithoutRows(Texts \union {Metadata}) EXCEPT ![b] = [NoRun EXCEPT !.step = "begin"]],
         UNCHANGED <<text, slips, echoed>>
  PROVE  /\ indexing' \in [Indexers -> IndexRuns]
         /\ \A i \in Indexers : indexing'[i].rows = {} /\ indexing'[i].rows \subseteq chunkRows'
         /\ chunkRows' = {} /\ vectors' = {} /\ dropped' \subseteq Texts
         /\ \A i \in Indexers \ {b} : indexing'[i].step = indexing[i].step
         /\ indexing'[b].step = "begin"
         /\ TextsAwaited' /\ TextsForgotten'
<1> USE DEF IndexInv, WipeIndex
<1>1. PICK x : x = WithoutRows(Texts \union {Metadata}) OBVIOUS
<1>2. /\ x \in [Indexers -> IndexRuns]
      /\ \A i \in Indexers : /\ x[i].step = indexing[i].step /\ x[i].read = indexing[i].read
                             /\ x[i].rows = indexing[i].rows \ (Texts \union {Metadata})
  BY <1>1, WithoutRowsOf
<1>3. /\ indexing' \in [Indexers -> IndexRuns]
      /\ indexing'[b].step = "begin" /\ indexing'[b].read = {} /\ indexing'[b].rows = {}
      /\ \A j \in Indexers \ {b} : indexing'[j] = x[j]
  BY <1>1, <1>2, BeginStarts
<1>4. \A i \in Indexers : x[i].rows = {} BY <1>2 DEF IndexTyped, IndexRuns, Sources
<1>5. \A i \in Indexers : indexing'[i].rows = {} BY <1>3, <1>4
<1>6. dropped' \subseteq Texts BY DEF IndexTyped
<1>7. TextsAwaited'
  <2>1. \A s \in Texts : Underway(indexing'[b], s) BY <1>3 DEF Underway
  <2>2. \A s \in Texts : Awaited(s)' BY <2>1 DEF Awaited
  <2> QED BY <2>2 DEF TextsAwaited
<1>8. TextsForgotten'
  <2>1. \A i \in Indexers : indexing'[i].read \union indexing'[i].rows \subseteq indexing[i].read
    BY <1>2, <1>3, <1>5
  <2>2. \A s \in Texts : Forgotten(s) => Forgotten(s)' BY <2>1 DEF Forgotten
  <2>3. TextsForgotten /\ echoed' = echoed /\ text' = text OBVIOUS
  <2> QED BY <2>2, <2>3, Zenon DEF TextsForgotten
<1> QED BY <1>2, <1>3, <1>5, <1>6, <1>7, <1>8

LEMMA SessionReindexKeeps ==
  ASSUME IndexInv, NEW b \in Builders, SessionReindex(b) PROVE IndexInv'
<1>0. b \in Indexers /\ b \notin Askers BY SessionIndexAssumption DEF Indexers
<1> USE DEF IndexInv
<1>1. /\ indexing' \in [Indexers -> IndexRuns]
      /\ \A i \in Indexers : indexing'[i].rows = {} /\ indexing'[i].rows \subseteq chunkRows'
      /\ chunkRows' = {} /\ vectors' = {} /\ dropped' \subseteq Texts
      /\ \A i \in Indexers \ {b} : indexing'[i].step = indexing[i].step
      /\ TextsAwaited' /\ TextsForgotten'
  BY <1>0, WipeKeeps DEF SessionReindex
<1>2. IndexTyped' BY <1>1 DEF IndexTyped, SessionReindex
<1>3. AskersRun' /\ LimitKept'
  BY <1>0, <1>1, AskersStay, LimitStays DEF Free, Indexers, SessionReindex
<1>4. AskersHear' /\ AnswersHear' BY <1>1, HearsStill DEF SessionReindex
<1> QED BY <1>1, <1>2, <1>3, <1>4

-----------------------------------------------------------------------------
\* A run of IndexSession.

LEMMA IndexBeginKeeps ==
  ASSUME IndexInv, NEW i \in Indexers, IndexBegin(i) PROVE IndexInv'
<1> USE DEF IndexInv
<1>1. /\ indexing' \in [Indexers -> IndexRuns]
      /\ indexing[i].step = "begin"
      /\ indexing'[i].step = "read" /\ indexing'[i].read = indexing[i].read
      /\ indexing'[i].rows = indexing[i].rows
      /\ \A j \in Indexers \ {i} : indexing'[j] = indexing[j]
  BY RunToMoves DEF IndexBegin
<1>2. /\ fresher' \subseteq Numbers /\ ask' \in [Askers -> Asks]
      /\ \A k \in Askers : ask'[k].step = ask[k].step
  BY TouchTells DEF IndexBegin
<1>3. IndexTyped' BY <1>1, <1>2 DEF IndexTyped, IndexBegin
<1>4. AskersRun' /\ LimitKept'
  BY <1>1, <1>2, AskersStay, LimitStays DEF Free, Indexers, IndexBegin
<1>5. AskersHear' /\ AnswersHear' BY TouchedHears DEF IndexBegin
<1>6. TextsAwaited'
  <2>1. \A s \in Texts : Underway(indexing'[i], s) BY <1>1 DEF Underway
  <2> QED BY <2>1 DEF TextsAwaited, Awaited
<1>7. TextsForgotten' BY <1>1, ForgottenStill DEF IndexBegin
<1> QED BY <1>3, <1>4, <1>5, <1>6, <1>7

\* A run that fails has its texts among those it took.
LEMMA FailureKeeps ==
  ASSUME IndexInv, NEW i \in Indexers, Failed(i), indexing[i].step # "insert",
         UNCHANGED <<text, vectors, echoed>>
  PROVE  /\ TextsAwaited' /\ TextsForgotten'
         /\ indexing' \in [Indexers -> IndexRuns] /\ dropped' \subseteq Texts
         /\ \A j \in Indexers : indexing'[j].rows \subseteq chunkRows
         /\ \A j \in Indexers : Free(j) => Free(j)'
         /\ Inserting => Inserting'
<1> USE DEF IndexInv
<1>1. /\ indexing' \in [Indexers -> IndexRuns]
      /\ indexing'[i].step \in {"idle", "failed"}
      /\ indexing'[i].read = {} /\ indexing'[i].rows = {}
      /\ \A j \in Indexers \ {i} : indexing'[j] = indexing[j]
      /\ dropped' \subseteq Texts /\ dropped \subseteq dropped'
      /\ \A s \in Texts : text[s] = "there" => s \in dropped'
  BY FailedStops
<1>2. TextsAwaited' BY <1>1 DEF TextsAwaited, Awaited
<1>3. TextsForgotten' BY <1>1, ForgottenStill
<1>4. \A j \in Indexers : indexing'[j].rows \subseteq chunkRows BY <1>1 DEF IndexTyped
<1>5. \A j \in Indexers : Free(j) => Free(j)' BY <1>1 DEF Free
<1>6. Inserting => Inserting' BY <1>1 DEF Inserting
<1> QED BY <1>1, <1>2, <1>3, <1>4, <1>5, <1>6

LEMMA SlipCounted ==
  ASSUME slips \in 0..MaxSlips, Slip \/ slips' = slips PROVE slips' \in 0..MaxSlips
  BY SessionIndexAssumption DEF Slip

LEMMA IndexReadKeeps ==
  ASSUME IndexInv, NEW i \in Indexers, IndexRead(i) PROVE IndexInv'
<1> USE DEF IndexInv
<1> DEFINE read == HasIndexableText \union {Metadata}
<1>u. /\ indexing[i].step = "read"
      /\ UNCHANGED <<text, chunkRows, vectors, ask, questions, answers, fresher, blind>>
  BY DEF IndexRead
<1>0. slips' \in 0..MaxSlips BY SlipCounted DEF IndexRead, IndexTyped
<1>1. CASE /\ indexing' = [indexing EXCEPT ![i] = [step |-> "upsert", read |-> read, rows |-> {}]]
           /\ echoed' = echoed \union {s \in Texts : text[s] = "leaving"}
           /\ UNCHANGED dropped
  <2>1. read \subseteq Sources /\ \A s \in Texts : s \in read <=> text[s] \in {"there", "leaving"}
    BY SessionIndexAssumption DEF HasIndexableText, Sources
  <2> HIDE DEF read
  <2>2. /\ indexing' \in [Indexers -> IndexRuns]
        /\ indexing'[i].step = "upsert" /\ indexing'[i].read = read /\ indexing'[i].rows = {}
        /\ \A j \in Indexers \ {i} : indexing'[j] = indexing[j]
    BY <1>1, <2>1 DEF IndexTyped, IndexRuns
  <2>3. IndexTyped' BY <1>1, <1>0, <1>u, <2>2 DEF IndexTyped
  <2>4. AskersRun' /\ LimitKept' BY <1>u, <2>2, AskersStay, LimitStays DEF Free, Indexers
  <2>5. Inserting => Inserting' BY <1>u, <2>2 DEF Inserting
  <2>6. AskersHear' /\ AnswersHear' BY <1>u, <2>5, HearsStill
  <2>7. TextsAwaited'
    <3>1. \A s \in Texts : text[s] = "there" => Underway(indexing'[i], s) BY <2>1, <2>2 DEF Underway
    <3> QED BY <1>u, <3>1 DEF TextsAwaited, Awaited
  <2>8. TextsForgotten'
    <3>1. \A s \in Texts \ echoed' : text'[s] \in {"leaving", "deleted"} => s \notin read
      BY <1>1, <1>u, <2>1
    <3> QED BY <1>1, <1>u, <2>2, <3>1, ForgottenStill
  <2> QED BY <2>3, <2>4, <2>6, <2>7, <2>8
<1>2. CASE Slip /\ Failed(i) /\ UNCHANGED echoed
  <2>1. /\ TextsAwaited' /\ TextsForgotten'
        /\ indexing' \in [Indexers -> IndexRuns] /\ dropped' \subseteq Texts
        /\ \A j \in Indexers : indexing'[j].rows \subseteq chunkRows
        /\ \A j \in Indexers : Free(j) => Free(j)'
        /\ Inserting => Inserting'
    BY <1>u, <1>2, FailureKeeps
  <2>2. IndexTyped' BY <1>0, <1>u, <1>2, <2>1 DEF IndexTyped
  <2>3. AskersRun' /\ LimitKept' BY <1>u, <2>1, AskersStay, LimitStays DEF Indexers
  <2>4. AskersHear' /\ AnswersHear' BY <1>u, <2>1, HearsStill
  <2> QED BY <2>1, <2>2, <2>3, <2>4
<1> QED BY <1>1, <1>2 DEF IndexRead

LEMMA UpsertChunksKeeps ==
  ASSUME IndexInv, NEW i \in Indexers, UpsertChunks(i) PROVE IndexInv'
<1> USE DEF IndexInv
<1>u. /\ indexing[i].step = "upsert"
      /\ UNCHANGED <<text, vectors, ask, questions, answers, fresher, echoed, blind>>
  BY DEF UpsertChunks
<1>0. slips' \in 0..MaxSlips BY SlipCounted DEF UpsertChunks, IndexTyped
<1>r. indexing[i].read \subseteq Sources BY DEF IndexTyped, IndexRuns
<1>1. CASE /\ chunkRows' = chunkRows \union indexing[i].read
           /\ indexing' = [indexing EXCEPT ![i] = [step |-> "clear", read |-> {}, rows |-> indexing[i].read]]
           /\ UNCHANGED dropped
  <2>2. /\ indexing' \in [Indexers -> IndexRuns]
        /\ indexing'[i].step = "clear" /\ indexing'[i].read = {} /\ indexing'[i].rows = indexing[i].read
        /\ \A j \in Indexers \ {i} : indexing'[j] = indexing[j]
    BY <1>1, <1>r DEF IndexTyped, IndexRuns
  <2>3. IndexTyped' BY <1>1, <1>0, <1>r, <1>u, <2>2 DEF IndexTyped
  <2>4. AskersRun' /\ LimitKept' BY <1>u, <2>2, AskersStay, LimitStays DEF Free, Indexers
  <2>5. Inserting => Inserting' BY <1>u, <2>2 DEF Inserting
  <2>6. AskersHear' /\ AnswersHear' BY <1>u, <2>5, HearsStill
  <2>7. TextsAwaited'
    <3>1. \A s \in Texts, j \in Indexers : Underway(indexing[j], s) => Underway(indexing'[j], s)
      BY <1>u, <2>2 DEF Underway
    <3> QED BY <1>1, <1>u, <3>1, AwaitedStill
  <2>8. TextsForgotten' BY <1>u, <2>2, ForgottenStill
  <2> QED BY <2>3, <2>4, <2>6, <2>7, <2>8
<1>2. CASE Slip /\ Failed(i) /\ \E done \in SUBSET indexing[i].read : chunkRows' = chunkRows \union done
  <2>1. /\ TextsAwaited' /\ TextsForgotten'
        /\ indexing' \in [Indexers -> IndexRuns] /\ dropped' \subseteq Texts
        /\ \A j \in Indexers : indexing'[j].rows \subseteq chunkRows
        /\ \A j \in Indexers : Free(j) => Free(j)'
        /\ Inserting => Inserting'
    BY <1>u, <1>2, FailureKeeps
  <2>2. IndexTyped' BY <1>0, <1>u, <1>r, <1>2, <2>1 DEF IndexTyped
  <2>3. AskersRun' /\ LimitKept' BY <1>u, <2>1, AskersStay, LimitStays DEF Indexers
  <2>4. AskersHear' /\ AnswersHear' BY <1>u, <2>1, HearsStill
  <2> QED BY <2>1, <2>2, <2>3, <2>4
<1> QED BY <1>1, <1>2 DEF UpsertChunks

LEMMA ClearVectorsKeeps ==
  ASSUME IndexInv, NEW i \in Indexers, ClearVectors(i) PROVE IndexInv'
<1> USE DEF IndexInv
<1>u. /\ indexing[i].step = "clear" /\ vectors' = {}
      /\ dropped' = dropped \union ((vectors \ indexing[i].rows) \intersect Texts)
      /\ UNCHANGED <<text, chunkRows, ask, questions, answers, fresher, slips, echoed, blind>>
  BY DEF ClearVectors
<1>1. /\ indexing' \in [Indexers -> IndexRuns]
      /\ indexing'[i].step = "embed" /\ indexing'[i].read = indexing[i].read
      /\ indexing'[i].rows = indexing[i].rows
      /\ \A j \in Indexers \ {i} : indexing'[j] = indexing[j]
  BY RunToMoves DEF ClearVectors
<1>2. IndexTyped' BY <1>1, <1>u DEF IndexTyped
<1>3. AskersRun' /\ LimitKept' BY <1>u, <1>1, AskersStay, LimitStays DEF Free, Indexers
<1>4. AskersHear' /\ AnswersHear' BY <1>u, HearsStill
<1>5. TextsAwaited'
  <2>1. ASSUME NEW s \in Texts, Awaited(s) PROVE Awaited(s)'
    <3>1. CASE s \in vectors \ indexing[i].rows BY <1>u, <3>1 DEF Awaited
    <3>2. CASE s \in indexing[i].rows
      <4>1. Underway(indexing'[i], s) BY <1>1, <3>2 DEF Underway
      <4> QED BY <4>1 DEF Awaited
    <3>3. CASE s \in dropped BY <1>u, <3>3 DEF Awaited
    <3>4. ASSUME NEW j \in Indexers, Underway(indexing[j], s) PROVE Awaited(s)'
      <4>1. Underway(indexing'[j], s) BY <1>u, <1>1, <3>4 DEF Underway
      <4> QED BY <4>1 DEF Awaited
    <3> QED BY <2>1, <3>1, <3>2, <3>3, <3>4 DEF Awaited
  <2> QED BY <1>u, <2>1 DEF TextsAwaited
<1>6. TextsForgotten' BY <1>u, <1>1, ForgottenStill
<1> QED BY <1>2, <1>3, <1>4, <1>5, <1>6

LEMMA EmbedKeeps ==
  ASSUME IndexInv, NEW i \in Indexers, Embed(i) PROVE IndexInv'
<1> USE DEF IndexInv
<1>u. /\ indexing[i].step = "embed"
      /\ UNCHANGED <<text, chunkRows, vectors, questions, answers, echoed, blind>>
  BY DEF Embed
<1>0. slips' \in 0..MaxSlips BY SlipCounted DEF Embed, IndexTyped
<1>1. CASE RunTo(i, "insert") /\ UNCHANGED <<ask, fresher, slips, dropped>>
  <2>1. /\ indexing' \in [Indexers -> IndexRuns]
        /\ indexing'[i].step = "insert" /\ indexing'[i].read = indexing[i].read
        /\ indexing'[i].rows = indexing[i].rows
        /\ \A j \in Indexers \ {i} : indexing'[j] = indexing[j]
    BY <1>1, RunToMoves
  <2>2. IndexTyped' BY <1>u, <1>1, <2>1 DEF IndexTyped
  <2>3. AskersRun' /\ LimitKept' BY <1>u, <1>1, <2>1, AskersStay, LimitStays DEF Free, Indexers
  <2>4. AskersHear' /\ AnswersHear' BY <1>u, <1>1, <2>1, HearsStill DEF Inserting
  <2>5. TextsAwaited'
    <3>1. \A s \in Texts, j \in Indexers : Underway(indexing[j], s) => Underway(indexing'[j], s)
      BY <1>u, <2>1 DEF Underway
    <3> QED BY <1>1, <1>u, <3>1, AwaitedStill
  <2>6. TextsForgotten' BY <1>u, <2>1, ForgottenStill
  <2> QED BY <2>2, <2>3, <2>4, <2>5, <2>6
<1>2. CASE Slip /\ Failed(i) /\ TouchIndex
  <2>1. /\ TextsAwaited' /\ TextsForgotten'
        /\ indexing' \in [Indexers -> IndexRuns] /\ dropped' \subseteq Texts
        /\ \A j \in Indexers : indexing'[j].rows \subseteq chunkRows
        /\ \A j \in Indexers : Free(j) => Free(j)'
    BY <1>u, <1>2, FailureKeeps
  <2>2. /\ fresher' \subseteq Numbers /\ ask' \in [Askers -> Asks]
        /\ \A k \in Askers : ask'[k].step = ask[k].step
    BY <1>2, TouchTells
  <2>3. IndexTyped' BY <1>0, <1>u, <2>1, <2>2 DEF IndexTyped
  <2>4. AskersRun' /\ LimitKept' BY <1>u, <2>1, <2>2, AskersStay, LimitStays DEF Indexers
  <2>5. AskersHear' /\ AnswersHear' BY <1>u, <1>2, TouchedHears
  <2> QED BY <2>1, <2>3, <2>4, <2>5
<1> QED BY <1>1, <1>2 DEF Embed

LEMMA InsertVectorKeeps ==
  ASSUME IndexInv, NEW i \in Indexers, NEW s, InsertVector(i, s) PROVE IndexInv'
<1> USE DEF IndexInv
<1>u. /\ indexing[i].step = "insert" /\ s \in indexing[i].rows
      /\ vectors' = vectors \union {s} /\ dropped' = dropped \ {s}
      /\ UNCHANGED <<text, chunkRows, ask, questions, answers, fresher, slips, echoed, blind>>
  BY DEF InsertVector
<1>1. /\ indexing' \in [Indexers -> IndexRuns]
      /\ indexing'[i].step = "insert" /\ indexing'[i].read = indexing[i].read
      /\ indexing'[i].rows = indexing[i].rows \ {s}
      /\ \A j \in Indexers \ {i} : indexing'[j] = indexing[j]
  BY DEF IndexTyped, IndexRuns, InsertVector, Inserted
<1>2. IndexTyped' BY <1>1, <1>u DEF IndexTyped
<1>3. AskersRun' /\ LimitKept' BY <1>u, <1>1, AskersStay, LimitStays DEF Free, Indexers
<1>4. AskersHear' /\ AnswersHear' BY <1>u, <1>1, HearsStill DEF Inserting
<1>5. TextsAwaited'
  <2>1. ASSUME NEW x \in Texts, Awaited(x) PROVE Awaited(x)'
    <3>1. CASE x = s BY <1>u, <3>1 DEF Awaited
    <3>2. ASSUME x # s, NEW j \in Indexers, Underway(indexing[j], x) PROVE Awaited(x)'
      <4>1. Underway(indexing'[j], x) BY <1>u, <1>1, <3>2 DEF Underway
      <4> QED BY <4>1 DEF Awaited
    <3>3. CASE x # s /\ x \in vectors \union dropped BY <1>u, <3>3 DEF Awaited
    <3> QED BY <2>1, <3>1, <3>2, <3>3 DEF Awaited
  <2> QED BY <1>u, <2>1 DEF TextsAwaited
<1>6. TextsForgotten' BY <1>u, <1>1, ForgottenStill
<1> QED BY <1>2, <1>3, <1>4, <1>5, <1>6

LEMMA IndexReadyKeeps ==
  ASSUME IndexInv, NEW i \in Indexers, IndexReady(i) PROVE IndexInv'
<1> USE DEF IndexInv
<1>u. /\ indexing[i].step = "insert" /\ indexing[i].rows = {} /\ TouchIndex
      /\ UNCHANGED <<text, chunkRows, vectors, questions, answers, slips, dropped, echoed, blind>>
  BY DEF IndexReady
<1>1. /\ indexing' \in [Indexers -> IndexRuns]
      /\ indexing'[i].step = "idle" /\ indexing'[i].read = {} /\ indexing'[i].rows = {}
      /\ \A j \in Indexers \ {i} : indexing'[j] = indexing[j]
  BY IndexConstants DEF IndexTyped, IndexReady
<1>2. /\ fresher' \subseteq Numbers /\ ask' \in [Askers -> Asks]
      /\ \A k \in Askers : ask'[k].step = ask[k].step
  BY <1>u, TouchTells
<1>3. IndexTyped' BY <1>1, <1>2, <1>u DEF IndexTyped
<1>4. AskersRun' /\ LimitKept' BY <1>u, <1>1, <1>2, AskersStay, LimitStays DEF Free, Indexers
<1>5. AskersHear' /\ AnswersHear' BY <1>u, TouchedHears
<1>6. TextsAwaited'
  <2>1. \A s \in Texts, j \in Indexers : Underway(indexing[j], s) => Underway(indexing'[j], s)
    BY <1>u, <1>1 DEF Underway
  <2> QED BY <1>u, <2>1, AwaitedStill
<1>7. TextsForgotten' BY <1>u, <1>1, ForgottenStill
<1> QED BY <1>3, <1>4, <1>5, <1>6, <1>7

-----------------------------------------------------------------------------
\* The askers.  One that moves leaves the others as they are.

Moves(k, w) ==
  /\ ask' \in [Askers -> Asks] /\ ask'[k] = w
  /\ \A l \in Askers \ {k} : ask'[l] = ask[l]

LEMMA AskMoves ==
  ASSUME IndexTyped, NEW k \in Askers, NEW w \in Asks, ask' = [ask EXCEPT ![k] = w]
  PROVE  Moves(k, w)
  BY DEF IndexTyped, Moves

\* Steps that leave the index and its runs alone.
AskOnly == UNCHANGED <<text, chunkRows, vectors, indexing, slips, dropped, echoed>>

LEMMA AskOnlyKeeps ==
  ASSUME IndexInv, AskOnly, NEW k \in Askers, NEW w \in Asks, Moves(k, w),
         w.step \notin {"retrieve", "again"} => Free(k)
  PROVE  AskersRun' /\ TextsAwaited' /\ TextsForgotten'
<1> USE DEF IndexInv, AskOnly
<1>1. AskersRun' BY DEF AskersRun, Moves, Free
<1>2. TextsAwaited' BY DEF TextsAwaited, Awaited
<1>3. TextsForgotten' BY DEF TextsForgotten, Forgotten
<1> QED BY <1>1, <1>2, <1>3

\* A move that neither looks nor answers does not change what is heard.
LEMMA MovedHears ==
  ASSUME IndexInv, AskOnly, NEW k \in Askers, NEW w \in Asks, Moves(k, w),
         UNCHANGED <<answers, fresher, blind>>,
         w.step \in LateSteps =>
           \/ ask[k].step \in LateSteps /\ w.saw = ask[k].saw /\ w.moved = ask[k].moved
           \/ (w.saw <=> Subject \in vectors)
  PROVE  AskersHear' /\ AnswersHear'
  BY DEF IndexInv, AskOnly, Moves, AskersHear, AnswersHear, Inserting

LEMMA FindKeeps ==
  ASSUME IndexInv, NEW k \in Askers, NEW via \in {"web", "mcp"}, FindExistingQuestion(k, via)
  PROVE  IndexInv'
<1> USE DEF IndexInv
<1>u. /\ ask[k].step = "idle" /\ AskOnly /\ UNCHANGED <<questions, answers, fresher, blind>>
  BY DEF FindExistingQuestion, AskOnly
<1>n. questions \in Numbers \union {0}
  <2>1. Cardinality(Counted) \in Nat /\ Cardinality(Askers) \in Nat
    BY FS_Subset, FS_CardinalityType, SessionIndexAssumption DEF Counted
  <2> QED BY <2>1, SessionIndexAssumption DEF LimitKept, Numbers
<1>0. PICK w : w = [NotAsking EXCEPT !.step = "ensure", !.via = via, !.retry = Latest # "none",
                                     !.number = IF Latest = "none" THEN 0 ELSE questions]
  OBVIOUS
<1>1. w \in Asks /\ w.step = "ensure" BY <1>0, <1>n DEF NotAsking, Asks, Latest
<1>2. Moves(k, w) BY <1>0, <1>1, AskMoves DEF FindExistingQuestion
<1>3. IndexTyped' BY <1>u, <1>2 DEF IndexTyped, AskOnly, Moves
<1>4. Free(k) BY <1>u DEF AskersRun
<1>5. AskersRun' /\ TextsAwaited' /\ TextsForgotten' BY <1>u, <1>1, <1>2, <1>4, AskOnlyKeeps
<1>6. AskersHear' /\ AnswersHear' BY <1>u, <1>1, <1>2, MovedHears DEF LateSteps
<1>7. LimitKept' BY <1>u, <1>1, <1>2, LimitStays DEF Moves
<1> QED BY <1>3, <1>5, <1>6, <1>7

LEMMA EnsureKeeps ==
  ASSUME IndexInv, NEW k \in Askers, EnsureSessionIndex(k) PROVE IndexInv'
<1> USE DEF IndexInv
<1>i. k \in Indexers BY DEF Indexers
<1>u. /\ ask[k].step = "ensure"
      /\ UNCHANGED <<text, chunkRows, vectors, questions, answers, fresher, slips, dropped, echoed, blind>>
  BY DEF EnsureSessionIndex
<1>1. Free(k) BY <1>u DEF AskersRun
<1>2. /\ indexing' \in [Indexers -> IndexRuns]
      /\ indexing'[k].read = {} /\ indexing'[k].rows = {}
      /\ \A j \in Indexers \ {k} : indexing'[j] = indexing[j]
  BY <1>i, IndexConstants DEF IndexTyped, EnsureSessionIndex
<1>3. PICK w : w = [ask[k] EXCEPT !.step = "retrieve"] OBVIOUS
<1>4. w \in Asks /\ w.step = "retrieve" BY <1>3 DEF IndexTyped, Asks
<1>5. Moves(k, w) BY <1>3, <1>4, AskMoves DEF EnsureSessionIndex
<1>6. IndexTyped' BY <1>u, <1>2, <1>5 DEF IndexTyped, Moves
<1>7. AskersRun' BY <1>2, <1>4, <1>5 DEF AskersRun, Moves, Free, Indexers
<1>8. LimitKept' BY <1>u, <1>4, <1>5, LimitStays DEF Moves
<1>9. Inserting => Inserting' BY <1>1, <1>2 DEF Inserting, Free
<1>10. AskersHear' /\ AnswersHear'
  BY <1>u, <1>4, <1>5, <1>9 DEF Moves, AskersHear, AnswersHear, LateSteps
<1>11. TextsAwaited'
  <2>1. \A s \in Texts, j \in Indexers : Underway(indexing[j], s) => Underway(indexing'[j], s)
    BY <1>1, <1>2 DEF Underway, Free
  <2> QED BY <1>u, <2>1, AwaitedStill
<1>12. TextsForgotten' BY <1>u, <1>2, ForgottenStill
<1> QED BY <1>6, <1>7, <1>8, <1>10, <1>11, <1>12

LEMMA GivenUp ==
  ASSUME IndexTyped, NEW k \in Askers, GiveUpAsking(k) PROVE Moves(k, NotAsking)
  BY IndexConstants, AskMoves DEF GiveUpAsking

LEMMA RetrieveTopKKeeps ==
  ASSUME IndexInv, NEW k \in Askers, RetrieveTopK(k) PROVE IndexInv'
<1> USE DEF IndexInv
<1>i. k \in Indexers BY DEF Indexers
<1>u. /\ ask[k].step = "retrieve" /\ Free(k)
      /\ UNCHANGED <<text, questions, answers, fresher, slips, echoed, blind>>
  BY DEF RetrieveTopK
<1> DEFINE Looks(step) == ask' = [ask EXCEPT ![k] = [ask[k] EXCEPT !.step = step, !.saw = Subject \in vectors]]
           begin == [NoRun EXCEPT !.step = "begin"]
<1>l. ASSUME NEW step \in {"again", "count"}, Looks(step)
      PROVE  \E w \in Asks : Moves(k, w) /\ w.step = step /\ (w.saw <=> Subject \in vectors)
  <2>0. PICK saw \in BOOLEAN : saw <=> (Subject \in vectors) OBVIOUS
  <2>1. PICK w : w = [ask[k] EXCEPT !.step = step, !.saw = saw] OBVIOUS
  <2>2. w \in Asks /\ w.step = step /\ w.saw = saw BY <2>1 DEF IndexTyped, Asks
  <2>3. ask' = [ask EXCEPT ![k] = w] BY <1>l, <2>0, <2>1
  <2> QED BY <2>0, <2>2, <2>3, AskMoves
<1> HIDE DEF Looks
<1>1. CASE GiveUpAsking(k) /\ UNCHANGED <<chunkRows, vectors, indexing, dropped>>
  <2>1. Moves(k, NotAsking) /\ NotAsking \in Asks /\ NotAsking.step = "idle"
    BY <1>1, GivenUp, IndexConstants
  <2>2. AskOnly BY <1>1, <1>u DEF AskOnly
  <2>3. IndexTyped' BY <1>u, <1>1, <2>1 DEF IndexTyped, Moves
  <2>4. AskersRun' /\ TextsAwaited' /\ TextsForgotten' BY <1>u, <2>1, <2>2, AskOnlyKeeps
  <2>5. AskersHear' /\ AnswersHear' BY <1>u, <2>1, <2>2, MovedHears DEF LateSteps
  <2>6. LimitKept' BY <1>u, <2>1, LimitStays DEF Moves
  <2> QED BY <2>3, <2>4, <2>5, <2>6
<1>2. CASE /\ Looks("again") /\ WipeIndex
           /\ indexing' = [WithoutRows(Texts \union {Metadata}) EXCEPT ![k] = begin]
  <2>1. PICK w \in Asks : Moves(k, w) /\ w.step = "again" /\ (w.saw <=> Subject \in vectors) BY <1>2, <1>l
  <2>2. /\ indexing' \in [Indexers -> IndexRuns]
        /\ \A i \in Indexers : indexing'[i].rows = {} /\ indexing'[i].rows \subseteq chunkRows'
        /\ chunkRows' = {} /\ vectors' = {} /\ dropped' \subseteq Texts
        /\ \A i \in Indexers \ {k} : indexing'[i].step = indexing[i].step
        /\ TextsAwaited' /\ TextsForgotten'
    BY <1>i, <1>u, <1>2, WipeKeeps
  <2>3. IndexTyped' BY <1>u, <2>1, <2>2 DEF IndexTyped, Moves
  <2>4. AskersRun' BY <2>1, <2>2 DEF AskersRun, Moves, Free, Indexers
  <2>5. AskersHear' /\ AnswersHear' BY <2>2 DEF AskersHear, AnswersHear
  <2>6. LimitKept' BY <1>u, <2>1, LimitStays DEF Moves
  <2> QED BY <2>2, <2>3, <2>4, <2>5, <2>6
<1>3. CASE /\ Looks("again") /\ UNCHANGED <<chunkRows, vectors, dropped>>
           /\ indexing' = [indexing EXCEPT ![k] = begin]
  <2>1. PICK w \in Asks : Moves(k, w) /\ w.step = "again" /\ (w.saw <=> Subject \in vectors) BY <1>3, <1>l
  <2>2. /\ indexing' \in [Indexers -> IndexRuns]
        /\ indexing'[k].read = {} /\ indexing'[k].rows = {}
        /\ \A j \in Indexers \ {k} : indexing'[j] = indexing[j]
    BY <1>i, <1>3, BeginStarts DEF IndexTyped
  <2>3. IndexTyped' BY <1>u, <1>3, <2>1, <2>2 DEF IndexTyped, Moves
  <2>4. AskersRun' BY <2>1, <2>2 DEF AskersRun, Moves, Free, Indexers
  <2>5. Inserting => Inserting' BY <1>u, <2>2 DEF Inserting, Free
  <2>6. AskersHear' /\ AnswersHear'
    BY <1>u, <1>3, <2>1, <2>5 DEF Moves, AskersHear, AnswersHear
  <2>7. LimitKept' BY <1>u, <2>1, LimitStays DEF Moves
  <2>8. TextsAwaited'
    <3>1. \A s \in Texts, j \in Indexers : Underway(indexing[j], s) => Underway(indexing'[j], s)
      BY <1>u, <2>2 DEF Underway, Free
    <3> QED BY <1>u, <1>3, <3>1, AwaitedStill
  <2>9. TextsForgotten' BY <1>u, <1>3, <2>2, ForgottenStill
  <2> QED BY <2>3, <2>4, <2>6, <2>7, <2>8, <2>9
<1>4. CASE Looks("count") /\ UNCHANGED <<chunkRows, vectors, dropped, indexing>>
  <2>1. PICK w \in Asks : Moves(k, w) /\ w.step = "count" /\ (w.saw <=> Subject \in vectors) BY <1>4, <1>l
  <2>2. AskOnly BY <1>4, <1>u DEF AskOnly
  <2>3. IndexTyped' BY <1>u, <1>4, <2>1 DEF IndexTyped, Moves
  <2>4. AskersRun' /\ TextsAwaited' /\ TextsForgotten' BY <1>u, <2>1, <2>2, AskOnlyKeeps
  <2>5. AskersHear' /\ AnswersHear' BY <1>u, <2>1, <2>2, MovedHears
  <2>6. LimitKept' BY <1>u, <2>1, LimitStays DEF Moves
  <2> QED BY <2>3, <2>4, <2>5, <2>6
<1> QED BY <1>1, <1>2, <1>3, <1>4 DEF RetrieveTopK, Looks

LEMMA RetrieveAgainKeeps ==
  ASSUME IndexInv, NEW k \in Askers, RetrieveAgain(k) PROVE IndexInv'
<1> USE DEF IndexInv
<1>u. /\ ask[k].step = "again" /\ Free(k) /\ AskOnly /\ UNCHANGED <<questions, answers, fresher, blind>>
  BY DEF RetrieveAgain, AskOnly
<1>1. \E w \in Asks : Moves(k, w) /\ w.step = "count"
                      /\ ((w.saw = ask[k].saw /\ w.moved = ask[k].moved) \/ (w.saw <=> Subject \in vectors))
  <2>1. CASE indexing[k].step = "failed"
    <3>1. PICK w : w = [ask[k] EXCEPT !.step = "count"] OBVIOUS
    <3>2. w \in Asks /\ w.step = "count" /\ w.saw = ask[k].saw /\ w.moved = ask[k].moved
      BY <3>1 DEF IndexTyped, Asks
    <3>3. ask' = [ask EXCEPT ![k] = w] BY <2>1, <3>1 DEF RetrieveAgain
    <3> QED BY <3>2, <3>3, AskMoves
  <2>2. CASE indexing[k].step # "failed"
    <3>0. PICK saw \in BOOLEAN : saw <=> (Subject \in vectors) OBVIOUS
    <3>1. PICK w : w = [ask[k] EXCEPT !.step = "count", !.saw = saw, !.moved = FALSE] OBVIOUS
    <3>2. w \in Asks /\ w.step = "count" /\ w.saw = saw
      BY <3>1 DEF IndexTyped, Asks
    <3>3. ask' = [ask EXCEPT ![k] = w] BY <2>2, <3>0, <3>1 DEF RetrieveAgain
    <3> QED BY <3>0, <3>2, <3>3, AskMoves
  <2> QED BY <2>1, <2>2
<1>2. PICK w \in Asks : /\ Moves(k, w) /\ w.step = "count"
                        /\ ((w.saw = ask[k].saw /\ w.moved = ask[k].moved) \/ (w.saw <=> Subject \in vectors))
  BY <1>1
<1>3. IndexTyped' BY <1>u, <1>2 DEF IndexTyped, Moves, AskOnly
<1>4. AskersRun' /\ TextsAwaited' /\ TextsForgotten' BY <1>u, <1>2, AskOnlyKeeps
<1>5. AskersHear' /\ AnswersHear' BY <1>u, <1>2, MovedHears DEF LateSteps
<1>6. LimitKept' BY <1>u, <1>2, LimitStays DEF Moves
<1> QED BY <1>3, <1>4, <1>5, <1>6

\* A request that passes the check of the limit is counted from then on.
LEMMA CountedGrows ==
  ASSUME LimitKept, questions < MaxQuestions, questions' = questions
  PROVE  LimitKept'
<1>1. Counted' \subseteq Askers BY DEF Counted
<1>2. Cardinality(Counted') \in Nat /\ Cardinality(Askers) \in Nat /\ Cardinality(Counted') <= Cardinality(Askers)
  BY <1>1, FS_Subset, FS_CardinalityType, SessionIndexAssumption
<1> QED BY <1>2, SessionIndexAssumption DEF LimitKept

LEMMA CountKeeps ==
  ASSUME IndexInv, NEW k \in Askers, CountQuestions(k) PROVE IndexInv'
<1> USE DEF IndexInv
<1>u. /\ ask[k].step = "count" /\ AskOnly /\ UNCHANGED <<questions, answers, fresher, blind>>
  BY DEF CountQuestions, AskOnly
<1>f. Free(k) BY <1>u DEF AskersRun
<1>1. CASE GiveUpAsking(k)
  <2>1. Moves(k, NotAsking) /\ NotAsking \in Asks /\ NotAsking.step = "idle"
    BY <1>1, GivenUp, IndexConstants
  <2>2. IndexTyped' BY <1>u, <2>1 DEF IndexTyped, Moves, AskOnly
  <2>3. AskersRun' /\ TextsAwaited' /\ TextsForgotten' BY <1>u, <1>f, <2>1, AskOnlyKeeps
  <2>4. AskersHear' /\ AnswersHear' BY <1>u, <2>1, MovedHears DEF LateSteps
  <2>5. LimitKept' BY <1>u, <2>1, LimitStays DEF Moves
  <2> QED BY <2>2, <2>3, <2>4, <2>5
<1>2. ASSUME NEW step \in {"create", "answer"}, ask' = [ask EXCEPT ![k].step = step],
             IF step = "create" THEN questions < MaxQuestions ELSE ask[k].retry
      PROVE  IndexInv'
  <2>1. PICK w : w = [ask[k] EXCEPT !.step = step] OBVIOUS
  <2>2. w \in Asks /\ w.step = step /\ w.saw = ask[k].saw /\ w.moved = ask[k].moved
    BY <1>2, <2>1 DEF IndexTyped, Asks
  <2>3. Moves(k, w) BY <1>2, <2>1, <2>2, AskMoves
  <2>4. IndexTyped' BY <1>u, <2>3 DEF IndexTyped, Moves, AskOnly
  <2>5. AskersRun' /\ TextsAwaited' /\ TextsForgotten' BY <1>u, <1>f, <2>2, <2>3, AskOnlyKeeps
  <2>6. AskersHear' /\ AnswersHear' BY <1>u, <2>2, <2>3, MovedHears DEF LateSteps
  <2>7. CASE step = "create" BY <1>u, <1>2, <2>4, <2>5, <2>6, <2>7, CountedGrows
  <2>8. CASE step = "answer"
    <3>1. LimitKept' BY <1>u, <2>2, <2>3, <2>8, LimitStays DEF Moves
    <3> QED BY <2>4, <2>5, <2>6, <3>1
  <2> QED BY <2>7, <2>8
<1> QED BY <1>1, <1>2 DEF CountQuestions, BelowQuestionLimit

LEMMA CreateKeeps ==
  ASSUME IndexInv, NEW k \in Askers, CreateQuestion(k) PROVE IndexInv'
<1> USE DEF IndexInv
<1>u. /\ ask[k].step = "create" /\ AskOnly /\ questions' = questions + 1 /\ UNCHANGED <<answers, fresher, blind>>
  BY DEF CreateQuestion, AskOnly
<1>f. Free(k) BY <1>u DEF AskersRun
<1>1. /\ Counted \subseteq Askers /\ k \in Counted /\ IsFiniteSet(Counted)
  BY <1>u, FS_Subset, SessionIndexAssumption DEF Counted
<1>2. /\ Cardinality(Counted) \in Nat /\ Cardinality(Askers) \in Nat
      /\ Cardinality(Counted \ {k}) = Cardinality(Counted) - 1
      /\ Cardinality(Counted \ {k}) \in Nat
  BY <1>1, FS_CardinalityType, FS_RemoveElement, FS_Subset, SessionIndexAssumption
<1>3. questions + 1 \in Numbers /\ questions + 1 # 0
  BY <1>2, SessionIndexAssumption DEF LimitKept, Numbers
<1>4. PICK w : w = [ask[k] EXCEPT !.step = "answer", !.number = questions + 1] OBVIOUS
<1>5. w \in Asks /\ w.step = "answer" /\ w.saw = ask[k].saw /\ w.moved = ask[k].moved
  BY <1>3, <1>4 DEF IndexTyped, Asks
<1>6. ask' = [ask EXCEPT ![k] = w] BY <1>4 DEF CreateQuestion
<1>7. Moves(k, w) BY <1>5, <1>6, AskMoves
<1>8. IndexTyped' BY <1>u, <1>7 DEF IndexTyped, Moves, AskOnly
<1>9. AskersRun' /\ TextsAwaited' /\ TextsForgotten' BY <1>u, <1>f, <1>5, <1>7, AskOnlyKeeps
<1>10. AskersHear' /\ AnswersHear' BY <1>u, <1>5, <1>7, MovedHears DEF LateSteps
<1>11. Counted' = Counted \ {k} BY <1>5, <1>7 DEF Counted, Moves
<1>12. LimitKept' BY <1>u, <1>2, <1>11, SessionIndexAssumption DEF LimitKept
<1> QED BY <1>8, <1>9, <1>10, <1>12

LEMMA StoreAnswerKeeps ==
  ASSUME IndexInv, NEW k \in Askers, StoreAnswer(k) PROVE IndexInv'
<1> USE DEF IndexInv
<1>u. /\ ask[k].step = "answer" /\ AskOnly /\ UNCHANGED questions /\ GiveUpAsking(k)
  BY DEF StoreAnswer, AskOnly
<1>f. Free(k) BY <1>u DEF AskersRun
<1>1. Moves(k, NotAsking) /\ NotAsking \in Asks /\ NotAsking.step = "idle"
  BY <1>u, GivenUp, IndexConstants
<1>2. AskersRun' /\ TextsAwaited' /\ TextsForgotten' BY <1>u, <1>f, <1>1, AskOnlyKeeps
<1>3. LimitKept' BY <1>u, <1>1, LimitStays DEF Moves
<1>4. CASE UNCHANGED <<answers, fresher, blind>>
  <2>1. IndexTyped' BY <1>u, <1>1, <1>4 DEF IndexTyped, Moves, AskOnly
  <2>2. AskersHear' /\ AnswersHear' BY <1>u, <1>1, <1>4, MovedHears DEF LateSteps
  <2> QED BY <1>2, <1>3, <2>1, <2>2
<1>5. CASE /\ answers' = [answers EXCEPT ![ask[k].number] = IF ask[k].saw THEN "answered" ELSE "not_covered"]
           /\ fresher' = fresher \ {ask[k].number}
           /\ blind' = IF ask[k].moved THEN blind \union {ask[k].number} ELSE blind \ {ask[k].number}
  <2>0. ask[k].number \in Numbers BY <1>u DEF IndexTyped, Asks
  <2>1. /\ answers' \in [Numbers -> {"none", "answered", "not_covered"}]
        /\ \A n \in Numbers \ {ask[k].number} : answers'[n] = answers[n]
        /\ answers'[ask[k].number] = IF ask[k].saw THEN "answered" ELSE "not_covered"
        /\ fresher' \subseteq Numbers /\ blind' \subseteq Numbers
    BY <1>5, <2>0 DEF IndexTyped
  <2>5. IndexTyped' BY <1>u, <1>1, <2>1 DEF IndexTyped, Moves, AskOnly
  <2>2. AskersHear'
    BY <1>u, <1>1 DEF AskersHear, Moves, AskOnly, Inserting, LateSteps
  <2>3. AnswersHear'
    <3>1. ASSUME NEW n \in Numbers \ (blind' \union fresher'), answers'[n] = "not_covered", Subject \in vectors'
          PROVE  Inserting'
      <4>1. vectors' = vectors /\ (Inserting => Inserting') BY <1>u DEF AskOnly, Inserting
      <4>2. CASE n = ask[k].number
        <5>1. ~ask[k].saw /\ ~ask[k].moved BY <1>5, <2>1, <3>1, <4>2
        <5> QED BY <1>u, <3>1, <4>1, <5>1 DEF AskersHear, LateSteps
      <4>3. CASE n # ask[k].number
        <5>1. n \notin blind \union fresher /\ answers[n] = "not_covered" BY <1>5, <2>1, <3>1, <4>3
        <5> QED BY <3>1, <4>1, <5>1 DEF AnswersHear
      <4> QED BY <4>2, <4>3
    <3> QED BY <3>1 DEF AnswersHear
  <2> QED BY <1>2, <1>3, <2>2, <2>3, <2>5
<1> QED BY <1>4, <1>5 DEF StoreAnswer

-----------------------------------------------------------------------------
LEMMA IndexStart == IndexInit => IndexInv
<1> SUFFICES ASSUME IndexInit PROVE IndexInv OBVIOUS
<1> USE DEF IndexInit
<1>1. IndexTyped BY IndexConstants, SessionIndexAssumption DEF IndexTyped
<1>2. \A k \in Askers : ask[k].step = "idle" BY IndexConstants
<1>3. \A i \in Indexers : Free(i) /\ indexing[i].step # "insert" BY IndexConstants DEF Free
<1>4. AskersRun BY <1>3 DEF AskersRun, Indexers
<1>5. LimitKept
  <2>1. Counted = {} BY <1>2 DEF Counted
  <2>2. Cardinality(Counted) = 0 /\ Cardinality(Askers) \in Nat
    BY <2>1, FS_EmptySet, FS_CardinalityType, SessionIndexAssumption
  <2> QED BY <2>2, SessionIndexAssumption DEF LimitKept
<1>6. TextsAwaited /\ TextsForgotten BY DEF TextsAwaited, TextsForgotten
<1>7. AskersHear /\ AnswersHear BY <1>2 DEF AskersHear, AnswersHear, LateSteps
<1> QED BY <1>1, <1>4, <1>5, <1>6, <1>7 DEF IndexInv

LEMMA IndexStep == IndexInv /\ [IndexNext]_indexVars => IndexInv'
<1> SUFFICES ASSUME IndexInv, [IndexNext]_indexVars PROVE IndexInv' OBVIOUS
<1>1. CASE UNCHANGED indexVars
  <2> USE <1>1 DEF indexVars, IndexInv
  <2>1. IndexTyped' BY DEF IndexTyped
  <2>2. AskersRun' /\ LimitKept' BY DEF AskersRun, Free, LimitKept, Counted
  <2>3. TextsAwaited' BY DEF TextsAwaited, Awaited
  <2>4. TextsForgotten' BY DEF TextsForgotten, Forgotten
  <2>5. AskersHear' /\ AnswersHear' BY DEF AskersHear, AnswersHear, Inserting
  <2> QED BY <2>1, <2>2, <2>3, <2>4, <2>5
<1>2. ASSUME NEW s \in Texts,
             \/ DeleteTextChunks(s) \/ DeleteMaterialText(s)
             \/ \E b \in Builders : AddText(s, b) \/ DeleteLinkText(s, b)
      PROVE  IndexInv'
  BY <1>2, DeleteTextChunksKeeps, DeleteMaterialTextKeeps, AddTextKeeps, DeleteLinkTextKeeps
<1>3. ASSUME NEW b \in Builders, SessionReindex(b) PROVE IndexInv'
  BY <1>3, SessionReindexKeeps
<1>4. ASSUME NEW i \in Indexers,
             \/ IndexBegin(i) \/ IndexRead(i) \/ UpsertChunks(i) \/ ClearVectors(i) \/ Embed(i) \/ IndexReady(i)
             \/ \E s \in Texts \union {Metadata} : InsertVector(i, s)
      PROVE  IndexInv'
  BY <1>4, IndexBeginKeeps, IndexReadKeeps, UpsertChunksKeeps, ClearVectorsKeeps, EmbedKeeps,
     IndexReadyKeeps, InsertVectorKeeps
<1>5. ASSUME NEW k \in Askers,
             \/ \E via \in {"web", "mcp"} : FindExistingQuestion(k, via)
             \/ EnsureSessionIndex(k) \/ RetrieveTopK(k) \/ RetrieveAgain(k)
             \/ CountQuestions(k) \/ CreateQuestion(k) \/ StoreAnswer(k)
      PROVE  IndexInv'
  BY <1>5, FindKeeps, EnsureKeeps, RetrieveTopKKeeps, RetrieveAgainKeeps, CountKeeps, CreateKeeps,
     StoreAnswerKeeps
<1> QED BY <1>1, <1>2, <1>3, <1>4, <1>5 DEF IndexNext

\* Whatever runs, changes and questions overlap: a quiet index has every text that no
\* named race took, a deleted text is in no index, and an answer "not covered" that the
\* index has overtaken is marked for another try (IndexSession, SessionAsk).
THEOREM IndexFollows == IndexSpec => []IndexFollowsTexts
<1>1. IndexInv => IndexFollowsTexts
  <2> SUFFICES ASSUME IndexInv PROVE IndexFollowsTexts OBVIOUS
  <2> USE DEF IndexInv
  <2>1. Quiet => ~Inserting /\ \A s \in Texts, i \in Indexers : ~Underway(indexing[i], s)
    BY DEF Quiet, Free, Inserting, Underway
  <2>2. QuietIndexIsWhole
    BY <2>1 DEF QuietIndexIsWhole, HasIndexableText, TextsAwaited, Awaited
  <2>3. DeletedIsForgotten BY DEF DeletedIsForgotten, TextsForgotten, Forgotten
  <2>4. NotCoveredIsRetried
    <3>1. questions \in Numbers \union {0}
      <4>1. Cardinality(Counted) \in Nat /\ Cardinality(Askers) \in Nat
        BY FS_Subset, FS_CardinalityType, SessionIndexAssumption DEF Counted
      <4> QED BY <4>1, SessionIndexAssumption DEF LimitKept, Numbers
    <3> QED BY <2>1, <3>1 DEF NotCoveredIsRetried, AnswersHear
  <2> QED BY <2>2, <2>3, <2>4 DEF IndexFollowsTexts
<1> QED BY <1>1, IndexStart, IndexStep, PTL DEF IndexSpec

-----------------------------------------------------------------------------
(* The videos of a session and its deletion (SessionVideos).                *)

Steps == {"open", "store", "file", "video", "lead", "ask", "complete"}
Leading == {"upload", "transcript", "zoom"}

\* What a request has left: its row at most once, before that row the steps it may
\* end at, and right after it, where it is to lead, the look for a primary.
OrderedSteps(v, todo) ==
  /\ todo \in Seq(Steps)
  /\ \A i, j \in 1..Len(todo) : todo[i] = "video" /\ todo[j] = "video" => i = j
  /\ BroughtBy[v] \in Leading =>
       \A i \in 1..Len(todo) :
         /\ todo[i] = "video" => i + 1 \in 1..Len(todo) /\ todo[i + 1] = "lead"
         /\ todo[i] \in {"open", "store", "file"} => \E j \in 1..Len(todo) : j > i /\ todo[j] = "video"
StepsOrdered == intake = [v \in Clips |-> intake[v]] /\ \A v \in Clips : OrderedSteps(v, intake[v])

Left(v, step) == \E i \in 1..Len(intake[v]) : intake[v][i] = step

VideosTyped ==
  /\ role \in [Clips -> {"absent", "unset", "primary", "secondary"}]
  /\ roleTx \in [Clips \union Choosers -> [on : Clips \union {NoClip}, demoted : Clips \union {NoClip}]]
  /\ kept \subseteq Clips /\ late \subseteq Clips
  /\ filed \in [Clips -> {"none", "pending", "ready"}]
  /\ leaderless \in BOOLEAN

\* A request that still has to create the row has none.
RowsCreated == \A v \in Clips : Left(v, "video") => role[v] = "absent"

\* The transaction of an intake is about its own clip, that of a user about some clip.
OwnTx ==
  /\ \A v \in Clips : roleTx[v] = NoTx \/ roleTx[v].on = v
  /\ \A c \in Choosers : roleTx[c] = NoTx \/ roleTx[c].on \in Clips

AtMostOne == \A u, v \in Leaders : u = v
LedBy(v) ==
  BroughtBy[v] \in Leading /\ role[v] # "absent" /\ roleTx[v] = NoTx /\ ~Left(v, "lead") => Leaders # {}
Led == ~leaderless /\ standing # "gone" => \A v \in Clips : LedBy(v)

\* What a sweep has passed is gone, or late.
Swept ==
  \A v \in Clips :
    /\ v \in kept /\ SweptAlready(v) => v \in late
    /\ filed[v] # "none" /\ standing \in {"unfiled", "gone"} => v \in late

VideosInv ==
  VideosTyped /\ StepsOrdered /\ RowsCreated /\ OwnTx /\ AtMostOne /\ Led /\ Swept

-----------------------------------------------------------------------------
\* The steps of a request.

LEMMA HandlersOrdered ==
  ASSUME NEW v \in Clips PROVE OrderedSteps(v, StepsOf(v))
<1> USE DEF OrderedSteps, StepsOf, Leading
<1>0. BroughtBy[v] \in Handlers BY SessionVideosAssumption
<1>1. CASE BroughtBy[v] = "upload"
  <2>1. PICK s : s = UploadVideoFile OBVIOUS
  <2>2. s \in Seq(Steps) /\ Len(s) = 6 BY <2>1 DEF UploadVideoFile, Steps
  <2>3. /\ s[1] = "open" /\ s[2] = "store" /\ s[3] = "file" /\ s[4] = "video"
        /\ s[5] = "lead" /\ s[6] = "ask"
    BY <2>1 DEF UploadVideoFile
  <2>4. \A i \in 1..Len(s) : i \in {1, 2, 3, 4, 5, 6} BY <2>2
  <2>5. OrderedSteps(v, s) BY <2>2, <2>3, <2>4
  <2> QED BY <1>1, <2>1, <2>5
<1>2. CASE BroughtBy[v] = "transcript"
  <2>1. PICK s : s = UploadTranscriptFile OBVIOUS
  <2>2. s \in Seq(Steps) /\ Len(s) = 5 BY <2>1 DEF UploadTranscriptFile, Steps
  <2>3. s[1] = "open" /\ s[2] = "store" /\ s[3] = "video" /\ s[4] = "lead" /\ s[5] = "ask"
    BY <2>1 DEF UploadTranscriptFile
  <2>4. \A i \in 1..Len(s) : i \in {1, 2, 3, 4, 5} BY <2>2
  <2>5. OrderedSteps(v, s) BY <2>2, <2>3, <2>4
  <2> QED BY <1>2, <2>1, <2>5
<1>3. CASE BroughtBy[v] = "url"
  <2>1. PICK s : s = IngestVideoFromURL OBVIOUS
  <2>2. s \in Seq(Steps) /\ Len(s) = 4 BY <2>1 DEF IngestVideoFromURL, Steps
  <2>3. s[1] = "open" /\ s[2] = "store" /\ s[3] = "video" /\ s[4] = "ask"
    BY <2>1 DEF IngestVideoFromURL
  <2>4. \A i \in 1..Len(s) : i \in {1, 2, 3, 4} BY <2>2
  <2>5. OrderedSteps(v, s) BY <1>3, <2>2, <2>3, <2>4
  <2> QED BY <1>3, <2>1, <2>5
<1>4. CASE BroughtBy[v] = "embed"
  <2>1. PICK s : s = AttachVideoURL OBVIOUS
  <2>2. s \in Seq(Steps) /\ Len(s) = 2 BY <2>1 DEF AttachVideoURL, Steps
  <2>3. s[1] = "open" /\ s[2] = "video" BY <2>1 DEF AttachVideoURL
  <2>4. \A i \in 1..Len(s) : i \in {1, 2} BY <2>2
  <2>5. OrderedSteps(v, s) BY <1>4, <2>2, <2>3, <2>4
  <2> QED BY <1>4, <2>1, <2>5
<1>5. CASE BroughtBy[v] = "zoom"
  <2>1. PICK s : s = CreateSessionFromZoom OBVIOUS
  <2>2. s \in Seq(Steps) /\ Len(s) = 3 BY <2>1 DEF CreateSessionFromZoom, Steps
  <2>3. s[1] = "open" /\ s[2] = "video" /\ s[3] = "lead" BY <2>1 DEF CreateSessionFromZoom
  <2>4. \A i \in 1..Len(s) : i \in {1, 2, 3} BY <2>2
  <2>5. OrderedSteps(v, s) BY <2>2, <2>3, <2>4
  <2> QED BY <1>5, <2>1, <2>5
<1>6. CASE BroughtBy[v] = "presigned"
  <2>1. PICK s : s = PresignPut OBVIOUS
  <2>2. s \in Seq(Steps) /\ Len(s) = 4 BY <2>1 DEF PresignPut, Steps
  <2>3. s[1] = "open" /\ s[2] = "file" /\ s[3] = "store" /\ s[4] = "complete" BY <2>1 DEF PresignPut
  <2>4. \A i \in 1..Len(s) : i \in {1, 2, 3, 4} BY <2>2
  <2>5. OrderedSteps(v, s) BY <1>6, <2>2, <2>3, <2>4
  <2> QED BY <1>6, <2>1, <2>5
<1> QED BY <1>0, <1>1, <1>2, <1>3, <1>4, <1>5, <1>6 DEF Handlers

LEMMA FirstStepDone ==
  ASSUME NEW v \in Clips, NEW s, OrderedSteps(v, s), s # <<>>
  PROVE  /\ OrderedSteps(v, Tail(s))
         /\ Head(s) = s[1] /\ 1 \in 1..Len(s)
         /\ \A i \in 1..Len(Tail(s)) : i + 1 \in 1..Len(s) /\ Tail(s)[i] = s[i + 1]
         /\ \A i \in 1..Len(s) : i = 1 \/ (i - 1 \in 1..Len(Tail(s)) /\ Tail(s)[i - 1] = s[i])
<1>1. s \in Seq(Steps) BY DEF OrderedSteps
<1>2. /\ Len(s) \in Nat /\ Len(s) >= 1 /\ Head(s) = s[1]
      /\ Tail(s) \in Seq(Steps) /\ Len(Tail(s)) = Len(s) - 1
      /\ \A i \in 1..Len(Tail(s)) : Tail(s)[i] = s[i + 1]
  BY <1>1
<1>3. PICK t : t = Tail(s) OBVIOUS
<1>4. /\ t \in Seq(Steps) /\ Len(t) = Len(s) - 1 /\ Len(s) \in Nat /\ Len(s) >= 1
      /\ \A i \in 1..Len(t) : i + 1 \in 1..Len(s) /\ t[i] = s[i + 1]
      /\ \A i \in 1..Len(s) : i = 1 \/ (i - 1 \in 1..Len(t) /\ t[i - 1] = s[i])
  BY <1>2, <1>3
<1>5. OrderedSteps(v, t)
  <2>1. \A i, j \in 1..Len(t) : t[i] = "video" /\ t[j] = "video" => i = j
    <3> SUFFICES ASSUME NEW i \in 1..Len(t), NEW j \in 1..Len(t), t[i] = "video", t[j] = "video" PROVE i = j
      OBVIOUS
    <3>1. i + 1 = j + 1 BY <1>4 DEF OrderedSteps
    <3> QED BY <3>1
  <2>2. ASSUME BroughtBy[v] \in Leading, NEW i \in 1..Len(t)
        PROVE  /\ t[i] = "video" => i + 1 \in 1..Len(t) /\ t[i + 1] = "lead"
               /\ t[i] \in {"open", "store", "file"} => \E j \in 1..Len(t) : j > i /\ t[j] = "video"
    <3>1. ASSUME t[i] = "video" PROVE i + 1 \in 1..Len(t) /\ t[i + 1] = "lead"
      <4>1. s[i + 1] = "video" /\ i + 1 \in 1..Len(s) BY <1>4, <3>1
      <4>2. (i + 1) + 1 \in 1..Len(s) /\ s[(i + 1) + 1] = "lead" BY <2>2, <4>1 DEF OrderedSteps
      <4>3. i + 1 \in 1..Len(t) BY <1>4, <4>2
      <4> QED BY <1>4, <4>2, <4>3
    <3>2. ASSUME t[i] \in {"open", "store", "file"} PROVE \E j \in 1..Len(t) : j > i /\ t[j] = "video"
      <4>1. s[i + 1] \in {"open", "store", "file"} /\ i + 1 \in 1..Len(s) BY <1>4, <3>2
      <4>2. PICK k \in 1..Len(s) : k > i + 1 /\ s[k] = "video" BY <2>2, <4>1 DEF OrderedSteps
      <4>3. k - 1 \in 1..Len(t) /\ k - 1 > i /\ t[k - 1] = "video" BY <1>4, <4>2
      <4> QED BY <4>3
    <3> QED BY <3>1, <3>2
  <2> QED BY <1>4, <2>1, <2>2 DEF OrderedSteps
<1> QED BY <1>2, <1>3, <1>4, <1>5

\* The other requests keep their steps; this one loses its first, or all.
Others(v) == \A u \in Clips \ {v} : intake'[u] = intake[u]

LEMMA Advances ==
  ASSUME StepsOrdered, NEW v \in Clips, NEW step, NextStepIs(v, step), Advance(v)
  PROVE  /\ StepsOrdered' /\ Others(v)
         /\ Left(v, step)
         /\ \A x : Left(v, x)' => Left(v, x)
         /\ \A x : Left(v, x) /\ x # step => Left(v, x)'
         /\ step = "video" => ~Left(v, "video")'
         /\ step = "video" /\ BroughtBy[v] \in Leading => Left(v, "lead")'
<1>1. PICK s : s = intake[v] OBVIOUS
<1>2. OrderedSteps(v, s) /\ s # <<>> /\ Head(s) = step BY <1>1 DEF StepsOrdered, NextStepIs
<1>3. PICK t : t = Tail(s) OBVIOUS
<1>4. /\ OrderedSteps(v, t)
      /\ Head(s) = s[1] /\ 1 \in 1..Len(s)
      /\ \A i \in 1..Len(t) : i + 1 \in 1..Len(s) /\ t[i] = s[i + 1]
      /\ \A i \in 1..Len(s) : i = 1 \/ (i - 1 \in 1..Len(t) /\ t[i - 1] = s[i])
  BY <1>2, <1>3, FirstStepDone
<1>5. intake' = [intake EXCEPT ![v] = t] BY <1>1, <1>3 DEF Advance
<1>6. intake'[v] = t /\ Others(v) /\ intake' = [u \in Clips |-> intake'[u]]
  BY <1>5 DEF StepsOrdered, Others
<1>7. StepsOrdered' BY <1>4, <1>6 DEF StepsOrdered, Others
<1>8. Left(v, step) BY <1>1, <1>2, <1>4 DEF Left
<1>9. \A x : Left(v, x)' => Left(v, x) BY <1>1, <1>4, <1>6 DEF Left
<1>10. \A x : Left(v, x) /\ x # step => Left(v, x)' BY <1>1, <1>2, <1>4, <1>6 DEF Left
<1>11. ASSUME step = "video" PROVE ~Left(v, "video")'
  <2>1. ASSUME NEW i \in 1..Len(t), t[i] = "video" PROVE FALSE
    <3>1. i + 1 = 1 BY <1>2, <1>4, <1>11, <2>1 DEF OrderedSteps
    <3> QED BY <3>1
  <2> QED BY <1>6, <2>1 DEF Left
<1>12. ASSUME step = "video", BroughtBy[v] \in Leading PROVE Left(v, "lead")'
  <2>1. 1 + 1 \in 1..Len(s) /\ s[1 + 1] = "lead" BY <1>2, <1>4, <1>12 DEF OrderedSteps
  <2>2. (1 + 1) - 1 \in 1..Len(t) /\ t[(1 + 1) - 1] = "lead" BY <1>4, <2>1
  <2> QED BY <1>6, <2>2 DEF Left
<1> QED BY <1>6, <1>7, <1>8, <1>9, <1>10, <1>11, <1>12

\* Requests that lead give up only before they have a row.
LEMMA GivesUpEarly ==
  ASSUME StepsOrdered, NEW v \in Clips, NEW step, NextStepIs(v, step), GiveUp(v)
  PROVE  /\ StepsOrdered' /\ Others(v)
         /\ \A x : ~Left(v, x)'
         /\ BroughtBy[v] \in Leading /\ step \in {"open", "store", "file", "video"} => Left(v, "video")
<1>1. PICK s : s = intake[v] OBVIOUS
<1>2. OrderedSteps(v, s) /\ s # <<>> /\ Head(s) = step BY <1>1 DEF StepsOrdered, NextStepIs
<1>3. Head(s) = s[1] /\ 1 \in 1..Len(s) BY <1>2, FirstStepDone
<1>4. intake'[v] = <<>> /\ Others(v) /\ intake' = [u \in Clips |-> intake'[u]]
  BY DEF StepsOrdered, Others, GiveUp
<1>5. OrderedSteps(v, <<>>) BY DEF OrderedSteps
<1>6. StepsOrdered' BY <1>4, <1>5 DEF StepsOrdered, Others
<1>7. \A x : ~Left(v, x)' BY <1>4 DEF Left
<1>8. BroughtBy[v] \in Leading /\ step \in {"open", "store", "file", "video"} => Left(v, "video")
  BY <1>1, <1>2, <1>3 DEF OrderedSteps, Left
<1> QED BY <1>4, <1>6, <1>7, <1>8

-----------------------------------------------------------------------------
\* The steps that leave the roles alone.

RolesKept == UNCHANGED <<role, roleTx, leaderless>>
RoleInv == StepsOrdered /\ RowsCreated /\ OwnTx /\ AtMostOne /\ Led

LEMMA AdvanceKeepsRoles ==
  ASSUME RoleInv, NEW v \in Clips, NEW step, step \notin {"video", "lead"}, NextStepIs(v, step), Advance(v),
         RolesKept, standing' = standing
  PROVE  RoleInv'
<1> USE DEF RoleInv, RolesKept
<1>1. /\ StepsOrdered' /\ Others(v)
      /\ \A x : Left(v, x)' => Left(v, x)
      /\ \A x : Left(v, x) /\ x # step => Left(v, x)'
  BY Advances
<1>2. \A u \in Clips : \A x \in {"video", "lead"} : (Left(u, x)' <=> Left(u, x))
  <2> SUFFICES ASSUME NEW u \in Clips, NEW x \in {"video", "lead"} PROVE Left(u, x)' <=> Left(u, x) OBVIOUS
  <2>1. CASE u = v BY <1>1, <2>1
  <2>2. CASE u # v BY <1>1, <2>2 DEF Others, Left
  <2> QED BY <2>1, <2>2
<1>3. RowsCreated' BY <1>2 DEF RowsCreated
<1>4. Led' BY <1>2 DEF Led, LedBy, Leaders, NoTx
<1>5. OwnTx' /\ AtMostOne' BY DEF OwnTx, AtMostOne, Leaders, NoTx
<1> QED BY <1>1, <1>3, <1>4, <1>5

LEMMA GiveUpKeepsRoles ==
  ASSUME RoleInv, NEW v \in Clips, NEW step \in {"open", "store", "file", "video"}, NextStepIs(v, step), GiveUp(v),
         RolesKept, standing' = standing
  PROVE  RoleInv'
<1> USE DEF RoleInv, RolesKept
<1>1. /\ StepsOrdered' /\ Others(v)
      /\ \A x : ~Left(v, x)'
      /\ BroughtBy[v] \in Leading => Left(v, "video")
  BY GivesUpEarly
<1>2. \A u \in Clips \ {v} : \A x : Left(u, x)' <=> Left(u, x) BY <1>1 DEF Others, Left
<1>3. RowsCreated' BY <1>1, <1>2 DEF RowsCreated
<1>4. BroughtBy[v] \in Leading => role[v] = "absent" BY <1>1 DEF RowsCreated
<1>5. Led' BY <1>2, <1>4 DEF Led, LedBy, Leaders, NoTx
<1>6. OwnTx' /\ AtMostOne' BY DEF OwnTx, AtMostOne, Leaders, NoTx
<1> QED BY <1>1, <1>3, <1>5, <1>6

LEMMA InvOfParts == VideosInv <=> VideosTyped /\ RoleInv /\ Swept
  BY DEF VideosInv, RoleInv

LEMMA OpenKeeps ==
  ASSUME VideosInv, NEW v \in Clips, OpenSession(v) PROVE VideosInv'
<1> USE InvOfParts DEF OpenSession
<1>1. RoleInv' BY AdvanceKeepsRoles, GiveUpKeepsRoles DEF RolesKept
<1>2. VideosTyped' BY DEF VideosTyped
<1>3. Swept' BY DEF Swept, SweptAlready
<1> QED BY <1>1, <1>2, <1>3 DEF VideosInv, RoleInv

LEMMA StoreKeeps ==
  ASSUME VideosInv, NEW v \in Clips, StoreClip(v) PROVE VideosInv'
<1> USE InvOfParts DEF StoreClip
<1>1. RoleInv' BY AdvanceKeepsRoles, GiveUpKeepsRoles DEF RolesKept
<1>2. VideosTyped' BY DEF VideosTyped
<1>3. Swept' BY DEF Swept, SweptAlready, VideosTyped
<1> QED BY <1>1, <1>2, <1>3 DEF VideosInv, RoleInv

LEMMA FileKeeps ==
  ASSUME VideosInv, NEW v \in Clips, CreateFileArtifact(v) PROVE VideosInv'
<1> USE InvOfParts DEF CreateFileArtifact
<1>1. RoleInv' BY AdvanceKeepsRoles, GiveUpKeepsRoles DEF RolesKept
<1>2. VideosTyped' BY DEF VideosTyped
<1>3. Swept' BY DEF Swept, SweptAlready, VideosTyped
<1> QED BY <1>1, <1>2, <1>3 DEF VideosInv, RoleInv

LEMMA CompleteKeeps ==
  ASSUME VideosInv, NEW v \in Clips, CompleteArtifact(v) PROVE VideosInv'
<1> USE InvOfParts DEF CompleteArtifact
<1>1. RoleInv' BY AdvanceKeepsRoles DEF RolesKept
<1>2. VideosTyped' BY DEF VideosTyped
<1>3. Swept' BY DEF Swept, SweptAlready, VideosTyped
<1> QED BY <1>1, <1>2, <1>3 DEF VideosInv, RoleInv

LEMMA LookKeeps ==
  ASSUME VideosInv, NEW v \in Clips, CreateTranscriptJob(v) PROVE VideosInv'
<1> USE InvOfParts DEF CreateTranscriptJob
<1>1. RoleInv' BY AdvanceKeepsRoles DEF RolesKept
<1>2. VideosTyped' BY DEF VideosTyped
<1>3. Swept' BY DEF Swept, SweptAlready, VideosTyped
<1> QED BY <1>1, <1>2, <1>3 DEF VideosInv, RoleInv

\* The deletion of the session moves no request.
LEMMA DeletionKeepsRoles ==
  ASSUME RoleInv, UNCHANGED <<intake, role, roleTx, leaderless>>, standing # "gone"
  PROVE  RoleInv'
  BY DEF RoleInv, StepsOrdered, RowsCreated, Left, OwnTx, AtMostOne, Led, LedBy, Leaders, NoTx

\* What is left of the objects one sweep wants is late.
LEMMA RemovedOrLate ==
  ASSUME VideosTyped, NEW W \in SUBSET Clips, RemoveVideo(W)
  PROVE  /\ kept' \subseteq kept /\ late' \subseteq Clips /\ late \subseteq late'
         /\ \A v \in W : v \in kept' => v \in late'
  BY DEF VideosTyped, RemoveVideo

LEMMA SweepsKeep ==
  ASSUME VideosInv, DeleteObjects \/ SweepPrefix \/ RemoveDirectory PROVE VideosInv'
<1> USE InvOfParts
<1>0. PICK W \in SUBSET Clips :
        /\ RemoveVideo(W)
        /\ UNCHANGED <<intake, filed, role, asked, roleTx, leaderless>>
        /\ \/ standing = "open" /\ standing' = "keyed"
           \/ standing = "keyed" /\ standing' = "swept" /\ \A v \in kept \ W : ~InStore(v)
           \/ standing = "swept" /\ standing' = "emptied" /\ \A v \in kept \ W : InStore(v)
  <2>1. CASE DeleteObjects BY <2>1 DEF DeleteObjects, VideosTyped
  <2>2. CASE SweepPrefix
    <3>1. UnderPrefix \in SUBSET Clips /\ \A v \in kept \ UnderPrefix : ~InStore(v)
      BY DEF UnderPrefix, VideosTyped
    <3> QED BY <2>2, <3>1 DEF SweepPrefix
  <2>3. CASE RemoveDirectory
    <3>1. PICK W : W = {v \in kept : ~InStore(v)} OBVIOUS
    <3>2. W \in SUBSET Clips /\ \A v \in kept \ W : InStore(v) BY <3>1 DEF VideosTyped
    <3> QED BY <2>3, <3>1, <3>2 DEF RemoveDirectory
  <2> QED BY <2>1, <2>2, <2>3
<1>1. /\ kept' \subseteq kept /\ late' \subseteq Clips /\ late \subseteq late'
      /\ \A v \in W : v \in kept' => v \in late'
  BY <1>0, RemovedOrLate
<1>2. RoleInv' BY <1>0, DeletionKeepsRoles
<1>3. VideosTyped' BY <1>0, <1>1 DEF VideosTyped
<1>4. Swept'
  <2> SUFFICES ASSUME NEW v \in Clips
               PROVE  /\ v \in kept' /\ SweptAlready(v)' => v \in late'
                      /\ filed'[v] # "none" /\ standing' \in {"unfiled", "gone"} => v \in late'
    BY DEF Swept
  <2>1. ASSUME v \in kept', SweptAlready(v)' PROVE v \in late'
    <3>1. CASE v \in W BY <1>1, <2>1, <3>1
    <3>2. CASE v \notin W
      <4>1. SweptAlready(v) BY <1>0, <1>1, <2>1, <3>2 DEF SweptAlready, InStore
      <4> QED BY <1>1, <2>1, <4>1 DEF Swept
    <3> QED BY <3>1, <3>2
  <2> QED BY <1>0, <2>1
<1> QED BY <1>2, <1>3, <1>4 DEF VideosInv, RoleInv

LEMMA UnfileKeeps ==
  ASSUME VideosInv, DeleteFileArtifacts PROVE VideosInv'
<1> USE InvOfParts DEF DeleteFileArtifacts, RefuseDelete
<1>1. RoleInv' BY DeletionKeepsRoles
<1>2. VideosTyped' BY DEF VideosTyped
<1>3. Swept' BY DEF Swept, SweptAlready, VideosTyped
<1> QED BY <1>1, <1>2, <1>3 DEF VideosInv, RoleInv

LEMMA DeleteSessionKeeps ==
  ASSUME VideosInv, DeleteSession PROVE VideosInv'
<1> USE InvOfParts DEF DeleteSession, RefuseDelete
<1>1. VideosTyped' BY DEF VideosTyped
<1>2. Swept' BY DEF Swept, SweptAlready, VideosTyped
<1>3. CASE RefuseDelete
  <2>1. RoleInv' BY <1>3, DeletionKeepsRoles
  <2> QED BY <1>1, <1>2, <2>1 DEF VideosInv, RoleInv
<1>4. CASE role' = [v \in Clips |-> "absent"] /\ standing' = "gone" /\ UNCHANGED <<intake, roleTx, leaderless>>
  <2>1. StepsOrdered' /\ OwnTx' BY <1>4 DEF RoleInv, StepsOrdered, OwnTx, NoTx
  <2>2. RowsCreated' BY <1>4 DEF RowsCreated
  <2>3. AtMostOne' BY <1>4 DEF AtMostOne, Leaders
  <2>4. Led' BY <1>4 DEF Led
  <2> QED BY <1>1, <1>2, <2>1, <2>2, <2>3, <2>4 DEF VideosInv
<1> QED BY <1>3, <1>4

-----------------------------------------------------------------------------
\* The rows and the primary.

LEMMA VideoKeeps ==
  ASSUME VideosInv, NEW v \in Clips, CreateVideoSource(v) PROVE VideosInv'
<1> USE InvOfParts
<1>u. NextStepIs(v, "video") /\ UNCHANGED <<standing, kept, filed, asked, roleTx, late, leaderless>>
  BY DEF CreateVideoSource
<1>1. Swept' BY <1>u DEF Swept, SweptAlready
<1>2. CASE GiveUp(v) /\ UNCHANGED role
  <2>1. RoleInv' BY <1>u, <1>2, GiveUpKeepsRoles DEF RolesKept
  <2>2. VideosTyped' BY <1>u, <1>2 DEF VideosTyped
  <2> QED BY <1>1, <2>1, <2>2 DEF VideosInv, RoleInv
<1>3. CASE Advance(v) /\ role' = [role EXCEPT ![v] = "unset"]
  <2> USE DEF RoleInv
  <2>1. /\ StepsOrdered' /\ Others(v)
        /\ Left(v, "video") /\ ~Left(v, "video")'
        /\ BroughtBy[v] \in Leading => Left(v, "lead")'
    BY <1>u, <1>3, Advances
  <2>2. \A u \in Clips \ {v} : \A x : Left(u, x)' <=> Left(u, x) BY <2>1 DEF Others, Left
  <2>3. role[v] = "absent" BY <2>1 DEF RowsCreated
  <2>4. VideosTyped' BY <1>u, <1>3 DEF VideosTyped
  <2>5. \A u \in Clips \ {v} : role'[u] = role[u] BY <1>3 DEF VideosTyped
  <2>6. role'[v] = "unset" BY <1>3 DEF VideosTyped
  <2>7. Leaders' = Leaders BY <2>3, <2>5, <2>6 DEF Leaders
  <2>8. RowsCreated' BY <2>1, <2>2, <2>5 DEF RowsCreated
  <2>9. OwnTx' /\ AtMostOne' BY <1>u, <2>7 DEF OwnTx, AtMostOne, NoTx
  <2>10. Led' BY <1>u, <2>1, <2>2, <2>5, <2>7 DEF Led, LedBy, NoTx
  <2> QED BY <1>1, <2>1, <2>4, <2>8, <2>9, <2>10 DEF VideosInv
<1> QED BY <1>2, <1>3 DEF CreateVideoSource

\* A new transaction of a.
LEMMA BeginOpensTx ==
  ASSUME VideosTyped, NEW a \in Clips \union Choosers, NEW v \in Clips, BeginRole(a, v)
  PROVE  /\ roleTx' \in [Clips \union Choosers -> [on : Clips \union {NoClip}, demoted : Clips \union {NoClip}]]
         /\ roleTx'[a].on = v /\ roleTx'[a] # NoTx
         /\ \A b \in (Clips \union Choosers) \ {a} : roleTx'[b] = roleTx[b]
<1>1. PICK d : d = IF Leaders = {} THEN NoClip ELSE CHOOSE p \in Leaders : TRUE OBVIOUS
<1>2. d \in Clips \union {NoClip} BY <1>1 DEF Leaders
<1>3. roleTx' = [roleTx EXCEPT ![a] = [on |-> v, demoted |-> d]] BY <1>1 DEF BeginRole
<1>4. NoTx.on = NoClip /\ v # NoClip BY SessionVideosAssumption DEF NoTx
<1> QED BY <1>2, <1>3, <1>4 DEF VideosTyped

LEMMA EnsureKeepsVideos ==
  ASSUME VideosInv, NEW v \in Clips, EnsurePrimary(v) PROVE VideosInv'
<1> USE InvOfParts DEF RoleInv
<1>u. /\ NextStepIs(v, "lead") /\ roleTx[v] = NoTx /\ Advance(v)
      /\ UNCHANGED <<standing, kept, filed, role, asked, stumbles, late, leaderless>>
  BY DEF EnsurePrimary
<1>1. Swept' BY <1>u DEF Swept, SweptAlready
<1>2. /\ StepsOrdered' /\ Others(v)
      /\ \A x : Left(v, x)' => Left(v, x)
  BY <1>u, Advances
<1>3. \A u \in Clips \ {v} : \A x : Left(u, x)' <=> Left(u, x) BY <1>2 DEF Others, Left
<1>4. RowsCreated' BY <1>u, <1>2, <1>3 DEF RowsCreated
<1>5. AtMostOne' /\ Leaders' = Leaders BY <1>u DEF AtMostOne, Leaders
<1>6. CASE (Leaders # {} \/ role[v] = "absent") /\ roleTx' = roleTx
  <2>1. VideosTyped' BY <1>u, <1>6 DEF VideosTyped
  <2>2. OwnTx' BY <1>6 DEF OwnTx, NoTx
  <2>3. Led' BY <1>u, <1>3, <1>5, <1>6 DEF Led, LedBy, NoTx
  <2> QED BY <1>1, <1>2, <1>4, <1>5, <2>1, <2>2, <2>3 DEF VideosInv
<1>7. CASE BeginRole(v, v)
  <2>1. /\ roleTx' \in [Clips \union Choosers -> [on : Clips \union {NoClip}, demoted : Clips \union {NoClip}]]
        /\ roleTx'[v].on = v /\ roleTx'[v] # NoTx
        /\ \A b \in (Clips \union Choosers) \ {v} : roleTx'[b] = roleTx[b]
    BY <1>7, BeginOpensTx
  <2>2. VideosTyped' BY <1>u, <2>1 DEF VideosTyped
  <2>3. OwnTx' BY <2>1 DEF OwnTx, NoTx
  <2>4. Led' BY <1>u, <1>3, <1>5, <2>1 DEF Led, LedBy, NoTx
  <2> QED BY <1>1, <1>2, <1>4, <1>5, <2>2, <2>3, <2>4 DEF VideosInv
<1> QED BY <1>6, <1>7 DEF EnsurePrimary

LEMMA ChooseKeeps ==
  ASSUME VideosInv, NEW c \in Choosers, NEW v \in Clips, ChoosePrimary(c, v) PROVE VideosInv'
<1> USE InvOfParts DEF RoleInv
<1>u. /\ BeginRole(c, v)
      /\ UNCHANGED <<standing, intake, kept, filed, role, asked, stumbles, late, leaderless>>
  BY DEF ChoosePrimary
<1>1. c \notin Clips BY SessionVideosAssumption
<1>2. /\ roleTx' \in [Clips \union Choosers -> [on : Clips \union {NoClip}, demoted : Clips \union {NoClip}]]
      /\ roleTx'[c].on = v
      /\ \A b \in (Clips \union Choosers) \ {c} : roleTx'[b] = roleTx[b]
  BY <1>u, BeginOpensTx
<1>3. VideosTyped' BY <1>u, <1>2 DEF VideosTyped
<1>4. Swept' BY <1>u DEF Swept, SweptAlready
<1>5. StepsOrdered' /\ RowsCreated' BY <1>u DEF StepsOrdered, RowsCreated, Left
<1>6. OwnTx' BY <1>1, <1>2 DEF OwnTx, NoTx
<1>7. AtMostOne' BY <1>u DEF AtMostOne, Leaders
<1>8. Led' BY <1>u, <1>1, <1>2 DEF Led, LedBy, Leaders, Left, NoTx
<1> QED BY <1>3, <1>4, <1>5, <1>6, <1>7, <1>8 DEF VideosInv

LEMMA CommitKeeps ==
  ASSUME VideosInv, NEW a \in Clips \union Choosers, CommitRole(a) PROVE VideosInv'
<1> USE InvOfParts DEF RoleInv
<1>u. /\ roleTx[a] # NoTx /\ roleTx' = [roleTx EXCEPT ![a] = NoTx]
      /\ UNCHANGED <<standing, intake, kept, filed, asked, late>>
  BY DEF CommitRole
<1>1. Swept' BY <1>u DEF Swept, SweptAlready
<1>2. NoTx \in [on : Clips \union {NoClip}, demoted : Clips \union {NoClip}] BY DEF NoTx
<1>3. /\ roleTx' \in [Clips \union Choosers -> [on : Clips \union {NoClip}, demoted : Clips \union {NoClip}]]
      /\ roleTx'[a] = NoTx
      /\ \A b \in (Clips \union Choosers) \ {a} : roleTx'[b] = roleTx[b]
  BY <1>u, <1>2 DEF VideosTyped
<1>4. StepsOrdered' BY <1>u DEF StepsOrdered
<1>5. OwnTx' BY <1>3 DEF OwnTx, NoTx
<1>6. \A u \in Clips : \A x : Left(u, x)' <=> Left(u, x) BY <1>u DEF Left
<1>7. CASE /\ RoleGranted(a) /\ UNCHANGED leaderless
           /\ role' = [v \in Clips |-> IF v = roleTx[a].on THEN "primary"
                                       ELSE IF v = roleTx[a].demoted /\ role[v] # "absent" THEN "secondary"
                                       ELSE role[v]]
  <2>1. PICK p : p = roleTx[a].on OBVIOUS
  <2>2. PICK d : d = roleTx[a].demoted OBVIOUS
  <2>3. p \in Clips \union {NoClip} /\ role[p] # "absent" /\ Leaders \subseteq {p, d}
    BY <1>7, <2>1, <2>2 DEF VideosTyped, RoleGranted
  <2>4. p \in Clips BY <1>u, <2>1 DEF OwnTx
  <2>5. role' = [v \in Clips |-> IF v = p THEN "primary"
                                 ELSE IF v = d /\ role[v] # "absent" THEN "secondary" ELSE role[v]]
    BY <1>7, <2>1, <2>2
  <2>6. VideosTyped' BY <1>u, <1>3, <1>7, <2>5 DEF VideosTyped
  <2>7. \A v \in Clips : role'[v] = "absent" <=> role[v] = "absent" BY <2>3, <2>4, <2>5
  <2>8. Leaders' = {p} BY <2>3, <2>4, <2>5 DEF Leaders
  <2>9. RowsCreated' BY <1>6, <2>7 DEF RowsCreated
  <2>10. AtMostOne' /\ Led' BY <2>8 DEF AtMostOne, Led, LedBy
  <2> QED BY <1>1, <1>4, <1>5, <2>6, <2>9, <2>10 DEF VideosInv
<1>8. CASE ~RoleGranted(a) /\ UNCHANGED <<role, leaderless>>
  <2>1. VideosTyped' BY <1>u, <1>3, <1>8 DEF VideosTyped
  <2>2. RowsCreated' BY <1>6, <1>8 DEF RowsCreated
  <2>3. Leaders' = Leaders /\ AtMostOne' BY <1>8 DEF AtMostOne, Leaders
  <2>4. a \in Clips => Leaders # {} \/ role[a] = "absent"
    BY <1>u, <1>8 DEF RoleGranted, OwnTx
  <2>5. Led' BY <1>u, <1>3, <1>6, <1>8, <2>3, <2>4 DEF Led, LedBy
  <2> QED BY <1>1, <1>4, <1>5, <2>1, <2>2, <2>3, <2>5 DEF VideosInv
<1>9. CASE leaderless' = (leaderless \/ a \in Clips) /\ UNCHANGED role
  <2>0. leaderless' \in BOOLEAN BY <1>9
  <2>1. VideosTyped' BY <1>u, <1>3, <1>9, <2>0 DEF VideosTyped
  <2>2. RowsCreated' BY <1>6, <1>9 DEF RowsCreated
  <2>3. Leaders' = Leaders /\ AtMostOne' BY <1>9 DEF AtMostOne, Leaders
  <2>4. Led' BY <1>u, <1>3, <1>6, <1>9, <2>3 DEF Led, LedBy
  <2> QED BY <1>1, <1>4, <1>5, <2>1, <2>2, <2>3, <2>4 DEF VideosInv
<1> QED BY <1>7, <1>8, <1>9 DEF CommitRole

LEMMA DeleteVideoKeeps ==
  ASSUME VideosInv, NEW v \in Clips, DeleteSessionVideoSource(v) PROVE VideosInv'
<1> USE InvOfParts DEF RoleInv
<1>u. /\ role' = [role EXCEPT ![v] = "absent"] /\ leaderless' = (leaderless \/ v \in Leaders)
      /\ UNCHANGED <<standing, intake, kept, filed, roleTx, stumbles, late>>
  BY DEF DeleteSessionVideoSource
<1>1. Swept' BY <1>u DEF Swept, SweptAlready
<1>2. role' \in [Clips -> {"absent", "unset", "primary", "secondary"}] /\ role'[v] = "absent"
      /\ \A u \in Clips \ {v} : role'[u] = role[u]
  BY <1>u DEF VideosTyped
<1>3. leaderless' \in BOOLEAN BY <1>u
<1>4. VideosTyped' BY <1>u, <1>2, <1>3 DEF VideosTyped
<1>5. StepsOrdered' /\ OwnTx' BY <1>u DEF StepsOrdered, OwnTx, NoTx
<1>6. RowsCreated' BY <1>u, <1>2 DEF RowsCreated, Left
<1>7. Leaders' = Leaders \ {v} BY <1>2 DEF Leaders
<1>8. AtMostOne' BY <1>7 DEF AtMostOne
<1>9. Led' BY <1>u, <1>2, <1>7 DEF Led, LedBy, Left, NoTx
<1> QED BY <1>1, <1>4, <1>5, <1>6, <1>8, <1>9 DEF VideosInv

-----------------------------------------------------------------------------
LEMMA VideosStart == VideosInit => VideosInv
<1> SUFFICES ASSUME VideosInit PROVE VideosInv OBVIOUS
<1> USE DEF VideosInit
<1>1. VideosTyped BY DEF VideosTyped, NoTx
<1>2. StepsOrdered BY HandlersOrdered DEF StepsOrdered
<1>3. RowsCreated /\ OwnTx BY DEF RowsCreated, OwnTx
<1>4. AtMostOne /\ Led BY DEF AtMostOne, Led, LedBy, Leaders
<1>5. Swept BY DEF Swept
<1> QED BY <1>1, <1>2, <1>3, <1>4, <1>5 DEF VideosInv

LEMMA VideosStep == VideosInv /\ [VideosNext]_videosVars => VideosInv'
<1> SUFFICES ASSUME VideosInv, [VideosNext]_videosVars PROVE VideosInv' OBVIOUS
<1>1. CASE UNCHANGED videosVars
  <2> USE <1>1 DEF videosVars, VideosInv
  <2>1. VideosTyped' BY DEF VideosTyped
  <2>2. StepsOrdered' /\ RowsCreated' BY DEF StepsOrdered, RowsCreated, Left
  <2>3. OwnTx' /\ AtMostOne' BY DEF OwnTx, AtMostOne, Leaders, NoTx
  <2>4. Led' BY DEF Led, LedBy, Leaders, Left, NoTx
  <2>5. Swept' BY DEF Swept, SweptAlready
  <2> QED BY <2>1, <2>2, <2>3, <2>4, <2>5
<1>2. ASSUME NEW v \in Clips,
             \/ OpenSession(v) \/ StoreClip(v) \/ CreateFileArtifact(v) \/ CompleteArtifact(v)
             \/ CreateVideoSource(v) \/ CreateTranscriptJob(v)
             \/ EnsurePrimary(v) \/ DeleteSessionVideoSource(v)
             \/ \E c \in Choosers : ChoosePrimary(c, v)
      PROVE  VideosInv'
  BY <1>2, OpenKeeps, StoreKeeps, FileKeeps, CompleteKeeps, VideoKeeps, LookKeeps,
     EnsureKeepsVideos, DeleteVideoKeeps, ChooseKeeps
<1>3. ASSUME NEW a \in Clips \union Choosers, CommitRole(a) PROVE VideosInv'
  BY <1>3, CommitKeeps
<1>4. CASE DeleteObjects \/ SweepPrefix \/ RemoveDirectory \/ DeleteFileArtifacts \/ DeleteSession
  BY <1>4, SweepsKeep, UnfileKeeps, DeleteSessionKeeps
<1> QED BY <1>1, <1>2, <1>3, <1>4 DEF VideosNext

\* Whatever requests bring, choose and delete videos together: the session has at most
\* one primary, it has one once a request that sees to it has come to its end, and a
\* deleted session leaves nothing that its deletion could have seen
\* (ensurePrimaryVideoIfNone, SetVideoSourceVideoRole, DeleteSession).
THEOREM VideosAreHeld == VideosSpec => []VideosHold
<1>1. VideosInv => VideosHold
  <2> SUFFICES ASSUME VideosInv PROVE VideosHold OBVIOUS
  <2> USE DEF VideosInv
  <2>1. Cardinality(Leaders) <= 1
    <3>1. CASE Leaders = {} BY <3>1, FS_EmptySet
    <3>2. CASE Leaders # {}
      <4>1. PICK v : v \in Leaders BY <3>2
      <4>2. Leaders = {v} BY <4>1 DEF AtMostOne
      <4>3. Cardinality(Leaders) = 1 BY <4>2, FS_Singleton
      <4> QED BY <4>3
    <3> QED BY <3>1, <3>2
  <2>2. \A v \in Clips : "lead" \notin {intake[v][i] : i \in DOMAIN intake[v]} => ~Left(v, "lead")
    <3> SUFFICES ASSUME NEW v \in Clips, Left(v, "lead")
                 PROVE  "lead" \in {intake[v][i] : i \in DOMAIN intake[v]}
      OBVIOUS
    <3>1. intake[v] \in Seq(Steps) BY DEF StepsOrdered, OrderedSteps
    <3>2. DOMAIN intake[v] = 1..Len(intake[v]) BY <3>1
    <3> QED BY <3>2 DEF Left
  <2>3. OnePrimary BY <2>1, <2>2 DEF OnePrimary, Led, LedBy, Leading
  <2>4. NothingLeftBehind BY DEF NothingLeftBehind, Swept, SweptAlready
  <2> QED BY <2>3, <2>4 DEF VideosHold
<1> QED BY <1>1, VideosStart, VideosStep, PTL DEF VideosSpec
-----------------------------------------------------------------------------
(* A copy is what its answer says (SessionCopy).                            *)

CopyTyped ==
  /\ mode \in {"sync", "async", "template"} /\ stage \in 0..9
  /\ seen \subseteq Pieces \cup {Base} /\ copies \subseteq Pieces \cup {Base} /\ unnoticed \subseteq Pieces
  /\ clone \in {"none", "open", "removed"} /\ verdict \in {"running", "succeeded", "partial", "failed"}
  /\ clone # "open" => copies = {}

\* The copy is under way or over, and a row of its own comes before its rows.
CopyRuns ==
  /\ verdict # "running" => stage = 9
  /\ stage \in 1..8 => clone # "none" /\ Base \in seen
  /\ seen # {} => Base \in seen

\* Unless a failure is on record, a piece is known, or was lost without a trace,
\* or is a transcript, which a copy reads when it comes to them.
PiecesKnown ==
  seen # {} /\ partial = {} =>
    \A p \in Pieces : p \in seen \cup unnoticed \/ (mode # "template" /\ SortOf[p] = "transcript")

\* The pieces of the sorts that were imported are there.
ImportedSoFar ==
  stage \in 1..8 /\ clone = "open" /\ partial = {} =>
    /\ stage > 1 => Base \in copies
    /\ \A n \in 2..6 : n < stage => PiecesOf(Sorts[n]) \subseteq copies \cup unnoticed

CopyInv == CopyTyped /\ CopyRuns /\ PiecesKnown /\ ImportedSoFar /\ CopyIsAsReported

-----------------------------------------------------------------------------
LEMMA SortsAre ==
  /\ Sorts[1] = "artifact" /\ Sorts[2] = "file" /\ Sorts[3] = "material" /\ Sorts[4] = "link"
  /\ Sorts[5] = "video" /\ Sorts[6] = "transcript"
BY DEF Sorts

LEMMA SortsDiffer == ASSUME NEW m \in 1..6, NEW n \in 1..6, Sorts[m] = Sorts[n] PROVE m = n
<1>1. m \in {1, 2, 3, 4, 5, 6} /\ n \in {1, 2, 3, 4, 5, 6} OBVIOUS
<1> QED BY <1>1, SortsAre

\* Every piece is of some sort.
LEMMA PieceHasSort == ASSUME NEW p \in Pieces PROVE \E n \in 2..6 : p \in PiecesOf(Sorts[n])
<1>1. SortOf[p] \in {Sorts[n] : n \in 2..6} BY SessionCopyAssumption
<1>2. PICK n \in 2..6 : SortOf[p] = Sorts[n] BY <1>1
<1> QED BY <1>2 DEF PiecesOf

LEMMA WantedIs ==
  ASSUME CopyTyped, NEW s PROVE Wanted(s) \subseteq seen
BY DEF Wanted

LEMMA CopyStart == CopyInit => CopyInv
BY SessionCopyAssumption
   DEF CopyInit, CopyInv, CopyTyped, CopyRuns, PiecesKnown, ImportedSoFar, CopyIsAsReported,
       CompleteMeansComplete, FailedCopyIsUndone

\* Nothing is done after the end.
LEMMA EndKeeps ==
  ASSUME CopyInv, CopyTyped', stage' = 9, UNCHANGED seen, PiecesKnown', CopyIsAsReported'
  PROVE  CopyInv'
<1>1. CopyRuns' BY DEF CopyInv, CopyRuns
<1>2. ImportedSoFar' BY DEF ImportedSoFar
<1> QED BY <1>1, <1>2 DEF CopyInv

\* A copy that is still running has been reported on to nobody.
LEMMA Unreported == ASSUME verdict' = "running" PROVE CopyIsAsReported'
BY DEF CopyIsAsReported, CompleteMeansComplete, FailedCopyIsUndone

LEMMA LoadKeeps == ASSUME CopyInv, LoadSource PROVE CopyInv'
<1>1. CopyTyped /\ CopyRuns BY DEF CopyInv
<1>2. /\ stage = 0 /\ clone = "none" /\ seen = {} /\ mode # "template"
      /\ UNCHANGED <<mode, clone, copies, partial>>
  BY DEF LoadSource
<1>3. CASE Ends("failed") /\ UNCHANGED <<seen, unnoticed>>
  <2>1. stage' = 9 /\ verdict' = "failed" BY <1>3 DEF Ends
  <2>2. CopyTyped' BY <1>1, <1>2, <1>3, <2>1 DEF CopyTyped
  <2>3. PiecesKnown' BY <1>2, <1>3 DEF PiecesKnown
  <2>4. CopyIsAsReported' BY <1>2, <2>1 DEF CopyIsAsReported, CompleteMeansComplete, FailedCopyIsUndone
  <2> QED BY <1>3, <2>1, <2>2, <2>3, <2>4, EndKeeps
<1>4. CASE \E lost \in SUBSET ({SortOf[p] : p \in Pieces} \ {"transcript"}) :
             /\ seen' = {Base} \union {p \in Pieces : SortOf[p] \notin lost \union {"transcript"}}
             /\ unnoticed' = {p \in Pieces : SortOf[p] \in lost}
             /\ UNCHANGED <<stage, verdict>>
  <2>1. PICK lost \in SUBSET ({SortOf[p] : p \in Pieces} \ {"transcript"}) :
             /\ seen' = {Base} \union {p \in Pieces : SortOf[p] \notin lost \union {"transcript"}}
             /\ unnoticed' = {p \in Pieces : SortOf[p] \in lost}
             /\ UNCHANGED <<stage, verdict>>
    BY <1>4
  <2>2. CopyTyped' BY <1>1, <1>2, <2>1 DEF CopyTyped
  <2>3. CopyRuns' BY <1>1, <1>2, <2>1 DEF CopyRuns
  <2>4. PiecesKnown' BY <1>2, <2>1 DEF PiecesKnown
  <2>5. ImportedSoFar' BY <1>2, <2>1 DEF ImportedSoFar
  <2>6. verdict' = "running" BY <1>1, <1>2, <2>1 DEF CopyRuns
  <2> QED BY <2>2, <2>3, <2>4, <2>5, <2>6, Unreported DEF CopyInv
<1> QED BY <1>3, <1>4 DEF LoadSource

LEMMA RowKeeps == ASSUME CopyInv, ImportSessionRow PROVE CopyInv'
<1>1. CopyTyped /\ CopyRuns /\ PiecesKnown BY DEF CopyInv
<1>2. /\ clone = "none" /\ stage = 0 /\ (mode = "template" \/ seen # {})
      /\ UNCHANGED <<mode, seen, copies, partial, unnoticed>>
  BY DEF ImportSessionRow
<1>3. PiecesKnown' BY <1>1, <1>2 DEF PiecesKnown
<1>4. CASE Ends("failed") /\ UNCHANGED clone
  <2>1. stage' = 9 /\ verdict' = "failed" BY <1>4 DEF Ends
  <2>2. CopyTyped' BY <1>1, <1>2, <1>4, <2>1 DEF CopyTyped
  <2>3. CopyIsAsReported' BY <1>2, <1>4, <2>1 DEF CopyIsAsReported, CompleteMeansComplete, FailedCopyIsUndone
  <2> QED BY <1>2, <1>3, <2>1, <2>2, <2>3, EndKeeps
<1>5. CASE clone' = "open" /\ stage' = (IF mode = "template" THEN 0 ELSE 1) /\ UNCHANGED verdict
  <2>1. stage' \in {0, 1} /\ (stage' = 1 => mode # "template") BY <1>5
  <2>2. CopyTyped' BY <1>1, <1>2, <1>5, <2>1 DEF CopyTyped
  <2>3. CopyRuns' BY <1>1, <1>2, <1>5, <2>1 DEF CopyRuns
  <2>4. ImportedSoFar' BY <2>1 DEF ImportedSoFar
  <2>5. verdict' = "running" BY <1>1, <1>2, <1>5 DEF CopyRuns
  <2> QED BY <1>3, <2>2, <2>3, <2>4, <2>5, Unreported DEF CopyInv
<1> QED BY <1>4, <1>5 DEF ImportSessionRow

LEMMA FetchKeeps == ASSUME CopyInv, FetchElements PROVE CopyInv'
<1>1. CopyTyped /\ CopyRuns BY DEF CopyInv
<1>2. /\ mode = "template" /\ stage = 0 /\ clone # "none" /\ stage' = 1
      /\ UNCHANGED <<mode, clone, copies, verdict>>
  BY DEF FetchElements
<1>3. PICK lost \in SUBSET Pieces, unmarked \in SUBSET Pieces :
        /\ seen' = {Base} \union (Pieces \ lost)
        /\ partial' = IF lost = unmarked THEN partial ELSE partial \union {"elements"}
        /\ unnoticed' = unmarked
  BY DEF FetchElements
<1>4. CopyTyped' BY <1>1, <1>2, <1>3 DEF CopyTyped
<1>5. CopyRuns' BY <1>1, <1>2, <1>3 DEF CopyRuns
<1>6. PiecesKnown' BY <1>3 DEF PiecesKnown
<1>7. ImportedSoFar' BY <1>2 DEF ImportedSoFar
<1>8. verdict' = "running" BY <1>1, <1>2 DEF CopyRuns
<1> QED BY <1>4, <1>5, <1>6, <1>7, <1>8, Unreported DEF CopyInv

LEMMA RowsKeep == ASSUME CopyInv, ImportRows PROVE CopyInv'
<1>1. CopyTyped /\ CopyRuns /\ PiecesKnown /\ ImportedSoFar BY DEF CopyInv
<1>2. PICK s : s = Sorts[stage] OBVIOUS
<1>3. stage \in 1..5 /\ stage' = stage + 1 /\ UNCHANGED <<mode, seen, clone, verdict, unnoticed>>
  BY DEF ImportRows
<1>4. PICK failed \in SUBSET Wanted(s) :
        /\ copies' = IF clone = "removed" THEN {} ELSE copies \union (Wanted(s) \ failed)
        /\ partial' = IF failed = {} THEN partial ELSE partial \union {s}
  <2>1. PICK broken \in SUBSET Wanted(s) :
          LET failed == broken \union (Refused(s, Wanted(s) \ broken) \intersect Wanted(s))
          IN  /\ copies' = IF clone = "removed" THEN {} ELSE copies \union (Wanted(s) \ failed)
              /\ recordPartialFailure(s, failed)
    BY <1>2 DEF ImportRows
  <2>2. PICK failed : failed = broken \union (Refused(s, Wanted(s) \ broken) \intersect Wanted(s)) OBVIOUS
  <2> QED BY <2>1, <2>2 DEF recordPartialFailure
<1>5. Wanted(s) \subseteq seen BY <1>1, WantedIs
<1>6. clone # "none" /\ Base \in seen /\ verdict = "running" BY <1>1, <1>3 DEF CopyRuns
<1>7. CopyTyped' BY <1>1, <1>3, <1>4, <1>5, <1>6 DEF CopyTyped
<1>8. CopyRuns' BY <1>1, <1>3 DEF CopyRuns
<1>9. PiecesKnown' BY <1>1, <1>3, <1>4 DEF PiecesKnown
<1>10. ImportedSoFar'
  <2> SUFFICES ASSUME clone = "open", partial' = {} PROVE ImportedSoFar' BY <1>3 DEF ImportedSoFar
  <2>1. partial = {} /\ copies' = copies \cup Wanted(s) BY <1>4
  <2>2. /\ stage > 1 => Base \in copies
        /\ \A n \in 2..6 : n < stage => PiecesOf(Sorts[n]) \subseteq copies \cup unnoticed
    BY <1>1, <1>3, <2>1 DEF ImportedSoFar
  <2>3. Base \in copies'
    <3>1. CASE stage = 1
      <4>1. s = "artifact" BY <1>2, <3>1, SortsAre
      <4>2. Base \in Wanted(s) BY <1>6, <4>1 DEF Wanted
      <4> QED BY <2>1, <4>2
    <3>2. CASE stage # 1 BY <1>3, <2>1, <2>2, <3>2
    <3> QED BY <3>1, <3>2
  <2>4. ASSUME NEW n \in 2..6, n < stage + 1 PROVE PiecesOf(Sorts[n]) \subseteq copies' \cup unnoticed
    <3>1. CASE n < stage BY <2>1, <2>2, <3>1
    <3>2. CASE n = stage
      <4> SUFFICES ASSUME NEW p \in PiecesOf(s) PROVE p \in copies' \cup unnoticed BY <1>2, <3>2
      <4>1. p \in Pieces /\ SortOf[p] = s /\ p # Base BY SessionCopyAssumption DEF PiecesOf
      <4>2. s # "transcript"
        <5>1. stage \in {1, 2, 3, 4, 5} BY <1>3
        <5> QED BY <1>2, <5>1, SortsAre
      <4>3. p \in seen \cup unnoticed BY <1>1, <1>6, <2>1, <4>1, <4>2 DEF PiecesKnown
      <4>4. HangsOn(s) BY <1>3, <2>2, <3>2 DEF HangsOn
      <4>5. p \in seen => p \in Wanted(s) BY <4>1, <4>4 DEF Wanted
      <4> QED BY <2>1, <4>3, <4>5
    <3> QED BY <1>3, <2>4, <3>1, <3>2
  <2> QED BY <1>3, <2>3, <2>4 DEF ImportedSoFar
<1> QED BY <1>3, <1>6, <1>7, <1>8, <1>9, <1>10, Unreported DEF CopyInv

\* A copy whose transcripts or frame fail: the rollback removes it, or is stuck.
LEMMA CriticalKeeps ==
  ASSUME CopyInv, Critical, clone # "none", UNCHANGED <<mode, seen>> PROVE CopyInv'
<1>1. CopyTyped /\ PiecesKnown BY DEF CopyInv
<1>2. stage' = 9 /\ verdict' = "failed" /\ UNCHANGED <<partial, unnoticed>> BY DEF Critical, Ends
<1>3. \/ (mode = "template" \/ clone = "removed") /\ UNCHANGED <<clone, copies, stuck>>
      \/ stuck' = TRUE /\ UNCHANGED <<clone, copies>>
      \/ clone' = "removed" /\ copies' = {}
  BY DEF Critical, Rollback
<1>4. CopyTyped' BY <1>1, <1>2, <1>3 DEF CopyTyped
<1>5. PiecesKnown' BY <1>1, <1>2 DEF PiecesKnown
<1>6. CopyIsAsReported' BY <1>2, <1>3 DEF CopyIsAsReported, CompleteMeansComplete, FailedCopyIsUndone
<1> QED BY <1>2, <1>4, <1>5, <1>6, EndKeeps

\* The pieces of every sort are there when the transcripts are.
LEMMA TranscriptsKeep == ASSUME CopyInv, ImportTranscripts PROVE CopyInv'
<1>1. CopyTyped /\ CopyRuns /\ PiecesKnown /\ ImportedSoFar BY DEF CopyInv
<1>2. stage = 6 /\ UNCHANGED <<mode, seen>> /\ clone # "none" /\ verdict = "running" /\ Base \in seen
  BY <1>1 DEF ImportTranscripts, CopyRuns
<1>3. PICK from : from = IF mode = "template" THEN Wanted("transcript") ELSE PiecesOf("transcript") OBVIOUS
<1>4. from \subseteq Pieces /\ from \subseteq PiecesOf("transcript")
  <2>1. \A p \in Wanted("transcript") : p \in PiecesOf("transcript")
    BY <1>1 DEF Wanted, PiecesOf, CopyTyped
  <2> QED BY <1>3, <2>1 DEF PiecesOf
<1>5. CASE Critical BY <1>2, <1>5, CriticalKeeps
<1>6. CASE /\ stage' = 7 /\ UNCHANGED <<verdict, clone, partial>>
           /\ \/ unnoticed' = unnoticed \cup from /\ UNCHANGED copies /\ mode # "template"
              \/ copies' = copies \cup from /\ UNCHANGED unnoticed /\ (from = {} \/ clone = "open")
  <2>1. CopyTyped' BY <1>1, <1>2, <1>4, <1>6 DEF CopyTyped
  <2>2. CopyRuns' BY <1>1, <1>2, <1>6 DEF CopyRuns
  <2>3. PiecesKnown' BY <1>1, <1>2, <1>6 DEF PiecesKnown
  <2>4. ImportedSoFar'
    <3> SUFFICES ASSUME clone = "open", partial = {} PROVE ImportedSoFar' BY <1>6 DEF ImportedSoFar
    <3>1. /\ Base \in copies
          /\ \A n \in 2..6 : n < 6 => PiecesOf(Sorts[n]) \subseteq copies \cup unnoticed
      BY <1>1, <1>2 DEF ImportedSoFar
    <3>2. PiecesOf("transcript") \subseteq from \cup unnoticed
      <4>1. CASE mode # "template" BY <1>3, <4>1
      <4>2. CASE mode = "template"
        <5> SUFFICES ASSUME NEW p \in PiecesOf("transcript") PROVE p \in from \cup unnoticed OBVIOUS
        <5>1. p \in Pieces /\ SortOf[p] = "transcript" /\ p # Base BY SessionCopyAssumption DEF PiecesOf
        <5>2. p \in seen \cup unnoticed BY <1>1, <1>2, <4>2, <5>1 DEF PiecesKnown
        <5>3. p \in seen => p \in Wanted("transcript") BY <5>1 DEF Wanted, HangsOn
        <5> QED BY <1>3, <4>2, <5>2, <5>3
      <4> QED BY <4>1, <4>2
    <3>3. ASSUME NEW n \in 2..6 PROVE PiecesOf(Sorts[n]) \subseteq copies' \cup unnoticed'
      <4>1. CASE n < 6 BY <1>6, <3>1, <4>1
      <4>2. CASE n = 6 BY <1>6, <3>2, <4>2, SortsAre
      <4> QED BY <4>1, <4>2
    <3> QED BY <1>6, <3>1, <3>3 DEF ImportedSoFar
  <2>5. verdict' = "running" BY <1>2, <1>6
  <2> QED BY <2>1, <2>2, <2>3, <2>4, <2>5, Unreported DEF CopyInv
<1> QED BY <1>3, <1>5, <1>6 DEF ImportTranscripts

LEMMA FrameKeeps == ASSUME CopyInv, ImportSessionMetadata PROVE CopyInv'
<1>1. CopyTyped /\ CopyRuns /\ PiecesKnown /\ ImportedSoFar BY DEF CopyInv
<1>2. stage = 7 /\ UNCHANGED <<mode, seen>> /\ clone # "none" /\ verdict = "running"
  BY <1>1 DEF ImportSessionMetadata, CopyRuns
<1>3. CASE Critical BY <1>2, <1>3, CriticalKeeps
<1>4. CASE /\ stage' = 8 /\ UNCHANGED <<verdict, clone, copies, unnoticed>>
           /\ UNCHANGED partial \/ partial' = partial \union {"elements"}
  <2>1. CopyTyped' BY <1>1, <1>2, <1>4 DEF CopyTyped
  <2>2. CopyRuns' BY <1>1, <1>2, <1>4 DEF CopyRuns
  <2>3. PiecesKnown' BY <1>1, <1>2, <1>4 DEF PiecesKnown
  <2>4. ImportedSoFar'
    <3> SUFFICES ASSUME clone = "open", partial = {}
        PROVE  /\ Base \in copies
               /\ \A n \in 2..6 : PiecesOf(Sorts[n]) \subseteq copies \cup unnoticed
        BY <1>4 DEF ImportedSoFar
    <3>1. \A n \in 2..6 : n < 7 OBVIOUS
    <3> QED BY <1>1, <1>2, <3>1 DEF ImportedSoFar
  <2>5. verdict' = "running" BY <1>2, <1>4
  <2> QED BY <2>1, <2>2, <2>3, <2>4, <2>5, Unreported DEF CopyInv
<1> QED BY <1>3, <1>4 DEF ImportSessionMetadata

LEMMA FinishKeeps == ASSUME CopyInv, Finish PROVE CopyInv'
<1>1. CopyTyped /\ CopyRuns /\ PiecesKnown /\ ImportedSoFar BY DEF CopyInv
<1>2. stage = 8 /\ UNCHANGED <<mode, seen, clone, copies, partial, stuck>> BY DEF Finish
<1>3. \/ Ends(IF partial = {} THEN "succeeded" ELSE "partial") /\ UNCHANGED unnoticed
      \/ Ends("succeeded") /\ unnoticed' = Pieces \ copies /\ partial # {}
      \/ Ends("running") /\ UNCHANGED unnoticed
  BY DEF Finish
<1>4. stage' = 9 /\ verdict' \in {"running", "succeeded", "partial"} BY <1>3 DEF Ends
<1>5. CopyTyped' BY <1>1, <1>2, <1>3, <1>4 DEF CopyTyped
<1>6. PiecesKnown' BY <1>1, <1>2, <1>3 DEF PiecesKnown
<1>7. CompleteMeansComplete'
  <2> SUFFICES ASSUME verdict' = "succeeded", clone = "open", NEW p \in Pieces PROVE p \in copies \cup unnoticed'
      BY <1>2 DEF CompleteMeansComplete
  <2>1. CASE unnoticed' = Pieces \ copies BY <2>1
  <2>2. CASE partial = {} /\ UNCHANGED unnoticed
    <3>1. PICK n \in 2..6 : p \in PiecesOf(Sorts[n]) BY PieceHasSort
    <3>2. n < 8 OBVIOUS
    <3> QED BY <1>1, <1>2, <2>2, <3>1, <3>2 DEF ImportedSoFar
  <2> QED BY <1>3, <2>1, <2>2 DEF Ends
<1>8. FailedCopyIsUndone' BY <1>4 DEF FailedCopyIsUndone
<1> QED BY <1>2, <1>4, <1>5, <1>6, <1>7, <1>8, EndKeeps DEF CopyIsAsReported

LEMMA DeleteKeeps == ASSUME CopyInv, DeleteClone PROVE CopyInv'
<1> USE DEF DeleteClone
<1>1. CopyTyped' BY DEF CopyInv, CopyTyped
<1>2. CopyRuns' /\ PiecesKnown' BY DEF CopyInv, CopyRuns, PiecesKnown
<1>3. ImportedSoFar' BY DEF ImportedSoFar
<1>4. CopyIsAsReported' BY DEF CopyIsAsReported, CompleteMeansComplete, FailedCopyIsUndone
<1> QED BY <1>1, <1>2, <1>3, <1>4 DEF CopyInv

LEMMA DeathKeeps == ASSUME CopyInv, ProcessDies PROVE CopyInv'
<1> USE DEF ProcessDies
<1>1. CopyTyped' BY DEF CopyInv, CopyTyped
<1>2. PiecesKnown' BY DEF CopyInv, PiecesKnown
<1>3. CopyIsAsReported' BY DEF CopyInv, CopyIsAsReported, CompleteMeansComplete, FailedCopyIsUndone
<1> QED BY <1>1, <1>2, <1>3, EndKeeps

-----------------------------------------------------------------------------
LEMMA CopyStep == CopyInv /\ [CopyNext]_copyVars => CopyInv'
<1> SUFFICES ASSUME CopyInv, [CopyNext]_copyVars PROVE CopyInv' OBVIOUS
<1>1. CASE UNCHANGED copyVars \/ ClientGoesAway
  BY <1>1 DEF copyVars, ClientGoesAway, CopyInv, CopyTyped, CopyRuns, PiecesKnown, ImportedSoFar,
              CopyIsAsReported, CompleteMeansComplete, FailedCopyIsUndone
<1> QED
  BY <1>1, LoadKeeps, RowKeeps, FetchKeeps, RowsKeep, TranscriptsKeep, FrameKeeps, FinishKeeps,
     DeleteKeeps, DeathKeeps
  DEF CopyNext

\* Whatever fails on the way, and whenever the client leaves or the owner deletes the
\* new session, a copy reported complete is complete but for what was lost without a
\* trace, and nothing is left of a copy that failed unless its rollback did too
\* (sessions.go:300-313, 503-563; worker.go:150-162).
THEOREM CopyStaysAsReported == CopySpec => []CopyIsAsReported
<1>1. CopyInv => CopyIsAsReported BY DEF CopyInv
<1> QED BY <1>1, CopyStart, CopyStep, PTL DEF CopySpec
-----------------------------------------------------------------------------
(* The files of the materials (MaterialFiles).                              *)

TakenSteps == {"idle", "put", "create", "follow", "paste", "unstore", "unlink", "tombstone"}
FileRows == [state : {"absent", "live", "deleted"}, name : Names \union {Nobody},
             text : {"none", "pending", "ready", "failed"}, job : BOOLEAN]
FileRequests == [step : TakenSteps, m : Materials \union {Nobody}, name : Names \union {Nobody},
                 file : Files \union {Nobody}, keyed : BOOLEAN]
FilesTyped ==
  /\ row \in [Materials -> FileRows] /\ object \in [Keys -> Materials \union {Nobody}]
  /\ video \in [Materials -> {"none", "bare", "linked"}]
  /\ request \in [Requests -> FileRequests]

\* What a request has in hand is as it found it: an upload's row is not there until
\* it is created, a deletion's was there; in R2 a row that is deleted has no key.
RequestSound(r) ==
  /\ r.step = "idle" => r.m = Nobody /\ r.name = Nobody
  /\ r.step \in {"put", "create", "follow"} => r.m \in Materials /\ r.name \in Names /\ r.file \in Files
  /\ r.step = "paste" => r.m \in Materials /\ r.name = Nobody
  /\ r.step \in {"put", "create", "paste"} => row[r.m].state = "absent"
  /\ r.step = "follow" => /\ row[r.m].state # "absent" /\ row[r.m].name = r.name
                          /\ row[r.m].text = TextStatus(r.file) /\ ~row[r.m].job
  /\ r.step \in {"unstore", "unlink", "tombstone"} =>
       /\ r.m \in Materials /\ row[r.m].state # "absent" /\ row[r.m].name = r.name
       /\ r.keyed => r.name # Nobody
       /\ ~r.keyed => row[r.m].state = "deleted" \/ r.name = Nobody

RequestsSound == \A q \in Requests : RequestSound(request[q])

Brings(q) == request[q].step \in {"put", "create", "follow", "paste"}
RowsApart == \A p, q \in Requests : Brings(p) /\ Brings(q) /\ request[p].m = request[q].m => p = q

RowsSound ==
  \A m \in Materials :
    /\ row[m].state = "absent" => ~row[m].job /\ video[m] = "none" /\ row[m].name = Nobody
    /\ video[m] # "none" => Stored(m)

\* The requests that work on a key, and the rows that have it.
RequestsOn(k) == {q \in Requests : request[q].name # Nobody /\ KeyOf[request[q].name] = k}
RowsOn(k) == {m \in Materials : Stored(m) /\ Key(m) = k}

\* What a request alone on its key relies on.
RequestFits(q, k) ==
  /\ request[q].step \in {"put", "create"} => \A m \in RowsOn(k) : row[m].state # "live" /\ video[m] = "none"
  /\ request[q].step \in {"create", "follow"} => object[k] = request[q].m
  /\ request[q].step = "follow" => row[request[q].m].state = "live"
  /\ request[q].step = "unstore" /\ request[q].keyed => object[k] = request[q].m
  /\ request[q].step = "unlink" /\ request[q].keyed => object[k] \in {request[q].m, Nobody}
  /\ request[q].step = "tombstone" /\ request[q].keyed => video[request[q].m] = "none"

\* A row and its video have their file, or a deletion is on its way from the one to the
\* others; a text that is waited for has its job, or a request that will make it.
RowFits(m, k) ==
  /\ row[m].state = "live" =>
       \/ object[k] = m
       \/ \E q \in RequestsOn(k) :
            request[q].step \in {"unlink", "tombstone"} /\ request[q].keyed /\ request[q].m = m
  /\ video[m] # "none" =>
       \/ object[k] = m
       \/ \E q \in RequestsOn(k) : request[q].step = "unlink" /\ request[q].keyed /\ request[q].m = m
  /\ row[m].state = "deleted" => video[m] = "none"
  /\ row[m].state = "live" /\ row[m].text = "pending" =>
       row[m].job \/ \E q \in RequestsOn(k) : request[q].step = "follow" /\ request[q].m = m

KeyFits(k) ==
  k \notin muddled =>
    /\ \A p, q \in RequestsOn(k) : p = q
    /\ \A q \in RequestsOn(k) : RequestFits(q, k)
    /\ \A m \in RowsOn(k) : RowFits(m, k)

\* The requests that passed the check of the limit and have not created their row.
Adding == {q \in Requests : request[q].step \in {"put", "create", "paste"}}
LimitSound ==
  /\ IsFiniteSet(Live)
  /\ Cardinality(Live) + Cardinality(Adding) <= MaxMaterials + Cardinality(Requests) - 1

FilesInv ==
  FilesTyped /\ RequestsSound /\ RowsApart /\ RowsSound /\ LimitSound /\ \A k \in Keys : KeyFits(k)

\* Names of which no two lead to one object, stored in R2: what the theorem is about.
KeysApart == Provider = "r2" /\ \A m, n \in Names : KeyOf[m] = KeyOf[n] => m = n

-----------------------------------------------------------------------------
\* A text that waits for its extraction gets a job for it, whatever the file.
LEMMA PendingIsDeferred ==
  ASSUME NEW f \in FileKinds, TextStatus(f) = "pending" PROVE NeedsExtraction(f)
<1>1. ~HasText(f) /\ Deferred(f) BY DEF TextStatus
<1>2. IsPDF(f) \/ IsOffice(f) \/ ImageGate(f) \/ FileGate(f)
  <2>1. CASE Route(f) = "sidecar" BY <2>1 DEF Route
  <2>2. CASE Route(f) = "job" BY <2>2 DEF Route
  <2>3. CASE Route(f) = "office" BY <2>3 DEF Route
  <2>4. CASE FileGate(f) BY <2>4
  <2> QED BY <1>1, <2>1, <2>2, <2>3, <2>4 DEF Deferred
<1> QED BY <1>1, <1>2 DEF NeedsExtraction

LEMMA TextStatusIs == \A f : TextStatus(f) \in {"pending", "ready", "failed"}
BY DEF TextStatus

LEMMA KeysAre == ASSUME NEW n \in Names PROVE KeyOf[n] \in Keys
BY MaterialFilesAssumption

\* A request becomes x, the others stay.
RequestTurns(q, x) ==
  /\ request' \in [Requests -> FileRequests] /\ request'[q] = x
  /\ \A p \in Requests \ {q} : request'[p] = request[p]

LEMMA RequestTurning ==
  ASSUME FilesTyped, NEW q \in Requests, NEW x \in FileRequests, request' = [request EXCEPT ![q] = x]
  PROVE  RequestTurns(q, x)
BY DEF FilesTyped, RequestTurns

LEMMA IdleIs == Idle \in FileRequests /\ Idle.step = "idle" /\ Idle.m = Nobody /\ Idle.name = Nobody
BY DEF Idle, FileRequests, TakenSteps

LEMMA DoneIs == ASSUME FilesTyped, NEW q \in Requests, Done(q) PROVE RequestTurns(q, Idle)
BY IdleIs, RequestTurning DEF Done

LEMMA ToIs ==
  ASSUME FilesTyped, NEW q \in Requests, NEW step \in TakenSteps, To(q, step)
  PROVE  \E x \in FileRequests : /\ RequestTurns(q, x) /\ x.step = step /\ x.m = request[q].m
                                 /\ x.name = request[q].name /\ x.file = request[q].file
                                 /\ x.keyed = request[q].keyed
<1>1. request[q] \in FileRequests BY DEF FilesTyped
<1>2. PICK x : x = [request[q] EXCEPT !.step = step] OBVIOUS
<1>3. /\ x \in FileRequests /\ x.step = step /\ x.m = request[q].m /\ x.name = request[q].name
      /\ x.file = request[q].file /\ x.keyed = request[q].keyed
  BY <1>1, <1>2 DEF FileRequests
<1>4. request' = [request EXCEPT ![q] = x] BY <1>2 DEF To
<1> QED BY <1>3, <1>4, RequestTurning

\* The limit: a request past the check counts as a row, until it has made one or gives up.
LEMMA FewerKeep ==
  ASSUME LimitSound, Live' \subseteq Live, Adding' \subseteq Adding PROVE LimitSound'
<1>1. IsFiniteSet(Adding) /\ IsFiniteSet(Requests) BY FS_Subset, MaterialFilesAssumption DEF Adding
<1>2. IsFiniteSet(Live) BY DEF LimitSound
<1>3. /\ IsFiniteSet(Live') /\ Cardinality(Live') \in Nat /\ Cardinality(Live) \in Nat
      /\ Cardinality(Live') <= Cardinality(Live)
  BY <1>2, FS_Subset, FS_CardinalityType
<1>4. /\ Cardinality(Adding') \in Nat /\ Cardinality(Adding) \in Nat
      /\ Cardinality(Adding') <= Cardinality(Adding)
  BY <1>1, FS_Subset, FS_CardinalityType
<1>5. Cardinality(Requests) \in Nat /\ MaxMaterials \in Nat BY <1>1, FS_CardinalityType, MaterialFilesAssumption
<1>6. PICK a, b, c, d : a = Cardinality(Live) /\ b = Cardinality(Live') /\ c = Cardinality(Adding) /\ d = Cardinality(Adding')
  OBVIOUS
<1>7. a + c <= MaxMaterials + Cardinality(Requests) - 1 BY <1>6 DEF LimitSound
<1>8. b + d <= MaxMaterials + Cardinality(Requests) - 1 BY <1>3, <1>4, <1>5, <1>6, <1>7
<1> QED BY <1>3, <1>6, <1>8 DEF LimitSound

LEMMA BegunKeeps == ASSUME LimitSound, BelowLimit, Live' = Live PROVE LimitSound'
<1>1. IsFiniteSet(Requests) /\ Adding' \subseteq Requests BY MaterialFilesAssumption DEF Adding
<1>2. /\ Cardinality(Adding') \in Nat /\ Cardinality(Requests) \in Nat
      /\ Cardinality(Adding') <= Cardinality(Requests)
  BY <1>1, FS_Subset, FS_CardinalityType
<1>3. Cardinality(Live) \in Nat /\ MaxMaterials \in Nat /\ Cardinality(Live) < MaxMaterials
  BY FS_CardinalityType, MaterialFilesAssumption DEF LimitSound, BelowLimit
<1>4. PICK a, d, e : a = Cardinality(Live) /\ d = Cardinality(Adding') /\ e = Cardinality(Requests) OBVIOUS
<1>5. a + d <= MaxMaterials + e - 1 BY <1>2, <1>3, <1>4
<1> QED BY <1>4, <1>5 DEF LimitSound

LEMMA MadeKeeps ==
  ASSUME LimitSound, NEW q \in Adding, NEW m, Live' = Live \cup {m}, Adding' = Adding \ {q} PROVE LimitSound'
<1>1. IsFiniteSet(Adding) /\ IsFiniteSet(Requests) BY FS_Subset, MaterialFilesAssumption DEF Adding
<1>2. IsFiniteSet(Live) BY DEF LimitSound
<1>3. /\ IsFiniteSet(Live') /\ Cardinality(Live') \in Nat /\ Cardinality(Live) \in Nat
      /\ Cardinality(Live') <= Cardinality(Live) + 1
  BY <1>2, FS_AddElement, FS_CardinalityType
<1>4. /\ Cardinality(Adding') \in Nat /\ Cardinality(Adding) \in Nat
      /\ Cardinality(Adding') = Cardinality(Adding) - 1
  BY <1>1, FS_RemoveElement, FS_CardinalityType
<1>5. Cardinality(Requests) \in Nat /\ MaxMaterials \in Nat BY <1>1, FS_CardinalityType, MaterialFilesAssumption
<1>6. PICK a, b, c, d : a = Cardinality(Live) /\ b = Cardinality(Live') /\ c = Cardinality(Adding) /\ d = Cardinality(Adding')
  OBVIOUS
<1>7. a + c <= MaxMaterials + Cardinality(Requests) - 1 BY <1>6 DEF LimitSound
<1>8. b + d <= MaxMaterials + Cardinality(Requests) - 1 BY <1>3, <1>4, <1>5, <1>6, <1>7
<1> QED BY <1>3, <1>6, <1>8 DEF LimitSound

\* A key that the step has nothing to do with.
LEMMA OtherKey ==
  ASSUME FilesInv, NEW k \in Keys, NEW q \in Requests, muddled \subseteq muddled', object'[k] = object[k],
         \A p \in Requests \ {q} : request'[p] = request[p],
         q \notin RequestsOn(k), q \notin RequestsOn(k)',
         \A m \in Materials : \/ row'[m] = row[m] /\ video'[m] = video[m]
                              \/ m \notin RowsOn(k) /\ m \notin RowsOn(k)'
  PROVE  KeyFits(k)'
<1> SUFFICES ASSUME k \notin muddled' PROVE KeyFits(k)' BY DEF KeyFits
<1>1. /\ \A p1, p2 \in RequestsOn(k) : p1 = p2
      /\ \A p \in RequestsOn(k) : RequestFits(p, k)
      /\ \A m \in RowsOn(k) : RowFits(m, k)
  BY DEF FilesInv, KeyFits
<1>2. RequestsOn(k)' = RequestsOn(k) /\ \A p \in RequestsOn(k) : request'[p] = request[p] /\ p # q /\ p \in Requests
  BY DEF RequestsOn
<1>3. RowsOn(k)' = RowsOn(k) /\ \A m \in RowsOn(k) : row'[m] = row[m] /\ video'[m] = video[m]
  BY DEF RowsOn, Stored, Key
<1>4. \A p \in RequestsOn(k) :
        request[p].step \in {"follow", "unstore", "unlink", "tombstone"} => request[p].m \in RowsOn(k)
  <2> SUFFICES ASSUME NEW p \in RequestsOn(k), request[p].step \in {"follow", "unstore", "unlink", "tombstone"}
      PROVE request[p].m \in RowsOn(k)
      OBVIOUS
  <2>1. p \in Requests /\ request[p].name # Nobody /\ KeyOf[request[p].name] = k BY DEF RequestsOn
  <2>2. RequestSound(request[p]) BY <2>1 DEF FilesInv, RequestsSound
  <2>3. request[p].m \in Materials /\ row[request[p].m].name = request[p].name BY <2>2 DEF RequestSound
  <2> QED BY <2>1, <2>3 DEF RowsOn, Stored, Key
<1>5. \A p \in RequestsOn(k) : RequestFits(p, k)' BY <1>1, <1>2, <1>3, <1>4 DEF RequestFits
<1>6. \A m \in RowsOn(k) : RowFits(m, k)' BY <1>1, <1>2, <1>3 DEF RowFits
<1> QED BY <1>1, <1>2, <1>3, <1>5, <1>6 DEF KeyFits

\* A request on the key k of its own becomes x: either it is alone there and k keeps
\* fitting, or k is muddled.
LEMMA OwnKey ==
  ASSUME FilesInv, NEW k \in Keys, NEW q \in Requests, NEW x, RequestTurns(q, x),
         q \in RequestsOn(k), muddled \subseteq muddled'
  PROVE  k \notin muddled' =>
           /\ RequestsOn(k) = {q} /\ RequestFits(q, k) /\ \A m \in RowsOn(k) : RowFits(m, k)
           /\ x.name = request[q].name => RequestsOn(k)' = {q}
           /\ x.name = Nobody => RequestsOn(k)' = {}
<1> SUFFICES ASSUME k \notin muddled'
    PROVE  /\ RequestsOn(k) = {q} /\ RequestFits(q, k) /\ \A m \in RowsOn(k) : RowFits(m, k)
           /\ x.name = request[q].name => RequestsOn(k)' = {q}
           /\ x.name = Nobody => RequestsOn(k)' = {}
    OBVIOUS
<1>1. /\ \A p1, p2 \in RequestsOn(k) : p1 = p2
      /\ \A p \in RequestsOn(k) : RequestFits(p, k)
      /\ \A m \in RowsOn(k) : RowFits(m, k)
  BY DEF FilesInv, KeyFits
<1>2. RequestsOn(k) = {q} BY <1>1
<1>3. \A p \in Requests \ {q} : ~(request'[p].name # Nobody /\ KeyOf[request'[p].name] = k)
  BY <1>2 DEF RequestTurns, RequestsOn
<1>4. request'[q] = x BY DEF RequestTurns
<1>5. request[q].name # Nobody /\ KeyOf[request[q].name] = k BY DEF RequestsOn
<1>6. x.name = request[q].name => RequestsOn(k)' = {q} BY <1>3, <1>4, <1>5 DEF RequestsOn
<1>7. x.name = Nobody => RequestsOn(k)' = {} BY <1>3, <1>4 DEF RequestsOn
<1> QED BY <1>1, <1>2, <1>6, <1>7

-----------------------------------------------------------------------------
\* The parts of the invariant that speak of all the requests, when q becomes x.
RowServes(p) ==
  /\ \/ row'[request[p].m].state = row[request[p].m].state
     \/ row[request[p].m].state # "absent" /\ row'[request[p].m].state = "deleted"
  /\ row'[request[p].m].name = row[request[p].m].name
  /\ request[p].step = "follow" => /\ row'[request[p].m].text = row[request[p].m].text
                                   /\ row'[request[p].m].job = row[request[p].m].job

LEMMA OthersStaySound ==
  ASSUME FilesInv, NEW q \in Requests, NEW x, RequestTurns(q, x), RequestSound(x)',
         \A p \in Requests \ {q} : request[p].step # "idle" => RowServes(p)
  PROVE  RequestsSound'
<1> SUFFICES ASSUME NEW p \in Requests PROVE RequestSound(request[p])' BY DEF RequestsSound
<1>1. CASE p = q BY <1>1 DEF RequestTurns
<1>2. CASE p # q
  <2>1. request'[p] = request[p] BY <1>2 DEF RequestTurns
  <2>2. RequestSound(request[p]) BY DEF FilesInv, RequestsSound
  <2>3. request[p].step = "idle" \/ RowServes(p) BY <1>2
  <2>4. row'[request'[p].m] = row'[request[p].m] BY <2>1
  <2> QED BY <2>1, <2>2, <2>3, <2>4 DEF RequestSound, RowServes
<1> QED BY <1>1, <1>2

LEMMA SameRowsServe ==
  ASSUME UNCHANGED row PROVE \A p \in Requests : RowServes(p)
BY DEF RowServes

LEMMA StayApart ==
  ASSUME FilesInv, NEW q \in Requests, NEW x, RequestTurns(q, x),
         x.step \in {"put", "create", "follow", "paste"} =>
           (Brings(q) /\ x.m = request[q].m) \/ ~Taken(x.m)
  PROVE  RowsApart'
<1>1. RowsApart BY DEF FilesInv
<1>2. \A p \in Requests \ {q} : ~(Brings(p) /\ x.step \in {"put", "create", "follow", "paste"} /\ request[p].m = x.m)
  BY <1>1 DEF RowsApart, Taken
<1>3. request'[q] = x /\ \A p \in Requests \ {q} : request'[p] = request[p] BY DEF RequestTurns
<1>4. \A p \in Requests \ {q} : Brings(p)' = Brings(p) BY <1>3 DEF Brings
<1>5. Brings(q)' => x.step \in {"put", "create", "follow", "paste"} BY <1>3 DEF Brings
<1> QED BY <1>1, <1>2, <1>3, <1>4, <1>5 DEF RowsApart

LEMMA FewerAdding ==
  ASSUME NEW q \in Requests, NEW x, RequestTurns(q, x),
         x.step \in {"put", "create", "paste"} => request[q].step \in {"put", "create", "paste"}
  PROVE  Adding' \subseteq Adding
BY DEF RequestTurns, Adding

\* A request that leaves the row and the video of its material alone.
LEMMA RequestKeeps ==
  ASSUME FilesInv, NEW q \in Requests, NEW x, RequestTurns(q, x), UNCHANGED row,
         RequestSound(x)', object' \in [Keys -> Materials \union {Nobody}],
         video' \in [Materials -> {"none", "bare", "linked"}],
         \A m \in Materials : video'[m] \in {video[m], "none"},
         x.step \in {"put", "create", "follow", "paste"} => Brings(q) /\ x.m = request[q].m,
         x.step \in {"put", "create", "paste"} => request[q].step \in {"put", "create", "paste"},
         \A k \in Keys : KeyFits(k)'
  PROVE  FilesInv'
<1>1. FilesTyped' BY DEF FilesInv, FilesTyped, RequestTurns
<1>2. RequestsSound' BY OthersStaySound, SameRowsServe
<1>3. RowsApart' BY StayApart
<1>4. RowsSound' BY DEF FilesInv, RowsSound, Stored
<1>5. LimitSound'
  <2>1. Live' = Live BY DEF Live
  <2>2. Adding' \subseteq Adding BY FewerAdding
  <2> QED BY <2>1, <2>2, FewerKeep DEF FilesInv
<1> QED BY <1>1, <1>2, <1>3, <1>4, <1>5 DEF FilesInv

-----------------------------------------------------------------------------
LEMMA FilesStart == ASSUME FilesInit PROVE FilesInv
<1>1. FilesTyped BY IdleIs DEF FilesInit, FilesTyped, NoRow, FileRows
<1>2. \A q \in Requests : request[q] = Idle BY DEF FilesInit
<1>3. \A m \in Materials : row[m] = NoRow /\ video[m] = "none" BY DEF FilesInit
<1>4. RequestsSound BY <1>2, IdleIs DEF RequestsSound, RequestSound
<1>5. RowsApart BY <1>2, IdleIs DEF RowsApart, Brings
<1>6. RowsSound BY <1>3 DEF RowsSound, NoRow
<1>7. LimitSound
  <2>1. Live = {} /\ Adding = {} BY <1>2, <1>3, IdleIs DEF Live, Adding, NoRow
  <2>2. IsFiniteSet({}) /\ Cardinality({}) = 0 BY FS_EmptySet
  <2>3. Cardinality(Requests) \in Nat /\ MaxMaterials \in Nat \ {0} BY FS_CardinalityType, MaterialFilesAssumption
  <2> QED BY <2>1, <2>2, <2>3 DEF LimitSound
<1>8. \A k \in Keys : RequestsOn(k) = {} /\ RowsOn(k) = {}
  BY <1>2, <1>3, IdleIs DEF RequestsOn, RowsOn, Stored, NoRow
<1>9. \A k \in Keys : KeyFits(k) BY <1>8 DEF KeyFits
<1> QED BY <1>1, <1>4, <1>5, <1>6, <1>7, <1>9 DEF FilesInv

LEMMA UploadStartKeeps ==
  ASSUME KeysApart, FilesInv, NEW q \in Requests, NEW m \in Materials, NEW n \in Names, NEW f \in Files,
         UploadStart(q, m, n, f)
  PROVE  FilesInv'
<1>0. FilesTyped BY DEF FilesInv
<1>1. PICK x : x = [step |-> "put", m |-> m, name |-> n, file |-> f, keyed |-> FALSE] OBVIOUS
<1>2. /\ x \in FileRequests /\ x.step = "put" /\ x.m = m /\ x.name = n /\ x.file = f
      /\ n # Nobody
  BY <1>1, MaterialFilesAssumption DEF FileRequests, TakenSteps
<1>3. /\ request[q] = Idle /\ row[m].state = "absent" /\ ~Taken(m) /\ BelowLimit
      /\ \A l \in Live : row[l].name # n
      /\ request' = [request EXCEPT ![q] = x] /\ NoteOverlap(KeyOf[n])
      /\ UNCHANGED <<row, object, artifact, video, mishaps>>
  BY <1>1 DEF UploadStart
<1>4. RequestTurns(q, x) BY <1>0, <1>2, <1>3, RequestTurning
<1>5. RequestSound(x)' BY <1>2, <1>3 DEF RequestSound
<1>6. FilesTyped' BY <1>0, <1>3, <1>4 DEF FilesTyped, RequestTurns
<1>7. RequestsSound' BY <1>3, <1>4, <1>5, OthersStaySound, SameRowsServe
<1>8. RowsApart' BY <1>2, <1>3, <1>4, StayApart
<1>9. RowsSound' BY <1>3 DEF FilesInv, RowsSound, Stored
<1>10. LimitSound'
  <2>1. Live' = Live BY <1>3 DEF Live
  <2> QED BY <1>3, <2>1, BegunKeeps DEF FilesInv
<1>11. muddled \subseteq muddled' BY <1>3 DEF NoteOverlap
<1>12. q \in RequestsOn(KeyOf[n])' /\ \A k \in Keys : q \notin RequestsOn(k)
  BY <1>2, <1>3, <1>4, IdleIs DEF RequestsOn, RequestTurns
<1>13. ASSUME NEW k \in Keys PROVE KeyFits(k)'
  <2>1. CASE k # KeyOf[n]
    <3>1. q \notin RequestsOn(k)' BY <1>2, <1>4, <2>1 DEF RequestsOn, RequestTurns
    <3> QED BY <1>3, <1>4, <1>11, <1>12, <3>1, OtherKey DEF RequestTurns
  <2>2. CASE k = KeyOf[n]
    <3> SUFFICES ASSUME k \notin muddled' PROVE KeyFits(k)' BY DEF KeyFits
    <3>1. ~Busy(k) /\ k \notin muddled BY <1>3, <2>2 DEF NoteOverlap
    <3>2. RequestsOn(k) = {} BY <3>1 DEF Busy, RequestsOn
    <3>3. RequestsOn(k)' = {q} BY <1>4, <1>12, <2>2, <3>2 DEF RequestsOn, RequestTurns
    <3>4. RowsOn(k)' = RowsOn(k) BY <1>3 DEF RowsOn, Stored, Key
    <3>5. \A l \in RowsOn(k) : row[l].state # "live" /\ video[l] = "none"
      <4> SUFFICES ASSUME NEW l \in RowsOn(k) PROVE row[l].state # "live" /\ video[l] = "none" OBVIOUS
      <4>1. l \in Materials /\ row[l].name # Nobody /\ KeyOf[row[l].name] = k BY DEF RowsOn, Stored, Key
      <4>2. row[l] \in FileRows BY <1>0, <4>1 DEF FilesTyped
      <4>3. row[l].name = n BY <2>2, <4>1, <4>2 DEF KeysApart, FileRows
      <4>4. row[l].state # "live" BY <1>3, <4>1, <4>3 DEF Live
      <4>5. row[l].state = "absent" => row[l].name = Nobody BY <4>1 DEF FilesInv, RowsSound
      <4>6. row[l].state = "deleted" BY <4>1, <4>2, <4>4, <4>5 DEF FileRows
      <4>7. RowFits(l, k) BY <3>1 DEF FilesInv, KeyFits
      <4> QED BY <4>4, <4>6, <4>7 DEF RowFits
    <3>6. RequestFits(q, k)' BY <1>2, <1>3, <1>4, <3>4, <3>5 DEF RequestFits, RequestTurns
    <3>7. \A l \in RowsOn(k) : RowFits(l, k)' BY <1>3, <3>5 DEF RowFits
    <3> QED BY <3>3, <3>4, <3>6, <3>7 DEF KeyFits
  <2> QED BY <2>1, <2>2
<1> QED BY <1>6, <1>7, <1>8, <1>9, <1>10, <1>13 DEF FilesInv

LEMMA UploadPutKeeps == ASSUME FilesInv, NEW q \in Requests, UploadPut(q) PROVE FilesInv'
<1>0. FilesTyped BY DEF FilesInv
<1>1. PICK n, m : n = request[q].name /\ m = request[q].m OBVIOUS
<1>2. request[q].step = "put" BY DEF UploadPut
<1>3. n \in Names /\ n # Nobody /\ m \in Materials /\ request[q].file \in Files /\ row[m].state = "absent"
  BY <1>1, <1>2, MaterialFilesAssumption DEF FilesInv, RequestsSound, RequestSound
<1>4. UNCHANGED <<row, video, muddled>> BY DEF UploadPut
<1>5. KeyOf[n] \in Keys BY <1>3, KeysAre
<1>6. PICK x \in FileRequests :
        /\ RequestTurns(q, x) /\ RequestSound(x)'
        /\ \/ x.step = "create" /\ x.m = m /\ x.name = n /\ object' = [object EXCEPT ![KeyOf[n]] = m]
           \/ x.step = "idle" /\ x.name = Nobody /\ x.m = Nobody /\ object' = object
  <2>1. CASE To(q, "create") /\ object' = [object EXCEPT ![KeyOf[n]] = m]
    <3>1. "create" \in TakenSteps BY DEF TakenSteps
    <3>2. PICK x \in FileRequests : /\ RequestTurns(q, x) /\ x.step = "create" /\ x.m = m /\ x.name = n
                                    /\ x.file = request[q].file
      BY <1>0, <1>1, <2>1, <3>1, ToIs
    <3>3. RequestSound(x)' BY <1>3, <1>4, <3>2 DEF RequestSound
    <3> QED BY <2>1, <3>2, <3>3
  <2>2. CASE Done(q) /\ object' = object
    <3>1. RequestSound(Idle)' BY IdleIs DEF RequestSound
    <3> QED BY <1>0, <2>2, <3>1, IdleIs, DoneIs
  <2> QED BY <1>1, <2>1, <2>2 DEF UploadPut
<1>7. object' \in [Keys -> Materials \union {Nobody}] /\ \A k \in Keys : k # KeyOf[n] => object'[k] = object[k]
  BY <1>0, <1>3, <1>6 DEF FilesTyped
<1>8. ASSUME NEW k \in Keys PROVE KeyFits(k)'
  <2>1. CASE k # KeyOf[n]
    <3>1. q \notin RequestsOn(k) BY <1>1, <2>1 DEF RequestsOn
    <3>2. q \notin RequestsOn(k)' BY <1>6, <2>1 DEF RequestsOn, RequestTurns
    <3>3. \A p \in Requests \ {q} : request'[p] = request[p] BY <1>6 DEF RequestTurns
    <3> QED BY <1>4, <1>7, <2>1, <3>1, <3>2, <3>3, OtherKey
  <2>2. CASE k = KeyOf[n]
    <3> SUFFICES ASSUME k \notin muddled' PROVE KeyFits(k)' BY DEF KeyFits
    <3>0. q \in RequestsOn(k) BY <1>1, <1>3, <2>2 DEF RequestsOn
    <3>1. /\ RequestFits(q, k)
          /\ x.name = n => RequestsOn(k)' = {q}
          /\ x.name = Nobody => RequestsOn(k)' = {}
      BY <1>1, <1>4, <1>6, <3>0, OwnKey
    <3>2. \A l \in RowsOn(k) : row[l].state # "live" /\ video[l] = "none" BY <1>2, <3>1 DEF RequestFits
    <3>3. RowsOn(k)' = RowsOn(k) BY <1>4 DEF RowsOn, Stored, Key
    <3>4. \A l \in RowsOn(k) : RowFits(l, k)' BY <1>4, <3>2 DEF RowFits
    <3>5. CASE x.step = "create" /\ x.m = m /\ x.name = n /\ object' = [object EXCEPT ![KeyOf[n]] = m]
      <4>1. object'[k] = m BY <1>0, <1>3, <2>2, <3>5 DEF FilesTyped
      <4>2. RequestFits(q, k)' BY <1>4, <1>6, <3>2, <3>3, <3>5, <4>1 DEF RequestFits, RequestTurns
      <4> QED BY <3>1, <3>3, <3>4, <3>5, <4>2 DEF KeyFits
    <3>6. CASE x.name = Nobody BY <3>1, <3>3, <3>4, <3>6 DEF KeyFits
    <3> QED BY <1>6, <3>5, <3>6
  <2> QED BY <2>1, <2>2
<1>9. /\ x.step \in {"put", "create", "follow", "paste"} => Brings(q) /\ x.m = request[q].m
      /\ x.step \in {"put", "create", "paste"} => request[q].step \in {"put", "create", "paste"}
  BY <1>1, <1>2, <1>6 DEF Brings
<1>10. video' \in [Materials -> {"none", "bare", "linked"}] /\ \A l \in Materials : video'[l] \in {video[l], "none"}
  BY <1>0, <1>4 DEF FilesTyped
<1> QED BY <1>4, <1>6, <1>7, <1>8, <1>9, <1>10, RequestKeeps

LEMMA UploadCreateKeeps == ASSUME FilesInv, NEW q \in Requests, UploadCreate(q) PROVE FilesInv'
<1>0. FilesTyped BY DEF FilesInv
<1>1. PICK n, m, f : n = request[q].name /\ m = request[q].m /\ f = request[q].file OBVIOUS
<1>2. request[q].step = "create" BY DEF UploadCreate
<1>3. n \in Names /\ n # Nobody /\ m \in Materials /\ f \in Files /\ row[m].state = "absent"
  BY <1>1, <1>2, MaterialFilesAssumption DEF FilesInv, RequestsSound, RequestSound
<1>4. UNCHANGED <<artifact, video>> BY DEF UploadCreate
<1>5. KeyOf[n] \in Keys BY <1>3, KeysAre
<1>6. row[m].name = Nobody /\ video[m] = "none" BY <1>3 DEF FilesInv, RowsSound
<1>7. CASE Mishap /\ object' = [object EXCEPT ![KeyOf[n]] = Nobody] /\ Muddle(KeyOf[n]) /\ Done(q) /\ row' = row
  <2>1. RequestTurns(q, Idle) /\ RequestSound(Idle)' BY <1>0, <1>7, IdleIs, DoneIs DEF RequestSound
  <2>2. object' \in [Keys -> Materials \union {Nobody}] /\ \A k \in Keys : k # KeyOf[n] => object'[k] = object[k]
    BY <1>0, <1>7 DEF FilesTyped
  <2>3. muddled \subseteq muddled' /\ KeyOf[n] \in muddled' BY <1>7 DEF Muddle
  <2>4. ASSUME NEW k \in Keys PROVE KeyFits(k)'
    <3>1. CASE k = KeyOf[n] BY <2>3, <3>1 DEF KeyFits
    <3>2. CASE k # KeyOf[n]
      <4>1. q \notin RequestsOn(k) /\ q \notin RequestsOn(k)'
        BY <1>1, <2>1, <3>2, IdleIs DEF RequestsOn, RequestTurns
      <4>2. \A p \in Requests \ {q} : request'[p] = request[p] BY <2>1 DEF RequestTurns
      <4> QED BY <1>4, <1>7, <2>2, <2>3, <3>2, <4>1, <4>2, OtherKey
    <3> QED BY <3>1, <3>2
  <2>5. video' \in [Materials -> {"none", "bare", "linked"}] /\ \A l \in Materials : video'[l] \in {video[l], "none"}
    BY <1>0, <1>4 DEF FilesTyped
  <2> QED BY <1>7, <2>1, <2>2, <2>4, <2>5, IdleIs, RequestKeeps
<1>8. CASE /\ row' = [row EXCEPT ![m] = [state |-> "live", name |-> n, text |-> TextStatus(f), job |-> FALSE]]
           /\ To(q, "follow") /\ UNCHANGED <<object, mishaps, muddled>>
  <2>0. "follow" \in TakenSteps BY DEF TakenSteps
  <2>1. PICK x \in FileRequests : /\ RequestTurns(q, x) /\ x.step = "follow" /\ x.m = m /\ x.name = n
                                  /\ x.file = f
    BY <1>0, <1>1, <1>8, <2>0, ToIs
  <2>2. PICK w : w = [state |-> "live", name |-> n, text |-> TextStatus(f), job |-> FALSE] OBVIOUS
  <2>3. w \in FileRows /\ w.state = "live" /\ w.name = n /\ w.text = TextStatus(f) /\ w.job = FALSE
    BY <1>3, <2>2, TextStatusIs DEF FileRows
  <2>4. row' \in [Materials -> FileRows] /\ row'[m] = w /\ \A l \in Materials \ {m} : row'[l] = row[l]
    BY <1>0, <1>3, <1>8, <2>2, <2>3 DEF FilesTyped
  <2>5. FilesTyped' BY <1>0, <1>4, <1>8, <2>1, <2>4 DEF FilesTyped, RequestTurns
  <2>6. RequestsSound'
    <3>1. RequestSound(x)' BY <1>3, <2>1, <2>3, <2>4 DEF RequestSound
    <3>2. ASSUME NEW p \in Requests \ {q}, request[p].step # "idle" PROVE RowServes(p)
      <4>1. RequestSound(request[p]) /\ request[p] \in FileRequests BY <1>0 DEF FilesInv, RequestsSound, FilesTyped
      <4>2. request[p].m \in Materials BY <3>2, <4>1 DEF RequestSound, FileRequests, TakenSteps
      <4>3. request[p].m # m
        <5> SUFFICES ASSUME request[p].m = m PROVE FALSE OBVIOUS
        <5>1. Brings(p) BY <1>3, <3>2, <4>1 DEF RequestSound, FileRequests, TakenSteps, Brings
        <5>2. Brings(q) BY <1>2 DEF Brings
        <5> QED BY <1>1, <5>1, <5>2 DEF FilesInv, RowsApart
      <4> QED BY <2>4, <4>2, <4>3 DEF RowServes
    <3> QED BY <2>1, <3>1, <3>2, OthersStaySound
  <2>7. RowsApart' BY <1>1, <1>2, <2>1, StayApart DEF Brings
  <2>8. RowsSound'
    <3> SUFFICES ASSUME NEW l \in Materials
        PROVE /\ row'[l].state = "absent" => ~row'[l].job /\ video'[l] = "none" /\ row'[l].name = Nobody
              /\ video'[l] # "none" => row'[l].name # Nobody
        BY DEF RowsSound, Stored
    <3>1. CASE l = m BY <1>3, <2>3, <2>4, <3>1
    <3>2. CASE l # m BY <1>4, <2>4, <3>2 DEF FilesInv, RowsSound, Stored
    <3> QED BY <3>1, <3>2
  <2>9. LimitSound'
    <3>1. Live' = Live \cup {m} BY <1>3, <2>3, <2>4 DEF Live
    <3>2. q \in Adding /\ Adding' = Adding \ {q} BY <1>2, <2>1 DEF Adding, RequestTurns
    <3> QED BY <3>1, <3>2, MadeKeeps DEF FilesInv
  <2>10. ASSUME NEW k \in Keys PROVE KeyFits(k)'
    <3>1. CASE k # KeyOf[n]
      <4>1. q \notin RequestsOn(k) /\ q \notin RequestsOn(k)'
        BY <1>1, <2>1, <3>1 DEF RequestsOn, RequestTurns
      <4>2. \A p \in Requests \ {q} : request'[p] = request[p] BY <2>1 DEF RequestTurns
      <4>3. m \notin RowsOn(k) /\ m \notin RowsOn(k)' BY <1>6, <2>3, <2>4, <3>1 DEF RowsOn, Stored, Key
      <4> QED BY <1>4, <1>8, <2>4, <4>1, <4>2, <4>3, OtherKey
    <3>2. CASE k = KeyOf[n]
      <4> SUFFICES ASSUME k \notin muddled' PROVE KeyFits(k)' BY DEF KeyFits
      <4>0. q \in RequestsOn(k) BY <1>1, <1>3, <3>2 DEF RequestsOn
      <4>1. RequestFits(q, k) /\ RequestsOn(k)' = {q} BY <1>1, <1>8, <2>1, <4>0, OwnKey
      <4>2. /\ object[k] = m
            /\ \A l \in RowsOn(k) : row[l].state # "live" /\ video[l] = "none"
        BY <1>1, <1>2, <4>1 DEF RequestFits
      <4>3. RequestFits(q, k)' BY <1>8, <2>1, <2>3, <2>4, <4>2 DEF RequestFits, RequestTurns
      <4>4. ASSUME NEW l \in RowsOn(k)' PROVE RowFits(l, k)'
        <5>1. CASE l = m
          <6>1. request'[q].step = "follow" /\ request'[q].m = m BY <2>1 DEF RequestTurns
          <6> QED BY <1>8, <2>3, <2>4, <4>1, <4>2, <5>1, <6>1 DEF RowFits
        <5>2. CASE l # m
          <6>1. l \in RowsOn(k) /\ row'[l] = row[l] BY <2>4, <5>2 DEF RowsOn, Stored, Key
          <6> QED BY <1>4, <4>2, <6>1 DEF RowFits
        <5> QED BY <5>1, <5>2
      <4> QED BY <4>1, <4>3, <4>4 DEF KeyFits
    <3> QED BY <3>1, <3>2
  <2> QED BY <2>5, <2>6, <2>7, <2>8, <2>9, <2>10 DEF FilesInv
<1> QED BY <1>1, <1>7, <1>8 DEF UploadCreate

LEMMA UploadFollowKeeps == ASSUME FilesInv, NEW q \in Requests, UploadFollow(q) PROVE FilesInv'
<1>0. FilesTyped BY DEF FilesInv
<1>1. PICK n, m, f : n = request[q].name /\ m = request[q].m /\ f = request[q].file OBVIOUS
<1>2. request[q].step = "follow" BY DEF UploadFollow
<1>3. /\ n \in Names /\ n # Nobody /\ m \in Materials /\ f \in Files /\ f \in FileKinds
      /\ row[m].state # "absent" /\ row[m].name = n /\ row[m].text = TextStatus(f) /\ ~row[m].job
  BY <1>1, <1>2, MaterialFilesAssumption DEF FilesInv, RequestsSound, RequestSound
<1>4. UNCHANGED object /\ RequestTurns(q, Idle) BY <1>0, DoneIs DEF UploadFollow
<1>5. RequestSound(Idle)' BY IdleIs DEF RequestSound
<1>6. muddled \subseteq muddled' BY DEF UploadFollow, Muddle
<1>7. ASSUME NEW k \in Keys PROVE k # KeyOf[n] => q \notin RequestsOn(k) /\ q \notin RequestsOn(k)'
  BY <1>1, <1>4, IdleIs DEF RequestsOn, RequestTurns
<1>8. CASE Muddle(KeyOf[n]) /\ UNCHANGED <<row, artifact, video>>
  <2>1. ASSUME NEW k \in Keys PROVE KeyFits(k)'
    <3>1. CASE k = KeyOf[n] BY <1>8, <3>1 DEF KeyFits, Muddle
    <3>2. CASE k # KeyOf[n]
      <4>1. \A p \in Requests \ {q} : request'[p] = request[p] BY <1>4 DEF RequestTurns
      <4> QED BY <1>4, <1>6, <1>7, <1>8, <3>2, <4>1, OtherKey
    <3> QED BY <3>1, <3>2
  <2> QED BY <1>0, <1>4, <1>5, <1>8, <2>1, IdleIs, RequestKeeps DEF FilesTyped
<1>9. CASE /\ row' = [row EXCEPT ![m].job = NeedsExtraction(f)]
           /\ video' = [video EXCEPT ![m] = IF ~IsVideo(f) THEN "none"
                                            ELSE IF KeyOf[n] \in artifact THEN "bare" ELSE "linked"]
           /\ UNCHANGED <<mishaps, muddled>>
  <2>1. row[m] \in FileRows /\ NeedsExtraction(f) \in BOOLEAN BY <1>0, <1>3 DEF FilesTyped, NeedsExtraction
  <2>2. PICK w : w = [row[m] EXCEPT !.job = NeedsExtraction(f)] OBVIOUS
  <2>3. /\ w \in FileRows /\ w.state = row[m].state /\ w.name = n /\ w.text = TextStatus(f)
        /\ w.job = NeedsExtraction(f)
    BY <1>3, <2>1, <2>2 DEF FileRows
  <2>4. row' \in [Materials -> FileRows] /\ row'[m] = w /\ \A l \in Materials \ {m} : row'[l] = row[l]
    BY <1>0, <1>3, <1>9, <2>2, <2>3 DEF FilesTyped
  <2>5. video' \in [Materials -> {"none", "bare", "linked"}] /\ \A l \in Materials \ {m} : video'[l] = video[l]
    BY <1>0, <1>3, <1>9 DEF FilesTyped
  <2>6. FilesTyped' BY <1>0, <1>4, <2>4, <2>5 DEF FilesTyped, RequestTurns
  <2>7. RequestsSound'
    <3>1. ASSUME NEW p \in Requests \ {q}, request[p].step # "idle" PROVE RowServes(p)
      <4>1. RequestSound(request[p]) /\ request[p] \in FileRequests BY <1>0 DEF FilesInv, RequestsSound, FilesTyped
      <4>2. request[p].m \in Materials BY <3>1, <4>1 DEF RequestSound, FileRequests, TakenSteps
      <4>3. CASE request[p].m # m BY <2>4, <4>2, <4>3 DEF RowServes
      <4>4. CASE request[p].m = m
        <5>1. ~Brings(p) BY <1>1, <1>2, <4>4 DEF FilesInv, RowsApart, Brings
        <5> QED BY <1>3, <2>3, <2>4, <4>4, <5>1 DEF RowServes, Brings
      <4> QED BY <4>3, <4>4
    <3> QED BY <1>4, <1>5, <3>1, OthersStaySound
  <2>8. RowsApart' BY <1>4, IdleIs, StayApart
  <2>9. RowsSound'
    <3> SUFFICES ASSUME NEW l \in Materials
        PROVE /\ row'[l].state = "absent" => ~row'[l].job /\ video'[l] = "none" /\ row'[l].name = Nobody
              /\ video'[l] # "none" => row'[l].name # Nobody
        BY DEF RowsSound, Stored
    <3>1. CASE l = m BY <1>3, <2>3, <2>4, <3>1
    <3>2. CASE l # m BY <2>4, <2>5, <3>2 DEF FilesInv, RowsSound, Stored
    <3> QED BY <3>1, <3>2
  <2>10. LimitSound'
    <3>1. Live' = Live BY <1>3, <2>3, <2>4 DEF Live
    <3>2. Adding' \subseteq Adding BY <1>4, IdleIs, FewerAdding
    <3> QED BY <3>1, <3>2, FewerKeep DEF FilesInv
  <2>11. ASSUME NEW k \in Keys PROVE KeyFits(k)'
    <3>1. CASE k # KeyOf[n]
      <4>1. \A p \in Requests \ {q} : request'[p] = request[p] BY <1>4 DEF RequestTurns
      <4>2. m \notin RowsOn(k) /\ m \notin RowsOn(k)' BY <1>3, <2>3, <2>4, <3>1 DEF RowsOn, Stored, Key
      <4> QED BY <1>4, <1>6, <1>7, <2>4, <2>5, <3>1, <4>1, <4>2, OtherKey
    <3>2. CASE k = KeyOf[n]
      <4> SUFFICES ASSUME k \notin muddled' PROVE KeyFits(k)' BY DEF KeyFits
      <4>0. q \in RequestsOn(k) BY <1>1, <1>3, <3>2 DEF RequestsOn
      <4>1. /\ RequestFits(q, k) /\ RequestsOn(k) = {q} /\ RequestsOn(k)' = {}
            /\ \A l \in RowsOn(k) : RowFits(l, k)
        BY <1>4, <1>6, <4>0, IdleIs, OwnKey
      <4>2. object[k] = m /\ row[m].state = "live" BY <1>1, <1>2, <4>1 DEF RequestFits
      <4>3. RowsOn(k)' = RowsOn(k) BY <1>3, <2>3, <2>4 DEF RowsOn, Stored, Key
      <4>4. ASSUME NEW l \in RowsOn(k) PROVE RowFits(l, k)'
        <5>1. CASE l = m
          <6>1. TextStatus(f) = "pending" => NeedsExtraction(f) BY <1>3, PendingIsDeferred
          <6> QED BY <1>4, <2>3, <2>4, <4>2, <5>1, <6>1 DEF RowFits
        <5>2. CASE l # m
          <6>1. l \in Materials /\ row'[l] = row[l] /\ video'[l] = video[l] BY <2>4, <2>5, <5>2 DEF RowsOn
          <6>2. row[l].state # "live" /\ video[l] = "none" BY <1>2, <4>1, <4>2, <5>2 DEF RowFits
          <6> QED BY <6>1, <6>2 DEF RowFits
        <5> QED BY <5>1, <5>2
      <4> QED BY <4>1, <4>3, <4>4 DEF KeyFits
    <3> QED BY <3>1, <3>2
  <2> QED BY <2>6, <2>7, <2>8, <2>9, <2>10, <2>11 DEF FilesInv
<1> QED BY <1>1, <1>8, <1>9 DEF UploadFollow

\* A paste has no name: it touches no key.
LEMMA NamelessTouchesNone ==
  ASSUME FilesInv, NEW q \in Requests, NEW x, RequestTurns(q, x), request[q].name = Nobody, x.name = Nobody,
         UNCHANGED <<object, video>>, muddled \subseteq muddled',
         \A l \in Materials : row'[l] = row[l] \/ (row[l].name = Nobody /\ row'[l].name = Nobody)
  PROVE  \A k \in Keys : KeyFits(k)'
<1> SUFFICES ASSUME NEW k \in Keys PROVE KeyFits(k)' OBVIOUS
<1>1. q \notin RequestsOn(k) /\ q \notin RequestsOn(k)' BY DEF RequestsOn, RequestTurns
<1>2. \A l \in Materials : row'[l] = row[l] \/ (l \notin RowsOn(k) /\ l \notin RowsOn(k)')
  BY DEF RowsOn, Stored
<1>3. \A p \in Requests \ {q} : request'[p] = request[p] BY DEF RequestTurns
<1> QED BY <1>1, <1>2, <1>3, OtherKey

LEMMA PasteStartKeeps ==
  ASSUME FilesInv, NEW q \in Requests, NEW m \in Materials, PasteStart(q, m) PROVE FilesInv'
<1>0. FilesTyped BY DEF FilesInv
<1>1. PICK x : x = [Idle EXCEPT !.step = "paste", !.m = m] OBVIOUS
<1>2. x \in FileRequests /\ x.step = "paste" /\ x.m = m /\ x.name = Nobody
  BY <1>1, IdleIs DEF Idle, FileRequests, TakenSteps
<1>3. /\ request[q] = Idle /\ row[m].state = "absent" /\ ~Taken(m) /\ BelowLimit
      /\ request' = [request EXCEPT ![q] = x]
      /\ UNCHANGED <<row, object, artifact, video, mishaps, muddled>>
  BY <1>1, Zenon DEF PasteStart
<1>4. RequestTurns(q, x) BY <1>0, <1>2, <1>3, RequestTurning
<1>5. RequestSound(x)' BY <1>2, <1>3 DEF RequestSound
<1>6. FilesTyped' BY <1>0, <1>3, <1>4 DEF FilesTyped, RequestTurns
<1>7. RequestsSound' BY <1>3, <1>4, <1>5, OthersStaySound, SameRowsServe
<1>8. RowsApart' BY <1>2, <1>3, <1>4, StayApart
<1>9. RowsSound' BY <1>3 DEF FilesInv, RowsSound, Stored
<1>10. LimitSound'
  <2>1. Live' = Live BY <1>3 DEF Live
  <2> QED BY <1>3, <2>1, BegunKeeps DEF FilesInv
<1>11. \A k \in Keys : KeyFits(k)'
  <2>1. UNCHANGED <<object, video>> /\ muddled \subseteq muddled' /\ UNCHANGED row BY <1>3
  <2>2. request[q].name = Nobody BY <1>3, IdleIs
  <2> QED BY <1>2, <1>4, <2>1, <2>2, NamelessTouchesNone
<1> QED BY <1>6, <1>7, <1>8, <1>9, <1>10, <1>11 DEF FilesInv

LEMMA PasteCreateKeeps == ASSUME FilesInv, NEW q \in Requests, PasteCreate(q) PROVE FilesInv'
<1>0. FilesTyped BY DEF FilesInv
<1>1. PICK m : m = request[q].m OBVIOUS
<1>2. request[q].step = "paste" BY DEF PasteCreate
<1>3. m \in Materials /\ request[q].name = Nobody /\ row[m].state = "absent"
  BY <1>1, <1>2 DEF FilesInv, RequestsSound, RequestSound
<1>4. RequestTurns(q, Idle) /\ UNCHANGED <<object, artifact, video, mishaps, muddled>>
  BY <1>0, DoneIs DEF PasteCreate
<1>5. PICK w : w = [NoRow EXCEPT !.state = "live", !.text = "ready"] OBVIOUS
<1>6. w \in FileRows /\ w.state = "live" /\ w.name = Nobody /\ w.text = "ready" /\ w.job = FALSE
  BY <1>5 DEF NoRow, FileRows
<1>7. row' \in [Materials -> FileRows] /\ row'[m] = w /\ \A l \in Materials \ {m} : row'[l] = row[l]
  <2>1. row' = [row EXCEPT ![m] = w] BY <1>1, <1>5, Zenon DEF PasteCreate
  <2> QED BY <1>0, <1>3, <1>6, <2>1 DEF FilesTyped
<1>8. row[m].name = Nobody /\ video[m] = "none" BY <1>3 DEF FilesInv, RowsSound
<1>9. FilesTyped' BY <1>0, <1>4, <1>7 DEF FilesTyped, RequestTurns
<1>10. RequestsSound'
  <2>1. RequestSound(Idle)' BY IdleIs DEF RequestSound
  <2>2. ASSUME NEW p \in Requests \ {q}, request[p].step # "idle" PROVE RowServes(p)
    <3>1. RequestSound(request[p]) /\ request[p] \in FileRequests BY <1>0 DEF FilesInv, RequestsSound, FilesTyped
    <3>2. request[p].m \in Materials BY <2>2, <3>1 DEF RequestSound, FileRequests, TakenSteps
    <3>3. request[p].m # m
      <4> SUFFICES ASSUME request[p].m = m PROVE FALSE OBVIOUS
      <4>1. Brings(p) BY <1>3, <2>2, <3>1 DEF RequestSound, FileRequests, TakenSteps, Brings
      <4> QED BY <1>1, <1>2, <4>1 DEF FilesInv, RowsApart, Brings
    <3> QED BY <1>7, <3>2, <3>3 DEF RowServes
  <2> QED BY <1>4, <2>1, <2>2, OthersStaySound
<1>11. RowsApart' BY <1>4, IdleIs, StayApart
<1>12. RowsSound'
  <2> SUFFICES ASSUME NEW l \in Materials
      PROVE /\ row'[l].state = "absent" => ~row'[l].job /\ video'[l] = "none" /\ row'[l].name = Nobody
            /\ video'[l] # "none" => row'[l].name # Nobody
      BY DEF RowsSound, Stored
  <2>1. CASE l = m BY <1>4, <1>6, <1>7, <1>8, <2>1
  <2>2. CASE l # m BY <1>4, <1>7, <2>2 DEF FilesInv, RowsSound, Stored
  <2> QED BY <2>1, <2>2
<1>13. LimitSound'
  <2>1. Live' = Live \cup {m} BY <1>3, <1>6, <1>7 DEF Live
  <2>2. q \in Adding /\ Adding' = Adding \ {q} BY <1>2, <1>4, IdleIs DEF Adding, RequestTurns
  <2> QED BY <2>1, <2>2, MadeKeeps DEF FilesInv
<1>14. \A k \in Keys : KeyFits(k)'
  <2>1. UNCHANGED <<object, video>> /\ muddled \subseteq muddled' BY <1>4
  <2>2. \A l \in Materials : row'[l] = row[l] \/ (row[l].name = Nobody /\ row'[l].name = Nobody) BY <1>6, <1>7, <1>8
  <2> QED BY <1>3, <1>4, <2>1, <2>2, IdleIs, NamelessTouchesNone
<1> QED BY <1>9, <1>10, <1>11, <1>12, <1>13, <1>14 DEF FilesInv

LEMMA ExtractedKeeps == ASSUME FilesInv, NEW m \in Materials, Extracted(m) PROVE FilesInv'
<1>0. FilesTyped /\ row[m] \in FileRows BY DEF FilesInv, FilesTyped
<1>1. row[m].job /\ UNCHANGED <<object, artifact, video, request, mishaps, muddled>> BY DEF Extracted
<1>2. PICK t \in {"ready", "failed"} : row' = [row EXCEPT ![m].text = t, ![m].job = FALSE] BY DEF Extracted
<1>3. PICK w : w = [row[m] EXCEPT !.text = t, !.job = FALSE] OBVIOUS
<1>4. /\ w \in FileRows /\ w.state = row[m].state /\ w.name = row[m].name /\ w.text = t /\ w.job = FALSE
  BY <1>0, <1>3 DEF FileRows
<1>5. row' \in [Materials -> FileRows] /\ row'[m] = w /\ \A l \in Materials \ {m} : row'[l] = row[l]
  BY <1>0, <1>2, <1>3, <1>4 DEF FilesTyped
<1>6. \A l \in Materials : row'[l].state = row[l].state /\ row'[l].name = row[l].name BY <1>4, <1>5
<1>7. FilesTyped' BY <1>0, <1>1, <1>5 DEF FilesTyped
<1>8. RequestsSound'
  <2> SUFFICES ASSUME NEW p \in Requests PROVE RequestSound(request[p])' BY DEF RequestsSound
  <2>1. RequestSound(request[p]) /\ request[p] \in FileRequests BY <1>0 DEF FilesInv, RequestsSound, FilesTyped
  <2>2. request'[p] = request[p] BY <1>1
  <2>3. CASE request[p].step = "idle" BY <2>1, <2>2, <2>3 DEF RequestSound
  <2>4. CASE request[p].step # "idle"
    <3>1. request[p].m \in Materials BY <2>1, <2>4 DEF RequestSound, FileRequests, TakenSteps
    <3>2. request[p].step = "follow" => request[p].m # m BY <1>1, <2>1 DEF RequestSound
    <3>3. request[p].step = "follow" => row'[request[p].m] = row[request[p].m] BY <1>5, <3>1, <3>2
    <3>4. row'[request'[p].m] = row'[request[p].m] BY <2>2
    <3> QED BY <1>6, <2>1, <2>2, <2>4, <3>1, <3>3, <3>4 DEF RequestSound
  <2> QED BY <2>3, <2>4
<1>9. RowsApart' BY <1>1 DEF FilesInv, RowsApart, Brings
<1>10. RowsSound'
  <2> SUFFICES ASSUME NEW l \in Materials
      PROVE /\ row'[l].state = "absent" => ~row'[l].job /\ video'[l] = "none" /\ row'[l].name = Nobody
            /\ video'[l] # "none" => row'[l].name # Nobody
      BY DEF RowsSound, Stored
  <2>1. row'[l].job => row[l].job BY <1>4, <1>5
  <2> QED BY <1>1, <1>6, <2>1 DEF FilesInv, RowsSound, Stored
<1>11. LimitSound'
  <2>1. Live' = Live BY <1>6 DEF Live
  <2>2. Adding' = Adding BY <1>1 DEF Adding
  <2> QED BY <2>1, <2>2, FewerKeep DEF FilesInv
<1>12. ASSUME NEW k \in Keys PROVE KeyFits(k)'
  <2> SUFFICES ASSUME k \notin muddled' PROVE KeyFits(k)' BY DEF KeyFits
  <2>1. /\ \A p1, p2 \in RequestsOn(k) : p1 = p2
        /\ \A p \in RequestsOn(k) : RequestFits(p, k)
        /\ \A l \in RowsOn(k) : RowFits(l, k)
    BY <1>1 DEF FilesInv, KeyFits
  <2>2. RequestsOn(k)' = RequestsOn(k) /\ RowsOn(k)' = RowsOn(k)
    BY <1>1, <1>6 DEF RequestsOn, RowsOn, Stored, Key
  <2>3. ASSUME NEW p \in RequestsOn(k) PROVE RequestFits(p, k)'
    <3>1. p \in Requests BY DEF RequestsOn
    <3>2. request[p].step = "follow" => request[p].m \in Materials
      BY <3>1 DEF FilesInv, RequestsSound, RequestSound
    <3>3. \A l \in RowsOn(k) : row'[l].state = row[l].state BY <1>6 DEF RowsOn
    <3>4. request[p].step = "follow" => row'[request[p].m].state = row[request[p].m].state BY <1>6, <3>2
    <3> QED BY <1>1, <2>1, <2>2, <3>3, <3>4 DEF RequestFits
  <2>4. ASSUME NEW l \in RowsOn(k) PROVE RowFits(l, k)'
    <3>1. l \in Materials BY DEF RowsOn
    <3>2. row'[l].text = "pending" => row'[l] = row[l] BY <1>2, <1>4, <1>5, <3>1
    <3> QED BY <1>1, <1>6, <2>1, <2>2, <3>1, <3>2 DEF RowFits
  <2> QED BY <2>1, <2>2, <2>3, <2>4 DEF KeyFits
<1> QED BY <1>7, <1>8, <1>9, <1>10, <1>11, <1>12 DEF FilesInv

-----------------------------------------------------------------------------
\* A deletion, in R2: the file, the video source and the row, in that order.
LEMMA DeleteStartKeeps ==
  ASSUME KeysApart, FilesInv, NEW q \in Requests, NEW m \in Materials, DeleteStart(q, m) PROVE FilesInv'
<1>0. FilesTyped /\ row[m] \in FileRows BY DEF FilesInv, FilesTyped
<1>1. PICK x : x = [step |-> "unstore", m |-> m, name |-> row[m].name, file |-> Nobody,
                    keyed |-> Stored(m) /\ (Provider = "local" \/ row[m].state = "live")]
  OBVIOUS
<1>2. /\ x \in FileRequests /\ x.step = "unstore" /\ x.m = m /\ x.name = row[m].name
      /\ x.keyed <=> Stored(m) /\ row[m].state = "live"
  <2>1. Provider # "local" BY DEF KeysApart
  <2>2. Stored(m) \in BOOLEAN BY DEF Stored
  <2> QED BY <1>0, <1>1, <2>1, <2>2 DEF FileRequests, TakenSteps, FileRows
<1>3. /\ request[q] = Idle /\ row[m].state # "absent" /\ request' = [request EXCEPT ![q] = x]
      /\ UNCHANGED <<row, object, artifact, video, mishaps>>
  BY <1>1, Zenon DEF DeleteStart
<1>4. RequestTurns(q, x) BY <1>0, <1>2, <1>3, RequestTurning
<1>5. RequestSound(x)'
  <2>1. row[m].state \in {"absent", "live", "deleted"} BY <1>0 DEF FileRows
  <2> QED BY <1>2, <1>3, <2>1 DEF RequestSound, Stored
<1>6. muddled \subseteq muddled' /\ (Stored(m) /\ Busy(Key(m)) => Key(m) \in muddled')
  BY DEF DeleteStart, NoteOverlap
<1>7. ASSUME NEW k \in Keys PROVE KeyFits(k)'
  <2>0. q \notin RequestsOn(k) BY <1>3, IdleIs DEF RequestsOn
  <2>1. CASE ~(Stored(m) /\ Key(m) = k)
    <3>1. q \notin RequestsOn(k)' BY <1>2, <1>4, <2>1 DEF RequestsOn, RequestTurns, Stored, Key
    <3>2. \A p \in Requests \ {q} : request'[p] = request[p] BY <1>4 DEF RequestTurns
    <3> QED BY <1>3, <1>6, <2>0, <3>1, <3>2, OtherKey
  <2>2. CASE Stored(m) /\ Key(m) = k
    <3> SUFFICES ASSUME k \notin muddled' PROVE KeyFits(k)' BY DEF KeyFits
    <3>1. RequestsOn(k) = {} /\ k \notin muddled BY <1>6, <2>2 DEF RequestsOn, Busy
    <3>2. \A l \in RowsOn(k) : RowFits(l, k) BY <3>1 DEF FilesInv, KeyFits
    <3>3. RequestsOn(k)' = {q} BY <1>2, <1>4, <2>2, <3>1 DEF RequestsOn, RequestTurns, Stored, Key
    <3>4. RowsOn(k)' = RowsOn(k) /\ m \in RowsOn(k) BY <1>3, <2>2 DEF RowsOn, Stored, Key
    <3>5. row[m].state = "live" => object[k] = m BY <3>1, <3>2, <3>4 DEF RowFits
    <3>6. RequestFits(q, k)' BY <1>2, <1>3, <1>4, <3>5 DEF RequestFits, RequestTurns
    <3>7. \A l \in RowsOn(k) : RowFits(l, k)' BY <1>3, <3>1, <3>2 DEF RowFits
    <3> QED BY <3>3, <3>4, <3>6, <3>7 DEF KeyFits
  <2> QED BY <2>1, <2>2
<1>8. /\ object' \in [Keys -> Materials \union {Nobody}] /\ video' \in [Materials -> {"none", "bare", "linked"}]
      /\ \A l \in Materials : video'[l] \in {video[l], "none"} /\ UNCHANGED row
  BY <1>0, <1>3 DEF FilesTyped
<1> QED BY <1>2, <1>3, <1>4, <1>5, <1>7, <1>8, RequestKeeps

\* What a step of a deletion goes on with.
LEMMA DeletionIs ==
  ASSUME FilesInv, NEW q \in Requests, request[q].step \in {"unstore", "unlink", "tombstone"}
  PROVE  /\ request[q].m \in Materials /\ row[request[q].m].state # "absent"
         /\ row[request[q].m].name = request[q].name /\ request[q].keyed \in BOOLEAN
         /\ request[q].name \in Names \/ (request[q].name = Nobody /\ ~request[q].keyed)
         /\ ~request[q].keyed => row[request[q].m].state = "deleted" \/ request[q].name = Nobody
<1>1. RequestSound(request[q]) /\ request[q] \in FileRequests BY DEF FilesInv, RequestsSound, FilesTyped
<1> QED BY <1>1 DEF RequestSound, FileRequests

LEMMA DeletionGoesOn ==
  ASSUME FilesInv, NEW q \in Requests, NEW step \in {"unlink", "tombstone"}, To(q, step), UNCHANGED row,
         request[q].step \in {"unstore", "unlink", "tombstone"}
  PROVE  \E x \in FileRequests : /\ RequestTurns(q, x) /\ RequestSound(x)' /\ x.step = step
                                 /\ x.m = request[q].m /\ x.name = request[q].name
                                 /\ x.keyed = request[q].keyed
<1>1. FilesTyped /\ step \in TakenSteps BY DEF FilesInv, TakenSteps
<1>2. PICK x \in FileRequests : /\ RequestTurns(q, x) /\ x.step = step /\ x.m = request[q].m
                                /\ x.name = request[q].name /\ x.keyed = request[q].keyed
  BY <1>1, ToIs
<1>3. RequestSound(x)' BY <1>2, DeletionIs, MaterialFilesAssumption DEF RequestSound
<1> QED BY <1>2, <1>3

LEMMA DeleteFileKeeps == ASSUME FilesInv, NEW q \in Requests, DeleteFile(q) PROVE FilesInv'
<1>0. FilesTyped BY DEF FilesInv
<1>1. PICK n, m, b : n = request[q].name /\ m = request[q].m /\ b = request[q].keyed OBVIOUS
<1>2. request[q].step = "unstore" /\ UNCHANGED <<row, artifact, video, muddled>> /\ To(q, "unlink")
  BY DEF DeleteFile
<1>3. m \in Materials /\ (n \in Names \/ ~b) /\ b \in BOOLEAN BY <1>1, <1>2, DeletionIs
<1>4. PICK x \in FileRequests : /\ RequestTurns(q, x) /\ RequestSound(x)' /\ x.step = "unlink"
                                /\ x.m = m /\ x.name = n /\ x.keyed = b
  BY <1>1, <1>2, DeletionGoesOn
<1>5. \/ b /\ object' = [object EXCEPT ![KeyOf[n]] = Nobody]
      \/ object' = object
  BY <1>1 DEF DeleteFile
<1>6. /\ object' \in [Keys -> Materials \union {Nobody}]
      /\ \A k \in Keys : object'[k] = object[k] \/ (b /\ k = KeyOf[n] /\ object'[k] = Nobody)
  BY <1>0, <1>5 DEF FilesTyped
<1>7. ASSUME NEW k \in Keys PROVE KeyFits(k)'
  <2>1. CASE q \notin RequestsOn(k)
    <3>1. q \notin RequestsOn(k)' BY <1>1, <1>4, <2>1 DEF RequestsOn, RequestTurns
    <3>2. \A p \in Requests \ {q} : request'[p] = request[p] BY <1>4 DEF RequestTurns
    <3>3. object'[k] = object[k] BY <1>1, <1>3, <1>6, <2>1, MaterialFilesAssumption DEF RequestsOn
    <3> QED BY <1>2, <2>1, <3>1, <3>2, <3>3, OtherKey
  <2>2. CASE q \in RequestsOn(k)
    <3> SUFFICES ASSUME k \notin muddled' PROVE KeyFits(k)' BY DEF KeyFits
    <3>1. /\ RequestsOn(k) = {q} /\ RequestFits(q, k) /\ RequestsOn(k)' = {q}
          /\ \A l \in RowsOn(k) : RowFits(l, k)
      BY <1>1, <1>2, <1>4, <2>2, OwnKey
    <3>2. b => object[k] = m BY <1>1, <1>2, <3>1 DEF RequestFits
    <3>3. RowsOn(k)' = RowsOn(k) BY <1>2 DEF RowsOn, Stored, Key
    <3>4. request'[q] = x BY <1>4 DEF RequestTurns
    <3>5. RequestFits(q, k)' BY <1>2, <1>4, <1>6, <3>2, <3>4 DEF RequestFits
    <3>6. ASSUME NEW l \in RowsOn(k) PROVE RowFits(l, k)'
      <4>1. /\ row[l].state = "live" => object[k] = l
            /\ video[l] # "none" => object[k] = l
            /\ row[l].state = "deleted" => video[l] = "none"
            /\ row[l].state = "live" /\ row[l].text = "pending" => row[l].job
        BY <1>2, <3>1 DEF RowFits
      <4>2. object[k] = l => object'[k] = l \/ (b /\ l = m) BY <1>6, <3>2
      <4> QED BY <1>2, <1>4, <3>1, <3>4, <4>1, <4>2 DEF RowFits
    <3> QED BY <3>1, <3>3, <3>5, <3>6 DEF KeyFits
  <2> QED BY <2>1, <2>2
<1>8. video' \in [Materials -> {"none", "bare", "linked"}] /\ \A l \in Materials : video'[l] \in {video[l], "none"}
  BY <1>0, <1>2 DEF FilesTyped
<1> QED BY <1>2, <1>4, <1>6, <1>7, <1>8, RequestKeeps

LEMMA DeleteSourceKeeps == ASSUME FilesInv, NEW q \in Requests, DeleteVideo(q) PROVE FilesInv'
<1>0. FilesTyped BY DEF FilesInv
<1>1. PICK n, m, b : n = request[q].name /\ m = request[q].m /\ b = request[q].keyed OBVIOUS
<1>2. request[q].step = "unlink" /\ UNCHANGED <<row, object, artifact>> /\ To(q, "tombstone")
  BY DEF DeleteVideo
<1>3. /\ m \in Materials /\ row[m].name = n /\ b \in BOOLEAN
      /\ n \in Names \/ (n = Nobody /\ ~b)
  BY <1>1, <1>2, DeletionIs
<1>4. PICK x \in FileRequests : /\ RequestTurns(q, x) /\ RequestSound(x)' /\ x.step = "tombstone"
                                /\ x.m = m /\ x.name = n /\ x.keyed = b
  BY <1>1, <1>2, DeletionGoesOn
<1>5. PICK of : of = {v \in Materials : video[v] # "none" /\ b /\ Key(v) = KeyOf[n]} OBVIOUS
<1>6. \/ of = {} /\ UNCHANGED <<video, muddled>>
      \/ (\E v \in of : video' = [video EXCEPT ![v] = "none"]) /\ UNCHANGED muddled
      \/ of # {} /\ Muddle(KeyOf[n]) /\ video' = video
  BY <1>1, <1>5 DEF DeleteVideo
<1>7. /\ video' \in [Materials -> {"none", "bare", "linked"}]
      /\ \A l \in Materials : video'[l] \in {video[l], "none"}
      /\ \A l \in Materials : video'[l] = video[l] \/ l \in of
      /\ muddled \subseteq muddled'
  BY <1>0, <1>5, <1>6 DEF FilesTyped, Muddle
<1>8. \A v \in of : v \in RowsOn(KeyOf[n]) /\ b BY <1>5 DEF FilesInv, RowsSound, RowsOn
<1>9. ASSUME NEW k \in Keys PROVE KeyFits(k)'
  <2>1. CASE q \notin RequestsOn(k)
    <3>1. q \notin RequestsOn(k)' BY <1>1, <1>4, <2>1 DEF RequestsOn, RequestTurns
    <3>2. \A p \in Requests \ {q} : request'[p] = request[p] BY <1>4 DEF RequestTurns
    <3>3. ASSUME NEW l \in of PROVE l \notin RowsOn(k) /\ l \notin RowsOn(k)'
      <4>1. KeyOf[n] # k BY <1>1, <1>3, <1>8, <2>1, <3>3, MaterialFilesAssumption DEF RequestsOn
      <4> QED BY <1>2, <1>5, <4>1 DEF RowsOn, Stored, Key
    <3> QED BY <1>2, <1>7, <2>1, <3>1, <3>2, <3>3, OtherKey
  <2>2. CASE q \in RequestsOn(k)
    <3> SUFFICES ASSUME k \notin muddled' PROVE KeyFits(k)' BY DEF KeyFits
    <3>0. n # Nobody /\ KeyOf[n] = k BY <1>1, <2>2 DEF RequestsOn
    <3>1. /\ RequestsOn(k) = {q} /\ RequestFits(q, k) /\ RequestsOn(k)' = {q}
          /\ \A l \in RowsOn(k) : RowFits(l, k)
      BY <1>1, <1>4, <1>7, <2>2, OwnKey
    <3>2. b => object[k] \in {m, Nobody} BY <1>1, <1>2, <3>1 DEF RequestFits
    <3>3. RowsOn(k)' = RowsOn(k) /\ m \in RowsOn(k) BY <1>2, <1>3, <3>0 DEF RowsOn, Stored, Key
    <3>4. request'[q] = x BY <1>4 DEF RequestTurns
    <3>5. \A l \in RowsOn(k) :
            /\ row[l].state = "live" => object[k] = l \/ (b /\ l = m)
            /\ video[l] # "none" => object[k] = l \/ (b /\ l = m)
            /\ row[l].state = "deleted" => video[l] = "none"
            /\ row[l].state = "live" /\ row[l].text = "pending" => row[l].job
      BY <1>1, <1>2, <3>1 DEF RowFits
    <3>6. of \subseteq {m}
      <4> SUFFICES ASSUME NEW v \in of PROVE v = m OBVIOUS
      <4>1. v \in RowsOn(k) /\ b /\ v \in Materials /\ video[v] # "none" BY <1>5, <1>8, <3>0
      <4> QED BY <3>2, <3>5, <4>1, MaterialFilesAssumption
    <3>7. ~(of # {} /\ Muddle(KeyOf[n]) /\ video' = video) BY <3>0 DEF Muddle
    <3>8. b => video'[m] = "none"
      <4> SUFFICES ASSUME b PROVE video'[m] = "none" OBVIOUS
      <4>1. CASE of = {} /\ UNCHANGED <<video, muddled>>
        BY <1>3, <1>5, <3>0, <4>1 DEF Key
      <4>2. CASE \E v \in of : video' = [video EXCEPT ![v] = "none"]
        BY <1>0, <1>3, <3>6, <4>2 DEF FilesTyped
      <4> QED BY <1>6, <3>7, <4>1, <4>2
    <3>9. RequestFits(q, k)' BY <1>4, <3>4, <3>8 DEF RequestFits
    <3>10. ASSUME NEW l \in RowsOn(k) PROVE RowFits(l, k)'
      <4>1. l \in Materials BY DEF RowsOn
      <4>2. video'[l] # "none" => object[k] = l BY <1>7, <3>5, <3>8, <4>1
      <4>3. row[l].state = "deleted" => video'[l] = "none" BY <1>7, <3>5, <4>1
      <4> QED BY <1>2, <1>4, <3>1, <3>4, <3>5, <4>2, <4>3 DEF RowFits
    <3> QED BY <3>1, <3>3, <3>9, <3>10 DEF KeyFits
  <2> QED BY <2>1, <2>2
<1>10. object' \in [Keys -> Materials \union {Nobody}] BY <1>0, <1>2 DEF FilesTyped
<1> QED BY <1>2, <1>4, <1>7, <1>9, <1>10, RequestKeeps

LEMMA SoftDeleteKeeps == ASSUME FilesInv, NEW q \in Requests, SoftDeleteMaterial(q) PROVE FilesInv'
<1>0. FilesTyped BY DEF FilesInv
<1>1. PICK n, m, b : n = request[q].name /\ m = request[q].m /\ b = request[q].keyed OBVIOUS
<1>2. /\ request[q].step = "tombstone" /\ UNCHANGED <<object, artifact, video>> /\ RequestTurns(q, Idle)
  BY <1>0, DoneIs DEF SoftDeleteMaterial
<1>3. /\ m \in Materials /\ row[m].state # "absent" /\ row[m].name = n /\ b \in BOOLEAN
      /\ n \in Names \/ (n = Nobody /\ ~b)
      /\ ~b => row[m].state = "deleted" \/ n = Nobody
  BY <1>1, <1>2, DeletionIs
<1>4. RequestSound(Idle)' BY IdleIs DEF RequestSound
<1>5. \/ row' = [row EXCEPT ![m].state = "deleted"] /\ UNCHANGED <<mishaps, muddled>>
      \/ row' = row /\ IF b THEN Muddle(KeyOf[n]) ELSE muddled' = muddled
  BY <1>1 DEF SoftDeleteMaterial
<1>6. muddled \subseteq muddled' BY <1>5 DEF Muddle
<1>7. PICK w : w = [row[m] EXCEPT !.state = "deleted"] OBVIOUS
<1>8. row[m] \in FileRows BY <1>0, <1>3 DEF FilesTyped
<1>9. w \in FileRows /\ w.state = "deleted" /\ w.name = n /\ w.text = row[m].text /\ w.job = row[m].job
  BY <1>3, <1>7, <1>8 DEF FileRows
<1>10. /\ row' \in [Materials -> FileRows] /\ row'[m] \in {w, row[m]}
       /\ \A l \in Materials \ {m} : row'[l] = row[l]
  BY <1>0, <1>3, <1>5, <1>7, <1>9 DEF FilesTyped
<1>11. \A l \in Materials : /\ row'[l].name = row[l].name /\ row'[l].text = row[l].text
                            /\ row'[l].job = row[l].job
                            /\ \/ row'[l].state = row[l].state
                               \/ l = m /\ row[l].state # "absent" /\ row'[l].state = "deleted"
  BY <1>3, <1>9, <1>10
<1>12. FilesTyped' BY <1>0, <1>2, <1>10 DEF FilesTyped, RequestTurns
<1>13. RequestsSound'
  <2>1. ASSUME NEW p \in Requests \ {q}, request[p].step # "idle" PROVE RowServes(p)
    <3>1. RequestSound(request[p]) /\ request[p] \in FileRequests BY <1>0 DEF FilesInv, RequestsSound, FilesTyped
    <3>2. request[p].m \in Materials BY <2>1, <3>1 DEF RequestSound, FileRequests, TakenSteps
    <3> QED BY <1>11, <3>2 DEF RowServes
  <2> QED BY <1>2, <1>4, <2>1, OthersStaySound
<1>14. RowsApart' BY <1>2, IdleIs, StayApart
<1>15. RowsSound'
  <2> SUFFICES ASSUME NEW l \in Materials
      PROVE /\ row'[l].state = "absent" => ~row'[l].job /\ video'[l] = "none" /\ row'[l].name = Nobody
            /\ video'[l] # "none" => row'[l].name # Nobody
      BY DEF RowsSound, Stored
  <2>1. row'[l].state = "absent" => row[l].state = "absent" BY <1>11
  <2> QED BY <1>2, <1>11, <2>1 DEF FilesInv, RowsSound, Stored
<1>16. LimitSound'
  <2>1. Live' \subseteq Live BY <1>11 DEF Live
  <2>2. Adding' \subseteq Adding BY <1>2, IdleIs, FewerAdding
  <2> QED BY <2>1, <2>2, FewerKeep DEF FilesInv
<1>17. ASSUME NEW k \in Keys PROVE KeyFits(k)'
  <2>0. q \notin RequestsOn(k)' BY <1>2, IdleIs DEF RequestsOn, RequestTurns
  <2>1. CASE q \notin RequestsOn(k)
    <3>1. \A p \in Requests \ {q} : request'[p] = request[p] BY <1>2 DEF RequestTurns
    <3>2. m \notin RowsOn(k) /\ m \notin RowsOn(k)' BY <1>1, <1>3, <1>11, <2>1 DEF RowsOn, RequestsOn, Stored, Key
    <3> QED BY <1>2, <1>6, <1>10, <2>0, <2>1, <3>1, <3>2, OtherKey
  <2>2. CASE q \in RequestsOn(k)
    <3> SUFFICES ASSUME k \notin muddled' PROVE KeyFits(k)' BY DEF KeyFits
    <3>0. n # Nobody /\ KeyOf[n] = k BY <1>1, <2>2 DEF RequestsOn
    <3>1. /\ RequestsOn(k) = {q} /\ RequestFits(q, k) /\ RequestsOn(k)' = {}
          /\ \A l \in RowsOn(k) : RowFits(l, k)
      BY <1>2, <1>6, <2>2, IdleIs, OwnKey
    <3>2. b => video[m] = "none" BY <1>1, <1>2, <3>1 DEF RequestFits
    <3>3. RowsOn(k)' = RowsOn(k) /\ m \in RowsOn(k) BY <1>3, <1>11, <3>0 DEF RowsOn, Stored, Key
    <3>4. \A l \in RowsOn(k) :
            /\ row[l].state = "live" => object[k] = l \/ (b /\ l = m)
            /\ video[l] # "none" => object[k] = l
            /\ row[l].state = "deleted" => video[l] = "none"
            /\ row[l].state = "live" /\ row[l].text = "pending" => row[l].job
      BY <1>1, <1>2, <3>1 DEF RowFits
    <3>5. video[m] = "none" BY <1>3, <3>0, <3>2, <3>3, <3>4
    <3>6. b => row'[m].state = "deleted" BY <1>5, <1>9, <1>3, <1>7, <3>0, <1>0 DEF Muddle, FilesTyped
    <3>7. ASSUME NEW l \in RowsOn(k) PROVE RowFits(l, k)'
      <4>1. l \in Materials BY DEF RowsOn
      <4>2. row'[l].state = "live" => row[l].state = "live" /\ object[k] = l BY <1>11, <3>4, <3>6, <4>1
      <4>3. row'[l].state = "deleted" => video[l] = "none" BY <1>11, <3>4, <3>5, <4>1
      <4> QED BY <1>2, <1>11, <3>4, <4>1, <4>2, <4>3 DEF RowFits
    <3> QED BY <3>1, <3>3, <3>7 DEF KeyFits
  <2> QED BY <2>1, <2>2
<1> QED BY <1>12, <1>13, <1>14, <1>15, <1>16, <1>17 DEF FilesInv

LEMMA FilesStep == ASSUME KeysApart, FilesInv, [FilesNext]_filesVars PROVE FilesInv'
<1>1. CASE UNCHANGED filesVars
  BY <1>1 DEF filesVars, FilesInv, FilesTyped, RequestsSound, RequestSound, RowsApart, Brings, RowsSound,
     Stored, Key, LimitSound, Live, Adding, KeyFits, RequestsOn, RowsOn, RequestFits, RowFits
<1>2. ASSUME NEW q \in Requests, NEW m \in Materials, NEW n \in Names, NEW f \in Files, UploadStart(q, m, n, f)
      PROVE FilesInv'
  BY <1>2, UploadStartKeeps
<1>3. ASSUME NEW q \in Requests, NEW m \in Materials, PasteStart(q, m) \/ DeleteStart(q, m) PROVE FilesInv'
  BY <1>3, PasteStartKeeps, DeleteStartKeeps
<1>4. ASSUME NEW q \in Requests, UploadPut(q) \/ UploadCreate(q) \/ UploadFollow(q) \/ PasteCreate(q)
      PROVE FilesInv'
  BY <1>4, UploadPutKeeps, UploadCreateKeeps, UploadFollowKeeps, PasteCreateKeeps
<1>5. ASSUME NEW q \in Requests, DeleteFile(q) \/ DeleteVideo(q) \/ SoftDeleteMaterial(q) PROVE FilesInv'
  BY <1>5, DeleteFileKeeps, DeleteSourceKeeps, SoftDeleteKeeps
<1>6. ASSUME NEW m \in Materials, Extracted(m) PROVE FilesInv' BY <1>6, ExtractedKeeps
<1> QED BY <1>1, <1>2, <1>3, <1>4, <1>5, <1>6 DEF FilesNext

LEMMA FilesMean == ASSUME FilesInv PROVE FilesAgree
<1>1. ASSUME NEW m \in Materials, Stored(m), ~Busy(Key(m)), Key(m) \notin muddled
      PROVE RequestsOn(Key(m)) = {} /\ RowFits(m, Key(m))
  <2>1. row[m].name \in Names BY <1>1 DEF FilesInv, FilesTyped, FileRows, Stored
  <2>2. Key(m) \in Keys BY <2>1, KeysAre DEF Key
  <2>3. KeyFits(Key(m)) BY <2>2 DEF FilesInv
  <2>4. m \in RowsOn(Key(m)) BY <1>1 DEF RowsOn
  <2> QED BY <1>1, <2>3, <2>4 DEF KeyFits, RequestsOn, Busy
<1>2. LiveFileIsOwn
  <2> SUFFICES ASSUME NEW m \in Live, Stored(m), ~Busy(Key(m)), Key(m) \notin muddled PROVE object[Key(m)] = m
      BY DEF LiveFileIsOwn
  <2>1. m \in Materials /\ row[m].state = "live" BY DEF Live
  <2> QED BY <1>1, <2>1 DEF RowFits
<1>3. NeverSilentlyPending
  <2> SUFFICES ASSUME NEW m \in Live, row[m].text = "pending", Stored(m), ~Taken(m), Key(m) \notin muddled
      PROVE row[m].job
      BY DEF NeverSilentlyPending
  <2>1. m \in Materials /\ row[m].state = "live" BY DEF Live
  <2>2. row[m].name \in Names BY <2>1 DEF FilesInv, FilesTyped, FileRows, Stored
  <2>3. Key(m) \in Keys BY <2>2, KeysAre DEF Key
  <2>4. RowFits(m, Key(m)) BY <2>1, <2>3 DEF FilesInv, KeyFits, RowsOn
  <2>5. \A q \in RequestsOn(Key(m)) : request[q].m # m BY DEF Taken, RequestsOn
  <2> QED BY <2>1, <2>4, <2>5 DEF RowFits
<1>4. LimitOvershoot
  <2>1. IsFiniteSet(Adding) /\ IsFiniteSet(Requests) BY FS_Subset, MaterialFilesAssumption DEF Adding
  <2>2. /\ Cardinality(Adding) \in Nat /\ Cardinality(Requests) \in Nat /\ Cardinality(Live) \in Nat
        /\ MaxMaterials \in Nat
    BY <2>1, FS_CardinalityType, MaterialFilesAssumption DEF FilesInv, LimitSound
  <2>3. PICK a, c, d : a = Cardinality(Live) /\ c = Cardinality(Adding) /\ d = Cardinality(Requests) OBVIOUS
  <2>4. a + c <= MaxMaterials + d - 1 BY <2>3 DEF FilesInv, LimitSound
  <2>5. a <= MaxMaterials + d - 1 BY <2>2, <2>3, <2>4
  <2> QED BY <2>3, <2>5 DEF LimitOvershoot
<1>5. VideoHasFile
  <2> SUFFICES ASSUME NEW m \in Materials, video[m] # "none", ~Busy(Key(m)), Key(m) \notin muddled
      PROVE object[Key(m)] = m
      BY DEF VideoHasFile
  <2>1. Stored(m) BY DEF FilesInv, RowsSound
  <2> QED BY <1>1, <2>1 DEF RowFits
<1> QED BY <1>2, <1>3, <1>4, <1>5 DEF FilesAgree

\* In R2, for names that lead to objects of their own: a material that is shown has the
\* file that was uploaded for it, a video source the file it plays, a text that is waited
\* for has its job, and racing requests exceed the limit by one less than their number
\* (session_materials.go:184-238, 336-343, 672-686, 765-806), for any number of each.
THEOREM FilesStayAgreed == ASSUME KeysApart PROVE FilesSpec => []FilesAgree
<1>1. FilesInit => FilesInv BY FilesStart
<1>2. FilesInv /\ [FilesNext]_filesVars => FilesInv' BY FilesStep
<1>3. FilesInv => FilesAgree BY FilesMean
<1> QED BY <1>1, <1>2, <1>3, PTL DEF FilesSpec

-----------------------------------------------------------------------------
(* The types of the parts.                                                  *)

\* A request that may muddle a key has a name that leads to it.
NamesTheKey(r) == r.step \in {"put", "create", "follow"} \/ r.keyed => r.name \in Names
FilesShape ==
  /\ FilesTypeOK
  /\ \A q \in Requests : NamesTheKey(request[q])

LEMMA ShapeOfRequest ==
  ASSUME FilesShape, NEW q \in Requests, NEW x \in FileRequests, NamesTheKey(x),
         request' = [request EXCEPT ![q] = x]
  PROVE  request' \in [Requests -> FileRequests] /\ \A p \in Requests : NamesTheKey(request'[p])
<1>1. request \in [Requests -> FileRequests] BY DEF FilesShape, FilesTypeOK, FileRequests, TakenSteps
<1>2. request' \in [Requests -> FileRequests] /\ request'[q] = x
      /\ \A p \in Requests \ {q} : request'[p] = request[p]
  BY <1>1
<1>3. ASSUME NEW p \in Requests PROVE NamesTheKey(request'[p])
  <2>1. CASE p = q BY <2>1, <1>2
  <2>2. CASE p # q BY <2>2, <1>2 DEF FilesShape
  <2> QED BY <2>1, <2>2
<1> QED BY <1>2, <1>3

LEMMA ShapeKept ==
  ASSUME FilesShape,
         row' \in [Materials -> FileRows], object' \in [Keys -> Materials \union {Nobody}],
         artifact' \subseteq Keys, video' \in [Materials -> {"none", "bare", "linked"}],
         request' \in [Requests -> FileRequests], \A p \in Requests : NamesTheKey(request'[p]),
         mishaps' \in 0..MaxFaults, muddled' \subseteq Keys
  PROVE  FilesShape'
BY DEF FilesShape, FilesTypeOK, FileRows, FileRequests, TakenSteps, NamesTheKey

LEMMA ShapeOfFiles == FilesShape /\ [FilesNext]_filesVars => FilesShape'
<1> SUFFICES ASSUME FilesShape, [FilesNext]_filesVars PROVE FilesShape' OBVIOUS
<1>1. /\ row \in [Materials -> FileRows] /\ object \in [Keys -> Materials \union {Nobody}]
      /\ artifact \subseteq Keys /\ video \in [Materials -> {"none", "bare", "linked"}]
      /\ request \in [Requests -> FileRequests] /\ mishaps \in 0..MaxFaults /\ muddled \subseteq Keys
      /\ \A p \in Requests : NamesTheKey(request[p])
  BY DEF FilesShape, FilesTypeOK, FileRows, FileRequests, TakenSteps
<1>2. Mishap => mishaps' \in 0..MaxFaults BY <1>1, MaterialFilesAssumption DEF Mishap
<1>3. ASSUME NEW q \in Requests, NEW step \in TakenSteps \ {"put", "create", "follow"}, To(q, step)
      PROVE  request' \in [Requests -> FileRequests] /\ \A p \in Requests : NamesTheKey(request'[p])
  <2>1. PICK x : x = [request[q] EXCEPT !.step = step] OBVIOUS
  <2>2. request[q] \in FileRequests /\ NamesTheKey(request[q]) BY <1>1
  <2>3. x \in FileRequests /\ x.step = step /\ x.name = request[q].name /\ x.keyed = request[q].keyed
    BY <2>1, <2>2 DEF FileRequests
  <2>4. NamesTheKey(x) BY <2>2, <2>3, <1>3 DEF NamesTheKey
  <2>5. request' = [request EXCEPT ![q] = x] BY <2>1, <1>3 DEF To
  <2> QED BY <2>3, <2>4, <2>5, ShapeOfRequest
<1>4. ASSUME NEW q \in Requests, NEW step \in {"create", "follow"}, To(q, step),
             request[q].step \in {"put", "create"}
      PROVE  request' \in [Requests -> FileRequests] /\ \A p \in Requests : NamesTheKey(request'[p])
  <2>1. PICK x : x = [request[q] EXCEPT !.step = step] OBVIOUS
  <2>2. request[q] \in FileRequests /\ NamesTheKey(request[q]) BY <1>1
  <2>3. x \in FileRequests /\ x.step = step /\ x.name = request[q].name /\ x.keyed = request[q].keyed
    BY <2>1, <2>2 DEF FileRequests, TakenSteps
  <2>4. NamesTheKey(x) BY <2>2, <2>3, <1>4 DEF NamesTheKey
  <2>5. request' = [request EXCEPT ![q] = x] BY <2>1, <1>4 DEF To
  <2> QED BY <2>3, <2>4, <2>5, ShapeOfRequest
<1>5. ASSUME NEW q \in Requests, Done(q)
      PROVE  request' \in [Requests -> FileRequests] /\ \A p \in Requests : NamesTheKey(request'[p])
  <2>1. Idle \in FileRequests /\ NamesTheKey(Idle) BY IdleIs DEF NamesTheKey, Idle
  <2> QED BY <1>5, <2>1, ShapeOfRequest DEF Done
<1>6. \A n \in Names : NoteOverlap(KeyOf[n]) \/ Muddle(KeyOf[n]) => muddled' \subseteq Keys
  BY <1>1, KeysAre DEF NoteOverlap, Muddle
<1>7. \A q \in Requests : NamesTheKey(request[q]) /\ request[q] \in FileRequests BY <1>1
<1>8. ASSUME NEW q \in Requests, NEW m \in Materials, NEW n \in Names, NEW f \in Files, UploadStart(q, m, n, f)
      PROVE  FilesShape'
  <2>1. PICK x : x = [step |-> "put", m |-> m, name |-> n, file |-> f, keyed |-> FALSE] OBVIOUS
  <2>2. x \in FileRequests /\ NamesTheKey(x) BY <2>1 DEF FileRequests, TakenSteps, NamesTheKey
  <2>3. /\ request' = [request EXCEPT ![q] = x] /\ NoteOverlap(KeyOf[n])
        /\ UNCHANGED <<row, object, artifact, video, mishaps>>
    BY <1>8, <2>1 DEF UploadStart
  <2> QED BY <1>1, <1>6, <2>2, <2>3, ShapeOfRequest, ShapeKept
<1>9. ASSUME NEW q \in Requests, NEW m \in Materials, PasteStart(q, m) PROVE FilesShape'
  <2>1. PICK x : x = [Idle EXCEPT !.step = "paste", !.m = m] OBVIOUS
  <2>2. x \in FileRequests /\ NamesTheKey(x) BY <2>1 DEF FileRequests, TakenSteps, NamesTheKey, Idle
  <2>3. /\ request' = [request EXCEPT ![q] = x]
        /\ UNCHANGED <<row, object, artifact, video, mishaps, muddled>>
    BY <1>9, <2>1 DEF PasteStart
  <2> QED BY <1>1, <2>2, <2>3, ShapeOfRequest, ShapeKept
<1>10. ASSUME NEW q \in Requests, NEW m \in Materials, DeleteStart(q, m) PROVE FilesShape'
  <2>0. row[m] \in FileRows BY <1>1
  <2>1. PICK keyed \in BOOLEAN : keyed <=> (Stored(m) /\ (Provider = "local" \/ row[m].state = "live")) OBVIOUS
  <2>2. PICK x : x = [step |-> "unstore", m |-> m, name |-> row[m].name, file |-> Nobody, keyed |-> keyed] OBVIOUS
  <2>3. x \in FileRequests BY <2>0, <2>2 DEF FileRequests, TakenSteps, FileRows
  <2>4. row[m].name # Nobody => row[m].name \in Names BY <2>0 DEF FileRows
  <2>5. NamesTheKey(x) BY <2>1, <2>2, <2>4 DEF NamesTheKey, Stored
  <2>6. keyed = (Stored(m) /\ (Provider = "local" \/ row[m].state = "live")) BY <2>1
  <2>7. request' = [request EXCEPT ![q] = x] BY <1>10, <2>2, <2>6 DEF DeleteStart
  <2>8. muddled' \subseteq Keys BY <1>1, <1>6, <1>10, <2>4 DEF DeleteStart, Stored, Key
  <2> QED BY <1>1, <1>10, <2>3, <2>5, <2>7, <2>8, ShapeOfRequest, ShapeKept DEF DeleteStart
<1>11. ASSUME NEW q \in Requests, UploadPut(q) PROVE FilesShape'
  <2>1. object' \in [Keys -> Materials \union {Nobody}]
    BY <1>1, <1>7, <1>11 DEF UploadPut, FileRequests
  <2>2. mishaps' \in 0..MaxFaults BY <1>1, <1>2, <1>11 DEF UploadPut
  <2>3. request' \in [Requests -> FileRequests] /\ \A p \in Requests : NamesTheKey(request'[p])
    BY <1>4, <1>5, <1>11 DEF UploadPut
  <2> QED BY <1>1, <1>11, <2>1, <2>2, <2>3, ShapeKept DEF UploadPut
<1>12. ASSUME NEW q \in Requests, UploadCreate(q) PROVE FilesShape'
  <2>1. PICK r : r = request[q] OBVIOUS
  <2>2. r \in FileRequests /\ r.step = "create" /\ r.name \in Names
    BY <1>7, <1>12, <2>1 DEF UploadCreate, NamesTheKey
  <2>3. PICK w : w = [state |-> "live", name |-> r.name, text |-> TextStatus(r.file), job |-> FALSE] OBVIOUS
  <2>4. w \in FileRows BY <2>2, <2>3, TextStatusIs DEF FileRows
  <2>5. CASE row' = [row EXCEPT ![r.m] = w] /\ To(q, "follow") /\ UNCHANGED <<object, mishaps, muddled, artifact, video>>
    <3>1. row' \in [Materials -> FileRows] BY <1>1, <2>4, <2>5
    <3> QED BY <1>1, <1>4, <2>1, <2>2, <2>5, <3>1, ShapeKept
  <2>6. CASE /\ Mishap /\ Muddle(KeyOf[r.name]) /\ Done(q) /\ row' = row /\ UNCHANGED <<artifact, video>>
             /\ object' = [object EXCEPT ![KeyOf[r.name]] = Nobody]
    <3>1. object' \in [Keys -> Materials \union {Nobody}] BY <1>1, <2>6
    <3> QED BY <1>1, <1>2, <1>5, <1>6, <2>2, <2>6, <3>1, ShapeKept
  <2> QED BY <1>12, <2>1, <2>3, <2>5, <2>6 DEF UploadCreate
<1>13. ASSUME NEW q \in Requests, UploadFollow(q) PROVE FilesShape'
  <2>1. PICK r : r = request[q] OBVIOUS
  <2>2. r \in FileRequests /\ r.step = "follow" /\ r.name \in Names
    BY <1>7, <1>13, <2>1 DEF UploadFollow, NamesTheKey
  <2>3. /\ request' \in [Requests -> FileRequests] /\ \A p \in Requests : NamesTheKey(request'[p])
        /\ UNCHANGED object
    BY <1>5, <1>13 DEF UploadFollow
  <2>4. CASE /\ row' = [row EXCEPT ![r.m].job = NeedsExtraction(r.file)]
             /\ artifact' = IF IsVideo(r.file) THEN artifact \union {KeyOf[r.name]} ELSE artifact
             /\ video' = [video EXCEPT ![r.m] = IF ~IsVideo(r.file) THEN "none"
                                                ELSE IF KeyOf[r.name] \in artifact THEN "bare" ELSE "linked"]
             /\ UNCHANGED <<mishaps, muddled>>
    <3>1. ASSUME r.m \in Materials PROVE row' \in [Materials -> FileRows]
      <4>1. row[r.m] \in FileRows /\ NeedsExtraction(r.file) \in BOOLEAN BY <1>1, <3>1 DEF NeedsExtraction
      <4>2. PICK w : w = [row[r.m] EXCEPT !.job = NeedsExtraction(r.file)] OBVIOUS
      <4>3. w \in FileRows BY <4>1, <4>2 DEF FileRows
      <4> QED BY <1>1, <2>4, <4>2, <4>3
    <3>2. r.m \notin Materials => row' = row BY <1>1, <2>4
    <3>3. row' \in [Materials -> FileRows] BY <1>1, <3>1, <3>2
    <3>4. artifact' \subseteq Keys BY <1>1, <2>2, <2>4, KeysAre
    <3>5. PICK s \in {"none", "bare", "linked"} :
             s = IF ~IsVideo(r.file) THEN "none" ELSE IF KeyOf[r.name] \in artifact THEN "bare" ELSE "linked"
      OBVIOUS
    <3>6. video' = [video EXCEPT ![r.m] = s] BY <2>4, <3>5
    <3>7. video' \in [Materials -> {"none", "bare", "linked"}] BY <1>1, <3>6
    <3> QED BY <1>1, <2>3, <2>4, <3>3, <3>4, <3>7, ShapeKept
  <2>5. CASE Mishap /\ Muddle(KeyOf[r.name]) /\ UNCHANGED <<row, artifact, video>>
    BY <1>1, <1>2, <1>6, <2>2, <2>3, <2>5, ShapeKept
  <2> QED BY <1>13, <2>1, <2>4, <2>5 DEF UploadFollow
<1>14. ASSUME NEW q \in Requests, PasteCreate(q) PROVE FilesShape'
  <2>1. PICK w : w = [NoRow EXCEPT !.state = "live", !.text = "ready"] OBVIOUS
  <2>2. w \in FileRows BY <2>1 DEF FileRows, NoRow
  <2>3. row' \in [Materials -> FileRows] BY <1>1, <1>14, <2>1, <2>2 DEF PasteCreate
  <2> QED BY <1>1, <1>5, <1>14, <2>3, ShapeKept DEF PasteCreate
<1>15. ASSUME NEW m \in Materials, Extracted(m) PROVE FilesShape'
  <2>1. PICK t \in {"ready", "failed"} : row' = [row EXCEPT ![m].text = t, ![m].job = FALSE]
    BY <1>15 DEF Extracted
  <2>2. row[m] \in FileRows BY <1>1
  <2>3. PICK w : w = [row[m] EXCEPT !.text = t, !.job = FALSE] OBVIOUS
  <2>4. w \in FileRows BY <2>2, <2>3 DEF FileRows
  <2>5. row' = [row EXCEPT ![m] = w] BY <1>1, <2>1, <2>3
  <2>6. row' \in [Materials -> FileRows] BY <1>1, <2>4, <2>5
  <2> QED BY <1>1, <1>15, <2>6, ShapeKept DEF Extracted
<1>16. ASSUME NEW q \in Requests, DeleteFile(q) PROVE FilesShape'
  <2>1. object' \in [Keys -> Materials \union {Nobody}] BY <1>1, <1>16 DEF DeleteFile
  <2>2. mishaps' \in 0..MaxFaults BY <1>1, <1>2, <1>16 DEF DeleteFile
  <2>3. request' \in [Requests -> FileRequests] /\ \A p \in Requests : NamesTheKey(request'[p])
    BY <1>3, <1>16 DEF DeleteFile, TakenSteps
  <2> QED BY <1>1, <1>16, <2>1, <2>2, <2>3, ShapeKept DEF DeleteFile
<1>17. ASSUME NEW q \in Requests, DeleteVideo(q) PROVE FilesShape'
  <2>1. video' \in [Materials -> {"none", "bare", "linked"}] BY <1>1, <1>17 DEF DeleteVideo
  <2>2. mishaps' \in 0..MaxFaults BY <1>1, <1>2, <1>17 DEF DeleteVideo
  <2>3. request' \in [Requests -> FileRequests] /\ \A p \in Requests : NamesTheKey(request'[p])
    BY <1>3, <1>17 DEF DeleteVideo, TakenSteps
  <2>4. muddled' \subseteq Keys BY <1>1, <1>6, <1>7, <1>17 DEF DeleteVideo, NamesTheKey
  <2> QED BY <1>1, <1>17, <2>1, <2>2, <2>3, <2>4, ShapeKept DEF DeleteVideo
<1>18. ASSUME NEW q \in Requests, SoftDeleteMaterial(q) PROVE FilesShape'
  <2>1. row' \in [Materials -> FileRows] BY <1>1, <1>18 DEF SoftDeleteMaterial, FileRows
  <2>2. mishaps' \in 0..MaxFaults BY <1>1, <1>2, <1>18 DEF SoftDeleteMaterial
  <2>3. request' \in [Requests -> FileRequests] /\ \A p \in Requests : NamesTheKey(request'[p])
    BY <1>5, <1>18 DEF SoftDeleteMaterial
  <2>4. muddled' \subseteq Keys BY <1>1, <1>6, <1>7, <1>18 DEF SoftDeleteMaterial, NamesTheKey
  <2> QED BY <1>1, <1>18, <2>1, <2>2, <2>3, <2>4, ShapeKept DEF SoftDeleteMaterial
<1>19. CASE UNCHANGED filesVars BY <1>19 DEF filesVars, FilesShape, FilesTypeOK, NamesTheKey
<1> QED
  BY <1>8, <1>9, <1>10, <1>11, <1>12, <1>13, <1>14, <1>15, <1>16, <1>17, <1>18, <1>19 DEF FilesNext

LEMMA FilesShapeStarts == FilesInit => FilesShape
<1> SUFFICES ASSUME FilesInit PROVE FilesShape OBVIOUS
<1>1. NoRow \in FileRows /\ Idle \in FileRequests /\ NamesTheKey(Idle)
  BY IdleIs DEF NoRow, FileRows, NamesTheKey, Idle
<1>2. row \in [Materials -> FileRows] /\ request \in [Requests -> FileRequests]
      /\ \A q \in Requests : NamesTheKey(request[q])
  BY <1>1 DEF FilesInit
<1> QED BY <1>2, MaterialFilesAssumption
        DEF FilesInit, FilesShape, FilesTypeOK, FileRows, FileRequests, TakenSteps

\* What an upload or a row of a material holds keeps to its type: what a request may
\* muddle is a key its name leads to.
LEMMA FilesAreTyped == FilesSpec => []FilesTypeOK
<1>1. FilesInit => FilesShape BY FilesShapeStarts
<1>2. FilesShape /\ [FilesNext]_filesVars => FilesShape' BY ShapeOfFiles
<1>3. FilesShape => FilesTypeOK BY DEF FilesShape
<1> QED BY <1>1, <1>2, <1>3, PTL DEF FilesSpec


\* What a request has left is the end of its handler.
EndOfHandler(v, todo) == \E n \in 0..Len(StepsOf(v)) : todo = SubSeq(StepsOf(v), n + 1, Len(StepsOf(v)))
VideosRun ==
  /\ VideosInv
  /\ standing \in {"open", "keyed", "swept", "emptied", "unfiled", "gone"}
  /\ asked \subseteq Clips /\ stumbles \in 0..MaxStumbles
  /\ \A v \in Clips : EndOfHandler(v, intake[v])

LEMMA HandlersEnd ==
  ASSUME NEW v \in Clips
  PROVE  /\ EndOfHandler(v, StepsOf(v)) /\ EndOfHandler(v, <<>>)
         /\ \A todo : EndOfHandler(v, todo) /\ todo # <<>> => EndOfHandler(v, Tail(todo))
<1>1. PICK s : s = StepsOf(v) OBVIOUS
<1>2. s \in Seq(Steps) /\ Len(s) \in Nat BY <1>1, HandlersOrdered DEF OrderedSteps
<1>3. SubSeq(s, 0 + 1, Len(s)) = s BY <1>2, SubSeqFull
<1>4. SubSeq(s, Len(s) + 1, Len(s)) = <<>> BY <1>2, SubSeqEmpty
<1>5. ASSUME NEW n \in 0..Len(s), SubSeq(s, n + 1, Len(s)) # <<>>
      PROVE  n + 1 \in 0..Len(s) /\ Tail(SubSeq(s, n + 1, Len(s))) = SubSeq(s, (n + 1) + 1, Len(s))
  <2>1. n # Len(s) BY <1>4, <1>5
  <2>2. n + 1 \in 1..Len(s) /\ Len(s) \in (n + 1)..Len(s) BY <1>2, <2>1
  <2> QED BY <1>2, <2>2, HeadTailOfSubSeq
<1>6. 0 \in 0..Len(s) /\ Len(s) \in 0..Len(s) BY <1>2
<1>7. EndOfHandler(v, s) BY <1>1, <1>3, <1>6 DEF EndOfHandler
<1>8. EndOfHandler(v, <<>>) BY <1>1, <1>4, <1>6 DEF EndOfHandler
<1>9. ASSUME NEW todo, EndOfHandler(v, todo), todo # <<>> PROVE EndOfHandler(v, Tail(todo))
  <2>1. PICK n \in 0..Len(s) : todo = SubSeq(s, n + 1, Len(s)) BY <1>1, <1>9 DEF EndOfHandler
  <2> QED BY <1>1, <1>5, <1>9, <2>1 DEF EndOfHandler
<1> QED BY <1>1, <1>7, <1>8, <1>9

LEMMA IntakeMoves ==
  ASSUME VideosNext
  PROVE  intake' = intake \/ \E v \in Clips : intake[v] # <<>> /\ (Advance(v) \/ GiveUp(v))
<1>1. ASSUME NEW v \in Clips,
             \/ OpenSession(v) \/ StoreClip(v) \/ CreateFileArtifact(v) \/ CompleteArtifact(v)
             \/ CreateVideoSource(v) \/ CreateTranscriptJob(v) \/ EnsurePrimary(v)
      PROVE  intake[v] # <<>> /\ (Advance(v) \/ GiveUp(v))
  BY <1>1 DEF NextStepIs, OpenSession, StoreClip, CreateFileArtifact, CompleteArtifact,
              CreateVideoSource, CreateTranscriptJob, EnsurePrimary
<1>2. ASSUME NEW v \in Clips, DeleteSessionVideoSource(v) \/ \E c \in Choosers : ChoosePrimary(c, v)
      PROVE  intake' = intake
  BY <1>2 DEF DeleteSessionVideoSource, ChoosePrimary
<1>3. (\E a \in Clips \union Choosers : CommitRole(a)) => intake' = intake BY DEF CommitRole
<1>4. DeleteObjects \/ SweepPrefix \/ RemoveDirectory \/ DeleteFileArtifacts \/ DeleteSession => intake' = intake
  BY DEF DeleteObjects, SweepPrefix, RemoveDirectory, DeleteFileArtifacts, DeleteSession, RefuseDelete
<1> QED BY <1>1, <1>2, <1>3, <1>4 DEF VideosNext

LEMMA CountersKept ==
  ASSUME VideosRun, VideosNext
  PROVE  /\ standing' \in {"open", "keyed", "swept", "emptied", "unfiled", "gone"}
         /\ asked' \subseteq Clips /\ stumbles' \in 0..MaxStumbles
<1>1. Stumble => stumbles' \in 0..MaxStumbles BY SessionVideosAssumption DEF VideosRun, Stumble
<1>2. /\ standing \in {"open", "keyed", "swept", "emptied", "unfiled", "gone"}
      /\ asked \subseteq Clips /\ stumbles \in 0..MaxStumbles
  BY DEF VideosRun
<1>3. ASSUME NEW v \in Clips,
             \/ OpenSession(v) \/ StoreClip(v) \/ CreateFileArtifact(v) \/ CompleteArtifact(v)
             \/ CreateVideoSource(v) \/ EnsurePrimary(v) \/ \E c \in Choosers : ChoosePrimary(c, v)
      PROVE  standing' = standing /\ asked' = asked /\ (stumbles' = stumbles \/ Stumble)
  BY <1>3 DEF OpenSession, StoreClip, CreateFileArtifact, CompleteArtifact, CreateVideoSource,
              EnsurePrimary, ChoosePrimary
<1>4. ASSUME NEW v \in Clips, CreateTranscriptJob(v) \/ DeleteSessionVideoSource(v)
      PROVE  standing' = standing /\ asked' \subseteq Clips /\ (stumbles' = stumbles \/ Stumble)
  BY <1>2, <1>4 DEF CreateTranscriptJob, DeleteSessionVideoSource
<1>5. ASSUME NEW a, CommitRole(a)
      PROVE  standing' = standing /\ asked' = asked /\ (stumbles' = stumbles \/ Stumble)
  BY <1>5 DEF CommitRole
<1>6. ASSUME DeleteObjects \/ SweepPrefix \/ RemoveDirectory \/ DeleteFileArtifacts \/ DeleteSession
      PROVE  /\ standing' \in {"open", "keyed", "swept", "emptied", "unfiled", "gone"}
             /\ asked' \in {asked, {}} /\ (stumbles' = stumbles \/ Stumble)
  BY <1>6 DEF DeleteObjects, SweepPrefix, RemoveDirectory, DeleteFileArtifacts, DeleteSession,
              RefuseDelete, RemoveVideo
<1> QED BY <1>1, <1>2, <1>3, <1>4, <1>5, <1>6 DEF VideosNext

LEMMA VideosRunOn == VideosRun /\ [VideosNext]_videosVars => VideosRun'
<1> SUFFICES ASSUME VideosRun, [VideosNext]_videosVars PROVE VideosRun' OBVIOUS
<1>1. VideosInv' BY VideosStep DEF VideosRun
<1>2. CASE UNCHANGED videosVars BY <1>1, <1>2 DEF VideosRun, videosVars, EndOfHandler
<1>3. CASE VideosNext
  <2>1. ASSUME NEW v \in Clips PROVE EndOfHandler(v, intake'[v])
    <3>1. EndOfHandler(v, intake[v]) /\ v \in DOMAIN intake
      BY DEF VideosRun, VideosInv, StepsOrdered
    <3>2. ASSUME NEW u \in Clips, intake[u] # <<>>, Advance(u) \/ GiveUp(u) PROVE EndOfHandler(v, intake'[v])
      <4>1. intake'[v] = intake[v] \/ (v = u /\ intake'[v] \in {Tail(intake[v]), <<>>})
        BY <3>1, <3>2 DEF Advance, GiveUp
      <4> QED BY <3>1, <3>2, <4>1, HandlersEnd
    <3> QED BY <1>3, <3>1, <3>2, IntakeMoves
  <2>2. (\A v \in Clips : EndOfHandler(v, intake[v]))' BY <2>1 DEF EndOfHandler
  <2> QED BY <1>1, <1>3, <2>2, CountersKept DEF VideosRun
<1> QED BY <1>2, <1>3

\* Requests go through the steps of their handlers in order, and what a session keeps
\* of its videos has its types (VideosTypeOK; the handlers of uploads, links and imports).
LEMMA VideosAreTyped == VideosSpec => []VideosTypeOK
<1>1. VideosInit => VideosRun
  BY VideosStart, HandlersEnd, SessionVideosAssumption DEF VideosInit, VideosRun
<1>2. VideosRun => VideosTypeOK BY DEF VideosRun, VideosInv, VideosTyped, VideosTypeOK, EndOfHandler
<1> QED BY <1>1, <1>2, VideosRunOn, PTL DEF VideosSpec

LEMMA PrimaryIsTyped == PrimarySpec => []PrimaryTypeOK
<1>1. PrimaryInv => PrimaryTypeOK BY DEF PrimaryInv
<1> QED BY <1>1, PrimaryStart, PrimaryStep, PTL DEF PrimarySpec

LEMMA ReviewIsTyped == ReviewSpec => []ReviewTypeOK
<1>1. ReviewInv => ReviewTypeOK BY DEF ReviewInv
<1> QED BY <1>1, ReviewInvariant, PTL

LEMMA ChunksAreTyped == ChunksSpec => []ChunksTypeOK
<1>1. CutInv => ChunksTypeOK BY DEF CutInv
<1>2. CutInv /\ [ChunksNext]_chunksVars => CutInv'
  BY PieceCovers, PagesCover, StutterKeeps DEF ChunksNext
<1> QED BY <1>1, <1>2, InitCut, PTL DEF ChunksSpec

LEMMA IndexIsTyped == IndexSpec => []IndexTypeOK
<1>1. IndexInv => IndexTypeOK
  <2> SUFFICES ASSUME IndexInv PROVE IndexTypeOK OBVIOUS
  <2>1. IndexTyped BY DEF IndexInv
  <2>2. questions \in Numbers \union {0}
    <3>1. IsFiniteSet(Counted) BY SessionIndexAssumption, FS_Subset DEF Counted
    <3>2. Cardinality(Counted) \in Nat /\ Cardinality(Askers) \in Nat
      BY <3>1, SessionIndexAssumption, FS_CardinalityType
    <3>3. questions \in Nat /\ questions <= MaxQuestions + Cardinality(Askers) - 1
      BY <3>2, SessionIndexAssumption DEF IndexInv, LimitKept
    <3> QED BY <3>2, <3>3, SessionIndexAssumption DEF Numbers
  <2>3. indexing \in [Indexers -> [step : {"idle", "begin", "read", "upsert", "clear", "embed", "insert", "failed"},
                                   read : SUBSET Sources, rows : SUBSET chunkRows]]
    <3>1. indexing \in [Indexers -> IndexRuns] BY <2>1 DEF IndexTyped
    <3>2. ASSUME NEW i \in Indexers
          PROVE  indexing[i] \in [step : {"idle", "begin", "read", "upsert", "clear", "embed", "insert", "failed"},
                                  read : SUBSET Sources, rows : SUBSET chunkRows]
      <4>1. indexing[i] \in IndexRuns /\ indexing[i].rows \in SUBSET chunkRows BY <2>1 DEF IndexTyped
      <4> QED BY <4>1 DEF IndexRuns
    <3> QED BY <3>1, <3>2
  <2>4. ask \in [Askers -> [step : {"idle", "ensure", "retrieve", "again", "count", "create", "answer"},
                            via : {"web", "mcp"}, number : Numbers \union {0},
                            retry : BOOLEAN, saw : BOOLEAN, moved : BOOLEAN]]
    BY <2>1 DEF IndexTyped, Asks
  <2> QED BY <2>1, <2>2, <2>3, <2>4 DEF IndexTyped, IndexTypeOK, Sources
<1> QED BY <1>1, IndexStart, IndexStep, PTL DEF IndexSpec

LEMMA FaultsCounted ==
  ASSUME CopyInv, faults \in 0..FaultBound, [CopyNext]_copyVars PROVE faults' \in 0..FaultBound
<1>1. IsFiniteSet(Pieces) BY SessionCopyAssumption
<1>2. \A S \in SUBSET (Pieces \union {Base}) : Cardinality(S) \in Nat
  <2>1. IsFiniteSet(Pieces \union {Base}) BY <1>1, FS_AddElement
  <2> QED BY <2>1, FS_Subset, FS_CardinalityType
<1>3. ASSUME NEW n \in Nat, Fail(n) PROVE faults' \in 0..FaultBound BY <1>3, SessionCopyAssumption DEF Fail
<1>4. Ok => faults' \in 0..FaultBound BY DEF Ok
<1>5. Fail(1) => faults' \in 0..FaultBound BY <1>3
<1>6. CASE LoadSource
  <2>1. ASSUME NEW lost \in SUBSET ({SortOf[p] : p \in Pieces} \ {"transcript"}) PROVE Cardinality(lost) \in Nat
    <3>1. SortOf \in Surjection(Pieces, {SortOf[p] : p \in Pieces})
      BY SessionCopyAssumption DEF Surjection
    <3>2. IsFiniteSet({SortOf[p] : p \in Pieces}) BY <1>1, <3>1, FS_Surjection
    <3> QED BY <3>2, FS_Subset, FS_CardinalityType
  <2> QED BY <1>3, <1>4, <1>5, <1>6, <2>1 DEF LoadSource
<1>7. CASE FetchElements
  <2>1. \A lost, unmarked \in SUBSET Pieces : Cardinality(lost) + Cardinality(unmarked) \in Nat BY <1>2
  <2> QED BY <1>3, <1>7, <2>1 DEF FetchElements
<1>8. CASE ImportRows
  <2>1. \A s : Wanted(s) \subseteq Pieces \union {Base} BY DEF CopyInv, CopyTyped, Wanted
  <2>2. \A s : \A broken \in SUBSET Wanted(s) : Cardinality(broken) \in Nat BY <1>2, <2>1
  <2> QED BY <1>3, <1>4, <1>8, <2>2 DEF ImportRows
<1>9. CASE ImportTranscripts BY <1>4, <1>5, <1>9 DEF ImportTranscripts
<1>10. CASE ImportSessionRow \/ ImportSessionMetadata \/ Finish
  BY <1>4, <1>5, <1>10 DEF ImportSessionRow, ImportSessionMetadata, Finish
<1>11. CASE DeleteClone \/ ClientGoesAway \/ ProcessDies \/ UNCHANGED copyVars
  BY <1>11 DEF DeleteClone, ClientGoesAway, ProcessDies, copyVars
<1> QED BY <1>6, <1>7, <1>8, <1>9, <1>10, <1>11 DEF CopyNext

LEMMA CopyIsTyped == CopySpec => []CopyTypeOK
<1>1. CopyInit => CopyInv /\ faults \in 0..FaultBound
  BY CopyStart, SessionCopyAssumption DEF CopyInit
<1>2. CopyInv /\ faults \in 0..FaultBound => CopyTypeOK BY DEF CopyInv, CopyTyped, CopyTypeOK
<1>3. CopyInv /\ faults \in 0..FaultBound /\ [CopyNext]_copyVars => (CopyInv /\ faults \in 0..FaultBound)'
  BY CopyStep, FaultsCounted
<1> QED BY <1>1, <1>2, <1>3, PTL DEF CopySpec

-----------------------------------------------------------------------------
RankShape ==
  \E n, i, j \in Nat : /\ DOMAIN score = 1..n /\ order \in [1..n -> 1..n]
                       /\ at = <<i, j>> /\ 1 <= i /\ i < j
                       /\ \A p \in DOMAIN handed : handed[p] \in 1..n

LEMMA RankShapeKept == RankShape /\ [RankNext]_rankVars => RankShape'
<1> SUFFICES ASSUME RankShape, [RankNext]_rankVars PROVE RankShape' OBVIOUS
<1>1. PICK n \in Nat, i \in Nat, j \in Nat :
        /\ DOMAIN score = 1..n /\ order \in [1..n -> 1..n]
        /\ at = <<i, j>> /\ 1 <= i /\ i < j
        /\ \A p \in DOMAIN handed : handed[p] \in 1..n
  BY DEF RankShape
<1>2. Positions = 1..n /\ Cardinality(Positions) = n BY <1>1, FS_Interval DEF Positions
<1>3. CASE CompareNext
  <2>1. at[1] = i /\ at[2] = j BY <1>1
  <2>2. i < n /\ score' = score /\ handed' = handed BY <1>2, <1>3, <2>1 DEF CompareNext
  <2>3. CASE j <= n
    <3>1. at' = <<i, j + 1>> BY <1>2, <1>3, <2>1, <2>3 DEF CompareNext
    <3>2. order' \in [1..n -> 1..n]
      <4>1. order' \in {order, [order EXCEPT ![i] = order[j], ![j] = order[i]]}
        BY <1>2, <1>3, <2>1, <2>3 DEF CompareNext
      <4>2. order[i] \in 1..n /\ order[j] \in 1..n BY <1>1, <2>2, <2>3
      <4> QED BY <1>1, <4>1, <4>2
    <3>3. j + 1 \in Nat /\ i < j + 1 BY <1>1
    <3> QED BY <1>1, <2>2, <3>1, <3>2, <3>3 DEF RankShape
  <2>4. CASE ~(j <= n)
    <3>1. at' = <<i + 1, i + 2>> /\ order' = order BY <1>2, <1>3, <2>1, <2>4 DEF CompareNext
    <3>2. i + 1 \in Nat /\ i + 2 \in Nat /\ 1 <= i + 1 /\ i + 1 < i + 2 BY <1>1
    <3> QED BY <1>1, <2>2, <3>1, <3>2 DEF RankShape
  <2> QED BY <2>3, <2>4
<1>4. CASE HandOver
  <2>1. score' = score /\ order' = order /\ at' = at BY <1>4 DEF HandOver
  <2>2. handed' = [p \in 1..Lesser(TopK, n) |-> order[p]] BY <1>2, <1>4 DEF HandOver
  <2>3. 1..Lesser(TopK, n) \subseteq 1..n BY RankingAssumption DEF Lesser
  <2>4. \A p \in DOMAIN handed' : handed'[p] \in 1..n BY <1>1, <2>2, <2>3
  <2> QED BY <1>1, <2>1, <2>4 DEF RankShape
<1>5. CASE UNCHANGED rankVars BY <1>5 DEF RankShape, rankVars
<1> QED BY <1>3, <1>4, <1>5 DEF RankNext

\* Scores of any kind do.
LEMMA RankIsTyped == RankSpec => []RankTypeOK
<1>1. RankInit => RankShape
  <2> SUFFICES ASSUME RankInit PROVE RankShape OBVIOUS
  <2>1. PICK n \in 0..MaxChunks : DOMAIN score = 1..n BY DEF RankInit
  <2>2. n \in Nat BY <2>1, RankingAssumption
  <2>3. order \in [1..n -> 1..n] /\ at = <<1, 2>> /\ DOMAIN handed = {} BY <2>1 DEF RankInit
  <2> QED BY <2>1, <2>2, <2>3 DEF RankShape
<1>2. RankShape => RankTypeOK BY DEF RankShape, RankTypeOK
<1> QED BY <1>1, <1>2, RankShapeKept, PTL DEF RankSpec

\* A text of one byte, and no chunks at all, are what the idle parts hold.
LEMMA OnePlainIs == OnePlain \in Plain
<1>1. PICK t : t = [kind |-> "plain", len |-> 1, marks |-> {0, 1}, blank |-> {}] OBVIOUS
<1>2. t \in [kind : {"plain"}, len : 1..MaxText, marks : SUBSET (0..MaxText), blank : {{}}]
  BY <1>1, ChunksAssumption
<1>3. t.marks \subseteq 0..t.len /\ {0, t.len} \subseteq t.marks BY <1>1
<1>4. \A a \in t.marks \ {t.len} : \E b \in t.marks : a < b /\ b <= a + RuneMax
  BY <1>1, ChunksAssumption
<1>5. t \in Plain /\ t.len = 1 BY <1>1, <1>2, <1>3, <1>4 DEF Plain
<1> QED BY <1>5 DEF OnePlain

LEMMA ContentBegins ==
  ContentInit => /\ FilesInit /\ PrimaryInit /\ VideosInit /\ CopyInit /\ IndexInit
                 /\ ChunksInit /\ RankInit /\ ReviewInit
<1> SUFFICES ASSUME ContentInit
             PROVE  /\ FilesInit /\ PrimaryInit /\ VideosInit /\ CopyInit /\ IndexInit
                    /\ ChunksInit /\ RankInit /\ ReviewInit
  OBVIOUS
<1>1. FilesInit /\ PrimaryInit /\ VideosInit /\ CopyInit /\ IndexInit /\ ReviewInit BY DEF ContentInit
<1>2. ChunksInit BY OnePlainIs DEF ContentInit, ChunksInit
<1>3. RankInit
  <2>1. CASE part = "rank" BY <2>1 DEF ContentInit
  <2>2. CASE part # "rank"
    <3>1. score = <<>> /\ order = <<>> /\ at = <<1, 2>> /\ handed = <<>> BY <2>2 DEF ContentInit
    <3>2. PICK question : question \in Bags
      <4>1. [w \in Words |-> 0] \in Bags BY RankingAssumption DEF Bags
      <4> QED BY <4>1
    <3>3. 0 \in 0..MaxChunks /\ DOMAIN score = {} BY <3>1, RankingAssumption
    <3>4. score \in [1..0 -> {Score(question, chunk, long) : chunk \in Bags, long \in BOOLEAN}]
      BY <3>1
    <3>5. order = [p \in DOMAIN score |-> p] BY <3>1, <3>3
    <3> QED BY <3>1, <3>2, <3>3, <3>4, <3>5 DEF RankInit
  <2> QED BY <2>1, <2>2
<1> QED BY <1>1, <1>2, <1>3

LEMMA ContentSteps ==
  [ContentNext]_contentVars =>
    /\ [FilesNext]_filesVars /\ [PrimaryNext]_primaryVars /\ [VideosNext]_videosVars /\ [CopyNext]_copyVars
    /\ [IndexNext]_indexVars /\ [ChunksNext]_chunksVars /\ [RankNext]_rankVars /\ [ReviewNext]_reviewVars
    /\ part' = part
<1>1. ASSUME UNCHANGED contentVars
      PROVE  UNCHANGED <<part, filesVars, primaryVars, videosVars, copyVars, indexVars, chunksVars,
                         rankVars, reviewVars>>
  BY <1>1 DEF contentVars
<1>2. ASSUME ContentNext
      PROVE  /\ [FilesNext]_filesVars /\ [PrimaryNext]_primaryVars /\ [VideosNext]_videosVars
             /\ [CopyNext]_copyVars /\ [ChunksNext]_chunksVars /\ [RankNext]_rankVars
             /\ [ReviewNext]_reviewVars /\ part' = part
  BY <1>2 DEF ContentNext
<1>3. ASSUME ContentNext PROVE [IndexNext]_indexVars BY <1>3 DEF ContentNext
<1> QED BY <1>1, <1>2, <1>3

\* The instance that the runs check is each of its parts: what is proved of a part
\* holds of it.
THEOREM ContentIsItsParts ==
  ContentSpec => /\ FilesSpec /\ PrimarySpec /\ VideosSpec /\ CopySpec
                 /\ IndexSpec /\ ChunksSpec /\ RankSpec /\ ReviewSpec
BY ContentBegins, ContentSteps, PTL
   DEF ContentSpec, FilesSpec, PrimarySpec, VideosSpec, CopySpec, IndexSpec, ChunksSpec, RankSpec, ReviewSpec

\* Whatever part runs, and for every value of the constants, its rows, files, requests,
\* chunks and ranks keep to their types.
THEOREM ContentIsTyped == ContentSpec => []ContentTypeOK
<1>1. ContentInit => part \in Parts BY DEF ContentInit
<1>2. part \in Parts /\ [ContentNext]_contentVars => (part \in Parts)' BY ContentSteps
<1>3. /\ part \in Parts
      /\ FilesTypeOK /\ PrimaryTypeOK /\ VideosTypeOK /\ CopyTypeOK
      /\ IndexTypeOK /\ ChunksTypeOK /\ RankTypeOK /\ ReviewTypeOK
      => ContentTypeOK
  BY DEF Parts, ContentTypeOK
<1>4. ContentSpec => [](part \in Parts) BY <1>1, <1>2, PTL DEF ContentSpec
<1> QED
  BY <1>3, <1>4, ContentIsItsParts, FilesAreTyped, PrimaryIsTyped, VideosAreTyped, CopyIsTyped,
     IndexIsTyped, ChunksAreTyped, RankIsTyped, ReviewIsTyped, PTL

\* What the runs check of the composed instance holds of it for every value of the constants:
\* the files of materials agree with their rows (session_materials.go), what opens with a
\* session is there and last chosen (session_primary_update.go), a session has one primary
\* video and its deletion leaves nothing behind (sessions.go:571-660), a copy is as it was
\* reported (sessions.go:310-541), the index follows the texts (rag/index.go), no text is
\* lost between chunks (rag/chunker.go), the best ones are handed on (utils/retrieval.go), and
\* a confirmed answer stays, shown as its review says (session_orchestration_draft.go).
THEOREM ContentHolds ==
  ASSUME KeysApart, ScoresAreNumbers
  PROVE  ContentSpec => /\ [](FilesAgree /\ PrimaryHolds /\ VideosHold /\ CopyIsAsReported
                              /\ IndexFollowsTexts /\ NothingTorn /\ BestHanded /\ ReviewAgrees)
                        /\ ConfirmedStays
<1>1. FilesSpec => []FilesAgree BY FilesStayAgreed
<1>2. RankSpec => []BestHanded BY TheBestAreHanded
<1> QED
  BY <1>1, <1>2, ContentIsItsParts, PrimaryIsHeld, VideosAreHeld, CopyStaysAsReported, IndexFollows,
     NothingLost, ReviewsAgree, ConfirmedIsKept, PTL
=============================================================================
