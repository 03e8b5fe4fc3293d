---------------------------- MODULE PrimaryContent ----------------------------
(***************************************************************************)
(* The primary content of a session: a kind and three pointers, to a video *)
(* artifact, a document and a link.  PATCH requests check what they point  *)
(* to and then write; an import promotes its video when it sees none that  *)
(* is ready; the deletions of documents and links clear the primary in a   *)
(* transaction of two statements.                                          *)
(***************************************************************************)
EXTENDS Naturals, FiniteSets

CONSTANTS
  Videos, Documents, Links,
  Patches,      \* concurrent PATCH and POST requests
  Nothing

Contents == Videos \union Documents \union Links

ASSUME PrimaryContentAssumption ==
  /\ Videos \intersect Documents = {} /\ Videos \intersect Links = {}
  /\ Documents \intersect Links = {}
  /\ Nothing \notin Contents

VARIABLES
  primary,      \* columns of the session: kind, video, document, link
  content,      \* "pending", "ready" or "failed": text, artifact or link status
  gone,         \* tombstones of documents, deleted links
  removing,     \* deletions between their two statements
  patch,
  promoting,    \* videos an import is about to promote: whether it saw a ready one
  overrun       \* history: a write crossed a deletion, or was promoted on an old read

primaryVars == <<primary, content, gone, removing, patch, promoting, overrun>>

KindOf(x) == IF x \in Videos THEN "video" ELSE IF x \in Documents THEN "document" ELSE "link"

NoPatch == [step |-> "none", id |-> Nothing]
ReadyVideo(v) == v # Nothing /\ content[v] = "ready"

Settle(x) ==
  /\ content[x] = "pending"
  /\ \E s \in {"ready", "failed"} : content' = [content EXCEPT ![x] = s]
  /\ UNCHANGED <<primary, gone, removing, patch, promoting, overrun>>

-----------------------------------------------------------------------------
(* PATCH: validatePrimaryPointerOwnership, then UpdateSessionPrimary *)

PatchCheck(p, x) ==
  /\ patch[p] = NoPatch
  /\ content[x] = "ready" /\ x \notin gone
  /\ \E step \in {"write"} \union (IF x \in Videos THEN {"point"} ELSE {}) :
       patch' = [patch EXCEPT ![p] = [step |-> step, id |-> x]]
  /\ UNCHANGED <<primary, content, gone, removing, promoting, overrun>>

\* The video pointer is left alone by the other kinds.
Pointed(x) ==
  [kind |-> KindOf(x),
   video |-> IF x \in Videos THEN x ELSE primary.video,
   document |-> IF x \in Documents THEN x ELSE Nothing,
   link |-> IF x \in Links THEN x ELSE Nothing]

\* A link that is gone fails the foreign key; the row of a document is still there.
PatchWrite(p) ==
  /\ patch[p].step = "write"
  /\ LET x == patch[p].id
     IN  IF x \in gone \intersect Links
         THEN UNCHANGED <<primary, overrun>>
         ELSE /\ primary' = Pointed(x)
              /\ overrun' = (overrun \/ x \in gone \union removing)
  /\ patch' = [patch EXCEPT ![p] = NoPatch]
  /\ UNCHANGED <<content, gone, removing, promoting>>

\* POST primary-video-artifact: the kind is left as it is.
PointVideo(p) ==
  /\ patch[p].step = "point"
  /\ primary' = [primary EXCEPT !.video = patch[p].id]
  /\ patch' = [patch EXCEPT ![p] = NoPatch]
  /\ UNCHANGED <<content, gone, removing, promoting, overrun>>

PatchClear ==
  /\ primary.kind # "none"
  /\ primary' = [primary EXCEPT !.kind = "none", !.document = Nothing, !.link = Nothing]
  /\ UNCHANGED <<content, gone, removing, patch, promoting, overrun>>

-----------------------------------------------------------------------------
(* setPrimaryIfNotSet, at the end of the ingest of v, whose row may not have *)
(* been marked ready                                                        *)

\* mutant: any video that is set counts as none
NoReadyPrimaryEver == TRUE

NoReadyPrimary == ~ReadyVideo(primary.video)

PromoteRead(v) ==
  /\ promoting[v] = "no" /\ content[v] # "failed"
  /\ NoReadyPrimary
  /\ promoting' = [promoting EXCEPT ![v] = IF ReadyVideo(primary.video) THEN "over" ELSE "free"]
  /\ UNCHANGED <<primary, content, gone, removing, patch, overrun>>

PromoteWrite(v) ==
  /\ promoting[v] \notin {"no", "done"}
  /\ primary' = [primary EXCEPT !.video = v]
  /\ overrun' = (overrun \/ (promoting[v] = "free" /\ ReadyVideo(primary.video)))
  /\ promoting' = [promoting EXCEPT ![v] = "done"]
  /\ UNCHANGED <<content, gone, removing, patch>>

-----------------------------------------------------------------------------
(* SoftDeleteMaterial and DeleteSessionLink.  When the clearing statement    *)
(* matches, its lock holds off other writes until the commit; when it does   *)
(* not, they may come before it.  A link that goes takes its pointer along.  *)

Unset(x) == [primary EXCEPT !.kind = "none", ![KindOf(x)] = Nothing]

IsPrimary(x) == primary.kind = KindOf(x) /\ primary[KindOf(x)] = x

RemoveBegin(x) ==
  /\ x \notin gone \union removing \union Videos
  /\ IF IsPrimary(x) THEN primary' = Unset(x) /\ gone' = gone \union {x} /\ removing' = removing
                     ELSE removing' = removing \union {x} /\ UNCHANGED <<primary, gone>>
  /\ UNCHANGED <<content, patch, promoting, overrun>>

RemoveCommit(x) ==
  /\ x \in removing
  /\ removing' = removing \ {x}
  /\ gone' = gone \union {x}
  /\ primary' = IF primary.link = x THEN [primary EXCEPT !.link = Nothing] ELSE primary
  /\ UNCHANGED <<content, patch, promoting, overrun>>

-----------------------------------------------------------------------------
PrimaryInit ==
  /\ primary = [kind |-> "none", video |-> Nothing, document |-> Nothing, link |-> Nothing]
  /\ content = [x \in Contents |-> "pending"]
  /\ gone = {} /\ removing = {}
  /\ patch = [p \in Patches |-> NoPatch]
  /\ promoting = [v \in Videos |-> "no"]
  /\ overrun = FALSE

PrimaryNext ==
  \/ \E x \in Contents :
       \/ Settle(x) \/ RemoveBegin(x) \/ RemoveCommit(x)
       \/ \E p \in Patches : PatchCheck(p, x)
  \/ \E p \in Patches : PatchWrite(p) \/ PointVideo(p)
  \/ PatchClear
  \/ \E v \in Videos : PromoteRead(v) \/ PromoteWrite(v)

PrimarySpec == PrimaryInit /\ [][PrimaryNext]_primaryVars

-----------------------------------------------------------------------------
PrimaryTypeOK ==
  /\ primary \in [kind : {"none", "video", "document", "link"}, video : Videos \union {Nothing},
                  document : Documents \union {Nothing}, link : Links \union {Nothing}]
  /\ content \in [Contents -> {"pending", "ready", "failed"}]
  /\ gone \subseteq Documents \union Links
  /\ removing \subseteq Documents \union Links
  /\ patch \in [Patches -> [step : {"none", "write", "point"}, id : Contents \union {Nothing}]]
  /\ promoting \in [Videos -> {"no", "free", "over", "done"}]
  /\ overrun \in BOOLEAN

\* What the session names as its primary is there and ready to be shown, through
\* any order of requests, deletions and promotions, as long as no write overrun a
\* deletion or was promoted on an old read (session_primary_update.go:95-107,
\* materials.go:433-440, session_links.go:192-196).
PrimaryIsThere ==
  primary.kind # "none" /\ ~overrun =>
    LET x == primary[primary.kind]
    IN  x # Nothing /\ x \notin gone /\ content[x] = "ready"

\* At most one of the document and the link is pointed to, and only under its
\* kind: the resolver of an older kind never finds a stale pointer
\* (sessions.go:232-291, session_primary.go:49-73).
NoStalePointer ==
  /\ primary.document # Nothing => primary.kind = "document"
  /\ primary.link # Nothing => primary.kind = "link"

\* What opens when the session is opened is there, and is the one that was chosen last.
PrimaryHolds == PrimaryIsThere /\ NoStalePointer
===============================================================================
