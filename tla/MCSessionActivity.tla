--------------------------- MODULE MCSessionActivity ----------------------------
(* Who takes part in a session, what they ask, and the services around it:       *)
(* accounts and stances, invitations, titles, the feed of questions, the answer  *)
(* pipeline, connections to providers, the listing of their recordings and the   *)
(* import of one, and the health watch.  As in MCSessionContent, a behaviour     *)
(* exercises one part.                                                           *)
EXTENDS SessionPeople, SessionInvitations, SessionTitles, QuestionFeed, AnswerPipeline,
        ProviderConnections, TeamsListing, RecordingIngest, HealthWatch, TLC

CONSTANTS
  q1, q2, q3,                        \* questions of the feed
  top, sub, deep, f1, f2, f3,        \* folders and files of OneDrive
  l1, l2, l3, r1                       \* join links and a recording

VARIABLE part
activityVars == <<part, peopleVars, invitationVars, titleVars, feedVars, pipeVars,
                  connVars, listingVars, ingestVars, watchVars>>
Parts == {"people", "invitations", "titles", "feed", "pipeline", "connections", "listing",
          "ingest", "rival ingest", "watch"}

OneReply == (q1 :> NoParent) @@ (q2 :> q1) @@ (q3 :> NoParent)

Tree  == (top :> top) @@ (sub :> top) @@ (deep :> sub)
Homes == {(f1 :> top) @@ (f2 :> sub) @@ (f3 :> deep),
          (f1 :> top) @@ (f2 :> sub) @@ (f3 :> Elsewhere),
          (f1 :> deep) @@ (f2 :> Elsewhere) @@ (f3 :> Elsewhere)}
OneMeeting == (l1 :> "m") @@ (l2 :> "m") @@ (l3 :> NoMeeting)
Tapes == "m" :> {r1}
FromZoomAndMeet == [r \in Recordings |-> IF r \in {"z1", "z2"} THEN "zoom" ELSE "google_meet"]

\* requests, 95th percentile, requests per minute, errors, expected 401s, other 401s
Window(n, p95, rpm, errors, auth, hot) ==
  [n |-> n, p95 |-> p95, rpm |-> rpm, errors |-> errors, auth |-> auth, hot |-> hot]
SomeWindows == {Window(100, 60, 10, 0, 0, 0), Window(10, 100, 5, 2, 0, 0),
                Window(100, 80, 10, 2, 2, 5), Window(100, 80, 10, 2, 2, 1)}

ActivityInit ==
  /\ part \in Parts
  /\ PeopleInit /\ InvitationsInit /\ TitlesInit /\ FeedInit /\ PipelineInit /\ WatchInit
  /\ ConnectionsInit /\ (part = "connections" \/ provider = "zoom")
  /\ ListingInit /\ (part = "listing" \/ home[f3] = deep)
  /\ IngestInit /\ (part \in {"ingest", "rival ingest"} \/ driver = "r2")

Unattached(r) == \A c \in Attachers : attaching'[c] # r

ActivityNext ==
  /\ part' = part
  /\ IF part = "people" THEN PeopleNext ELSE UNCHANGED peopleVars
  /\ IF part = "invitations" THEN InvitationsNext ELSE UNCHANGED invitationVars
  /\ IF part = "titles" THEN TitlesNext ELSE UNCHANGED titleVars
  /\ IF part = "feed" THEN FeedNext ELSE UNCHANGED feedVars
  /\ IF part = "pipeline" THEN PipelineNext ELSE UNCHANGED pipeVars
  /\ IF part = "connections" THEN ConnectionsNext ELSE UNCHANGED connVars
  /\ IF part = "listing" THEN ListingNext ELSE UNCHANGED listingVars
  /\ CASE part = "ingest" -> IngestNext /\ Unattached("z2")        \* two providers
       [] part = "rival ingest" -> IngestNext /\ Unattached("g1")  \* one provider
       [] OTHER -> UNCHANGED ingestVars
  /\ IF part = "watch" THEN WatchNext ELSE UNCHANGED watchVars

ActivitySpec == ActivityInit /\ [][ActivityNext]_activityVars

\* The tables, buffers, queues and requests of every part keep to their types:
\* rows go with the account they refer to, and nothing is over its capacity.
ActivityTypeOK ==
  CASE part = "people"      -> PeopleTypeOK
    [] part = "invitations" -> InvitationsTypeOK
    [] part = "titles"      -> TitlesTypeOK
    [] part = "feed"        -> FeedTypeOK
    [] part = "pipeline"    -> PipelineTypeOK
    [] part = "connections" -> ConnectionsTypeOK
    [] part = "listing"     -> ListingTypeOK
    [] part \in {"ingest", "rival ingest"} -> IngestTypeOK
    [] part = "watch"       -> WatchTypeOK
================================================================================
