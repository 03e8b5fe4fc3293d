------------------------- MODULE ProviderConnections -------------------------
(***************************************************************************)
(* The OAuth connection of one creator identity to a meeting provider: the *)
(* consent's callback upserts it, every use renews its tokens when they    *)
(* are about to expire (GetValid...AccessTokenContext), a disconnect       *)
(* deletes it.  A renewal reads the row, asks the provider and writes the  *)
(* row, with nothing held in between; the workers' renewals run beside     *)
(* those of the requests.                                                  *)
(***************************************************************************)
EXTENDS Naturals, FiniteSets

CONSTANTS
    Accounts,       \* provider accounts the creator may consent with
    Users,          \* requests and worker runs that need a token, one renewal each
    MaxIssued,      \* bound of the model: token pairs the provider issues
    Unnamed         \* "unknown": /users/me or /userinfo could not be read

ASSUME ConnectionsAssumption ==
    /\ Unnamed \notin Accounts
    /\ MaxIssued \in Nat \ {0}

VARIABLES
    provider,       \* which of the three integrations this is
    connection,     \* its row: at most one per creator identity
    honoured,       \* external: refresh tokens the provider still accepts
    issued,         \* external: how many pairs it has issued
    dealing,         \* each user: how far it is, the row it read, the pair it was given
    outrun,        \* ghost: a renewal was written over a connection made after its read
    wasted          \* ghost: a pair the provider issued was never stored

connVars == <<provider, connection, honoured, issued, dealing, outrun, wasted>>

Tokens == [of : Accounts, n : 0..MaxIssued]
Rows == [user : Accounts \cup {Unnamed}, access : Tokens, refresh : Tokens, due : BOOLEAN]
Errands ==
    [at : {"idle", "exchanged", "due", "renewed", "over"}, row : SUBSET Rows, given : SUBSET (Tokens \X Tokens)]
Idle == [at |-> "idle", row |-> {}, given |-> {}]

ConnectionsTypeOK ==
    /\ provider \in {"zoom", "teams", "google_meet"}
    /\ connection \subseteq Rows /\ Cardinality(connection) <= 1
    /\ honoured \subseteq Tokens /\ issued \in 0..MaxIssued
    /\ \A u \in Users : dealing[u] \in Errands
    /\ outrun \in BOOLEAN /\ wasted \in BOOLEAN

ConnectionsInit ==
    /\ provider \in {"zoom", "teams", "google_meet"}
    /\ connection = {} /\ honoured = {} /\ issued = 0
    /\ dealing = [u \in Users |-> Idle]
    /\ outrun = FALSE /\ wasted = FALSE

-----------------------------------------------------------------------------
Goes(u, at) == dealing' = [dealing EXCEPT ![u].at = at]
Drops(u) == dealing' = [dealing EXCEPT ![u] = [Idle EXCEPT !.at = "over"]]

\* the callback's code exchange
Exchange(u, a) ==
    LET pair == [of |-> a, n |-> issued + 1] IN
    /\ dealing[u].at = "idle" /\ issued < MaxIssued
    /\ issued' = issued + 1
    /\ honoured' = honoured \cup {pair}
    /\ dealing' = [dealing EXCEPT ![u] = [at |-> "exchanged", row |-> {}, given |-> {<<pair, pair>>}]]
    /\ UNCHANGED <<provider, connection, outrun, wasted>>

\* a reply without a refresh token: the page says to consent again
NoRefreshToken(u) ==
    /\ dealing[u].at = "idle" /\ issued < MaxIssued
    /\ issued' = issued + 1
    /\ Drops(u)
    /\ UNCHANGED <<provider, connection, honoured, outrun, wasted>>

ZoomConsent(u, a)  == provider = "zoom" /\ Exchange(u, a)
TeamsConsent(u, a) == provider = "teams" /\ Exchange(u, a)
MeetConsent(u, a)  == provider = "google_meet" /\ (Exchange(u, a) \/ NoRefreshToken(u))

\* mutant: the refresh token of an older connection survives the upsert
UpsertedKeepingRefresh(user, pair) ==
    {[user |-> user, access |-> pair[1], due |-> FALSE,
      refresh |-> IF connection = {} THEN pair[2] ELSE (CHOOSE r \in connection : TRUE).refresh]}

\* Create...Connection: INSERT ... ON CONFLICT (creator_identity_id) DO UPDATE
Upserted(user, pair) == {[user |-> user, access |-> pair[1], refresh |-> pair[2], due |-> FALSE]}

CallbackStore(u) ==
    /\ dealing[u].at = "exchanged"
    /\ \E pair \in dealing[u].given :
         \/ \E user \in {pair[1].of, Unnamed} : connection' = Upserted(user, pair)
         \/ UNCHANGED connection
    /\ Drops(u)
    /\ UNCHANGED <<provider, honoured, issued, outrun, wasted>>

\* Delete...ConnectionByCreatorIdentity; the provider is not told
Deleted ==
    /\ connection # {}
    /\ connection' = {}
    /\ UNCHANGED <<provider, honoured, issued, dealing, outrun, wasted>>

ZoomDisconnect  == provider = "zoom" /\ Deleted
TeamsDisconnect == provider = "teams" /\ Deleted
MeetDisconnect  == provider = "google_meet" /\ Deleted

\* the access token comes within five minutes of its expiry
ComesDue ==
    /\ \E r \in connection : ~r.due /\ connection' = {[r EXCEPT !.due = TRUE]}
    /\ UNCHANGED <<provider, honoured, issued, dealing, outrun, wasted>>

-----------------------------------------------------------------------------
(* GetValidZoomAccessTokenContext, GetValidTeamsAccessTokenContext,        *)
(* GetValidGoogleMeetAccessTokenContext.                                   *)
ReadConnection(u) ==
    /\ dealing[u].at = "idle"
    /\ IF \E r \in connection : r.due
       THEN dealing' = [dealing EXCEPT ![u] = [Idle EXCEPT !.at = "due", !.row = connection]]
       ELSE Drops(u)
    /\ UNCHANGED <<provider, connection, honoured, issued, outrun, wasted>>

\* the pairs a renewal hands on: a reply without a refresh token keeps the old one
ZoomPairs(old, fresh)  == {<<fresh, fresh>>}
TeamsPairs(old, fresh) == {<<fresh, fresh>>, <<fresh, old>>}
MeetPairs(old, fresh)  == {<<fresh, fresh>>, <<fresh, old>>}
Pairs(old, fresh) == CASE provider = "zoom" -> ZoomPairs(old, fresh)
                       [] provider = "teams" -> TeamsPairs(old, fresh)
                       [] provider = "google_meet" -> MeetPairs(old, fresh)

\* external: Zoom drops the old refresh token, the others keep it; one that is
\* not honoured is refused
Honours(old, pair) == (IF provider = "zoom" THEN honoured \ {old} ELSE honoured) \cup {pair[2]}

Renew(u) ==
    /\ dealing[u].at = "due"
    /\ \E r \in dealing[u].row :
         \/ /\ r.refresh \in honoured /\ issued < MaxIssued
            /\ issued' = issued + 1
            /\ \E pair \in Pairs(r.refresh, [of |-> r.refresh.of, n |-> issued + 1]) :
                 /\ honoured' = Honours(r.refresh, pair)
                 /\ dealing' = [dealing EXCEPT ![u].at = "renewed", ![u].given = {pair}]
         \/ Drops(u) /\ UNCHANGED <<honoured, issued>>
    /\ UNCHANGED <<provider, connection, outrun, wasted>>

\* Update...ConnectionTokens: nothing is written when the row is gone
Saved(r, pair) == [r EXCEPT !.access = pair[1], !.refresh = pair[2], !.due = FALSE]

\* A renewal that cannot be stored fails the Zoom call; Teams and Google Meet
\* only log it and hand the access token out.
Save(u) ==
    /\ dealing[u].at = "renewed"
    /\ \E pair \in dealing[u].given :
         \/ /\ connection' = {Saved(r, pair) : r \in connection}
            /\ outrun' = (outrun \/ \E r \in connection : r.access.of # pair[1].of)
            /\ UNCHANGED wasted
         \/ wasted' = TRUE /\ UNCHANGED <<connection, outrun>>
    /\ Drops(u)
    /\ UNCHANGED <<provider, honoured, issued>>

\* the reply of the provider, or the process, is lost after the renewal
ReplyLost(u) ==
    /\ dealing[u].at = "renewed"
    /\ wasted' = TRUE /\ Drops(u)
    /\ UNCHANGED <<provider, connection, honoured, issued, outrun>>

-----------------------------------------------------------------------------
ConnectionsNext ==
    \/ ZoomDisconnect \/ TeamsDisconnect \/ MeetDisconnect \/ ComesDue
    \/ \E u \in Users :
         \/ \E a \in Accounts : ZoomConsent(u, a) \/ TeamsConsent(u, a) \/ MeetConsent(u, a)
         \/ CallbackStore(u) \/ ReadConnection(u) \/ Renew(u) \/ Save(u) \/ ReplyLost(u)

ConnectionsSpec == ConnectionsInit /\ [][ConnectionsNext]_connVars

-----------------------------------------------------------------------------
(* A connection is of one account: the user it names is the one whose      *)
(* tokens it holds, unless a slow renewal was written over a new consent.  *)
OneAccount ==
    ~outrun => \A r \in connection : r.access.of = r.refresh.of /\ r.user \in {Unnamed, r.access.of}

(* However many renewals overlap, the refresh token that is kept is one    *)
(* the provider still takes, unless a pair it issued was never stored: the *)
(* creator need not reconnect (zoom_auth.go:308 "backend keeps token       *)
(* valid").                                                                *)
StillRenewable ==
    ~wasted /\ (\A u \in Users : dealing[u].at # "renewed") =>
        \A r \in connection : r.refresh \in honoured

\* One account to a creator, whose tokens can still be renewed (zoom_auth.go:300-360).
ConnectionSound == OneAccount /\ StillRenewable
=============================================================================
