------------------------- MODULE SessionInvitations -------------------------
(***************************************************************************)
(* Invitations to a session: creating, renewing, revoking and accepting    *)
(* them.  Each request reads in one statement and writes in a later one,   *)
(* and requests overlap.  Roles do not matter here (see SessionPeople).    *)
(***************************************************************************)
EXTENDS Naturals, FiniteSets

CONSTANTS
  Guests,     \* e-mail addresses; a deleted account may be registered anew
  Host,       \* the creator of the session
  Invites,    \* bound of the model: rows of session_invitations
  Desks       \* bound of the model: requests served at a time

ASSUME SessionInvitationsAssumption == Host \in Guests

NoInvite == [status |-> "none", email |-> Host, from |-> Host, by |-> FALSE]
NoErrand == [op |-> "none", email |-> Host, inv |-> {}, gone |-> FALSE]

VARIABLES
  known,     \* addresses with an account
  belongs,   \* addresses with a membership
  invite,    \* "lapsed" is pending past expires_at; by: accepted_by_user_id is set
  errand,    \* requests between their read and their write; gone: the account was deleted
  crossed    \* history: addresses for which overlapping requests were served

invitationVars == <<known, belongs, invite, errand, crossed>>

Starts(d, op, e, i) ==
  /\ errand[d] = NoErrand
  /\ errand' = [errand EXCEPT ![d] = [NoErrand EXCEPT !.op = op, !.email = e, !.inv = i]]
Proceeds(d, op) == errand' = [errand EXCEPT ![d].op = op]
Leaves(d) == errand' = [errand EXCEPT ![d] = NoErrand]

-----------------------------------------------------------------------------
\* from is the member who invites; membership is looked at first.
InviteCheck(d, e, m) ==
  /\ m \in belongs /\ e \notin belongs
  /\ Starts(d, "invite", e, {m})
  /\ UNCHANGED <<known, belongs, invite, crossed>>

\* mutant: earlier invitations stay pending
NothingRevoked(e) == invite' = invite

RevokePendingBySessionAndEmail(e) ==
  invite' = [i \in Invites |-> IF invite[i].status \in {"pending", "lapsed"} /\ invite[i].email = e
                               THEN [invite[i] EXCEPT !.status = "revoked"] ELSE invite[i]]

InviteRevoke(d) ==
  /\ errand[d].op = "invite"
  /\ RevokePendingBySessionAndEmail(errand[d].email)
  /\ Proceeds(d, "insert")
  /\ crossed' = crossed \union {e \in {errand[d].email} :
                                  \E o \in Desks \ {d} : errand[o].op = "insert" /\ errand[o].email = e}
  /\ UNCHANGED <<known, belongs>>

\* The insert fails if the inviter's account has gone.
InviteInsert(d, i) ==
  /\ errand[d].op = "insert" /\ invite[i] = NoInvite
  /\ \A m \in errand[d].inv :
       invite' = IF m \notin known THEN invite
                 ELSE [invite EXCEPT ![i] = [NoInvite EXCEPT !.status = "pending", !.email = errand[d].email, !.from = m]]
  /\ Leaves(d)
  /\ UNCHANGED <<known, belongs, crossed>>

\* AcceptByInvitationID and Accept
AcceptRead(d, i) ==
  /\ invite[i].status = "pending" /\ invite[i].email \in known
  /\ Starts(d, "accept", invite[i].email, {i})
  /\ UNCHANGED <<known, belongs, invite, crossed>>

RegisterRead(d, i) ==
  /\ invite[i].status = "pending"
  /\ Starts(d, "register", invite[i].email, {i})
  /\ UNCHANGED <<known, belongs, invite, crossed>>

\* users.email is unique.
RegisterUser(d) ==
  /\ errand[d].op = "register"
  /\ IF errand[d].email \in known
     THEN Leaves(d) /\ UNCHANGED known
     ELSE known' = known \union {errand[d].email} /\ Proceeds(d, "accept")
  /\ UNCHANGED <<belongs, invite, crossed>>

\* One membership per person, and only for an account that still exists.
AcceptJoin(d) ==
  /\ errand[d].op = "accept"
  /\ IF errand[d].email \in belongs \/ errand[d].gone
     THEN Leaves(d) /\ UNCHANGED belongs
     ELSE belongs' = belongs \union {errand[d].email} /\ Proceeds(d, "mark")
  /\ UNCHANGED <<known, invite, crossed>>

\* The status is not looked at again.  The update may fail.
AcceptMark(d) ==
  /\ errand[d].op = "mark"
  /\ \A i \in errand[d].inv :
       \/ /\ invite[i] # NoInvite /\ ~errand[d].gone
          /\ invite' = [invite EXCEPT ![i] = [@ EXCEPT !.status = "accepted", !.by = TRUE]]
          /\ crossed' = crossed \union {e \in {errand[d].email} :
                                          \E o \in Desks : errand[o].op = "revoke" /\ i \in errand[o].inv}
       \/ UNCHANGED <<invite, crossed>>
  /\ Leaves(d)
  /\ UNCHANGED <<known, belongs>>

Revocable(i) == invite[i].status \in {"pending", "lapsed"}

RevokeRead(d, i) ==
  /\ belongs # {} /\ Revocable(i)
  /\ Starts(d, "revoke", invite[i].email, {i})
  /\ UNCHANGED <<known, belongs, invite, crossed>>

\* Resend and GetAcceptURL
RenewRead(d, i) ==
  /\ belongs # {} /\ invite[i].status = "pending"
  /\ Starts(d, "renew", invite[i].email, {i})
  /\ UNCHANGED <<known, belongs, invite, crossed>>

Renewed(i) == IF invite[i].status = "lapsed" THEN "pending" ELSE invite[i].status

InviteWrite(d) ==
  /\ errand[d].op \in {"revoke", "renew"}
  /\ \A i \in errand[d].inv :
       invite' = IF invite[i] = NoInvite THEN invite
                 ELSE [invite EXCEPT ![i].status = IF errand[d].op = "revoke" THEN "revoked" ELSE Renewed(i)]
  /\ Leaves(d)
  /\ UNCHANGED <<known, belongs, crossed>>

InviteLapses(i) ==
  /\ invite[i].status = "pending"
  /\ invite' = [invite EXCEPT ![i].status = "lapsed"]
  /\ UNCHANGED <<known, belongs, errand, crossed>>

SignsUp(e) ==
  /\ e \notin known
  /\ known' = known \union {e}
  /\ UNCHANGED <<belongs, invite, errand, crossed>>

\* DeleteUser: memberships and invitations given go with the account.
AccountRemoved(e) ==
  /\ e \in known
  /\ known' = known \ {e}
  /\ belongs' = belongs \ {e}
  /\ invite' = [i \in Invites |-> IF invite[i].from = e THEN NoInvite
                                  ELSE IF invite[i].email = e THEN [invite[i] EXCEPT !.by = FALSE] ELSE invite[i]]
  /\ errand' = [d \in Desks |->
                  IF \E i \in errand[d].inv \intersect Invites : invite[i].from = e THEN NoErrand
                  ELSE IF errand[d].email = e /\ errand[d].op \in {"accept", "mark"}
                       THEN [errand[d] EXCEPT !.gone = TRUE] ELSE errand[d]]
  /\ UNCHANGED crossed

-----------------------------------------------------------------------------
InvitationsInit ==
  /\ known = {Host} /\ belongs = {Host}
  /\ invite = [i \in Invites |-> NoInvite]
  /\ errand = [d \in Desks |-> NoErrand]
  /\ crossed = {}

InvitationsNext ==
  \/ \E i \in Invites : InviteLapses(i)
  \/ \E e \in Guests : SignsUp(e) \/ AccountRemoved(e)
  \/ \E d \in Desks :
       \/ InviteRevoke(d) \/ RegisterUser(d) \/ AcceptJoin(d) \/ AcceptMark(d) \/ InviteWrite(d)
       \/ \E e, m \in Guests : InviteCheck(d, e, m)
       \/ \E i \in Invites : InviteInsert(d, i) \/ AcceptRead(d, i) \/ RegisterRead(d, i)
                             \/ RevokeRead(d, i) \/ RenewRead(d, i)

InvitationsSpec == InvitationsInit /\ [][InvitationsNext]_invitationVars

-----------------------------------------------------------------------------
InvitationsTypeOK ==
  /\ belongs \subseteq known /\ known \subseteq Guests /\ crossed \subseteq Guests
  /\ \A i \in Invites : /\ invite[i].status \in {"none", "pending", "lapsed", "accepted", "revoked"}
                        /\ invite[i].email \in Guests /\ invite[i].from \in Guests /\ invite[i].by \in BOOLEAN
  /\ \A d \in Desks : errand[d].email \in Guests

\* ListInvitations shows a member by the invitation that names them, if there is one.
ShownAsMember(e) ==
  LET naming == {i \in Invites : invite[i].email = e /\ invite[i].by}
  IN  naming = {} \/ \E i \in naming : invite[i].status = "accepted"

\* Of the invitations of one address at most one can be accepted, an accepted one names
\* a member, and the Members panel shows every member as one - unless two requests for
\* that address overlapped (service.go:60-77, 143-172, 272-281; invitations_handlers.go:99-226).
InvitationsAgree ==
  /\ \A i \in Invites : invite[i].status = "accepted" /\ invite[i].by => invite[i].email \in belongs
  /\ \A e \in Guests \ crossed :
       /\ \A i, j \in Invites : invite[i].status = "pending" /\ invite[j].status = "pending"
                                /\ invite[i].email = e /\ invite[j].email = e => i = j
       /\ e \in belongs => ShownAsMember(e)
===============================================================================
