---------------------------- MODULE SessionPeople ----------------------------
(***************************************************************************)
(* Roles in a session and in the installation, and the stances on the      *)
(* session's decision.  A request checks in one statement and writes in a  *)
(* later one; Callers many overlap.  How people come to join is modelled   *)
(* in SessionInvitations: here they join with a role.                      *)
(***************************************************************************)
EXTENDS Naturals, FiniteSets

CONSTANTS
  People,
  Founder,    \* the admin who created the session
  Callers     \* bound of the model: requests served at a time

Roles == {"participant", "creator", "decision_maker"}
NoCall == [op |-> "none", person |-> Founder, role |-> "participant", since |-> "nothing"]

ASSUME SessionPeopleAssumption == Founder \in People

VARIABLES
  account,   \* users.global_role, or "none"
  joined,    \* session_memberships.role, or "none"
  stance,    \* who has a row in decision_stances
  outcome,   \* decision_outcome is recorded
  call,      \* the requests between their check and their write; since: what befell it in between
  excused    \* history: which guards were passed by two requests at once, or by a deletion

peopleVars == <<account, joined, stance, outcome, call, excused>>

Creators == {p \in People : joined[p] = "creator"}
Admins == {p \in People : account[p] = "admin"}
\* userIsSessionEditor
Editors == Creators \union Admins

Begin(c, op, p, r) ==
  /\ call[c] = NoCall
  /\ call' = [call EXCEPT ![c] = [op |-> op, person |-> p, role |-> r, since |-> "nothing"]]
Returns(c) == call' = [call EXCEPT ![c] = NoCall]
Crossing(c, ops, p) == \E d \in Callers \ {c} : call[d].op \in ops /\ call[d].person # p
Excuse(what, when) == excused' = IF when THEN excused \union {what} ELSE excused

\* mutant: no one is the last
OthersDoNotMatter(S, p) == TRUE

NotTheLast(S, p) == S \ {p} # {}

-----------------------------------------------------------------------------
SignUp(p) ==
  /\ account[p] = "none"
  /\ account' = [account EXCEPT ![p] = "participant"]
  /\ UNCHANGED <<joined, stance, outcome, call, excused>>

Join(p, r) ==
  /\ account[p] # "none" /\ joined[p] = "none"
  /\ joined' = [joined EXCEPT ![p] = r]
  /\ UNCHANGED <<account, stance, outcome, call, excused>>

Demotes(p, r) == joined[p] = "creator" /\ r # "creator"
Locked(p) == \E d \in Callers : call[d].op = "role" /\ call[d].person = p

\* UpdateSessionMembershipRole locks the member's row only, and counts the others.
RoleCount(c, p, r) ==
  /\ Editors # {}
  /\ joined[p] \notin {"none", r} /\ ~Locked(p)
  /\ Demotes(p, r) => NotTheLast(Creators, p)
  /\ Begin(c, "role", p, r)
  /\ UNCHANGED <<account, joined, stance, outcome, excused>>

RoleWrite(c) ==
  /\ call[c].op = "role"
  /\ joined' = [joined EXCEPT ![call[c].person] = call[c].role]
  /\ Excuse("creators", Demotes(call[c].person, call[c].role) /\ Crossing(c, {"role"}, call[c].person))
  /\ Returns(c)
  /\ UNCHANGED <<account, stance, outcome>>

\* UpdateAdminUserRole and DeleteAdminUser: the last admin stays.
AdminCheck(c, op, p) ==
  /\ Admins # {} /\ account[p] # "none"
  /\ account[p] = "admin" /\ op # "promote" => NotTheLast(Admins, p)
  /\ Begin(c, op, p, "participant")
  /\ UNCHANGED <<account, joined, stance, outcome, excused>>

SetUserGlobalRole(c) ==
  /\ call[c].op \in {"promote", "demote"}
  /\ account' = IF call[c].since = "deleted" THEN account
                ELSE [account EXCEPT ![call[c].person] = IF call[c].op = "promote" THEN "admin" ELSE "participant"]
  /\ Excuse("admins", call[c].op = "demote" /\ Crossing(c, {"demote", "delete"}, call[c].person))
  /\ Returns(c)
  /\ UNCHANGED <<joined, stance, outcome>>

\* mutant: the memberships of a deleted account stay
RowsStay(p) == joined

Cascaded(p) == [joined EXCEPT ![p] = "none"]

\* The rows that refer to the account go with it; a locked one is waited for.
DeleteUser(c) ==
  LET p == call[c].person IN
  /\ call[c].op = "delete" /\ ~Locked(p)
  /\ IF call[c].since = "deleted"
     THEN Returns(c) /\ UNCHANGED <<account, joined, stance, excused>>
     ELSE /\ account' = [account EXCEPT ![p] = "none"]
          /\ joined' = Cascaded(p)
          /\ stance' = stance \ {p}
          /\ call' = [d \in Callers |-> IF d = c THEN NoCall
                                        ELSE IF call[d].person = p /\ call[d] # NoCall THEN [call[d] EXCEPT !.since = "deleted"] ELSE call[d]]
          /\ excused' = excused \union (IF joined[p] = "creator" THEN {"creators"} ELSE {})
                                \union (IF Crossing(c, {"demote", "delete"}, p) THEN {"admins"} ELSE {})
  /\ UNCHANGED outcome

-----------------------------------------------------------------------------
\* mutant: the outcome is not looked at
AlwaysOpen == TRUE

Undecided == ~outcome

\* SessionSubmitStance, SessionDeleteStance: any account may
VoteCheck(c, op, p) ==
  /\ account[p] # "none" /\ Undecided
  /\ Begin(c, op, p, "participant")
  /\ UNCHANGED <<account, joined, stance, outcome, excused>>

VoteWrite(c) ==
  /\ call[c].op \in {"vote", "unvote"}
  /\ stance' = IF call[c].since = "deleted" THEN stance
               ELSE IF call[c].op = "vote" THEN stance \union {call[c].person} ELSE stance \ {call[c].person}
  /\ Returns(c)
  /\ UNCHANGED <<account, joined, outcome, excused>>

\* The outcome can be recorded, and removed again.
UpdateSessionContext ==
  /\ Editors # {}
  /\ outcome' = ~outcome
  /\ call' = [c \in Callers |-> IF call[c].op \in {"vote", "unvote"} /\ call[c].since = "nothing"
                                THEN [call[c] EXCEPT !.since = "outcome"] ELSE call[c]]
  /\ UNCHANGED <<account, joined, stance, excused>>

-----------------------------------------------------------------------------
PeopleInit ==
  /\ account = [p \in People |-> IF p = Founder THEN "admin" ELSE "none"]
  /\ joined = [p \in People |-> IF p = Founder THEN "creator" ELSE "none"]
  /\ stance = {} /\ outcome = FALSE
  /\ call = [c \in Callers |-> NoCall]
  /\ excused = {}

PeopleNext ==
  \/ UpdateSessionContext
  \/ \E p \in People : SignUp(p) \/ \E r \in Roles : Join(p, r)
  \/ \E c \in Callers :
       \/ RoleWrite(c) \/ SetUserGlobalRole(c) \/ DeleteUser(c) \/ VoteWrite(c)
       \/ \E p \in People :
            \/ \E r \in Roles : RoleCount(c, p, r)
            \/ \E op \in {"promote", "demote", "delete"} : AdminCheck(c, op, p)
            \/ \E op \in {"vote", "unvote"} : VoteCheck(c, op, p)

PeopleSpec == PeopleInit /\ [][PeopleNext]_peopleVars

-----------------------------------------------------------------------------
PeopleTypeOK ==
  /\ account \in [People -> {"none", "participant", "admin"}]
  /\ joined \in [People -> Roles \union {"none"}]
  /\ stance \subseteq People /\ outcome \in BOOLEAN
  /\ excused \subseteq {"creators", "admins"}
  /\ \A c \in Callers : call[c].person \in People /\ call[c].role \in Roles
  /\ \A p \in People : account[p] = "none" => joined[p] = "none" /\ p \notin stance

\* The session keeps a creator and the installation an admin, unless two requests
\* took the last two at the same time or a creator's account was deleted
\* (session_memberships.go:135-200, admin_users.go:171-183, 249-260).
AuthorityKept ==
  /\ Creators # {} \/ "creators" \in excused
  /\ Admins # {} \/ "admins" \in excused

\* Once the outcome is recorded a stance changes only by a request that had begun
\* before, or goes with its account (session_stances.go:58-63, 207-212).
StancesLocked ==
  [][outcome /\ stance' # stance =>
       account' # account \/ \E c \in Callers : call[c].since = "outcome" /\ call'[c] = NoCall]_peopleVars
=============================================================================
