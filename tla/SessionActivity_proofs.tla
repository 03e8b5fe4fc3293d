------------------------ MODULE SessionActivity_proofs ------------------------
(***************************************************************************)
(* Proofs about the parts that MCSessionActivity runs, a section for each. *)
(***************************************************************************)
EXTENDS MCSessionActivity, SessionServices_proofs, SequenceTheorems, FiniteSetTheorems, TLAPS

-----------------------------------------------------------------------------
(* Sessions keep an authority (SessionPeople).                              *)

Calls == [op : {"none", "role", "promote", "demote", "delete", "vote", "unvote"},
          person : People, role : Roles, since : {"nothing", "outcome", "deleted"}]

Demoting(c) == call[c].op = "role" /\ Demotes(call[c].person, call[c].role)
Dropping(c) == call[c].op \in {"demote", "delete"}
Voting(c) == call[c].op \in {"vote", "unvote"}

\* What makes the checks of the requests last until their writes: the row a role
\* change has locked stays in the session and has no second change under way, and
\* while nothing is excused, whoever is about to be demoted is not the last one.
CallsTyped == call \in [Callers -> Calls] /\ PeopleTypeOK
RowsLocked ==
  \A c \in Callers : call[c].op = "role" =>
    /\ joined[call[c].person] # "none"
    /\ \A d \in Callers : call[d].op = "role" /\ call[d].person = call[c].person => d = c
VotersStay ==
  \A c \in Callers : Voting(c) /\ call[c].since # "deleted" =>
    account[call[c].person] # "none" /\ (outcome => call[c].since = "outcome")
CreatorsLast ==
  "creators" \notin excused =>
    Creators # {} /\ \A c \in Callers : Demoting(c) => NotTheLast(Creators, call[c].person)
AdminsLast ==
  "admins" \notin excused =>
    Admins # {} /\ \A c \in Callers : Dropping(c) => NotTheLast(Admins, call[c].person)
PeopleInv == CallsTyped /\ RowsLocked /\ VotersStay /\ CreatorsLast /\ AdminsLast

LEMMA NoCallTyped == NoCall \in Calls /\ NoCall.op = "none"
  BY SessionPeopleAssumption DEF NoCall, Calls, Roles

\* Opening a request leaves every other request as it was.
LEMMA BeginOpens ==
  ASSUME CallsTyped, NEW c \in Callers, NEW p \in People, NEW r \in Roles,
         NEW op \in {"role", "promote", "demote", "delete", "vote", "unvote"}, Begin(c, op, p, r)
  PROVE  /\ call' \in [Callers -> Calls]
         /\ call[c].op = "none"
         /\ call'[c].op = op /\ call'[c].person = p /\ call'[c].role = r /\ call'[c].since = "nothing"
         /\ \A d \in Callers \ {c} : call'[d] = call[d]
<1>1. [op |-> op, person |-> p, role |-> r, since |-> "nothing"] \in Calls
  BY DEF Calls
<1> QED BY <1>1, NoCallTyped DEF CallsTyped, Begin

LEMMA ReturnsClose ==
  ASSUME CallsTyped, NEW c \in Callers, Returns(c)
  PROVE  /\ call' \in [Callers -> Calls]
         /\ call'[c].op = "none"
         /\ \A d \in Callers \ {c} : call'[d] = call[d]
  BY NoCallTyped DEF CallsTyped, Returns

LEMMA SignUpKeeps == ASSUME PeopleInv, NEW p \in People, SignUp(p) PROVE PeopleInv'
<1> USE DEF PeopleInv, SignUp
<1>1. CallsTyped' BY DEF CallsTyped, PeopleTypeOK
<1>2. RowsLocked' BY DEF RowsLocked
<1>3. VotersStay' BY DEF VotersStay, Voting, CallsTyped, PeopleTypeOK, Calls
<1>4. CreatorsLast' BY DEF CreatorsLast, Creators, Demoting, Demotes, NotTheLast
<1>5. Admins' = Admins BY DEF Admins, CallsTyped, PeopleTypeOK
<1>6. AdminsLast' BY <1>5 DEF AdminsLast, Dropping, NotTheLast
<1> QED BY <1>1, <1>2, <1>3, <1>4, <1>6

LEMMA JoinKeeps == ASSUME PeopleInv, NEW p \in People, NEW r \in Roles, Join(p, r) PROVE PeopleInv'
<1> USE DEF PeopleInv, Join
<1>1. CallsTyped' BY DEF CallsTyped, PeopleTypeOK
<1>2. RowsLocked' BY DEF RowsLocked, CallsTyped, PeopleTypeOK, Calls, Roles
<1>3. VotersStay' BY DEF VotersStay, Voting
<1>4. Creators \subseteq Creators' BY DEF Creators, CallsTyped, PeopleTypeOK
<1>5. ASSUME NEW c \in Callers, Demoting(c)' PROVE Demoting(c)
  BY <1>5 DEF Demoting, Demotes, RowsLocked, CallsTyped, PeopleTypeOK
<1>6. CreatorsLast' BY <1>4, <1>5 DEF CreatorsLast, NotTheLast
<1>7. AdminsLast' BY DEF AdminsLast, Admins, Dropping, NotTheLast
<1> QED BY <1>1, <1>2, <1>3, <1>6, <1>7

LEMMA RoleCountKeeps ==
  ASSUME PeopleInv, NEW c \in Callers, NEW p \in People, NEW r \in Roles, RoleCount(c, p, r)
  PROVE  PeopleInv'
<1> USE DEF PeopleInv
<1>0. /\ Editors # {} /\ joined[p] \notin {"none", r} /\ ~Locked(p)
      /\ Demotes(p, r) => NotTheLast(Creators, p)
      /\ Begin(c, "role", p, r)
      /\ UNCHANGED <<account, joined, stance, outcome, excused>>
  BY DEF RoleCount
<1>1. /\ call' \in [Callers -> Calls] /\ call[c].op = "none"
      /\ call'[c].op = "role" /\ call'[c].person = p /\ call'[c].role = r
      /\ \A d \in Callers \ {c} : call'[d] = call[d]
  BY <1>0, BeginOpens
<1>2. CallsTyped' BY <1>0, <1>1 DEF CallsTyped, PeopleTypeOK, Calls
<1>3. RowsLocked' BY <1>0, <1>1 DEF RowsLocked, Locked
<1>4. VotersStay' BY <1>0, <1>1 DEF VotersStay, Voting
<1>5. CreatorsLast' BY <1>0, <1>1 DEF CreatorsLast, Creators, Demoting, Demotes, NotTheLast
<1>6. AdminsLast' BY <1>0, <1>1 DEF AdminsLast, Admins, Dropping, NotTheLast
<1> QED BY <1>2, <1>3, <1>4, <1>5, <1>6

LEMMA RoleWriteKeeps == ASSUME PeopleInv, NEW c \in Callers, RoleWrite(c) PROVE PeopleInv'
<1> USE DEF PeopleInv
<1> DEFINE p == call[c].person  r == call[c].role
<1>0. /\ call[c].op = "role" /\ p \in People /\ r \in Roles
      /\ joined' = [joined EXCEPT ![p] = r]
      /\ Excuse("creators", Demotes(p, r) /\ Crossing(c, {"role"}, p))
      /\ Returns(c)
      /\ UNCHANGED <<account, stance, outcome>>
  BY DEF RoleWrite, CallsTyped, Calls
<1>1. /\ call' \in [Callers -> Calls] /\ call'[c].op = "none"
      /\ \A d \in Callers \ {c} : call'[d] = call[d]
  BY <1>0, ReturnsClose
<1> HIDE DEF p, r
<1>2. joined[p] # "none" /\ \A d \in Callers : call[d].op = "role" /\ call[d].person = p => d = c
  BY <1>0 DEF RowsLocked, p
<1>3. joined \in [People -> Roles \union {"none"}] /\ excused \subseteq {"creators", "admins"}
  BY DEF CallsTyped, PeopleTypeOK
<1>4. excused \subseteq excused' /\ ("admins" \in excused' => "admins" \in excused)
  BY <1>0, <1>3 DEF Excuse
<1>5. CallsTyped'
  <2>1. excused' \subseteq {"creators", "admins"} BY <1>0, <1>3 DEF Excuse
  <2>2. joined' \in [People -> Roles \union {"none"}] BY <1>0, <1>3
  <2> QED BY <1>0, <1>1, <1>2, <2>1, <2>2 DEF CallsTyped, PeopleTypeOK, Calls
<1>6. RowsLocked'
  <2>1. ASSUME NEW d \in Callers, call'[d].op = "role" PROVE call'[d] = call[d] /\ d # c
    BY <1>1, <2>1
  <2> QED BY <1>0, <1>1, <1>2, <1>3, <2>1 DEF RowsLocked, CallsTyped, Calls, Roles
<1>7. VotersStay' BY <1>0, <1>1 DEF VotersStay, Voting
<1>8. CreatorsLast'
  <2> SUFFICES ASSUME "creators" \notin excused' PROVE CreatorsLast'
    BY DEF CreatorsLast
  <2>1. /\ Creators # {}
        /\ \A d \in Callers : Demoting(d) => NotTheLast(Creators, call[d].person)
    BY <1>4 DEF CreatorsLast
  <2>2. ~(Demotes(p, r) /\ Crossing(c, {"role"}, p)) BY <1>0 DEF Excuse
  <2>3. ASSUME NEW d \in Callers, Demoting(d)'
        PROVE  d # c /\ call'[d] = call[d] /\ Demoting(d) /\ call[d].person # p
    BY <1>0, <1>1, <1>2, <2>3 DEF Demoting, Demotes, RowsLocked, CallsTyped, Calls
  <2>4. CASE Demotes(p, r)
    <3>1. Creators' = Creators \ {p} BY <1>0, <1>3, <2>4 DEF Creators, Demotes
    <3>2. NotTheLast(Creators, p) BY <1>0, <2>1, <2>4 DEF Demoting, p, r
    <3>3. \A d \in Callers : ~Demoting(d)'
      BY <1>0, <2>2, <2>3, <2>4 DEF Crossing, Demoting
    <3> QED BY <3>1, <3>2, <3>3 DEF CreatorsLast, NotTheLast
  <2>5. CASE ~Demotes(p, r)
    <3>1. Creators \subseteq Creators' BY <1>0, <1>3, <2>5 DEF Creators, Demotes
    <3> QED BY <3>1, <2>1, <2>3 DEF CreatorsLast, NotTheLast
  <2> QED BY <2>4, <2>5
<1>9. AdminsLast' BY <1>0, <1>1, <1>4 DEF AdminsLast, Admins, Dropping, NotTheLast
<1> QED BY <1>5, <1>6, <1>7, <1>8, <1>9

LEMMA AdminCheckKeeps ==
  ASSUME PeopleInv, NEW c \in Callers, NEW p \in People, NEW op \in {"promote", "demote", "delete"},
         AdminCheck(c, op, p)
  PROVE  PeopleInv'
<1> USE DEF PeopleInv
<1>0. /\ Admins # {}
      /\ account[p] = "admin" /\ op # "promote" => NotTheLast(Admins, p)
      /\ Begin(c, op, p, "participant")
      /\ UNCHANGED <<account, joined, stance, outcome, excused>>
  BY DEF AdminCheck
<1>1. /\ call' \in [Callers -> Calls] /\ call[c].op = "none"
      /\ call'[c].op = op /\ call'[c].person = p
      /\ \A d \in Callers \ {c} : call'[d] = call[d]
  <2>1. "participant" \in Roles BY DEF Roles
  <2> QED BY <1>0, <2>1, BeginOpens
<1>2. CallsTyped' BY <1>0, <1>1 DEF CallsTyped, PeopleTypeOK, Calls
<1>3. RowsLocked' BY <1>0, <1>1 DEF RowsLocked
<1>4. VotersStay' BY <1>0, <1>1 DEF VotersStay, Voting
<1>5. CreatorsLast' BY <1>0, <1>1 DEF CreatorsLast, Creators, Demoting, Demotes, NotTheLast
<1>6. op # "promote" => NotTheLast(Admins, p)
  \* Who is not an admin is no loss.
  BY <1>0 DEF NotTheLast, Admins
<1>7. AdminsLast' BY <1>0, <1>1, <1>6 DEF AdminsLast, Admins, Dropping, NotTheLast
<1> QED BY <1>2, <1>3, <1>4, <1>5, <1>7

LEMMA SetUserGlobalRoleKeeps ==
  ASSUME PeopleInv, NEW c \in Callers, SetUserGlobalRole(c) PROVE PeopleInv'
<1> USE DEF PeopleInv
<1> DEFINE p == call[c].person
<1>0. /\ call[c].op \in {"promote", "demote"} /\ p \in People
      /\ account' = IF call[c].since = "deleted" THEN account
                    ELSE [account EXCEPT ![p] = IF call[c].op = "promote" THEN "admin" ELSE "participant"]
      /\ Excuse("admins", call[c].op = "demote" /\ Crossing(c, {"demote", "delete"}, p))
      /\ Returns(c)
      /\ UNCHANGED <<joined, stance, outcome>>
  BY DEF SetUserGlobalRole, CallsTyped, Calls
<1>1. /\ call' \in [Callers -> Calls] /\ call'[c].op = "none"
      /\ \A d \in Callers \ {c} : call'[d] = call[d]
  BY <1>0, ReturnsClose
<1> HIDE DEF p
<1>2. /\ account \in [People -> {"none", "participant", "admin"}]
      /\ excused \subseteq {"creators", "admins"}
      /\ \A q \in People : account[q] = "none" => joined[q] = "none" /\ q \notin stance
  BY DEF CallsTyped, PeopleTypeOK
<1>3. /\ excused \subseteq excused' /\ excused' \subseteq {"creators", "admins"}
      /\ "creators" \in excused' => "creators" \in excused
  BY <1>0, <1>2 DEF Excuse
<1>4. /\ account' \in [People -> {"none", "participant", "admin"}]
      /\ \A q \in People : account'[q] = "none" => account[q] = "none"
  BY <1>0, <1>2
<1>5. CallsTyped'
  BY <1>0, <1>1, <1>2, <1>3, <1>4 DEF CallsTyped, PeopleTypeOK, Calls
<1>6. RowsLocked' BY <1>0, <1>1 DEF RowsLocked
<1>7. VotersStay'
  BY <1>0, <1>1, <1>4 DEF VotersStay, Voting, CallsTyped, Calls
<1>8. CreatorsLast' BY <1>0, <1>1, <1>3 DEF CreatorsLast, Creators, Demoting, Demotes, NotTheLast
<1>9. AdminsLast'
  <2> SUFFICES ASSUME "admins" \notin excused' PROVE AdminsLast'
    BY DEF AdminsLast
  <2>1. /\ Admins # {}
        /\ \A d \in Callers : Dropping(d) => NotTheLast(Admins, call[d].person)
    BY <1>3 DEF AdminsLast
  <2>2. ~(call[c].op = "demote" /\ Crossing(c, {"demote", "delete"}, p)) BY <1>0 DEF Excuse
  <2>3. ASSUME NEW d \in Callers, Dropping(d)'
        PROVE  d # c /\ call'[d] = call[d] /\ Dropping(d)
    BY <1>1, <2>3 DEF Dropping
  <2>4. CASE call[c].op = "demote"
    <3>1. Admins \ {p} \subseteq Admins' BY <1>0, <1>2 DEF Admins
    <3>2. NotTheLast(Admins, p) BY <2>1, <2>4 DEF Dropping, p
    <3>3. \A d \in Callers : Dropping(d)' => call'[d].person = p
      BY <2>2, <2>3, <2>4 DEF Crossing, Dropping
    <3> QED BY <3>1, <3>2, <3>3 DEF AdminsLast, NotTheLast
  <2>5. CASE call[c].op = "promote"
    <3>1. Admins \subseteq Admins' BY <1>0, <1>2, <2>5 DEF Admins
    <3> QED BY <3>1, <2>1, <2>3 DEF AdminsLast, NotTheLast
  <2> QED BY <1>0, <2>4, <2>5
<1> QED BY <1>5, <1>6, <1>7, <1>8, <1>9

LEMMA DeleteUserKeeps == ASSUME PeopleInv, NEW c \in Callers, DeleteUser(c) PROVE PeopleInv'
<1> USE DEF PeopleInv
<1> DEFINE p == call[c].person
<1>0. call[c].op = "delete" /\ p \in People /\ ~Locked(p) /\ UNCHANGED outcome
  BY DEF DeleteUser, CallsTyped, Calls
<1>1. CASE call[c].since = "deleted"
  <2>0. Returns(c) /\ UNCHANGED <<account, joined, stance, excused>> BY <1>1 DEF DeleteUser
  <2>1. /\ call' \in [Callers -> Calls] /\ call'[c].op = "none"
        /\ \A d \in Callers \ {c} : call'[d] = call[d]
    BY <2>0, ReturnsClose
  <2>2. CallsTyped' BY <1>0, <2>0, <2>1 DEF CallsTyped, PeopleTypeOK, Calls
  <2>3. RowsLocked' BY <2>0, <2>1 DEF RowsLocked
  <2>4. VotersStay' BY <1>0, <2>0, <2>1 DEF VotersStay, Voting
  <2>5. CreatorsLast' BY <2>0, <2>1 DEF CreatorsLast, Creators, Demoting, Demotes, NotTheLast
  <2>6. AdminsLast' BY <2>0, <2>1 DEF AdminsLast, Admins, Dropping, NotTheLast
  <2> QED BY <2>2, <2>3, <2>4, <2>5, <2>6
<1>2. CASE call[c].since # "deleted"
  <2>0. /\ account' = [account EXCEPT ![p] = "none"]
        /\ joined' = [joined EXCEPT ![p] = "none"]
        /\ stance' = stance \ {p}
        /\ call' = [d \in Callers |-> IF d = c THEN NoCall
                      ELSE IF call[d].person = p /\ call[d] # NoCall THEN [call[d] EXCEPT !.since = "deleted"]
                      ELSE call[d]]
        /\ excused' = excused \union (IF joined[p] = "creator" THEN {"creators"} ELSE {})
                              \union (IF Crossing(c, {"demote", "delete"}, p) THEN {"admins"} ELSE {})
    BY <1>2 DEF DeleteUser, Cascaded
  <2>1. /\ call \in [Callers -> Calls]
        /\ account \in [People -> {"none", "participant", "admin"}]
        /\ joined \in [People -> Roles \union {"none"}]
        /\ stance \subseteq People /\ excused \subseteq {"creators", "admins"}
        /\ \A q \in People : account[q] = "none" => joined[q] = "none" /\ q \notin stance
    BY DEF CallsTyped, PeopleTypeOK
  <2>2. /\ call' \in [Callers -> Calls] /\ call'[c].op = "none"
        /\ \A d \in Callers \ {c} :
             /\ call'[d].op = call[d].op /\ call'[d].person = call[d].person /\ call'[d].role = call[d].role
             /\ IF call[d].person = p /\ call[d] # NoCall THEN call'[d].since = "deleted"
                ELSE call'[d].since = call[d].since
    <3>1. \A d \in Callers : [call[d] EXCEPT !.since = "deleted"] \in Calls BY <2>1 DEF Calls
    <3>2. call' \in [Callers -> Calls] BY <2>0, <2>1, <3>1, NoCallTyped
    <3> QED BY <2>0, <2>1, <3>2, NoCallTyped DEF Calls
  <2> HIDE DEF p
  <2>3. CallsTyped'
    <3>1. account' \in [People -> {"none", "participant", "admin"}] BY <2>0, <2>1
    <3>2. joined' \in [People -> Roles \union {"none"}] BY <2>0, <2>1
    <3>3. \A q \in People : account'[q] = "none" => joined'[q] = "none" /\ q \notin stance' BY <2>0, <2>1
    <3>4. excused' \subseteq {"creators", "admins"} /\ stance' \subseteq People BY <2>0, <2>1
    <3> QED BY <1>0, <2>2, <3>1, <3>2, <3>3, <3>4 DEF CallsTyped, PeopleTypeOK, Calls
  <2>4. RowsLocked'
    <3>1. ASSUME NEW d \in Callers, call'[d].op = "role"
          PROVE  d # c /\ call[d].op = "role" /\ call'[d].person = call[d].person /\ call[d].person # p
      BY <1>0, <2>2, <3>1 DEF Locked
    <3> QED BY <2>0, <2>1, <3>1 DEF RowsLocked, Calls
  <2>5. VotersStay'
    <3>1. ASSUME NEW d \in Callers, Voting(d)', call'[d].since # "deleted"
          PROVE  /\ Voting(d) /\ call[d].since # "deleted" /\ call'[d].person = call[d].person
                 /\ call'[d].since = call[d].since /\ call[d].person # p
      BY <2>2, <3>1, NoCallTyped DEF Voting
    <3>2. \A d \in Callers : call[d].person \in People BY <2>1 DEF Calls
    <3> QED BY <1>0, <2>0, <2>1, <3>1, <3>2 DEF VotersStay
  <2>6. CreatorsLast'
    <3> SUFFICES ASSUME "creators" \notin excused' PROVE CreatorsLast'
      BY DEF CreatorsLast
    <3>1. joined[p] # "creator" /\ "creators" \notin excused BY <2>0
    <3>2. Creators' = Creators BY <1>0, <2>0, <2>1, <3>1 DEF Creators
    <3>3. ASSUME NEW d \in Callers, Demoting(d)' PROVE Demoting(d) /\ call'[d].person = call[d].person
      <4>1. d # c /\ call[d].op = "role" BY <2>2, <3>3 DEF Demoting
      <4>2. call[d].person # p /\ call[d].person \in People BY <1>0, <2>1, <4>1 DEF Locked, Calls
      <4> QED BY <2>0, <2>1, <2>2, <3>3, <4>1, <4>2 DEF Demoting, Demotes
    <3> QED BY <3>1, <3>2, <3>3 DEF CreatorsLast
  <2>7. AdminsLast'
    <3> SUFFICES ASSUME "admins" \notin excused' PROVE AdminsLast'
      BY DEF AdminsLast
    <3>1. "admins" \notin excused /\ ~Crossing(c, {"demote", "delete"}, p) BY <2>0
    <3>2. NotTheLast(Admins, p) BY <1>0, <3>1 DEF AdminsLast, Dropping, p
    <3>3. Admins' = Admins \ {p} BY <1>0, <2>0, <2>1 DEF Admins
    <3>4. \A d \in Callers : Dropping(d)' => call'[d].person = p
      BY <2>2, <3>1 DEF Crossing, Dropping
    <3> QED BY <3>2, <3>3, <3>4 DEF AdminsLast, NotTheLast
  <2> QED BY <2>3, <2>4, <2>5, <2>6, <2>7
<1> QED BY <1>1, <1>2

LEMMA VoteCheckKeeps ==
  ASSUME PeopleInv, NEW c \in Callers, NEW p \in People, NEW op \in {"vote", "unvote"}, VoteCheck(c, op, p)
  PROVE  PeopleInv'
<1> USE DEF PeopleInv
<1>0. /\ account[p] # "none" /\ ~outcome
      /\ Begin(c, op, p, "participant")
      /\ UNCHANGED <<account, joined, stance, outcome, excused>>
  BY DEF VoteCheck, Undecided
<1>1. /\ call' \in [Callers -> Calls] /\ call[c].op = "none"
      /\ call'[c].op = op /\ call'[c].person = p
      /\ \A d \in Callers \ {c} : call'[d] = call[d]
  <2>1. "participant" \in Roles BY DEF Roles
  <2> QED BY <1>0, <2>1, BeginOpens
<1>2. CallsTyped' BY <1>0, <1>1 DEF CallsTyped, PeopleTypeOK, Calls
<1>3. RowsLocked' BY <1>0, <1>1 DEF RowsLocked
<1>4. VotersStay' BY <1>0, <1>1 DEF VotersStay, Voting
<1>5. CreatorsLast' BY <1>0, <1>1 DEF CreatorsLast, Creators, Demoting, Demotes, NotTheLast
<1>6. AdminsLast' BY <1>0, <1>1 DEF AdminsLast, Admins, Dropping, NotTheLast
<1> QED BY <1>2, <1>3, <1>4, <1>5, <1>6

LEMMA VoteWriteKeeps == ASSUME PeopleInv, NEW c \in Callers, VoteWrite(c) PROVE PeopleInv'
<1> USE DEF PeopleInv
<1>0. /\ call[c].op \in {"vote", "unvote"} /\ Returns(c)
      /\ UNCHANGED <<account, joined, outcome, excused>>
      /\ stance' \subseteq stance \union (IF call[c].since = "deleted" THEN {} ELSE {call[c].person})
  BY DEF VoteWrite
<1>1. /\ call' \in [Callers -> Calls] /\ call'[c].op = "none"
      /\ \A d \in Callers \ {c} : call'[d] = call[d]
  BY <1>0, ReturnsClose
<1>2. call[c].since # "deleted" => account[call[c].person] # "none" /\ call[c].person \in People
  BY <1>0 DEF VotersStay, Voting, CallsTyped, Calls
<1>3. CallsTyped' BY <1>0, <1>1, <1>2 DEF CallsTyped, PeopleTypeOK, Calls
<1>4. RowsLocked' BY <1>0, <1>1 DEF RowsLocked
<1>5. VotersStay' BY <1>0, <1>1 DEF VotersStay, Voting
<1>6. CreatorsLast' BY <1>0, <1>1 DEF CreatorsLast, Creators, Demoting, Demotes, NotTheLast
<1>7. AdminsLast' BY <1>0, <1>1 DEF AdminsLast, Admins, Dropping, NotTheLast
<1> QED BY <1>3, <1>4, <1>5, <1>6, <1>7

LEMMA UpdateSessionContextKeeps == ASSUME PeopleInv, UpdateSessionContext PROVE PeopleInv'
<1> USE DEF PeopleInv
<1>0. /\ outcome' = ~outcome
      /\ call' = [c \in Callers |-> IF call[c].op \in {"vote", "unvote"} /\ call[c].since = "nothing"
                                    THEN [call[c] EXCEPT !.since = "outcome"] ELSE call[c]]
      /\ UNCHANGED <<account, joined, stance, excused>>
  BY DEF UpdateSessionContext
<1>1. /\ call' \in [Callers -> Calls]
      /\ \A d \in Callers :
           /\ call'[d].op = call[d].op /\ call'[d].person = call[d].person /\ call'[d].role = call[d].role
           /\ Voting(d) => call'[d].since = IF call[d].since = "nothing" THEN "outcome" ELSE call[d].since
  <2>1. call \in [Callers -> Calls] BY DEF CallsTyped
  <2>2. \A d \in Callers : [call[d] EXCEPT !.since = "outcome"] \in Calls BY <2>1 DEF Calls
  <2>3. call' \in [Callers -> Calls] BY <1>0, <2>1, <2>2
  <2> QED BY <1>0, <2>1, <2>3 DEF Calls, Voting
<1>2. CallsTyped'
  <2>1. outcome' \in BOOLEAN BY <1>0
  <2> QED BY <1>0, <1>1, <2>1 DEF CallsTyped, PeopleTypeOK, Calls
<1>3. RowsLocked' BY <1>0, <1>1 DEF RowsLocked
<1>4. VotersStay'
  <2>1. \A d \in Callers : call[d].since \in {"nothing", "outcome", "deleted"} BY DEF CallsTyped, Calls
  <2>2. \A d \in Callers : Voting(d)' => Voting(d) BY <1>1 DEF Voting
  <2> QED BY <1>0, <1>1, <2>1, <2>2 DEF VotersStay
<1>5. CreatorsLast' BY <1>0, <1>1 DEF CreatorsLast, Creators, Demoting, Demotes, NotTheLast
<1>6. AdminsLast' BY <1>0, <1>1 DEF AdminsLast, Admins, Dropping, NotTheLast
<1> QED BY <1>2, <1>3, <1>4, <1>5, <1>6

LEMMA PeopleStart == PeopleInit => PeopleInv
<1> SUFFICES ASSUME PeopleInit PROVE PeopleInv OBVIOUS
<1> USE SessionPeopleAssumption DEF PeopleInit
<1>1. call \in [Callers -> Calls] /\ \A c \in Callers : call[c].op = "none" BY NoCallTyped
<1>2. CallsTyped BY <1>1 DEF CallsTyped, PeopleTypeOK, Calls, Roles
<1>3. RowsLocked /\ VotersStay BY <1>1 DEF RowsLocked, VotersStay, Voting
<1>4. CreatorsLast BY <1>1 DEF CreatorsLast, Creators, Demoting
<1>5. AdminsLast BY <1>1 DEF AdminsLast, Admins, Dropping
<1> QED BY <1>2, <1>3, <1>4, <1>5 DEF PeopleInv

LEMMA PeopleStays == PeopleInv /\ UNCHANGED peopleVars => PeopleInv'
<1> SUFFICES ASSUME PeopleInv, UNCHANGED peopleVars PROVE PeopleInv' OBVIOUS
<1> USE DEF PeopleInv, peopleVars
<1>1. CallsTyped' BY DEF CallsTyped, PeopleTypeOK
<1>2. RowsLocked' /\ VotersStay' BY DEF RowsLocked, VotersStay, Voting
<1>3. CreatorsLast' BY DEF CreatorsLast, Creators, Demoting, Demotes, NotTheLast
<1>4. AdminsLast' BY DEF AdminsLast, Admins, Dropping, NotTheLast
<1> QED BY <1>1, <1>2, <1>3, <1>4

LEMMA PeopleStep == PeopleInv /\ [PeopleNext]_peopleVars => PeopleInv'
<1> SUFFICES ASSUME PeopleInv, PeopleNext PROVE PeopleInv' BY PeopleStays
<1>1. ASSUME NEW p \in People, SignUp(p) \/ \E r \in Roles : Join(p, r) PROVE PeopleInv'
  BY <1>1, SignUpKeeps, JoinKeeps
<1>2. ASSUME NEW c \in Callers, RoleWrite(c) \/ SetUserGlobalRole(c) \/ DeleteUser(c) \/ VoteWrite(c)
      PROVE PeopleInv'
  BY <1>2, RoleWriteKeeps, SetUserGlobalRoleKeeps, DeleteUserKeeps, VoteWriteKeeps
<1>3. ASSUME NEW c \in Callers, NEW p \in People, NEW r \in Roles, RoleCount(c, p, r) PROVE PeopleInv'
  BY <1>3, RoleCountKeeps
<1>4. ASSUME NEW c \in Callers, NEW p \in People, NEW op \in {"promote", "demote", "delete"}, AdminCheck(c, op, p)
      PROVE PeopleInv'
  BY <1>4, AdminCheckKeeps
<1>5. ASSUME NEW c \in Callers, NEW p \in People, NEW op \in {"vote", "unvote"}, VoteCheck(c, op, p)
      PROVE PeopleInv'
  BY <1>5, VoteCheckKeeps
<1> QED BY <1>1, <1>2, <1>3, <1>4, <1>5, UpdateSessionContextKeeps DEF PeopleNext

\* However many requests overlap, a session loses its last creator, and the
\* installation its last admin, only where two requests that each leave the other's
\* person in place cross, or the creator's account is deleted
\* (UpdateSessionMembershipRole, UpdateAdminUserRole, DeleteAdminUser).
THEOREM AuthorityIsKept == PeopleSpec => []AuthorityKept
<1>1. PeopleInv => AuthorityKept BY DEF PeopleInv, CreatorsLast, AdminsLast, AuthorityKept
<1> QED BY <1>1, PeopleStart, PeopleStep, PTL DEF PeopleSpec

\* A stance written after the outcome was recorded belongs to a request that had
\* passed its check before (SessionSubmitStance, SessionDeleteStance).
THEOREM StancesAreLocked == PeopleSpec => StancesLocked
<1> DEFINE Late == outcome /\ stance' # stance =>
       account' # account \/ \E c \in Callers : call[c].since = "outcome" /\ call'[c] = NoCall
<1>1. PeopleInv /\ [PeopleNext]_peopleVars => [Late]_peopleVars
  <2> SUFFICES ASSUME PeopleInv, PeopleNext, outcome, stance' # stance
               PROVE  account' # account \/ \E c \in Callers : call[c].since = "outcome" /\ call'[c] = NoCall
    OBVIOUS
  <2>1. PICK c \in Callers : VoteWrite(c) \/ DeleteUser(c)
    BY DEF PeopleNext, SignUp, Join, RoleCount, AdminCheck, VoteCheck, UpdateSessionContext, RoleWrite,
           SetUserGlobalRole
  <2>2. call[c].person \in People /\ call \in [Callers -> Calls] BY DEF PeopleInv, CallsTyped, Calls
  <2>3. CASE VoteWrite(c)
    <3>1. call[c].since = "outcome" BY <2>3 DEF VoteWrite, PeopleInv, VotersStay, Voting
    <3>2. call'[c] = NoCall BY <2>2, <2>3 DEF VoteWrite, Returns
    <3> QED BY <3>1, <3>2
  <2>4. CASE DeleteUser(c)
    <3> DEFINE p == call[c].person
    <3>1. account' = [account EXCEPT ![p] = "none"] /\ p \in stance BY <2>4 DEF DeleteUser
    <3>2. account \in [People -> {"none", "participant", "admin"}] /\ account[p] # "none"
      BY <2>2, <3>1 DEF PeopleInv, CallsTyped, PeopleTypeOK
    <3> QED BY <2>2, <3>1, <3>2
  <2> QED BY <2>1, <2>3, <2>4
<1> QED BY <1>1, PeopleStart, PeopleStep, PTL DEF PeopleSpec, StancesLocked

-----------------------------------------------------------------------------
(* The invitations of one address agree (SessionInvitations).               *)

InviteRows == [status : {"none", "pending", "lapsed", "accepted", "revoked"},
               email : Guests, from : Guests, by : BOOLEAN]
DeskErrands == [op : {"none", "invite", "insert", "accept", "register", "mark", "revoke", "renew"},
            email : Guests, inv : SUBSET (Guests \union Invites), gone : BOOLEAN]

InvitationsTyped ==
  /\ belongs \subseteq Guests /\ known \subseteq Guests /\ crossed \subseteq Guests
  /\ invite \in [Invites -> InviteRows] /\ errand \in [Desks -> DeskErrands]

\* A request about an invitation holds that row and its address until it ends, and
\* one that has joined its person writes the status while that person is a member.
Holding == {"accept", "register", "mark", "revoke", "renew"}
Holds(x) ==
  /\ x.op \in Holding =>
       \E i \in Invites : x.inv = {i} /\ invite[i].email = x.email /\ invite[i].status # "none"
  /\ x.op = "mark" /\ ~x.gone => x.email \in belongs
  /\ x.op \in {"invite", "insert"} => \E m \in Guests : x.inv = {m}
ErrandsHold == \A d \in Desks : Holds(errand[d])

\* Of one address at most one invitation is open, or a request is about to insert it.
Open(i) == invite[i].status \in {"pending", "lapsed"}
InsertsFor(d) == errand[d].op = "insert"
OneOpen ==
  /\ \A i, j \in Invites : Open(i) /\ Open(j) /\ invite[i].email = invite[j].email
                           /\ invite[i].email \notin crossed => i = j
  /\ \A d, o \in Desks : InsertsFor(d) /\ InsertsFor(o) /\ errand[d].email = errand[o].email
                         /\ errand[d].email \notin crossed => d = o
  /\ \A d \in Desks, i \in Invites : InsertsFor(d) /\ errand[d].email \notin crossed
                                     /\ invite[i].email = errand[d].email => ~Open(i)

\* Who accepted is a member, and stays accepted: nobody is about to revoke it.
AcceptedBelong ==
  \A i \in Invites : invite[i].status = "accepted" /\ invite[i].by => invite[i].email \in belongs
AcceptedStay ==
  \A i \in Invites : invite[i].by /\ invite[i].email \notin crossed =>
    /\ invite[i].status = "accepted"
    /\ \A d \in Desks : errand[d].op = "revoke" => i \notin errand[d].inv

InvitationsInv == InvitationsTyped /\ ErrandsHold /\ OneOpen /\ AcceptedBelong /\ AcceptedStay

-----------------------------------------------------------------------------
\* A request d becomes x, the others stay.
ErrandTurns(d, x) ==
  /\ errand' \in [Desks -> DeskErrands] /\ errand'[d] = x
  /\ \A o \in Desks \ {d} : errand'[o] = errand[o]

LEMMA ErrandMoves ==
  ASSUME InvitationsTyped, NEW d \in Desks, NEW x \in DeskErrands, errand' = [errand EXCEPT ![d] = x]
  PROVE  ErrandTurns(d, x)
  BY DEF InvitationsTyped, ErrandTurns

LEMMA NoErrandTyped ==
  /\ NoErrand \in DeskErrands /\ NoErrand.op = "none" /\ NoErrand.inv = {} /\ NoErrand.email \in Guests
  /\ NoInvite \in InviteRows /\ NoInvite.status = "none" /\ NoInvite.by = FALSE
  BY SessionInvitationsAssumption DEF NoErrand, DeskErrands, NoInvite, InviteRows

LEMMA Starting ==
  ASSUME InvitationsTyped, NEW d \in Desks, NEW e \in Guests, NEW S \in SUBSET (Guests \union Invites),
         NEW op \in {"invite", "accept", "register", "revoke", "renew"}, Starts(d, op, e, S)
  PROVE  \E x \in DeskErrands : ErrandTurns(d, x) /\ x.op = op /\ x.email = e /\ x.inv = S /\ ~x.gone
<1>1. PICK x : x = [NoErrand EXCEPT !.op = op, !.email = e, !.inv = S] OBVIOUS
<1>2. x \in DeskErrands /\ x.op = op /\ x.email = e /\ x.inv = S /\ ~x.gone
  BY <1>1 DEF NoErrand, DeskErrands
<1>3. errand' = [errand EXCEPT ![d] = x] BY <1>1 DEF Starts
<1> QED BY <1>2, <1>3, ErrandMoves

LEMMA Proceeding ==
  ASSUME InvitationsTyped, NEW d \in Desks, NEW op \in {"insert", "accept", "mark"}, Proceeds(d, op)
  PROVE  \E x \in DeskErrands : /\ ErrandTurns(d, x) /\ x.op = op /\ x.email = errand[d].email
                            /\ x.inv = errand[d].inv /\ x.gone = errand[d].gone
<1>1. PICK x : x = [errand[d] EXCEPT !.op = op] OBVIOUS
<1>2. x \in DeskErrands /\ x.op = op /\ x.email = errand[d].email /\ x.inv = errand[d].inv /\ x.gone = errand[d].gone
  BY <1>1 DEF InvitationsTyped, DeskErrands
<1>3. errand' = [errand EXCEPT ![d] = x] BY <1>1 DEF Proceeds
<1> QED BY <1>2, <1>3, ErrandMoves

LEMMA Leaving ==
  ASSUME InvitationsTyped, NEW d \in Desks, Leaves(d) PROVE ErrandTurns(d, NoErrand)
  BY ErrandMoves, NoErrandTyped DEF Leaves

\* While the rows stay, only the new errand matters.
LEMMA OthersAlone ==
  ASSUME InvitationsInv, NEW d \in Desks, NEW x \in DeskErrands, ErrandTurns(d, x),
         UNCHANGED <<invite, crossed>>, belongs \subseteq belongs', Holds(x)', x.op # "insert",
         x.op = "revoke" => \A i \in Invites : i \in x.inv => ~invite[i].by \/ invite[i].email \in crossed
  PROVE  ErrandsHold' /\ OneOpen' /\ AcceptedBelong' /\ AcceptedStay'
<1> USE DEF InvitationsInv
<1>1. ErrandsHold'
  <2>1. ASSUME NEW o \in Desks \ {d} PROVE Holds(errand[o])'
    <3>1. errand'[o] = errand[o] BY DEF ErrandTurns
    <3>2. Holds(errand[o]) BY DEF ErrandsHold
    <3> QED BY <3>1, <3>2 DEF Holds
  <2>2. Holds(errand[d])'
    <3>1. errand'[d] = x BY DEF ErrandTurns
    <3> QED BY <3>1 DEF Holds
  <2> QED BY <2>1, <2>2 DEF ErrandsHold
<1>2. OneOpen' BY DEF OneOpen, Open, InsertsFor, ErrandTurns
<1>3. AcceptedBelong' BY DEF AcceptedBelong
<1>4. AcceptedStay' BY DEF AcceptedStay, ErrandTurns
<1> QED BY <1>1, <1>2, <1>3, <1>4

\* One invitation i becomes r, the others stay.
RowMoves(i, r) ==
  /\ invite' \in [Invites -> InviteRows] /\ invite'[i] = r
  /\ \A j \in Invites \ {i} : invite'[j] = invite[j]

LEMMA RowMovesTo ==
  ASSUME InvitationsTyped, NEW i \in Invites, NEW r \in InviteRows, invite' = [invite EXCEPT ![i] = r]
  PROVE  RowMoves(i, r)
  BY DEF InvitationsTyped, RowMoves

\* A request that writes one row and ends: what the new row must satisfy.
LEMMA RowWritten ==
  ASSUME InvitationsInv, NEW d \in Desks, NEW i \in Invites, NEW r \in InviteRows,
         ErrandTurns(d, NoErrand), RowMoves(i, r), UNCHANGED <<known, belongs>>,
         crossed \subseteq crossed', crossed' \subseteq Guests,
         r.status # "none",
         \A o \in Desks \ {d} : errand[o].op \in Holding /\ i \in errand[o].inv => r.email = invite[i].email,
         r.status \in {"pending", "lapsed"} =>
           \/ r.email = invite[i].email /\ Open(i)
           \/ InsertsFor(d) /\ errand[d].email = r.email,
         r.status = "accepted" /\ r.by => r.email \in belongs,
         r.by /\ r.email \notin crossed' =>
           r.status = "accepted" /\ \A o \in Desks \ {d} : errand[o].op = "revoke" => i \notin errand[o].inv
  PROVE  InvitationsInv'
<1> USE DEF InvitationsInv
<1>1. InvitationsTyped' BY DEF InvitationsTyped, ErrandTurns, RowMoves
<1>2. ErrandsHold'
  <2>1. ASSUME NEW o \in Desks \ {d} PROVE Holds(errand[o])'
    <3>1. errand'[o] = errand[o] BY DEF ErrandTurns
    <3>2. Holds(errand[o]) BY DEF ErrandsHold
    <3>3. ASSUME errand[o].op \in Holding
          PROVE  \E j \in Invites : errand[o].inv = {j} /\ invite'[j].email = errand[o].email /\ invite'[j].status # "none"
      <4>1. PICK j \in Invites : errand[o].inv = {j} /\ invite[j].email = errand[o].email /\ invite[j].status # "none"
        BY <3>2, <3>3 DEF Holds
      <4>2. CASE j = i BY <4>1, <4>2, <3>3 DEF RowMoves
      <4>3. CASE j # i BY <4>1, <4>3 DEF RowMoves
      <4> QED BY <4>2, <4>3
    <3> QED BY <3>1, <3>2, <3>3 DEF Holds
  <2>2. Holds(errand[d])'
    <3>1. errand'[d] = NoErrand BY DEF ErrandTurns
    <3> QED BY <3>1, NoErrandTyped DEF Holds, Holding
  <2> QED BY <2>1, <2>2 DEF ErrandsHold
<1>3. OneOpen'
  <2>1. \A o \in Desks : InsertsFor(o)' => o # d /\ InsertsFor(o) /\ errand'[o] = errand[o]
    BY NoErrandTyped DEF ErrandTurns, InsertsFor
  <2>2. \A j \in Invites \ {i} : invite'[j] = invite[j] /\ (Open(j)' <=> Open(j))
    BY DEF RowMoves, Open
  <2>3. invite'[i] = r /\ (Open(i)' <=> r.status \in {"pending", "lapsed"}) BY DEF RowMoves, Open
  <2>4. \A j \in Invites \ {i} : Open(i)' /\ Open(j)' /\ r.email = invite[j].email => r.email \in crossed'
    BY <2>2, <2>3 DEF OneOpen
  <2>5. \A o \in Desks : InsertsFor(o)' /\ Open(i)' /\ r.email = errand[o].email => r.email \in crossed'
    BY <2>1, <2>3 DEF OneOpen
  <2>6. \A u, v \in Invites : Open(u)' /\ Open(v)' /\ invite'[u].email = invite'[v].email
                              /\ invite'[u].email \notin crossed' => u = v
    BY <2>2, <2>3, <2>4 DEF OneOpen
  <2>7. \A o, p \in Desks : InsertsFor(o)' /\ InsertsFor(p)' /\ errand'[o].email = errand'[p].email
                            /\ errand'[o].email \notin crossed' => o = p
    BY <2>1 DEF OneOpen
  <2>8. \A o \in Desks, j \in Invites : InsertsFor(o)' /\ errand'[o].email \notin crossed'
                                        /\ invite'[j].email = errand'[o].email => ~Open(j)'
    BY <2>1, <2>2, <2>3, <2>5 DEF OneOpen
  <2> QED BY <2>6, <2>7, <2>8 DEF OneOpen
<1>4. AcceptedBelong' BY DEF AcceptedBelong, RowMoves
<1>5. AcceptedStay'
  <2>1. \A o \in Desks : errand'[o].op = "revoke" => o # d /\ errand'[o] = errand[o]
    BY NoErrandTyped DEF ErrandTurns
  <2>2. \A j \in Invites \ {i} : invite'[j] = invite[j] BY DEF RowMoves
  <2>3. invite'[i] = r BY DEF RowMoves
  <2> QED BY <2>1, <2>2, <2>3 DEF AcceptedStay
<1> QED BY <1>1, <1>2, <1>3, <1>4, <1>5

-----------------------------------------------------------------------------
\* The steps that leave the rows alone.
LEMMA CheckKeeps ==
  ASSUME InvitationsInv, NEW d \in Desks, NEW e \in Guests, NEW m \in Guests, InviteCheck(d, e, m)
  PROVE  InvitationsInv'
<1> USE DEF InvitationsInv
<1>1. PICK x \in DeskErrands : ErrandTurns(d, x) /\ x.op = "invite" /\ x.email = e /\ x.inv = {m} /\ ~x.gone
  BY Starting DEF InviteCheck
<1>2. Holds(x)' BY <1>1 DEF Holds, Holding
<1>3. UNCHANGED <<known, belongs, invite, crossed>> BY DEF InviteCheck
<1>4. InvitationsTyped' BY <1>1, <1>3 DEF InvitationsTyped, ErrandTurns
<1> QED BY <1>1, <1>2, <1>3, <1>4, OthersAlone

LEMMA ReadKeeps ==
  ASSUME InvitationsInv, NEW d \in Desks, NEW i \in Invites,
         AcceptRead(d, i) \/ RegisterRead(d, i) \/ RevokeRead(d, i) \/ RenewRead(d, i)
  PROVE  InvitationsInv'
<1> USE DEF InvitationsInv
<1>0. invite[i].email \in Guests BY DEF InvitationsTyped, InviteRows
<1>1. PICK op \in {"accept", "register", "revoke", "renew"} : Starts(d, op, invite[i].email, {i})
  BY DEF AcceptRead, RegisterRead, RevokeRead, RenewRead
<1>2. PICK x \in DeskErrands : ErrandTurns(d, x) /\ x.op = op /\ x.email = invite[i].email /\ x.inv = {i} /\ ~x.gone
  BY <1>0, <1>1, Starting
<1>3. invite[i].status \in {"pending", "lapsed"} /\ UNCHANGED <<known, belongs, invite, crossed>>
  BY DEF AcceptRead, RegisterRead, RevokeRead, RenewRead, Revocable
<1>4. Holds(x)' BY <1>2, <1>3 DEF Holds, Holding
<1>5. x.op = "revoke" => \A j \in Invites : j \in x.inv => ~invite[j].by \/ invite[j].email \in crossed
  BY <1>2, <1>3 DEF AcceptedStay
<1>6. InvitationsTyped' BY <1>2, <1>3 DEF InvitationsTyped, ErrandTurns
<1> QED BY <1>2, <1>3, <1>4, <1>5, <1>6, OthersAlone

\* A request that ends with the rows as they were.
LEMMA EndKeeps ==
  ASSUME InvitationsInv, NEW d \in Desks, Leaves(d), UNCHANGED <<invite, crossed, belongs, known>>
  PROVE  InvitationsInv'
<1> USE DEF InvitationsInv
<1>1. ErrandTurns(d, NoErrand) BY Leaving
<1>2. Holds(NoErrand)' BY NoErrandTyped DEF Holds, Holding
<1>3. InvitationsTyped' BY <1>1 DEF InvitationsTyped, ErrandTurns
<1> QED BY <1>1, <1>2, <1>3, NoErrandTyped, OthersAlone

LEMMA RegisterKeeps ==
  ASSUME InvitationsInv, NEW d \in Desks, RegisterUser(d) PROVE InvitationsInv'
<1> USE DEF InvitationsInv
<1>1. CASE errand[d].email \in known BY <1>1, EndKeeps DEF RegisterUser
<1>2. CASE errand[d].email \notin known
  <2>1. PICK x \in DeskErrands : /\ ErrandTurns(d, x) /\ x.op = "accept" /\ x.email = errand[d].email
                             /\ x.inv = errand[d].inv /\ x.gone = errand[d].gone
    BY <1>2, Proceeding DEF RegisterUser
  <2>2. UNCHANGED <<belongs, invite, crossed>> /\ known' \subseteq Guests
    BY <1>2 DEF RegisterUser, InvitationsTyped, DeskErrands
  <2>3. Holds(errand[d]) BY DEF ErrandsHold
  <2>4. Holds(x)' BY <2>1, <2>2, <2>3 DEF Holds, Holding, RegisterUser
  <2>5. InvitationsTyped' BY <2>1, <2>2 DEF InvitationsTyped, ErrandTurns
  <2> QED BY <2>1, <2>2, <2>4, <2>5, OthersAlone
<1> QED BY <1>1, <1>2

LEMMA MembershipKeeps ==
  ASSUME InvitationsInv, NEW d \in Desks, AcceptJoin(d) PROVE InvitationsInv'
<1> USE DEF InvitationsInv
<1>1. CASE errand[d].email \in belongs \/ errand[d].gone BY <1>1, EndKeeps DEF AcceptJoin
<1>2. CASE ~(errand[d].email \in belongs \/ errand[d].gone)
  <2>1. PICK x \in DeskErrands : /\ ErrandTurns(d, x) /\ x.op = "mark" /\ x.email = errand[d].email
                             /\ x.inv = errand[d].inv /\ x.gone = errand[d].gone
    BY <1>2, Proceeding DEF AcceptJoin
  <2>2. /\ UNCHANGED <<known, invite, crossed>> /\ belongs' \subseteq Guests
        /\ belongs \subseteq belongs' /\ errand[d].email \in belongs'
    BY <1>2 DEF AcceptJoin, InvitationsTyped, DeskErrands
  <2>3. Holds(errand[d]) BY DEF ErrandsHold
  <2>4. Holds(x)' BY <2>1, <2>2, <2>3 DEF Holds, Holding, AcceptJoin
  <2>5. InvitationsTyped' BY <2>1, <2>2 DEF InvitationsTyped, ErrandTurns
  <2> QED BY <2>1, <2>2, <2>4, <2>5, OthersAlone
<1> QED BY <1>1, <1>2

-----------------------------------------------------------------------------
\* The steps that write a row.
LEMMA InsertKeeps ==
  ASSUME InvitationsInv, NEW d \in Desks, NEW i \in Invites, InviteInsert(d, i) PROVE InvitationsInv'
<1> USE DEF InvitationsInv
<1>1. PICK m \in Guests : errand[d].inv = {m}
  BY DEF InviteInsert, ErrandsHold, Holds
<1>2. Leaves(d) /\ UNCHANGED <<known, belongs, crossed>> /\ InsertsFor(d) /\ invite[i] = NoInvite
  BY DEF InviteInsert, InsertsFor
<1>3. CASE m \notin known
  <2>1. invite' = invite BY <1>1, <1>3 DEF InviteInsert
  <2> QED BY <1>2, <2>1, EndKeeps
<1>4. CASE m \in known
  <2>1. PICK r : r = [NoInvite EXCEPT !.status = "pending", !.email = errand[d].email, !.from = m] OBVIOUS
  <2>2. errand[d].email \in Guests BY DEF InvitationsTyped, DeskErrands
  <2>3. r \in InviteRows /\ r.status = "pending" /\ r.email = errand[d].email /\ r.by = FALSE
    BY <2>1, <2>2 DEF NoInvite, InviteRows
  <2>4. invite' = [invite EXCEPT ![i] = r] BY <1>1, <1>4, <2>1 DEF InviteInsert
  <2>5. RowMoves(i, r) BY <2>3, <2>4, RowMovesTo
  <2>6. ErrandTurns(d, NoErrand) BY <1>2, Leaving
  <2>7. \A o \in Desks : errand[o].op \in Holding => i \notin errand[o].inv
    BY <1>2, NoErrandTyped DEF ErrandsHold, Holds
  <2>8. \A o \in Desks : errand[o].op = "revoke" => i \notin errand[o].inv BY <2>7 DEF Holding
  <2>9. crossed \subseteq crossed' /\ crossed' \subseteq Guests BY <1>2 DEF InvitationsTyped
  <2> QED BY <1>2, <2>3, <2>5, <2>6, <2>7, <2>9, RowWritten
<1> QED BY <1>3, <1>4

\* The held row, and the address it shares with the request.
LEMMA HeldRow ==
  ASSUME InvitationsInv, NEW d \in Desks, errand[d].op \in Holding
  PROVE  \E i \in Invites : /\ errand[d].inv = {i} /\ invite[i] \in InviteRows
                            /\ invite[i].email = errand[d].email /\ invite[i].status # "none"
  BY DEF InvitationsInv, InvitationsTyped, ErrandsHold, Holds

LEMMA MarkKeeps ==
  ASSUME InvitationsInv, NEW d \in Desks, AcceptMark(d) PROVE InvitationsInv'
<1> USE DEF InvitationsInv
<1>0. errand[d].op = "mark" /\ errand[d].op \in Holding BY DEF AcceptMark, Holding
<1>1. PICK i \in Invites : /\ errand[d].inv = {i} /\ invite[i] \in InviteRows
                           /\ invite[i].email = errand[d].email /\ invite[i].status # "none"
  BY <1>0, HeldRow
<1>2. Leaves(d) /\ UNCHANGED <<known, belongs>> BY DEF AcceptMark
<1>3. CASE UNCHANGED <<invite, crossed>> BY <1>2, <1>3, EndKeeps
<1>4. CASE /\ ~errand[d].gone
           /\ invite' = [invite EXCEPT ![i] = [@ EXCEPT !.status = "accepted", !.by = TRUE]]
           /\ crossed' = crossed \union {e \in {errand[d].email} :
                                           \E o \in Desks : errand[o].op = "revoke" /\ i \in errand[o].inv}
  <2>1. PICK r : r = [invite[i] EXCEPT !.status = "accepted", !.by = TRUE] OBVIOUS
  <2>2. r \in InviteRows /\ r.status = "accepted" /\ r.email = invite[i].email BY <1>1, <2>1 DEF InviteRows
  <2>3. invite' = [invite EXCEPT ![i] = r] BY <1>4, <2>1
  <2>4. RowMoves(i, r) BY <2>2, <2>3, RowMovesTo
  <2>5. ErrandTurns(d, NoErrand) BY <1>2, Leaving
  <2>6. crossed \subseteq crossed' /\ crossed' \subseteq Guests
    BY <1>1, <1>4 DEF InvitationsTyped, InviteRows
  <2>7. r.email \in belongs BY <1>0, <1>1, <1>4, <2>2 DEF ErrandsHold, Holds
  <2>8. ASSUME r.email \notin crossed', NEW o \in Desks, errand[o].op = "revoke" PROVE i \notin errand[o].inv
    <3>1. r.email = errand[d].email BY <1>1, <2>2
    <3> QED BY <1>4, <2>8, <3>1
  <2> QED BY <1>2, <2>2, <2>4, <2>5, <2>6, <2>7, <2>8, RowWritten
<1> QED BY <1>1, <1>3, <1>4 DEF AcceptMark

LEMMA WriteKeeps ==
  ASSUME InvitationsInv, NEW d \in Desks, InviteWrite(d) PROVE InvitationsInv'
<1> USE DEF InvitationsInv
<1>0. errand[d].op \in {"revoke", "renew"} /\ errand[d].op \in Holding BY DEF InviteWrite, Holding
<1>1. PICK i \in Invites : /\ errand[d].inv = {i} /\ invite[i] \in InviteRows
                           /\ invite[i].email = errand[d].email /\ invite[i].status # "none"
  BY <1>0, HeldRow
<1>2. Leaves(d) /\ UNCHANGED <<known, belongs, crossed>> BY DEF InviteWrite
<1>3. PICK s : s = (IF errand[d].op = "revoke" THEN "revoked" ELSE Renewed(i)) OBVIOUS
<1>4. PICK r : r = [invite[i] EXCEPT !.status = s] OBVIOUS
<1>5. invite[i] # NoInvite BY <1>1, NoErrandTyped
<1>6. invite' = [invite EXCEPT ![i].status = s] BY <1>1, <1>3, <1>5 DEF InviteWrite
<1>7. invite' = [invite EXCEPT ![i] = r] BY <1>4, <1>6
<1>8. /\ s \in {"pending", "lapsed", "accepted", "revoked"}
      /\ s \in {"pending", "lapsed"} => Open(i)
      /\ s = "accepted" => invite[i].status = "accepted"
      /\ errand[d].op # "revoke" => (invite[i].status = "accepted" <=> s = "accepted")
  BY <1>1, <1>3 DEF Renewed, Open, InviteRows
<1>9. r \in InviteRows /\ r.status = s /\ r.email = invite[i].email /\ r.by = invite[i].by
  BY <1>1, <1>4, <1>8 DEF InviteRows
<1>10. RowMoves(i, r) BY <1>7, <1>9, RowMovesTo
<1>11. ErrandTurns(d, NoErrand) BY <1>2, Leaving
<1>12. r.status = "accepted" /\ r.by => r.email \in belongs BY <1>8, <1>9 DEF AcceptedBelong
<1>13. r.by /\ r.email \notin crossed' =>
         r.status = "accepted" /\ \A o \in Desks \ {d} : errand[o].op = "revoke" => i \notin errand[o].inv
  <2>1. SUFFICES ASSUME r.by, r.email \notin crossed PROVE
                 r.status = "accepted" /\ \A o \in Desks \ {d} : errand[o].op = "revoke" => i \notin errand[o].inv
    BY <1>2
  <2>2. invite[i].status = "accepted" /\ \A o \in Desks : errand[o].op = "revoke" => i \notin errand[o].inv
    BY <1>9, <2>1 DEF AcceptedStay
  <2>3. errand[d].op # "revoke" BY <1>1, <2>2
  <2> QED BY <1>8, <1>9, <2>2, <2>3
<1>14. crossed \subseteq crossed' /\ crossed' \subseteq Guests BY <1>2 DEF InvitationsTyped
<1> QED BY <1>2, <1>8, <1>9, <1>10, <1>11, <1>12, <1>13, <1>14, RowWritten

-----------------------------------------------------------------------------
\* InviteRevoke closes what is open, AccountRemoved takes rows and requests away.
LEMMA RevokeKeeps ==
  ASSUME InvitationsInv, NEW d \in Desks, InviteRevoke(d) PROVE InvitationsInv'
<1> USE DEF InvitationsInv
<1>1. PICK x \in DeskErrands : /\ ErrandTurns(d, x) /\ x.op = "insert" /\ x.email = errand[d].email
                           /\ x.inv = errand[d].inv /\ x.gone = errand[d].gone
  BY Proceeding DEF InviteRevoke
<1>2. UNCHANGED <<known, belongs>> /\ errand[d].op = "invite" BY DEF InviteRevoke
<1>3. /\ crossed \subseteq crossed' /\ crossed' \subseteq Guests
      /\ (\E o \in Desks \ {d} : InsertsFor(o) /\ errand[o].email = x.email) => x.email \in crossed'
  BY <1>1 DEF InviteRevoke, InsertsFor, InvitationsTyped, DeskErrands
<1>4. ASSUME NEW i \in Invites
      PROVE  /\ invite'[i] \in InviteRows /\ invite'[i].email = invite[i].email /\ invite'[i].by = invite[i].by
             /\ Open(i) /\ invite[i].email = x.email => invite'[i].status = "revoked"
             /\ ~(Open(i) /\ invite[i].email = x.email) => invite'[i].status = invite[i].status
  <2>1. invite[i] \in InviteRows BY DEF InvitationsTyped
  <2>2. CASE Open(i) /\ invite[i].email = x.email
    <3>1. invite'[i] = [invite[i] EXCEPT !.status = "revoked"]
      BY <1>1, <2>2 DEF InviteRevoke, RevokePendingBySessionAndEmail, Open
    <3> QED BY <2>1, <2>2, <3>1 DEF InviteRows
  <2>3. CASE ~(Open(i) /\ invite[i].email = x.email)
    <3>1. invite'[i] = invite[i]
      BY <1>1, <2>3 DEF InviteRevoke, RevokePendingBySessionAndEmail, Open
    <3> QED BY <2>1, <2>3, <3>1
  <2> QED BY <2>2, <2>3
<1>5. invite' \in [Invites -> InviteRows]
  <2>1. \E f : invite' = [i \in Invites |-> f[i]] /\ \A i \in Invites : f[i] = invite'[i]
    BY DEF InviteRevoke, RevokePendingBySessionAndEmail
  <2> QED BY <1>4, <2>1
<1>6. InvitationsTyped' BY <1>1, <1>2, <1>3, <1>5 DEF InvitationsTyped, ErrandTurns
<1>7. \A i \in Invites : /\ invite'[i].status # "none" <=> invite[i].status # "none"
                         /\ Open(i)' => Open(i) /\ invite[i].email # x.email
  BY <1>4 DEF Open
<1>8. ErrandsHold'
  <2>1. ASSUME NEW o \in Desks \ {d} PROVE Holds(errand[o])'
    <3>1. errand'[o] = errand[o] BY <1>1 DEF ErrandTurns
    <3>2. Holds(errand[o]) BY DEF ErrandsHold
    <3> QED BY <1>2, <1>4, <1>7, <3>1, <3>2 DEF Holds
  <2>2. Holds(errand[d])'
    <3>1. errand'[d] = x BY <1>1 DEF ErrandTurns
    <3>2. Holds(errand[d]) BY DEF ErrandsHold
    <3> QED BY <1>1, <1>2, <3>1, <3>2 DEF Holds, Holding
  <2> QED BY <2>1, <2>2 DEF ErrandsHold
<1>9. OneOpen'
  <2>1. \A o \in Desks \ {d} : errand'[o] = errand[o] /\ (InsertsFor(o)' <=> InsertsFor(o))
    BY <1>1 DEF ErrandTurns, InsertsFor
  <2>2. errand'[d] = x BY <1>1 DEF ErrandTurns
  <2>3. \A u, v \in Invites : Open(u)' /\ Open(v)' /\ invite'[u].email = invite'[v].email
                              /\ invite'[u].email \notin crossed' => u = v
    BY <1>3, <1>4, <1>7 DEF OneOpen
  <2>4. \A o, p \in Desks : InsertsFor(o)' /\ InsertsFor(p)' /\ errand'[o].email = errand'[p].email
                            /\ errand'[o].email \notin crossed' => o = p
    BY <1>3, <2>1, <2>2 DEF OneOpen
  <2>5. \A o \in Desks, j \in Invites : InsertsFor(o)' /\ errand'[o].email \notin crossed'
                                        /\ invite'[j].email = errand'[o].email => ~Open(j)'
    BY <1>3, <1>4, <1>7, <2>1, <2>2 DEF OneOpen
  <2> QED BY <2>3, <2>4, <2>5 DEF OneOpen
<1>10. AcceptedBelong' BY <1>2, <1>4 DEF AcceptedBelong, Open
<1>11. AcceptedStay'
  <2>1. \A o \in Desks : errand'[o].op = "revoke" => errand'[o] = errand[o] BY <1>1 DEF ErrandTurns
  <2> QED BY <1>3, <1>4, <2>1 DEF AcceptedStay, Open
<1> QED BY <1>6, <1>8, <1>9, <1>10, <1>11

LEMMA LapseKeeps ==
  ASSUME InvitationsInv, NEW i \in Invites, InviteLapses(i) PROVE InvitationsInv'
<1> USE DEF InvitationsInv
<1>1. PICK r : r = [invite[i] EXCEPT !.status = "lapsed"] OBVIOUS
<1>2. r \in InviteRows /\ r.status = "lapsed" /\ r.email = invite[i].email /\ r.by = invite[i].by
  BY <1>1 DEF InvitationsTyped, InviteRows
<1>3. RowMoves(i, r) BY <1>1, <1>2, RowMovesTo DEF InviteLapses
<1>4. UNCHANGED <<known, belongs, errand, crossed>> /\ invite[i].status = "pending" BY DEF InviteLapses
<1>5. InvitationsTyped' BY <1>3, <1>4 DEF InvitationsTyped, RowMoves
<1>6. \A j \in Invites : /\ invite'[j].email = invite[j].email /\ invite'[j].by = invite[j].by
                         /\ Open(j)' <=> Open(j)
                         /\ invite'[j].status # "none" <=> invite[j].status # "none"
                         /\ invite'[j].status = "accepted" <=> invite[j].status = "accepted"
  BY <1>2, <1>3, <1>4 DEF RowMoves, Open
<1>7. ErrandsHold' BY <1>4, <1>6 DEF ErrandsHold, Holds
<1>8. OneOpen' BY <1>4, <1>6 DEF OneOpen, InsertsFor
<1>9. AcceptedBelong' BY <1>4, <1>6 DEF AcceptedBelong
<1>10. AcceptedStay' BY <1>4, <1>6 DEF AcceptedStay
<1> QED BY <1>5, <1>7, <1>8, <1>9, <1>10

LEMMA RemovalKeeps ==
  ASSUME InvitationsInv, NEW e \in Guests, AccountRemoved(e) PROVE InvitationsInv'
<1> USE DEF InvitationsInv
<1>1. /\ known' = known \ {e} /\ belongs' = belongs \ {e} /\ crossed' = crossed
  BY DEF AccountRemoved
\* A row is gone, or it is as it was but for accepted_by of the account.
<1>2. ASSUME NEW i \in Invites
      PROVE  /\ invite'[i] \in InviteRows
             /\ \/ invite[i].from = e /\ invite'[i] = NoInvite
                \/ /\ invite[i].from # e
                   /\ invite'[i].status = invite[i].status /\ invite'[i].email = invite[i].email
                   /\ invite'[i].by => invite[i].by /\ invite[i].email # e
  <2>1. invite[i] \in InviteRows BY DEF InvitationsTyped
  <2>2. CASE invite[i].from = e
    <3>1. invite'[i] = NoInvite BY <2>2 DEF AccountRemoved
    <3> QED BY <2>2, <3>1, NoErrandTyped
  <2>3. CASE invite[i].from # e /\ invite[i].email = e
    <3>1. invite'[i] = [invite[i] EXCEPT !.by = FALSE] BY <2>3 DEF AccountRemoved
    <3> QED BY <2>1, <2>3, <3>1 DEF InviteRows
  <2>4. CASE invite[i].from # e /\ invite[i].email # e
    <3>1. invite'[i] = invite[i] BY <2>4 DEF AccountRemoved
    <3> QED BY <2>1, <2>4, <3>1
  <2> QED BY <2>2, <2>3, <2>4
\* A request has ended, or it holds no row that is gone.
<1>3. ASSUME NEW d \in Desks
      PROVE  /\ errand'[d] \in DeskErrands
             /\ \/ errand'[d] = NoErrand
                \/ /\ \A i \in Invites : i \in errand[d].inv => invite[i].from # e
                   /\ errand'[d].op = errand[d].op /\ errand'[d].email = errand[d].email
                   /\ errand'[d].inv = errand[d].inv
                   /\ errand'[d].op = "mark" /\ ~errand'[d].gone => ~errand[d].gone /\ errand[d].email # e
  <2>1. errand[d] \in DeskErrands BY DEF InvitationsTyped
  <2>2. CASE \E i \in errand[d].inv \intersect Invites : invite[i].from = e
    <3>1. errand'[d] = NoErrand BY <2>2 DEF AccountRemoved
    <3> QED BY <3>1, NoErrandTyped
  <2>3. CASE /\ ~ \E i \in errand[d].inv \intersect Invites : invite[i].from = e
             /\ errand[d].email = e /\ errand[d].op \in {"accept", "mark"}
    <3>1. errand'[d] = [errand[d] EXCEPT !.gone = TRUE] BY <2>3 DEF AccountRemoved
    <3> QED BY <2>1, <2>3, <3>1 DEF DeskErrands
  <2>4. CASE /\ ~ \E i \in errand[d].inv \intersect Invites : invite[i].from = e
             /\ ~(errand[d].email = e /\ errand[d].op \in {"accept", "mark"})
    <3>1. errand'[d] = errand[d] BY <2>4 DEF AccountRemoved
    <3> QED BY <2>1, <2>4, <3>1
  <2> QED BY <2>2, <2>3, <2>4
<1>4. InvitationsTyped'
  <2>1. \E f : invite' = [i \in Invites |-> f[i]] /\ \A i \in Invites : f[i] = invite'[i]
    BY DEF AccountRemoved
  <2>2. \E f : errand' = [d \in Desks |-> f[d]] /\ \A d \in Desks : f[d] = errand'[d]
    BY DEF AccountRemoved
  <2>3. invite' \in [Invites -> InviteRows] BY <1>2, <2>1
  <2>4. errand' \in [Desks -> DeskErrands] BY <1>3, <2>2
  <2> QED BY <1>1, <2>3, <2>4 DEF InvitationsTyped
<1>5. ErrandsHold'
  <2>1. ASSUME NEW d \in Desks PROVE Holds(errand[d])'
    <3>1. CASE errand'[d] = NoErrand BY <3>1, NoErrandTyped DEF Holds, Holding
    <3>2. CASE errand'[d] # NoErrand
      <4>1. Holds(errand[d]) BY DEF ErrandsHold
      <4>2. ASSUME errand'[d].op \in Holding
            PROVE  \E i \in Invites : /\ errand'[d].inv = {i} /\ invite'[i].email = errand'[d].email
                                      /\ invite'[i].status # "none"
        <5>1. PICK i \in Invites : errand[d].inv = {i} /\ invite[i].email = errand[d].email /\ invite[i].status # "none"
          BY <1>3, <3>2, <4>1, <4>2 DEF Holds
        <5>2. invite[i].from # e BY <1>3, <3>2, <5>1
        <5> QED BY <1>2, <1>3, <3>2, <5>1, <5>2
      <4>3. errand'[d].op = "mark" /\ ~errand'[d].gone => errand'[d].email \in belongs'
        BY <1>1, <1>3, <3>2, <4>1 DEF Holds
      <4>4. errand'[d].op \in {"invite", "insert"} => \E m \in Guests : errand'[d].inv = {m}
        BY <1>3, <3>2, <4>1 DEF Holds
      <4> QED BY <4>2, <4>3, <4>4 DEF Holds
    <3> QED BY <3>1, <3>2
  <2> QED BY <2>1 DEF ErrandsHold
<1>6. OneOpen'
  <2>1. \A i \in Invites : Open(i)' => Open(i) /\ invite'[i].email = invite[i].email
    BY <1>2, NoErrandTyped DEF Open
  <2>2. \A d \in Desks : InsertsFor(d)' => InsertsFor(d) /\ errand'[d].email = errand[d].email
    BY <1>3, NoErrandTyped DEF InsertsFor
  <2> QED BY <1>1, <2>1, <2>2 DEF OneOpen
<1>7. AcceptedBelong' BY <1>1, <1>2, NoErrandTyped DEF AcceptedBelong
<1>8. AcceptedStay'
  <2>1. \A d \in Desks : errand'[d].op = "revoke" => errand[d].op = "revoke" /\ errand'[d].inv = errand[d].inv
    BY <1>3, NoErrandTyped
  <2>2. \A i \in Invites : invite'[i].by => /\ invite[i].by /\ invite'[i].status = invite[i].status
                                            /\ invite'[i].email = invite[i].email
    BY <1>2, NoErrandTyped
  <2> QED BY <1>1, <2>1, <2>2 DEF AcceptedStay
<1> QED BY <1>4, <1>5, <1>6, <1>7, <1>8

LEMMA NewAccountKeeps ==
  ASSUME InvitationsInv, NEW e \in Guests, SignsUp(e) PROVE InvitationsInv'
  BY DEF InvitationsInv, InvitationsTyped, ErrandsHold, Holds, OneOpen, Open, InsertsFor,
         AcceptedBelong, AcceptedStay, SignsUp

-----------------------------------------------------------------------------
LEMMA InvitationsStart == InvitationsInit => InvitationsInv
<1> SUFFICES ASSUME InvitationsInit PROVE InvitationsInv OBVIOUS
<1>1. InvitationsTyped
  BY NoErrandTyped, SessionInvitationsAssumption DEF InvitationsInit, InvitationsTyped
<1>2. \A i \in Invites : invite[i] = NoInvite BY DEF InvitationsInit
<1>3. \A d \in Desks : errand[d] = NoErrand BY DEF InvitationsInit
<1>4. ErrandsHold BY <1>3, NoErrandTyped DEF ErrandsHold, Holds, Holding
<1>5. OneOpen BY <1>2, <1>3, NoErrandTyped DEF OneOpen, Open, InsertsFor
<1>6. AcceptedBelong /\ AcceptedStay BY <1>2, NoErrandTyped DEF AcceptedBelong, AcceptedStay
<1> QED BY <1>1, <1>4, <1>5, <1>6 DEF InvitationsInv

LEMMA InvitationsStep == InvitationsInv /\ [InvitationsNext]_invitationVars => InvitationsInv'
<1> SUFFICES ASSUME InvitationsInv, [InvitationsNext]_invitationVars PROVE InvitationsInv' OBVIOUS
<1>1. CASE UNCHANGED invitationVars
  BY <1>1 DEF invitationVars, InvitationsInv, InvitationsTyped, ErrandsHold, Holds, OneOpen, Open,
              InsertsFor, AcceptedBelong, AcceptedStay
<1>2. CASE \E i \in Invites : InviteLapses(i) BY <1>2, LapseKeeps
<1>3. CASE \E e \in Guests : SignsUp(e) \/ AccountRemoved(e) BY <1>3, NewAccountKeeps, RemovalKeeps
<1>4. ASSUME NEW d \in Desks,
             InviteRevoke(d) \/ RegisterUser(d) \/ AcceptJoin(d) \/ AcceptMark(d) \/ InviteWrite(d)
      PROVE  InvitationsInv'
  BY <1>4, RevokeKeeps, RegisterKeeps, MembershipKeeps, MarkKeeps, WriteKeeps
<1>5. ASSUME NEW d \in Desks, NEW e \in Guests, NEW m \in Guests, InviteCheck(d, e, m) PROVE InvitationsInv'
  BY <1>5, CheckKeeps
<1>6. ASSUME NEW d \in Desks, NEW i \in Invites,
             InviteInsert(d, i) \/ AcceptRead(d, i) \/ RegisterRead(d, i) \/ RevokeRead(d, i) \/ RenewRead(d, i)
      PROVE  InvitationsInv'
  BY <1>6, InsertKeeps, ReadKeeps
<1> QED BY <1>1, <1>2, <1>3, <1>4, <1>5, <1>6 DEF InvitationsNext

LEMMA InvitationsMeans == InvitationsInv => InvitationsAgree
<1> SUFFICES ASSUME InvitationsInv PROVE InvitationsAgree OBVIOUS
<1>1. \A i \in Invites : invite[i].status = "accepted" /\ invite[i].by => invite[i].email \in belongs
  BY DEF InvitationsInv, AcceptedBelong
<1>2. ASSUME NEW e \in Guests \ crossed
      PROVE  /\ \A i, j \in Invites : invite[i].status = "pending" /\ invite[j].status = "pending"
                                      /\ invite[i].email = e /\ invite[j].email = e => i = j
             /\ ShownAsMember(e)
  <2>1. \A i, j \in Invites : invite[i].status = "pending" /\ invite[j].status = "pending"
                              /\ invite[i].email = e /\ invite[j].email = e => i = j
    BY DEF InvitationsInv, OneOpen, Open
  <2>2. \A i \in Invites : invite[i].email = e /\ invite[i].by => invite[i].status = "accepted"
    BY DEF InvitationsInv, AcceptedStay
  <2> QED BY <2>1, <2>2 DEF ShownAsMember
<1> QED BY <1>1, <1>2 DEF InvitationsAgree

\* However requests overlap, accounts go and addresses are registered anew: an invitation
\* accepted in someone's name names a member, and for an address whose requests never
\* overlapped at most one invitation can be accepted and a member is shown as one
\* (service.go:60-77, 143-172, 272-281; invitations_handlers.go:99-226).
THEOREM InvitationsStayAgreed == InvitationsSpec => []InvitationsAgree
BY InvitationsStart, InvitationsStep, InvitationsMeans, PTL DEF InvitationsSpec

-----------------------------------------------------------------------------
(* Titles tell sessions apart and the index follows (SessionTitles).        *)

Titles == [name : Names, marks : Seq(Nat)]
Deeds == [op : {"none", "create", "copy", "import", "patch", "done"},
          at : {"start", "search", "insert", "look", "title", "status", "context", "primary", "trigger"},
          on : Places, title : Titles, n : Nat, wants : SUBSET Fields, stale : BOOLEAN]
PatchSteps == {"status", "context", "primary", "trigger"}

TitlesTyped ==
    /\ titleOf \in [Places -> Titles \cup {NoTitle}]
    /\ deed \in [Writers -> Deeds]
    /\ unindexed \subseteq Live

\* Who is about to write a title and was not overtaken has it to itself.
Free(t, others) == \A s \in others : titleOf[s] # t
Sound(d) ==
    /\ d.at = "insert" /\ d.op # "import" /\ ~d.stale => Free(d.title, Live)
    /\ d.at = "title" /\ ~d.stale => Free(d.title, Live \ {d.on})
    /\ d.op = "patch" => d.at \in {"look", "title"} \cup PatchSteps
    /\ d.at \in {"look", "title"} => d.op = "patch" /\ "title" \in d.wants
DeedsSound == \A c \in Writers : Sound(deed[c])

\* What changed is still to be indexed by a patch that has written something to index.
Wrote(d, s) == d.op = "patch" /\ d.on = s /\ d.at \in PatchSteps /\ Indexed(d.wants)
TriggerComes == \A s \in unindexed \ halted : \E c \in Writers : Wrote(deed[c], s)

TitlesInv == TitlesTyped /\ DeedsSound /\ TitlesDiffer /\ TriggerComes

LEMMA NoDeedIs ==
    /\ NoDeed \in Deeds /\ NoDeed.op = "none" /\ NoDeed.at = "start" /\ ~NoDeed.stale
    /\ NoDeed.on = FirstSession
<1>1. << >> \in Seq(Nat) OBVIOUS
<1> QED BY <1>1, TitlesAssumption DEF NoDeed, Deeds, Typed, Places, Titles, Fields

LEMMA TypedIs == ASSUME NEW name \in Names PROVE Typed(name) \in Titles
BY DEF Typed, Titles

\* The field after one that is written is a later one, or the trigger.
LEMMA AfterIs ==
    ASSUME NEW wants \in SUBSET Fields, NEW f \in Fields PROVE After(f, wants) \in PatchSteps
<1> DEFINE at == CHOOSE i \in 1..5 : Ordered[i] = f
           left == {i \in at + 1..5 : Ordered[i] \in wants \cup {"trigger"}}
<1>1. /\ Ordered[1] = "title" /\ Ordered[2] = "status" /\ Ordered[3] = "context"
      /\ Ordered[4] = "primary" /\ Ordered[5] = "trigger"
  BY DEF Ordered
<1>2. \E i \in 1..5 : i < 5 /\ Ordered[i] = f
  <2>1. f = "title" \/ f = "status" \/ f = "context" \/ f = "primary" BY DEF Fields
  <2>2. CASE f = "title"
    <3>1. 1 \in 1..5 /\ 1 < 5 OBVIOUS
    <3> QED BY <1>1, <2>2, <3>1
  <2>3. CASE f = "status"
    <3>1. 2 \in 1..5 /\ 2 < 5 OBVIOUS
    <3> QED BY <1>1, <2>3, <3>1
  <2>4. CASE f = "context"
    <3>1. 3 \in 1..5 /\ 3 < 5 OBVIOUS
    <3> QED BY <1>1, <2>4, <3>1
  <2>5. CASE f = "primary"
    <3>1. 4 \in 1..5 /\ 4 < 5 OBVIOUS
    <3> QED BY <1>1, <2>5, <3>1
  <2> QED BY <2>1, <2>2, <2>3, <2>4, <2>5
<1>3. at \in 1..5 /\ Ordered[at] = f BY <1>2
<1>4. at \in 1..4 BY <1>1, <1>3 DEF Fields
<1>5. left \subseteq 2..5 /\ 5 \in left
  <2> HIDE DEF at
  <2>1. 5 \in at + 1..5 /\ at + 1..5 \subseteq 2..5 BY <1>4
  <2> QED BY <1>1, <2>1
<1>6. \E k \in left : \A j \in left : k <= j
  <2> HIDE DEF left
  <2>1. CASE 2 \in left BY <1>5, <2>1
  <2>2. CASE 2 \notin left /\ 3 \in left BY <1>5, <2>2
  <2>3. CASE 2 \notin left /\ 3 \notin left /\ 4 \in left BY <1>5, <2>3
  <2>4. CASE 2 \notin left /\ 3 \notin left /\ 4 \notin left BY <1>5, <2>4
  <2> QED BY <2>1, <2>2, <2>3, <2>4
<1>7. PICK i : i = CHOOSE k \in left : \A j \in left : k <= j OBVIOUS
<1>8. i \in 2..5
  <2> HIDE DEF left
  <2> QED BY <1>5, <1>6, <1>7
<1>9. After(f, wants) = Ordered[i] BY <1>7 DEF After
<1> QED BY <1>1, <1>8, <1>9 DEF PatchSteps

-----------------------------------------------------------------------------
\* A request becomes x, the others stay.
DeedTurns(c, x) ==
    /\ deed' \in [Writers -> Deeds] /\ deed'[c] = x
    /\ \A d \in Writers \ {c} : deed'[d] = deed[d]

LEMMA TurnsTo ==
    ASSUME TitlesTyped, NEW c \in Writers, NEW x \in Deeds, deed' = [deed EXCEPT ![c] = x]
    PROVE  DeedTurns(c, x)
BY DEF TitlesTyped, DeedTurns

LEMMA OverIs ==
    ASSUME TitlesTyped, NEW c \in Writers, deed' = Over(c)
    PROVE  \E x \in Deeds : DeedTurns(c, x) /\ x.op = "done" /\ x.at = "start"
<1>1. PICK x : x = [NoDeed EXCEPT !.op = "done"] OBVIOUS
<1>2. x \in Deeds /\ x.op = "done" /\ x.at = "start" BY <1>1, NoDeedIs DEF Deeds
<1> QED BY <1>1, <1>2, TurnsTo DEF Over

\* A step of one request that writes no title.
LEMMA DeedStep ==
    ASSUME TitlesInv, NEW c \in Writers, NEW x \in Deeds, DeedTurns(c, x), Sound(x),
           UNCHANGED <<titleOf, clouded>>, halted \subseteq halted', unindexed' \subseteq Live,
           \A s \in unindexed' \ halted' :
             Wrote(x, s) \/ (s \in unindexed /\ ~Wrote(deed[c], s))
    PROVE  TitlesInv'
<1> USE DEF TitlesInv
<1>1. Live' = Live BY DEF Live
<1>2. TitlesTyped' BY <1>1 DEF TitlesTyped, DeedTurns
<1>3. DeedsSound' BY <1>1 DEF DeedsSound, Sound, DeedTurns, Free
<1>4. TitlesDiffer' BY <1>1 DEF TitlesDiffer
<1>5. TriggerComes'
  <2>1. ASSUME NEW s \in unindexed', s \notin halted' PROVE \E d \in Writers : Wrote(deed[d], s)'
    <3>1. CASE Wrote(x, s) BY <3>1 DEF Wrote, DeedTurns
    <3>2. CASE s \in unindexed /\ ~Wrote(deed[c], s)
      <4>1. PICK d \in Writers : Wrote(deed[d], s) BY <2>1, <3>2 DEF TriggerComes
      <4> QED BY <3>2, <4>1 DEF Wrote, DeedTurns
    <3> QED BY <2>1, <3>1, <3>2
  <2> QED BY <2>1 DEF TriggerComes
<1> QED BY <1>2, <1>3, <1>4, <1>5

\* Whoever looked before a title is written is stale after it.
LEMMA OthersStale ==
    ASSUME TitlesTyped, NEW c \in Writers, NEW s, NEW t, NEW after, TitleWritten(c, s, t, after), after[c] \in Deeds
    PROVE  /\ deed' \in [Writers -> Deeds] /\ deed'[c] = after[c]
           /\ \A d \in Writers \ {c} :
                /\ deed'[d].at \in {"insert", "title"} => deed'[d].stale
                /\ deed'[d].op = deed[d].op /\ deed'[d].at = deed[d].at /\ deed'[d].on = deed[d].on
                /\ deed'[d].wants = deed[d].wants
<1>1. ASSUME NEW d \in Writers \ {c}
      PROVE  /\ deed'[d] \in Deeds
             /\ deed'[d].at \in {"insert", "title"} => deed'[d].stale
             /\ deed'[d].op = deed[d].op /\ deed'[d].at = deed[d].at /\ deed'[d].on = deed[d].on
             /\ deed'[d].wants = deed[d].wants
  <2>1. PICK b \in BOOLEAN : b <=> (deed[d].at \in {"insert", "title"}) OBVIOUS
  <2>2. b = (deed[d].at \in {"insert", "title"}) BY <2>1
  <2>3. deed'[d] = [deed[d] EXCEPT !.stale = b] BY <2>2 DEF TitleWritten
  <2>4. deed[d] \in Deeds BY DEF TitlesTyped
  <2> QED BY <2>1, <2>3, <2>4 DEF Deeds
<1>2. deed'[c] = after[c] BY DEF TitleWritten
<1>3. \E f : deed' = [d \in Writers |-> f[d]] /\ \A d \in Writers : f[d] = deed'[d]
  <2>1. deed' = [d \in Writers |-> deed'[d]] BY DEF TitleWritten
  <2> QED BY <2>1
<1>4. deed' \in [Writers -> Deeds] BY <1>1, <1>2, <1>3
<1> QED BY <1>1, <1>2, <1>4

LEMMA TitleStep ==
    ASSUME TitlesInv, NEW c \in Writers, NEW s \in Places, NEW t \in Titles, NEW after, NEW x \in Deeds,
           TitleWritten(c, s, t, after), after[c] = x, x.at \notin {"insert", "look", "title"},
           x.op = "patch" => x.at \in PatchSteps,
           deed[c].stale \/ deed[c].op = "import" \/ Free(t, Live \ {s}),
           \A p \in Places : ~Wrote(deed[c], p),
           halted' = halted,
           unindexed' = unindexed \/ (unindexed' = unindexed \cup {s} /\ (s \in halted \/ Wrote(x, s)))
    PROVE  TitlesInv'
<1> USE DEF TitlesInv
<1>1. /\ deed' \in [Writers -> Deeds] /\ deed'[c] = x
      /\ \A d \in Writers \ {c} :
           /\ deed'[d].at \in {"insert", "title"} => deed'[d].stale
           /\ deed'[d].op = deed[d].op /\ deed'[d].at = deed[d].at /\ deed'[d].on = deed[d].on
           /\ deed'[d].wants = deed[d].wants
  BY OthersStale
<1>2. /\ titleOf' \in [Places -> Titles \cup {NoTitle}] /\ titleOf'[s] = t
      /\ \A p \in Places \ {s} : titleOf'[p] = titleOf[p]
  BY DEF TitleWritten, TitlesTyped
<1>3. t # NoTitle BY TitlesAssumption DEF Titles
<1>4. Live' = Live \cup {s} BY <1>2, <1>3 DEF Live
<1>5. TitlesTyped' BY <1>1, <1>2, <1>4 DEF TitlesTyped
<1>6. DeedsSound'
  <2>1. Sound(deed[c])' BY <1>1 DEF Sound
  <2>2. ASSUME NEW d \in Writers \ {c} PROVE Sound(deed[d])'
    <3>1. Sound(deed[d]) BY DEF DeedsSound
    <3> QED BY <1>1, <3>1 DEF Sound
  <2> QED BY <2>1, <2>2 DEF DeedsSound
<1>7. TitlesDiffer'
  <2>1. \A p \in Places \ {s} : p \notin clouded' => p \notin clouded BY DEF TitleWritten
  <2>2. s \notin clouded' => Free(t, Live \ {s}) BY DEF TitleWritten
  <2>3. Live \subseteq Places BY DEF Live
  <2> QED BY <1>2, <1>4, <2>1, <2>2, <2>3 DEF TitlesDiffer, Free
<1>8. TriggerComes'
  <2>1. ASSUME NEW p \in unindexed', p \notin halted' PROVE \E d \in Writers : Wrote(deed[d], p)'
    <3>1. CASE Wrote(x, p) BY <1>1, <3>1 DEF Wrote
    <3>2. CASE p \in unindexed
      <4>1. PICK d \in Writers : Wrote(deed[d], p) BY <2>1, <3>2 DEF TriggerComes
      <4>2. p \in Places BY <3>2 DEF TitlesTyped, Live
      <4>3. d # c BY <4>1, <4>2
      <4> QED BY <1>1, <4>1, <4>3 DEF Wrote
    <3> QED BY <2>1, <3>1, <3>2
  <2> QED BY <2>1 DEF TriggerComes
<1> QED BY <1>5, <1>6, <1>7, <1>8

-----------------------------------------------------------------------------
\* The steps one by one.
LEMMA BeginKeeps ==
    ASSUME TitlesInv, NEW c \in Writers, NEW name \in Names, CreateCheck(c, name) \/ ImportTitle(c, name)
    PROVE  TitlesInv'
<1>0. TitlesTyped /\ TitlesInv BY DEF TitlesInv
<1>1. /\ deed[c].op = "none" /\ UNCHANGED <<titleOf, unindexed, halted, clouded>>
      /\ unindexed \subseteq Live
  BY <1>0 DEF CreateCheck, ImportTitle, Ghosts, TitlesTyped
<1>2. \A s \in Places : ~Wrote(deed[c], s) BY <1>1 DEF Wrote
<1>w. unindexed \subseteq Places BY <1>1 DEF Live
<1>3. CASE deed' = Over(c)
  <2>1. PICK x \in Deeds : DeedTurns(c, x) /\ x.op = "done" /\ x.at = "start" BY <1>0, <1>3, OverIs
  <2> QED BY <1>1, <1>2, <1>w, <2>1, DeedStep DEF Sound
<1>4. CASE deed' # Over(c)
  <2>1. PICK op \in {"create", "import"} :
          /\ deed' = [deed EXCEPT ![c] = [NoDeed EXCEPT !.op = op, !.title = Typed(name), !.at = "insert"]]
          /\ op = "create" => ~Taken(Typed(name), Live)
    BY <1>4 DEF CreateCheck, ImportTitle
  <2>2. PICK x : x = [NoDeed EXCEPT !.op = op, !.title = Typed(name), !.at = "insert"] OBVIOUS
  <2>3. x \in Deeds /\ x.op = op /\ x.at = "insert" /\ x.title = Typed(name)
    BY <2>2, NoDeedIs, TypedIs DEF Deeds
  <2>4. DeedTurns(c, x) BY <1>0, <2>1, <2>2, <2>3, TurnsTo
  <2>5. Sound(x) BY <2>1, <2>3 DEF Sound, Taken, Free
  <2> QED BY <1>1, <1>2, <1>w, <2>3, <2>4, <2>5, DeedStep
<1> QED BY <1>3, <1>4

LEMMA CopyKeeps ==
    ASSUME TitlesInv, NEW c \in Writers, CopySearch(c) \/ \E s \in Places : CopyBegin(c, s)
    PROVE  TitlesInv'
<1>0. TitlesTyped /\ TitlesInv /\ deed[c] \in Deeds BY DEF TitlesInv, TitlesTyped
<1>1. UNCHANGED <<titleOf, unindexed, halted, clouded>> /\ unindexed \subseteq Live
  BY <1>0 DEF CopySearch, CopyBegin, Ghosts, TitlesTyped
<1>w. unindexed \subseteq Places BY <1>1 DEF Live
<1>2. \A s \in Places : ~Wrote(deed[c], s) BY DEF Wrote, PatchSteps, CopySearch, CopyBegin
<1>3. ASSUME NEW s \in Places, CopyBegin(c, s) PROVE TitlesInv'
  <2>1. titleOf[s] \in Titles BY <1>0, <1>3 DEF CopyBegin, Live, TitlesTyped
  <2>2. PICK x : x = [NoDeed EXCEPT !.op = "copy", !.at = "search", !.title = titleOf[s]] OBVIOUS
  <2>3. x \in Deeds /\ x.op = "copy" /\ x.at = "search" BY <2>1, <2>2, NoDeedIs DEF Deeds
  <2>4. DeedTurns(c, x) BY <1>0, <1>3, <2>2, <2>3, TurnsTo DEF CopyBegin
  <2>5. Sound(x) BY <2>3 DEF Sound
  <2> QED BY <1>1, <1>2, <1>w, <2>3, <2>4, <2>5, DeedStep
<1>4. CASE CopySearch(c)
  <2>1. deed[c].at = "search" /\ deed[c].op # "patch"
    BY <1>4 DEF CopySearch, TitlesInv, DeedsSound, Sound, PatchSteps
  <2>2. CASE Taken(CopyTitle(deed[c].title, deed[c].n), Live)
    <3>1. PICK n \in Nat : n = (IF deed[c].n = MaxSuffix THEN 2 ELSE deed[c].n + 1) BY <1>0 DEF Deeds
    <3>2. PICK x : x = [deed[c] EXCEPT !.n = n, !.stale = FALSE] OBVIOUS
    <3>3. x \in Deeds /\ x.at = "search" /\ x.op = deed[c].op BY <1>0, <2>1, <3>2 DEF Deeds
    <3>4. deed' = [deed EXCEPT ![c] = x] BY <1>4, <2>2, <3>1, <3>2 DEF CopySearch
    <3>5. DeedTurns(c, x) BY <1>0, <3>3, <3>4, TurnsTo
    <3>6. Sound(x) BY <2>1, <3>3 DEF Sound
    <3> QED BY <1>1, <1>2, <1>w, <3>3, <3>5, <3>6, DeedStep
  <2>3. CASE ~Taken(CopyTitle(deed[c].title, deed[c].n), Live)
    <3>1. PICK t : t = CopyTitle(deed[c].title, deed[c].n) OBVIOUS
    <3>2. t \in Titles
      <4>1. deed[c].title \in Titles /\ deed[c].n \in Nat BY <1>0 DEF Deeds
      <4>2. PICK n \in Nat : n = (IF deed[c].title.name \in LongNames THEN 1 ELSE deed[c].n) BY <4>1
      <4>3. PICK marks : marks = Append(deed[c].title.marks, n) OBVIOUS
      <4>4. marks \in Seq(Nat) BY <4>1, <4>2, <4>3 DEF Titles
      <4>5. t = [deed[c].title EXCEPT !.marks = marks] BY <3>1, <4>2, <4>3 DEF CopyTitle
      <4> QED BY <4>1, <4>4, <4>5 DEF Titles
    <3>3. PICK x : x = [deed[c] EXCEPT !.at = "insert", !.title = t, !.stale = FALSE] OBVIOUS
    <3>4. x \in Deeds /\ x.at = "insert" /\ x.op = deed[c].op /\ x.title = t BY <1>0, <3>2, <3>3 DEF Deeds
    <3>5. deed' = [deed EXCEPT ![c] = x] BY <1>4, <2>3, <3>1, <3>3 DEF CopySearch
    <3>6. DeedTurns(c, x) BY <1>0, <3>4, <3>5, TurnsTo
    <3>7. Sound(x) BY <2>1, <2>3, <3>1, <3>4 DEF Sound, Taken, Free
    <3> QED BY <1>1, <1>2, <1>w, <3>4, <3>6, <3>7, DeedStep
  <2> QED BY <2>2, <2>3
<1> QED BY <1>3, <1>4

LEMMA TitleInsertKeeps ==
    ASSUME TitlesInv, NEW c \in Writers, InsertSession(c) PROVE TitlesInv'
<1>0. TitlesTyped /\ TitlesInv /\ deed[c] \in Deeds BY DEF TitlesInv, TitlesTyped
<1>1. deed[c].at = "insert" /\ UNCHANGED <<unindexed, halted>> /\ unindexed \subseteq Live
  BY <1>0 DEF InsertSession, TitlesTyped
<1>w. unindexed \subseteq Places BY <1>1 DEF Live
<1>2. \A s \in Places : ~Wrote(deed[c], s) BY <1>1 DEF Wrote, PatchSteps
<1>3. CASE TitleWritten(c, c, deed[c].title, Over(c))
  <2>1. PICK x : x = [NoDeed EXCEPT !.op = "done"] OBVIOUS
  <2>2. x \in Deeds /\ x.op = "done" /\ x.at = "start" BY <2>1, NoDeedIs DEF Deeds
  <2>3. PICK after : after = Over(c) OBVIOUS
  <2>4. after[c] = x BY <1>0, <2>1, <2>3 DEF Over, TitlesTyped
  <2>5. c \in Places /\ deed[c].title \in Titles BY <1>0 DEF Places, Deeds
  <2>6. deed[c].stale \/ deed[c].op = "import" \/ Free(deed[c].title, Live \ {c})
    BY <1>0, <1>1 DEF TitlesInv, DeedsSound, Sound, Free
  <2>7. TitleWritten(c, c, deed[c].title, after) BY <1>3, <2>3
  <2> QED BY <1>1, <1>2, <2>2, <2>4, <2>5, <2>6, <2>7, TitleStep
<1>4. CASE deed' = Over(c) /\ UNCHANGED <<titleOf, clouded>>
  <2>1. PICK x \in Deeds : DeedTurns(c, x) /\ x.op = "done" /\ x.at = "start" BY <1>0, <1>4, OverIs
  <2> QED BY <1>1, <1>2, <1>4, <1>w, <2>1, DeedStep DEF Sound
<1> QED BY <1>3, <1>4 DEF InsertSession

LEMMA TitleRemoveKeeps ==
    ASSUME TitlesInv, NEW s \in Places, RemoveSession(s) PROVE TitlesInv'
<1> USE DEF TitlesInv
<1>1. /\ titleOf' = [titleOf EXCEPT ![s] = NoTitle] /\ unindexed' = unindexed \ {s}
      /\ UNCHANGED <<deed, halted, clouded>>
  BY DEF RemoveSession, Ghosts
<1>2. Live' = Live \ {s} /\ \A p \in Places \ {s} : titleOf'[p] = titleOf[p]
  BY <1>1 DEF Live, TitlesTyped
<1>3. TitlesTyped' BY <1>1, <1>2 DEF TitlesTyped
<1>4. Live \subseteq Places BY DEF Live
<1>5. DeedsSound'
  <2>1. ASSUME NEW d \in Writers PROVE Sound(deed[d])'
    <3>1. Sound(deed[d]) BY DEF DeedsSound
    <3> QED BY <1>1, <1>2, <1>4, <3>1 DEF Sound, Free
  <2> QED BY <2>1 DEF DeedsSound
<1>6. TitlesDiffer' BY <1>1, <1>2, <1>4 DEF TitlesDiffer
<1>7. TriggerComes' BY <1>1 DEF TriggerComes, Wrote
<1> QED BY <1>3, <1>5, <1>6, <1>7

LEMMA PatchStarts ==
    ASSUME TitlesInv, NEW c \in Writers, NEW s \in Places, NEW wants \in SUBSET Fields, NEW name \in Names,
           PatchBegin(c, s, wants, name)
    PROVE  TitlesInv'
<1>0. TitlesTyped /\ TitlesInv BY DEF TitlesInv
<1>1. /\ deed[c].op = "none" /\ UNCHANGED <<titleOf, unindexed, halted, clouded>>
      /\ unindexed \subseteq Live
  BY <1>0 DEF PatchBegin, Ghosts, TitlesTyped
<1>w. unindexed \subseteq Places BY <1>1 DEF Live
<1>2. \A p \in Places : ~Wrote(deed[c], p) BY <1>1 DEF Wrote
<1>3. PICK at : at = IF "title" \in wants THEN "look" ELSE After("title", wants) OBVIOUS
<1>4. at \in {"look"} \cup PatchSteps BY <1>3, AfterIs DEF Fields
<1>5. PICK x : x = [NoDeed EXCEPT !.op = "patch", !.on = s, !.wants = wants, !.title = Typed(name), !.at = at]
  OBVIOUS
<1>6. x \in Deeds /\ x.op = "patch" /\ x.at = at /\ x.wants = wants BY <1>4, <1>5, NoDeedIs, TypedIs DEF Deeds, PatchSteps
<1>7. deed' = [deed EXCEPT ![c] = x] BY <1>3, <1>5 DEF PatchBegin
<1>8. DeedTurns(c, x) BY <1>0, <1>6, <1>7, TurnsTo
<1>9. x.at \in {"look"} \cup PatchSteps /\ (x.at = "look" => "title" \in x.wants)
  <2>1. CASE "title" \in wants BY <1>4, <1>6, <2>1
  <2>2. CASE "title" \notin wants
    <3>1. at \in PatchSteps BY <1>3, <2>2, AfterIs DEF Fields
    <3> QED BY <1>6, <3>1 DEF PatchSteps
  <2> QED BY <2>1, <2>2
<1>10. Sound(x) BY <1>6, <1>9 DEF Sound, PatchSteps
<1> QED BY <1>1, <1>2, <1>w, <1>6, <1>8, <1>10, DeedStep

LEMMA PatchLooks ==
    ASSUME TitlesInv, NEW c \in Writers, PatchLook(c) PROVE TitlesInv'
<1>0. TitlesTyped /\ TitlesInv /\ deed[c] \in Deeds BY DEF TitlesInv, TitlesTyped
<1>1. /\ deed[c].op = "patch" /\ deed[c].at = "look" /\ UNCHANGED <<titleOf, unindexed, halted, clouded>>
      /\ unindexed \subseteq Live
  BY <1>0 DEF PatchLook, Ghosts, TitlesTyped
<1>w. unindexed \subseteq Places BY <1>1 DEF Live
<1>2. \A s \in Places : ~Wrote(deed[c], s) BY <1>1 DEF Wrote, PatchSteps
<1>3. CASE Taken(deed[c].title, Live \ {deed[c].on})
  <2>1. PICK x \in Deeds : DeedTurns(c, x) /\ x.op = "done" /\ x.at = "start"
    BY <1>0, <1>3, OverIs DEF PatchLook
  <2> QED BY <1>1, <1>2, <1>w, <2>1, DeedStep DEF Sound
<1>4. CASE ~Taken(deed[c].title, Live \ {deed[c].on})
  <2>1. PICK x : x = [deed[c] EXCEPT !.at = "title", !.stale = FALSE] OBVIOUS
  <2>2. /\ x \in Deeds /\ x.op = "patch" /\ x.at = "title" /\ x.title = deed[c].title /\ x.on = deed[c].on
        /\ x.wants = deed[c].wants
    BY <1>0, <1>1, <2>1 DEF Deeds
  <2>3. deed' = [deed EXCEPT ![c] = x] BY <1>4, <2>1 DEF PatchLook
  <2>4. DeedTurns(c, x) BY <1>0, <2>2, <2>3, TurnsTo
  <2>5. Sound(deed[c]) BY <1>0 DEF TitlesInv, DeedsSound
  <2>6. Sound(x) BY <1>1, <1>4, <2>2, <2>5 DEF Sound, Taken, Free
  <2> QED BY <1>1, <1>2, <1>w, <2>2, <2>4, <2>6, DeedStep
<1> QED BY <1>3, <1>4

LEMMA PatchTitles ==
    ASSUME TitlesInv, NEW c \in Writers, PatchTitle(c) PROVE TitlesInv'
<1>0. TitlesTyped /\ TitlesInv /\ deed[c] \in Deeds /\ Sound(deed[c])
  BY DEF TitlesInv, TitlesTyped, DeedsSound
<1>1. deed[c].op = "patch" /\ deed[c].at = "title" /\ halted' = halted /\ unindexed \subseteq Live
  BY <1>0 DEF PatchTitle, TitlesTyped
<1>w. unindexed \subseteq Places BY <1>1 DEF Live
<1>2. \A s \in Places : ~Wrote(deed[c], s) BY <1>1 DEF Wrote, PatchSteps
<1>3. CASE deed[c].on \in Live
  <2>1. PICK s \in Places : s = deed[c].on BY <1>0 DEF Deeds
  <2>2. PICK at : at = After("title", deed[c].wants) OBVIOUS
  <2>3. at \in PatchSteps
    <3>1. deed[c].wants \in SUBSET Fields /\ "title" \in Fields BY <1>0 DEF Deeds, Fields
    <3> QED BY <2>2, <3>1, AfterIs
  <2>4. PICK x : x = [deed[c] EXCEPT !.at = at] OBVIOUS
  <2>5. x \in Deeds /\ x.op = "patch" /\ x.at = at /\ x.on = s /\ x.wants = deed[c].wants
    BY <1>0, <1>1, <2>1, <2>3, <2>4 DEF Deeds, PatchSteps
  <2>6. PICK after : after = [deed EXCEPT ![c] = x] OBVIOUS
  <2>7. after[c] = x BY <1>0, <2>6 DEF TitlesTyped
  <2>8. [deed EXCEPT ![c].at = After("title", deed[c].wants)] = after BY <2>2, <2>4, <2>6
  <2>9. TitleWritten(c, s, deed[c].title, after) /\ unindexed' = unindexed \cup {s}
    BY <1>3, <2>1, <2>8 DEF PatchTitle
  <2>10. Wrote(x, s) BY <1>0, <1>1, <2>3, <2>5 DEF Wrote, Indexed, Sound
  <2>11. deed[c].stale \/ deed[c].op = "import" \/ Free(deed[c].title, Live \ {s})
    BY <1>0, <1>1, <2>1 DEF Sound
  <2>12. deed[c].title \in Titles BY <1>0 DEF Deeds
  <2>13. x.at \notin {"insert", "look", "title"} /\ x.at \in PatchSteps BY <2>3, <2>5 DEF PatchSteps
  <2> QED BY <1>1, <1>2, <2>5, <2>7, <2>9, <2>10, <2>11, <2>12, <2>13, TitleStep
<1>4. CASE deed[c].on \notin Live
  <2>1. deed' = Over(c) /\ UNCHANGED <<titleOf, unindexed, clouded>> BY <1>4 DEF PatchTitle
  <2>2. PICK x \in Deeds : DeedTurns(c, x) /\ x.op = "done" /\ x.at = "start" BY <1>0, <2>1, OverIs
  <2> QED BY <1>1, <1>2, <1>w, <2>1, <2>2, DeedStep DEF Sound
<1> QED BY <1>3, <1>4

\* Whoever stops early leaves its session to the excuse, whoever goes on keeps its promise.
LEMMA PatchGoesOn ==
    ASSUME TitlesInv, NEW c \in Writers, PatchRefused(c) \/ PatchField(c) PROVE TitlesInv'
<1>0. TitlesTyped /\ TitlesInv /\ deed[c] \in Deeds /\ Sound(deed[c])
  BY DEF TitlesInv, TitlesTyped, DeedsSound
<1>1. deed[c].op = "patch" /\ deed[c].at \in deed[c].wants \ {"title"} /\ UNCHANGED <<titleOf, clouded>>
  BY DEF PatchRefused, PatchField, Ghosts
<1>2. deed[c].wants \in SUBSET Fields /\ unindexed \subseteq Live /\ deed[c].on \in Places
  BY <1>0 DEF Deeds, TitlesTyped
<1>3. CASE PatchRefused(c)
  <2>1. PICK x \in Deeds : DeedTurns(c, x) /\ x.op = "done" /\ x.at = "start"
    BY <1>0, <1>3, OverIs DEF PatchRefused
  <2>2. halted' = halted \cup {deed[c].on} /\ unindexed' = unindexed BY <1>3 DEF PatchRefused
  <2>3. \A s \in unindexed' \ halted' : s \in unindexed /\ ~Wrote(deed[c], s) BY <2>2 DEF Wrote
  <2>4. Sound(x) BY <2>1 DEF Sound
  <2>5. halted \subseteq halted' /\ unindexed' \subseteq Live BY <1>2, <2>2
  <2> QED BY <1>1, <2>1, <2>3, <2>4, <2>5, DeedStep
<1>4. CASE PatchField(c)
  <2>1. PICK at : at = After(deed[c].at, deed[c].wants) OBVIOUS
  <2>2. at \in PatchSteps BY <1>1, <1>2, <2>1, AfterIs
  <2>3. PICK x : x = [deed[c] EXCEPT !.at = at] OBVIOUS
  <2>4. x \in Deeds /\ x.op = "patch" /\ x.at = at /\ x.on = deed[c].on /\ x.wants = deed[c].wants
    BY <1>0, <1>1, <2>2, <2>3 DEF Deeds, PatchSteps
  <2>5. DeedTurns(c, x) BY <1>0, <1>4, <2>1, <2>3, <2>4, TurnsTo DEF PatchField
  <2>6. Sound(x) BY <2>2, <2>4 DEF Sound, PatchSteps
  <2>7. /\ halted' = halted /\ deed[c].on \in Live
        /\ unindexed' = unindexed \cup {s \in {deed[c].on} : deed[c].at # "primary"}
    BY <1>4 DEF PatchField, Ghosts
  <2>8. \A s : Wrote(deed[c], s) => Wrote(x, s) BY <2>2, <2>4 DEF Wrote
  <2>9. deed[c].at # "primary" => Wrote(x, deed[c].on)
    <3>1. SUFFICES ASSUME deed[c].at # "primary" PROVE Indexed(deed[c].wants) BY <2>2, <2>4 DEF Wrote
    <3>2. deed[c].at \in {"status", "context"} BY <1>1, <1>2, <3>1 DEF Fields
    <3> QED BY <1>1, <3>2 DEF Indexed
  <2>10. \A s \in unindexed' \ halted' : Wrote(x, s) \/ (s \in unindexed /\ ~Wrote(deed[c], s))
    BY <2>7, <2>8, <2>9
  <2>11. halted \subseteq halted' /\ unindexed' \subseteq Live BY <1>2, <2>7
  <2> QED BY <1>1, <2>4, <2>5, <2>6, <2>10, <2>11, DeedStep
<1> QED BY <1>3, <1>4

LEMMA PatchTriggers ==
    ASSUME TitlesInv, NEW c \in Writers, PatchTrigger(c) PROVE TitlesInv'
<1>0. TitlesTyped /\ TitlesInv BY DEF TitlesInv
<1>1. PICK x \in Deeds : DeedTurns(c, x) /\ x.op = "done" /\ x.at = "start"
  BY <1>0, OverIs DEF PatchTrigger
<1>2. UNCHANGED <<titleOf, halted, clouded>> BY DEF PatchTrigger, Ghosts
<1>3. unindexed' \subseteq Live /\ unindexed' \subseteq unindexed BY <1>0 DEF PatchTrigger, TitlesTyped
<1>4. \A s \in unindexed' : ~Wrote(deed[c], s) BY DEF PatchTrigger, Wrote
<1>5. Sound(x) BY <1>1 DEF Sound
<1> QED BY <1>1, <1>2, <1>3, <1>4, <1>5, DeedStep

-----------------------------------------------------------------------------
LEMMA TitlesStart == TitlesInit => TitlesInv
<1> SUFFICES ASSUME TitlesInit PROVE TitlesInv OBVIOUS
<1>1. Typed(FirstName) \in Titles BY TypedIs, TitlesAssumption
<1>2. TitlesTyped BY <1>1, NoDeedIs DEF TitlesInit, TitlesTyped, Live
<1>3. \A c \in Writers : deed[c] = NoDeed BY DEF TitlesInit
<1>4. DeedsSound BY <1>3, NoDeedIs DEF DeedsSound, Sound
<1>5. Live \subseteq {FirstSession} BY DEF TitlesInit, Live
<1>6. TitlesDiffer BY <1>5 DEF TitlesDiffer
<1>7. TriggerComes BY DEF TitlesInit, TriggerComes
<1> QED BY <1>2, <1>4, <1>6, <1>7 DEF TitlesInv

LEMMA TitlesStep == TitlesInv /\ [TitlesNext]_titleVars => TitlesInv'
<1> SUFFICES ASSUME TitlesInv, [TitlesNext]_titleVars PROVE TitlesInv' OBVIOUS
<1>1. CASE UNCHANGED titleVars
  BY <1>1 DEF titleVars, TitlesInv, TitlesTyped, DeedsSound, Sound, Free, TitlesDiffer, TriggerComes, Wrote, Live
<1>2. ASSUME NEW s \in Places, RemoveSession(s) PROVE TitlesInv' BY <1>2, TitleRemoveKeeps
<1>3. ASSUME NEW c \in Writers, NEW name \in Names, CreateCheck(c, name) \/ ImportTitle(c, name) PROVE TitlesInv'
  BY <1>3, BeginKeeps
<1>4. ASSUME NEW c \in Writers, NEW s \in Places, NEW wants \in SUBSET Fields, NEW name \in Names,
             PatchBegin(c, s, wants, name)
      PROVE  TitlesInv'
  BY <1>4, PatchStarts
<1>5. ASSUME NEW c \in Writers,
             \/ \E s \in Places : CopyBegin(c, s)
             \/ CopySearch(c) \/ InsertSession(c)
             \/ PatchLook(c) \/ PatchTitle(c) \/ PatchRefused(c) \/ PatchField(c) \/ PatchTrigger(c)
      PROVE  TitlesInv'
  BY <1>5, CopyKeeps, TitleInsertKeeps, PatchLooks, PatchTitles, PatchGoesOn, PatchTriggers
<1> QED BY <1>1, <1>2, <1>3, <1>4, <1>5 DEF TitlesNext

LEMMA TitlesMean == TitlesInv => TitlesRight
BY DEF TitlesInv, TitlesRight, TriggerComes, MetadataFollows, Wrote

\* For any writers, names and interleaving of creates, copies, imports and patches: two
\* sessions share a title only if one was named over another's check, and what a patch
\* changed is indexed by a trigger still to come, unless a later field of it was refused
\* (sessions.go:186-203, 1043-1067, 1131-1137).
THEOREM TitlesStayRight == TitlesSpec => []TitlesRight
BY TitlesStart, TitlesStep, TitlesMean, PTL DEF TitlesSpec

-----------------------------------------------------------------------------
(* The questions and the browsers that show them (QuestionFeed).            *)

Tidings == [kind : {"created", "deleted"}, ids : SUBSET Questions]
LineRows == [at : {"unused", "dialling", "live", "failing", "dead"}, registered : BOOLEAN, open : BOOLEAN,
             buffer : Seq(Tidings)]
ClerkRows == [at : {"idle", "insert", "answer", "tell", "remove", "announce", "done"},
              q : Questions \cup {NoParent}, ids : SUBSET Questions]
Lists == [rows : SUBSET Questions, stale : BOOLEAN]

FeedTyped ==
    /\ asked \subseteq Questions /\ fresh \subseteq Questions
    /\ clerk \in [Clerks -> ClerkRows] /\ queue \in Seq(Tidings) /\ line \in [Lines -> LineRows]
    /\ current \in [Viewers -> Lines \cup {NoLine}]
    /\ shown \in [Viewers -> SUBSET Questions] /\ fading \in [Viewers -> SUBSET Questions]
    /\ asking \in [Viewers -> Nat] /\ replies \in [Viewers -> Seq(Lists)]

\* Rows nobody can ask again: neither there, nor unused, nor about to be written.
Inserting == {clerk[c].q : c \in {d \in Clerks : clerk[d].at = "insert"}}
Gone == Questions \ (asked \cup fresh \cup Inserting)
Told(s, kind, q) == \E i \in 1..Len(s) : s[i].kind = kind /\ q \in s[i].ids
TellsOfGone(s) == \A q : Told(s, "deleted", q) => q \in Gone

BoardInv ==
    /\ asked \cap fresh = {} /\ Inserting \cap (asked \cup fresh) = {}
    /\ \A c, d \in Clerks :
         clerk[c].at = "insert" /\ clerk[d].at = "insert" /\ clerk[c].q = clerk[d].q => c = d
    /\ \A c \in Clerks :
         /\ clerk[c].at \in {"insert", "answer", "tell"} => clerk[c].q \in Questions /\ clerk[c].ids = {clerk[c].q}
         /\ clerk[c].at = "remove" => /\ clerk[c].ids \subseteq asked \cup Gone
                                      /\ \A q \in clerk[c].ids : q = clerk[c].q \/ ParentOf[q] = clerk[c].q
         /\ clerk[c].at = "announce" => clerk[c].ids \subseteq Gone
    /\ TellsOfGone(queue) /\ \A k \in Lines : TellsOfGone(line[k].buffer)
    /\ \A v \in Viewers : fading[v] \subseteq Gone
    /\ untold \subseteq Gone

\* Each browser has a line of its own; the hub closes a channel when it forgets it.
LinesInv ==
    /\ \A k \in Lines : /\ line[k].registered => line[k].open
                        /\ line[k].at \in {"unused", "dialling"} => line[k].open /\ ~line[k].registered
    /\ \A v \in Viewers : current[v] # NoLine => line[current[v]].at \in {"dialling", "live"}
    /\ \A v, w \in Viewers : current[v] # NoLine /\ current[v] = current[w] => v = w
    /\ recloses = 0

\* What reaches a browser of a new question, and of a deleted one.
InLine(v, kind, q) == current[v] # NoLine /\ Told(line[current[v]].buffer, kind, q)
Coming(v, q) ==
    \/ \E c \in Clerks : clerk[c].at \in {"answer", "tell"} /\ q \in clerk[c].ids
    \/ Told(queue, "created", q) \/ InLine(v, "created", q)
Going(v, q) ==
    \/ \E c \in Clerks : clerk[c].at = "announce" /\ q \in clerk[c].ids
    \/ Told(queue, "deleted", q) \/ InLine(v, "deleted", q) \/ q \in fading[v]

\* The last list a browser has of the database, read or applied, is right but for what is
\* on its way, unless it missed something or asks again.
LastRows(v)  == IF replies[v] = << >> THEN shown[v] ELSE replies[v][Len(replies[v])].rows
LastStale(v) == IF replies[v] = << >> THEN v \in muddled ELSE replies[v][Len(replies[v])].stale
KeptUp(v) ==
    asking[v] = 0 /\ ~LastStale(v) =>
        /\ \A q \in asked \ (LastRows(v) \cup hushed) : Coming(v, q)
        /\ \A q \in LastRows(v) \ (asked \cup untold) : Going(v, q)

FeedInv == FeedTyped /\ BoardInv /\ LinesInv /\ \A v \in Viewers : KeptUp(v)

-----------------------------------------------------------------------------
(* Messages in a channel, lists under way *)

LEMMA ToldAppend ==
    ASSUME NEW s \in Seq(Tidings), NEW m \in Tidings, NEW kind, NEW q
    PROVE  Told(Append(s, m), kind, q) <=> Told(s, kind, q) \/ (m.kind = kind /\ q \in m.ids)
<1>1. PICK n \in Nat : n = Len(s) OBVIOUS
<1>2. PICK t : t = Append(s, m) OBVIOUS
<1>3. Len(t) = n + 1 /\ t[n + 1] = m /\ \A i \in 1..n : t[i] = s[i] BY <1>1, <1>2
<1>4. \A i : i \in 1..(n + 1) <=> (i \in 1..n \/ i = n + 1) BY <1>1
<1> QED BY <1>1, <1>2, <1>3, <1>4 DEF Told

LEMMA ToldTail ==
    ASSUME NEW s \in Seq(Tidings), s # << >>, NEW kind, NEW q
    PROVE  /\ Head(s) \in Tidings /\ Tail(s) \in Seq(Tidings)
           /\ Told(s, kind, q) <=> Told(Tail(s), kind, q) \/ (Head(s).kind = kind /\ q \in Head(s).ids)
<1>1. PICK n \in Nat : n = Len(s) /\ n > 0 OBVIOUS
<1>2. PICK t : t = Tail(s) OBVIOUS
<1>3. t \in Seq(Tidings) /\ Len(t) = n - 1 /\ \A i \in 1..(n - 1) : t[i] = s[i + 1] BY <1>1, <1>2
<1>4. Head(s) = s[1] /\ Head(s) \in Tidings BY <1>1
<1>5. ASSUME NEW i \in 1..n, s[i].kind = kind, q \in s[i].ids
      PROVE  Told(t, kind, q) \/ (Head(s).kind = kind /\ q \in Head(s).ids)
  <2>1. CASE i = 1 BY <2>1, <1>4, <1>5
  <2>2. CASE i # 1
    <3>1. PICK j \in 1..(n - 1) : i = j + 1
      <4>1. i - 1 \in 1..(n - 1) /\ i = (i - 1) + 1 BY <1>1, <2>2
      <4> QED BY <4>1
    <3>2. t[j] = s[i] BY <1>3, <3>1
    <3> QED BY <1>3, <1>5, <3>2 DEF Told
  <2> QED BY <2>1, <2>2
<1>6. ASSUME NEW j \in 1..(n - 1) PROVE t[j] = s[j + 1] /\ j + 1 \in 1..n BY <1>1, <1>3
<1>7. Told(t, kind, q) => Told(s, kind, q) BY <1>1, <1>3, <1>6 DEF Told
<1>8. 1 \in 1..n BY <1>1
<1>9. Head(s).kind = kind /\ q \in Head(s).ids => Told(s, kind, q) BY <1>1, <1>4, <1>8 DEF Told
<1>10. Told(s, kind, q) => Told(t, kind, q) \/ (Head(s).kind = kind /\ q \in Head(s).ids) BY <1>1, <1>5 DEF Told
<1> QED BY <1>2, <1>3, <1>4, <1>7, <1>9, <1>10

LEMMA ToldNothing == ASSUME NEW kind, NEW q PROVE ~Told(<< >>, kind, q)
BY DEF Told

\* A list under way is taken out; the last one is still the last one.
LEMMA Removed ==
    ASSUME NEW s \in Seq(Lists), NEW i \in 1..Len(s)
    PROVE  /\ RemoveAt(s, i) \in Seq(Lists) /\ Len(RemoveAt(s, i)) = Len(s) - 1
           /\ Len(s) > 1 => RemoveAt(s, i)[Len(s) - 1] = IF i = Len(s) THEN s[Len(s) - 1] ELSE s[Len(s)]
<1>1. PICK n \in Nat : n = Len(s) /\ n > 0 /\ i \in 1..n OBVIOUS
<1>2. PICK a : a = SubSeq(s, 1, i - 1) OBVIOUS
<1>3. PICK b : b = SubSeq(s, i + 1, n) OBVIOUS
<1>4. a \in Seq(Lists) /\ Len(a) = i - 1 /\ \A j \in 1..(i - 1) : a[j] = s[j]
  <2>1. \A j \in 1..(i - 1) : s[j] \in Lists BY <1>1
  <2>2. /\ a \in Seq(Lists) /\ Len(a) = (IF 1 <= i - 1 THEN (i - 1) - 1 + 1 ELSE 0)
        /\ \A j \in 1..((i - 1) - 1 + 1) : a[j] = s[1 + j - 1]
    BY <2>1, <1>1, <1>2, SubSeqProperties
  <2>3. Len(a) = i - 1 BY <2>2, <1>1
  <2>4. \A j \in 1..(i - 1) : j \in 1..((i - 1) - 1 + 1) /\ 1 + j - 1 = j BY <1>1
  <2> QED BY <2>2, <2>3, <2>4
<1>5. b \in Seq(Lists) /\ Len(b) = n - i /\ \A j \in 1..(n - i) : b[j] = s[i + j]
  <2>1. \A j \in (i + 1)..n : s[j] \in Lists BY <1>1
  <2>2. /\ b \in Seq(Lists) /\ Len(b) = (IF i + 1 <= n THEN n - (i + 1) + 1 ELSE 0)
        /\ \A j \in 1..(n - (i + 1) + 1) : b[j] = s[(i + 1) + j - 1]
    BY <2>1, <1>1, <1>3, SubSeqProperties
  <2>3. Len(b) = n - i BY <2>2, <1>1
  <2>4. \A j \in 1..(n - i) : j \in 1..(n - (i + 1) + 1) /\ (i + 1) + j - 1 = i + j BY <1>1
  <2> QED BY <2>2, <2>3, <2>4
<1>6. PICK r : r = a \o b OBVIOUS
<1>7. r = RemoveAt(s, i) BY <1>1, <1>2, <1>3, <1>6 DEF RemoveAt
<1>8. r \in Seq(Lists) /\ Len(r) = Len(a) + Len(b)
      /\ \A j \in 1..(Len(a) + Len(b)) : r[j] = IF j <= Len(a) THEN a[j] ELSE b[j - Len(a)]
  BY <1>4, <1>5, <1>6, ConcatProperties
<1>9. Len(r) = n - 1 BY <1>1, <1>4, <1>5, <1>8
<1>10. ASSUME n > 1 PROVE r[n - 1] = IF i = n THEN s[n - 1] ELSE s[n]
  <2>1. n - 1 \in 1..(Len(a) + Len(b)) BY <1>1, <1>4, <1>5, <1>10
  <2>2. CASE i = n
    <3>1. n - 1 <= Len(a) /\ n - 1 \in 1..(i - 1) BY <2>2, <1>1, <1>4, <1>10
    <3> QED BY <3>1, <2>1, <2>2, <1>4, <1>8
  <2>3. CASE i # n
    <3>1. ~(n - 1 <= Len(a)) /\ n - 1 - Len(a) = n - i BY <2>3, <1>1, <1>4
    <3>2. n - i \in 1..(n - i) /\ i + (n - i) = n BY <2>3, <1>1
    <3>3. b[n - i] = s[n] BY <3>2, <1>5
    <3> QED BY <3>1, <3>3, <2>1, <2>3, <1>8
  <2> QED BY <2>2, <2>3
<1> QED BY <1>1, <1>7, <1>8, <1>9, <1>10

-----------------------------------------------------------------------------
(* What stays gone *)

LEMMA StaysGone ==
    ASSUME BoardInv, asked \subseteq Questions, asked' \subseteq asked \cup Inserting, fresh' \subseteq fresh,
           Inserting' \subseteq Inserting \cup fresh
    PROVE  Gone \subseteq Gone' /\ asked \subseteq Questions
BY DEF Gone

\* A list stays as good as it was while what is on its way stays so.
LEMMA KeptSame ==
    ASSUME NEW v \in Viewers, KeptUp(v), asking'[v] = asking[v],
           LastStale(v)' \/ (LastRows(v)' = LastRows(v) /\ LastStale(v)' = LastStale(v)),
           \A q : q \in asked' /\ q \notin hushed' =>
                     Coming(v, q)' \/ (q \in asked /\ q \notin hushed /\ ~Coming(v, q)),
           \A q : q \in Questions /\ q \notin asked' /\ q \notin untold' =>
                     Going(v, q)' \/ (q \notin asked /\ q \notin untold /\ ~Going(v, q)),
           LastRows(v) \subseteq Questions
    PROVE  KeptUp(v)'
BY DEF KeptUp

LEMMA LastTyped ==
    ASSUME FeedTyped, NEW v \in Viewers
    PROVE  /\ LastRows(v) \subseteq Questions /\ replies[v] \in Seq(Lists) /\ Len(replies[v]) \in Nat
           /\ replies[v] # << >> => Len(replies[v]) > 0 /\ replies[v][Len(replies[v])] \in Lists
<1>1. replies[v] \in Seq(Lists) /\ shown[v] \subseteq Questions BY DEF FeedTyped
<1>2. replies[v] # << >> => Len(replies[v]) > 0 /\ replies[v][Len(replies[v])] \in Lists BY <1>1
<1> QED BY <1>1, <1>2 DEF LastRows, Lists

-----------------------------------------------------------------------------
(* The requests *)

Turned(c, r) == clerk' = [clerk EXCEPT ![c] = r]

LEMMA ClerkFields ==
    ASSUME FeedTyped, NEW c \in Clerks, NEW r \in ClerkRows, Turned(c, r)
    PROVE  /\ clerk' \in [Clerks -> ClerkRows] /\ clerk'[c] = r
           /\ \A d \in Clerks : d # c => clerk'[d] = clerk[d]
BY DEF FeedTyped, Turned

LEMMA InsertingIs ==
    /\ \A x : x \in Inserting <=> \E c \in Clerks : clerk[c].at = "insert" /\ x = clerk[c].q
    /\ \A x : x \in Inserting' <=> \E c \in Clerks : clerk'[c].at = "insert" /\ x = clerk'[c].q
BY DEF Inserting

LEMMA BoardRule ==
    ASSUME FeedInv, NEW c \in Clerks, NEW r \in ClerkRows, Turned(c, r), line' = line, fading' = fading,
           TellsOfGone(queue)', Gone \subseteq Gone', untold' \subseteq Gone', asked' \cap fresh' = {},
           Inserting' \cap (asked' \cup fresh') = {}, asked \subseteq asked' \cup Gone',
           r.at = "insert" => \A d \in Clerks : d # c /\ clerk[d].at = "insert" => clerk[d].q # r.q,
           r.at \in {"insert", "answer", "tell"} => r.q \in Questions /\ r.ids = {r.q},
           r.at = "remove" => /\ r.ids \subseteq asked' \cup Gone'
                              /\ \A q \in r.ids : q = r.q \/ ParentOf[q] = r.q,
           r.at = "announce" => r.ids \subseteq Gone'
    PROVE  BoardInv'
<1>1. clerk'[c] = r /\ \A d \in Clerks : d # c => clerk'[d] = clerk[d] BY ClerkFields DEF FeedInv
<1>2. BoardInv BY DEF FeedInv
<1>3. \A d, e \in Clerks :
         clerk'[d].at = "insert" /\ clerk'[e].at = "insert" /\ clerk'[d].q = clerk'[e].q => d = e
  BY <1>1, <1>2 DEF BoardInv
<1>4. ASSUME NEW d \in Clerks
      PROVE  /\ clerk'[d].at \in {"insert", "answer", "tell"} =>
                    clerk'[d].q \in Questions /\ clerk'[d].ids = {clerk'[d].q}
             /\ clerk'[d].at = "remove" => /\ clerk'[d].ids \subseteq asked' \cup Gone'
                                           /\ \A q \in clerk'[d].ids : q = clerk'[d].q \/ ParentOf[q] = clerk'[d].q
             /\ clerk'[d].at = "announce" => clerk'[d].ids \subseteq Gone'
  <2>1. CASE d = c BY <2>1, <1>1
  <2>2. CASE d # c
    <3>1. clerk'[d] = clerk[d] BY <2>2, <1>1
    <3>2. asked \cup Gone \subseteq asked' \cup Gone' OBVIOUS
    <3>3. clerk[d].at = "remove" => clerk[d].ids \subseteq asked' \cup Gone' BY <1>2, <3>2 DEF BoardInv
    <3>4. clerk[d].at = "announce" => clerk[d].ids \subseteq Gone' BY <1>2 DEF BoardInv
    <3> QED BY <1>2, <3>1, <3>3, <3>4 DEF BoardInv
  <2> QED BY <2>1, <2>2
<1>5. \A k \in Lines : TellsOfGone(line[k].buffer)' BY <1>2 DEF BoardInv, TellsOfGone
<1>6. \A v \in Viewers : fading'[v] \subseteq Gone' BY <1>2 DEF BoardInv
<1> QED BY <1>3, <1>4, <1>5, <1>6 DEF BoardInv

LEMMA LinesStay == ASSUME LinesInv, UNCHANGED lineVars PROVE LinesInv'
BY DEF LinesInv, lineVars

LEMMA PagesStay ==
    ASSUME UNCHANGED <<pageVars, muddled>>
    PROVE  \A v \in Viewers : LastRows(v)' = LastRows(v) /\ LastStale(v)' = LastStale(v) /\ asking'[v] = asking[v]
BY DEF pageVars, LastRows, LastStale

LEMMA BoardKeeps ==
    ASSUME FeedInv, NEW c \in Clerks, NEW r \in ClerkRows, Turned(c, r), BoardOnly, BoardInv',
           asked' \subseteq Questions, fresh' \subseteq Questions,
           \A q : q \in asked' /\ q \notin hushed' =>
                     \/ r.at \in {"answer", "tell"} /\ q \in r.ids
                     \/ /\ q \in asked /\ q \notin hushed
                        /\ clerk[c].at \in {"answer", "tell"} => q \notin clerk[c].ids,
           \A q : q \in Questions /\ q \notin asked' /\ q \notin untold' =>
                     \/ r.at = "announce" /\ q \in r.ids
                     \/ q \notin asked /\ q \notin untold /\ (clerk[c].at = "announce" => q \notin clerk[c].ids)
    PROVE  FeedInv'
<1>1. clerk' \in [Clerks -> ClerkRows] /\ clerk'[c] = r /\ \A d \in Clerks : d # c => clerk'[d] = clerk[d]
  BY ClerkFields DEF FeedInv
<1>2. UNCHANGED <<queue, pageVars, muddled>> /\ UNCHANGED lineVars BY DEF BoardOnly
<1>3. FeedTyped' BY <1>1, <1>2 DEF FeedInv, FeedTyped, pageVars, lineVars
<1>4. LinesInv' BY <1>2, LinesStay DEF FeedInv
<1>5. ASSUME NEW v \in Viewers PROVE KeptUp(v)'
  <2>1. \A kind, q : InLine(v, kind, q)' <=> InLine(v, kind, q) BY <1>2 DEF InLine, lineVars
  <2>2. fading' = fading BY <1>2 DEF pageVars
  <2>3. ASSUME NEW q, q \in asked', q \notin hushed', ~Coming(v, q)'
        PROVE  q \in asked /\ q \notin hushed /\ ~Coming(v, q)
    <3>1. ~(r.at \in {"answer", "tell"} /\ q \in r.ids) BY <1>1, <2>3 DEF Coming
    <3>2. q \in asked /\ q \notin hushed /\ (clerk[c].at \in {"answer", "tell"} => q \notin clerk[c].ids)
      BY <2>3, <3>1
    <3>3. \A d \in Clerks : d # c => ~(clerk[d].at \in {"answer", "tell"} /\ q \in clerk[d].ids)
      BY <1>1, <2>3 DEF Coming
    <3>4. ~Told(queue, "created", q) /\ ~InLine(v, "created", q) BY <1>2, <2>1, <2>3 DEF Coming
    <3> QED BY <3>2, <3>3, <3>4 DEF Coming
  <2>4. ASSUME NEW q \in Questions, q \notin asked', q \notin untold', ~Going(v, q)'
        PROVE  q \notin asked /\ q \notin untold /\ ~Going(v, q)
    <3>1. ~(r.at = "announce" /\ q \in r.ids) BY <1>1, <2>4 DEF Going
    <3>2. q \notin asked /\ q \notin untold /\ (clerk[c].at = "announce" => q \notin clerk[c].ids)
      BY <2>4, <3>1
    <3>3. \A d \in Clerks : d # c => ~(clerk[d].at = "announce" /\ q \in clerk[d].ids)
      BY <1>1, <2>4 DEF Going
    <3>4. ~Told(queue, "deleted", q) /\ ~InLine(v, "deleted", q) /\ q \notin fading[v]
      BY <1>2, <2>1, <2>2, <2>4 DEF Going
    <3> QED BY <3>2, <3>3, <3>4 DEF Going
  <2>5. LastRows(v) \subseteq Questions BY LastTyped DEF FeedInv
  <2> QED BY <1>2, <2>3, <2>4, <2>5, PagesStay, KeptSame DEF FeedInv
<1> QED BY <1>3, <1>4, <1>5 DEF FeedInv

LEMMA ToldsStay == ASSUME FeedInv, Gone \subseteq Gone', queue' = queue PROVE TellsOfGone(queue)'
BY DEF FeedInv, BoardInv, TellsOfGone

LEMMA AskLookStep == ASSUME FeedInv, NEW c \in Clerks, NEW q \in Questions, AskLook(c, q) PROVE FeedInv'
<1> USE DEF AskLook
<1>1. PICK r \in ClerkRows : r = [at |-> "insert", q |-> q, ids |-> {q}] BY DEF ClerkRows
<1>2. Turned(c, r) BY <1>1 DEF Turned
<1>3. clerk'[c] = r /\ \A d \in Clerks : d # c => clerk'[d] = clerk[d] BY <1>2, ClerkFields DEF FeedInv
<1>4. BoardInv /\ asked \subseteq Questions /\ fresh \subseteq Questions BY DEF FeedInv, FeedTyped
<1>5. \A x : x \in Inserting' <=> x \in Inserting \/ x = q BY <1>1, <1>3, InsertingIs
<1>6. q \in fresh /\ q \notin asked /\ q \notin Inserting BY <1>4 DEF BoardInv
<1>7. Gone \subseteq Gone' BY <1>5, <1>6 DEF Gone
<1>8. BoardInv'
  <2>1. TellsOfGone(queue)' BY <1>7, ToldsStay DEF BoardOnly
  <2>2. untold' \subseteq Gone' BY <1>4, <1>7 DEF BoardInv
  <2>3. asked' \cap fresh' = {} /\ Inserting' \cap (asked' \cup fresh') = {} BY <1>4, <1>5, <1>6 DEF BoardInv
  <2>4. \A d \in Clerks : d # c /\ clerk[d].at = "insert" => clerk[d].q # r.q BY <1>1, <1>6, InsertingIs
  <2>5. line' = line /\ fading' = fading BY DEF BoardOnly, lineVars, pageVars
  <2>6. r.at = "insert" /\ r.q \in Questions /\ r.ids = {r.q} BY <1>1
  <2> QED BY <1>2, <1>7, <2>1, <2>2, <2>3, <2>4, <2>5, <2>6, BoardRule
<1>9. clerk[c].at = "idle" /\ r.at = "insert" BY <1>1
<1> QED BY <1>2, <1>4, <1>8, <1>9, BoardKeeps

LEMMA AskInsertStep == ASSUME FeedInv, NEW c \in Clerks, AskInsert(c) PROVE FeedInv'
<1> USE DEF AskInsert
<1>1. BoardInv /\ asked \subseteq Questions /\ fresh \subseteq Questions /\ clerk[c] \in ClerkRows
  BY DEF FeedInv, FeedTyped
<1>2. PICK r \in ClerkRows : /\ Turned(c, r)
                             /\ \/ r.at = "answer" /\ r.q = clerk[c].q /\ r.ids = clerk[c].ids
                                   /\ asked' = asked \cup {clerk[c].q}
                                \/ r.at = "done" /\ asked' = asked
  <2>1. CASE asked' = asked \cup {clerk[c].q} /\ clerk' = [clerk EXCEPT ![c].at = "answer"]
    <3>1. PICK r \in ClerkRows : r = [clerk[c] EXCEPT !.at = "answer"] BY <1>1 DEF ClerkRows
    <3>2. r.at = "answer" /\ r.q = clerk[c].q /\ r.ids = clerk[c].ids BY <1>1, <3>1 DEF ClerkRows
    <3>3. Turned(c, r) BY <2>1, <3>1 DEF Turned
    <3> QED BY <2>1, <3>2, <3>3
  <2>2. CASE asked' = asked /\ clerk' = Ended(c)
    <3>1. PICK r \in ClerkRows : r = [NoTask EXCEPT !.at = "done"] BY DEF NoTask, ClerkRows
    <3>2. r.at = "done" BY <3>1 DEF NoTask
    <3>3. Turned(c, r) BY <2>2, <3>1 DEF Turned, Ended
    <3> QED BY <2>2, <3>2, <3>3
  <2> QED BY <2>1, <2>2
<1>3. clerk'[c] = r /\ \A d \in Clerks : d # c => clerk'[d] = clerk[d] BY <1>2, ClerkFields DEF FeedInv
<1>4. clerk[c].q \in Questions /\ clerk[c].ids = {clerk[c].q} BY <1>1 DEF BoardInv
<1>5. clerk[c].q \in Inserting /\ clerk[c].q \notin asked /\ clerk[c].q \notin fresh
  BY <1>1, InsertingIs DEF BoardInv
<1>6. \A x : x \in Inserting' <=> x \in Inserting /\ x # clerk[c].q
  <2>1. \A d \in Clerks : d # c /\ clerk[d].at = "insert" => clerk[d].q # clerk[c].q BY <1>1 DEF BoardInv
  <2> QED BY <1>2, <1>3, <2>1, InsertingIs
<1>7. Gone \subseteq Gone' BY <1>2, <1>5, <1>6 DEF Gone
<1>8. BoardInv'
  <2>1. TellsOfGone(queue)' BY <1>7, ToldsStay DEF BoardOnly
  <2>2. untold' \subseteq Gone' BY <1>1, <1>7 DEF BoardInv
  <2>3. asked' \cap fresh' = {} /\ Inserting' \cap (asked' \cup fresh') = {} BY <1>1, <1>2, <1>5, <1>6 DEF BoardInv
  <2>4. line' = line /\ fading' = fading BY DEF BoardOnly, lineVars, pageVars
  <2>5. r.at \in {"answer", "done"} /\ (r.at = "answer" => r.q \in Questions /\ r.ids = {r.q}) BY <1>2, <1>4
  <2>6. asked \subseteq asked' \cup Gone' BY <1>2
  <2> QED BY <1>2, <1>7, <2>1, <2>2, <2>3, <2>4, <2>5, <2>6, BoardRule
<1>9. clerk[c].at = "insert" OBVIOUS
<1>10. asked' \subseteq Questions /\ fresh' \subseteq Questions BY <1>1, <1>2, <1>4
<1> QED BY <1>2, <1>4, <1>8, <1>9, <1>10, BoardKeeps

LEMMA AskAnswerStep == ASSUME FeedInv, NEW c \in Clerks, AskAnswer(c) PROVE FeedInv'
<1> USE DEF AskAnswer
<1>1. BoardInv /\ asked \subseteq Questions /\ fresh \subseteq Questions /\ clerk[c] \in ClerkRows
  BY DEF FeedInv, FeedTyped
<1>2. PICK r \in ClerkRows : /\ Turned(c, r)
                             /\ \/ r.at = "tell" /\ r.q = clerk[c].q /\ r.ids = clerk[c].ids /\ hushed' = hushed
                                \/ r.at = "done" /\ hushed' = hushed \cup {clerk[c].q}
  <2>1. CASE clerk' = [clerk EXCEPT ![c].at = "tell"] /\ hushed' = hushed
    <3>1. PICK r \in ClerkRows : r = [clerk[c] EXCEPT !.at = "tell"] BY <1>1 DEF ClerkRows
    <3>2. r.at = "tell" /\ r.q = clerk[c].q /\ r.ids = clerk[c].ids BY <1>1, <3>1 DEF ClerkRows
    <3>3. Turned(c, r) BY <2>1, <3>1 DEF Turned
    <3> QED BY <2>1, <3>2, <3>3
  <2>2. CASE hushed' = hushed \cup {clerk[c].q} /\ clerk' = Ended(c)
    <3>1. PICK r \in ClerkRows : r = [NoTask EXCEPT !.at = "done"] BY DEF NoTask, ClerkRows
    <3>2. r.at = "done" BY <3>1 DEF NoTask
    <3>3. Turned(c, r) BY <2>2, <3>1 DEF Turned, Ended
    <3> QED BY <2>2, <3>2, <3>3
  <2> QED BY <2>1, <2>2
<1>3. clerk'[c] = r /\ \A d \in Clerks : d # c => clerk'[d] = clerk[d] BY <1>2, ClerkFields DEF FeedInv
<1>4. clerk[c].q \in Questions /\ clerk[c].ids = {clerk[c].q} BY <1>1 DEF BoardInv
<1>5. \A x : x \in Inserting' <=> x \in Inserting BY <1>2, <1>3, InsertingIs
<1>6. Gone' = Gone BY <1>5 DEF Gone
<1>7. BoardInv'
  <2>1. TellsOfGone(queue)' BY <1>6, ToldsStay DEF BoardOnly
  <2>2. untold' \subseteq Gone' BY <1>1, <1>6 DEF BoardInv
  <2>3. asked' \cap fresh' = {} /\ Inserting' \cap (asked' \cup fresh') = {} BY <1>1, <1>5 DEF BoardInv
  <2>4. line' = line /\ fading' = fading BY DEF BoardOnly, lineVars, pageVars
  <2>5. r.at \in {"tell", "done"} /\ (r.at = "tell" => r.q \in Questions /\ r.ids = {r.q}) BY <1>2, <1>4
  <2> QED BY <1>2, <1>6, <2>1, <2>2, <2>3, <2>4, <2>5, BoardRule
<1>8. clerk[c].at = "answer" OBVIOUS
<1> QED BY <1>1, <1>2, <1>4, <1>7, <1>8, BoardKeeps

LEMMA DeleteLookStep == ASSUME FeedInv, NEW c \in Clerks, NEW q \in Questions, DeleteLook(c, q) PROVE FeedInv'
<1> USE DEF DeleteLook
<1>1. BoardInv /\ asked \subseteq Questions /\ fresh \subseteq Questions BY DEF FeedInv, FeedTyped
<1>2. {q} \cup Replies(q) \subseteq asked BY DEF Replies
<1>3. PICK r \in ClerkRows : r = [at |-> "remove", q |-> q, ids |-> {q} \cup Replies(q)]
  BY <1>1, <1>2 DEF ClerkRows
<1>4. Turned(c, r) BY <1>3 DEF Turned
<1>5. clerk'[c] = r /\ \A d \in Clerks : d # c => clerk'[d] = clerk[d] BY <1>4, ClerkFields DEF FeedInv
<1>6. \A x : x \in Inserting' <=> x \in Inserting BY <1>3, <1>5, InsertingIs
<1>7. Gone' = Gone BY <1>6 DEF Gone
<1>8. BoardInv'
  <2>1. TellsOfGone(queue)' BY <1>7, ToldsStay DEF BoardOnly
  <2>2. untold' \subseteq Gone' BY <1>1, <1>7 DEF BoardInv
  <2>3. asked' \cap fresh' = {} /\ Inserting' \cap (asked' \cup fresh') = {} BY <1>1, <1>6 DEF BoardInv
  <2>4. line' = line /\ fading' = fading BY DEF BoardOnly, lineVars, pageVars
  <2>5. r.at = "remove" /\ r.ids \subseteq asked' /\ \A x \in r.ids : x = r.q \/ ParentOf[x] = r.q
    BY <1>2, <1>3 DEF Replies
  <2> QED BY <1>4, <1>7, <2>1, <2>2, <2>3, <2>4, <2>5, BoardRule
<1>9. clerk[c].at = "idle" /\ r.at = "remove" BY <1>3
<1> QED BY <1>1, <1>4, <1>8, <1>9, BoardKeeps

LEMMA DeleteRemoveStep == ASSUME FeedInv, NEW c \in Clerks, DeleteRemove(c) PROVE FeedInv'
<1> USE DEF DeleteRemove
<1>1. BoardInv /\ asked \subseteq Questions /\ fresh \subseteq Questions /\ clerk[c] \in ClerkRows
  BY DEF FeedInv, FeedTyped
<1>2. PICK lost : lost = {clerk[c].q} \cup Replies(clerk[c].q) OBVIOUS
<1>3. CASE UNCHANGED <<asked, untold>> /\ clerk' = Ended(c)
  <2>1. PICK r \in ClerkRows : r = [NoTask EXCEPT !.at = "done"] BY DEF NoTask, ClerkRows
  <2>2. r.at = "done" BY <2>1 DEF NoTask
  <2>3. Turned(c, r) BY <1>3, <2>1 DEF Turned, Ended
  <2>4. clerk'[c] = r /\ \A d \in Clerks : d # c => clerk'[d] = clerk[d] BY <2>3, ClerkFields DEF FeedInv
  <2>5. \A x : x \in Inserting' <=> x \in Inserting BY <2>2, <2>4, InsertingIs
  <2>6. Gone' = Gone BY <1>3, <2>5 DEF Gone
  <2>7. BoardInv'
    <3>1. TellsOfGone(queue)' BY <2>6, ToldsStay DEF BoardOnly
    <3>2. untold' \subseteq Gone' BY <1>1, <1>3, <2>6 DEF BoardInv
    <3>3. asked' \cap fresh' = {} /\ Inserting' \cap (asked' \cup fresh') = {} BY <1>1, <1>3, <2>5 DEF BoardInv
    <3>4. line' = line /\ fading' = fading BY DEF BoardOnly, lineVars, pageVars
    <3> QED BY <1>3, <2>2, <2>3, <2>6, <3>1, <3>2, <3>3, <3>4, BoardRule
  <2>8. clerk[c].at = "remove" OBVIOUS
  <2> QED BY <1>1, <1>3, <2>2, <2>3, <2>7, <2>8, BoardKeeps
<1>4. CASE /\ clerk[c].q \in asked /\ asked' = asked \ lost /\ untold' = untold \cup (lost \ clerk[c].ids)
           /\ clerk' = [clerk EXCEPT ![c].at = "announce"]
  <2>1. PICK r \in ClerkRows : r = [clerk[c] EXCEPT !.at = "announce"] BY <1>1 DEF ClerkRows
  <2>2. r.at = "announce" /\ r.ids = clerk[c].ids BY <1>1, <2>1 DEF ClerkRows
  <2>3. Turned(c, r) BY <1>4, <2>1 DEF Turned
  <2>4. clerk'[c] = r /\ \A d \in Clerks : d # c => clerk'[d] = clerk[d] BY <2>3, ClerkFields DEF FeedInv
  <2>5. clerk[c].at = "remove" OBVIOUS
  <2>6. \A x : x \in Inserting' <=> x \in Inserting BY <2>2, <2>4, <2>5, InsertingIs
  <2>7. lost \subseteq asked BY <1>2, <1>4 DEF Replies
  <2>8. Gone \subseteq Gone' /\ lost \subseteq Gone' /\ asked \subseteq asked' \cup Gone'
    <3>1. \A x \in asked : x \notin fresh /\ x \notin Inserting BY <1>1 DEF BoardInv
    <3> QED BY <1>1, <1>4, <2>6, <2>7, <3>1 DEF Gone
  <2>9. clerk[c].ids \subseteq Gone'
    <3>1. \A x \in clerk[c].ids : x \in asked => x \in lost BY <1>1, <1>2, <2>5 DEF BoardInv, Replies
    <3>2. clerk[c].ids \subseteq asked \cup Gone BY <1>1, <2>5 DEF BoardInv
    <3> QED BY <2>8, <3>1, <3>2
  <2>10. BoardInv'
    <3>1. TellsOfGone(queue)' BY <2>8, ToldsStay DEF BoardOnly
    <3>2. untold' \subseteq Gone' BY <1>1, <1>4, <2>8 DEF BoardInv
    <3>3. asked' \cap fresh' = {} /\ Inserting' \cap (asked' \cup fresh') = {} BY <1>1, <1>4, <2>6 DEF BoardInv
    <3>4. line' = line /\ fading' = fading BY DEF BoardOnly, lineVars, pageVars
    <3> QED BY <2>2, <2>3, <2>8, <2>9, <3>1, <3>2, <3>3, <3>4, BoardRule
  <2>11. \A q : q \in Questions /\ q \notin asked' /\ q \notin untold' =>
            q \in r.ids \/ (q \notin asked /\ q \notin untold)
    BY <1>4, <2>2
  <2>12. \A q : q \in asked' /\ q \notin hushed' => q \in asked /\ q \notin hushed BY <1>4
  <2>13. asked' \subseteq Questions /\ fresh' \subseteq Questions BY <1>1, <1>4
  <2> QED BY <2>2, <2>3, <2>5, <2>10, <2>11, <2>12, <2>13, BoardKeeps
<1> QED BY <1>2, <1>3, <1>4

LEMMA TellStep ==
    ASSUME FeedInv, NEW c \in Clerks, NEW kind \in {"created", "deleted"}, Tell(c, kind)
    PROVE  FeedInv'
<1> USE DEF Tell
<1>1. BoardInv /\ clerk[c] \in ClerkRows /\ queue \in Seq(Tidings) BY DEF FeedInv, FeedTyped
<1>2. PICK r \in ClerkRows : r.at = "done" /\ Turned(c, r)
  <2>1. PICK r \in ClerkRows : r = [NoTask EXCEPT !.at = "done"] BY DEF NoTask, ClerkRows
  <2>2. r.at = "done" BY <2>1 DEF NoTask
  <2>3. Turned(c, r) BY <2>1 DEF Turned, Ended
  <2> QED BY <2>2, <2>3
<1>3. clerk' \in [Clerks -> ClerkRows] /\ clerk'[c] = r /\ \A d \in Clerks : d # c => clerk'[d] = clerk[d]
  BY <1>2, ClerkFields DEF FeedInv
<1>4. PICK m \in Tidings : m = [kind |-> kind, ids |-> clerk[c].ids] BY <1>1 DEF Tidings, ClerkRows
<1>5. queue' = Append(queue, m) /\ m.kind = kind /\ m.ids = clerk[c].ids BY <1>4
<1>6. queue' \in Seq(Tidings) BY <1>1, <1>5
<1>7. \A k, q : Told(queue, k, q)' <=> Told(queue, k, q) \/ (m.kind = k /\ q \in m.ids)
  BY <1>1, <1>5, ToldAppend DEF Told
<1>8. UNCHANGED <<asked, fresh, hushed, untold, pageVars, muddled>> /\ UNCHANGED lineVars OBVIOUS
<1>9. clerk[c].at = (IF kind = "created" THEN "tell" ELSE "announce") OBVIOUS
<1>10. \A x : x \in Inserting' <=> x \in Inserting BY <1>2, <1>3, <1>9, InsertingIs
<1>11. Gone' = Gone BY <1>8, <1>10 DEF Gone
<1>12. BoardInv'
  <2>1. TellsOfGone(queue)'
    <3>1. kind = "deleted" => m.ids \subseteq Gone BY <1>1, <1>5, <1>9 DEF BoardInv
    <3> QED BY <3>1, <1>1, <1>5, <1>7, <1>11 DEF TellsOfGone, BoardInv
  <2>2. untold' \subseteq Gone' BY <1>1, <1>8, <1>11 DEF BoardInv
  <2>3. asked' \cap fresh' = {} /\ Inserting' \cap (asked' \cup fresh') = {} BY <1>1, <1>8, <1>10 DEF BoardInv
  <2>4. line' = line /\ fading' = fading /\ asked' = asked BY <1>8 DEF lineVars, pageVars
  <2> QED BY <1>2, <1>11, <2>1, <2>2, <2>3, <2>4, BoardRule
<1>13. FeedTyped' BY <1>3, <1>6, <1>8 DEF FeedInv, FeedTyped, pageVars, lineVars
<1>14. LinesInv' BY <1>8, LinesStay DEF FeedInv
<1>15. ASSUME NEW v \in Viewers PROVE KeptUp(v)'
  <2>1. \A k, q : InLine(v, k, q)' <=> InLine(v, k, q) BY <1>8 DEF InLine, lineVars
  <2>2. fading' = fading BY <1>8 DEF pageVars
  <2>3. ASSUME NEW q, Coming(v, q) PROVE Coming(v, q)'
    <3>1. CASE clerk[c].at \in {"answer", "tell"} /\ q \in clerk[c].ids
      <4>1. kind = "created" BY <3>1, <1>9
      <4> QED BY <4>1, <3>1, <1>5, <1>7 DEF Coming
    <3>2. CASE \E d \in Clerks : d # c /\ clerk[d].at \in {"answer", "tell"} /\ q \in clerk[d].ids
      BY <3>2, <1>3 DEF Coming
    <3>3. CASE Told(queue, "created", q) BY <3>3, <1>7 DEF Coming
    <3>4. CASE InLine(v, "created", q) BY <3>4, <2>1 DEF Coming
    <3> QED BY <2>3, <3>1, <3>2, <3>3, <3>4 DEF Coming
  <2>4. ASSUME NEW q, Going(v, q) PROVE Going(v, q)'
    <3>1. CASE clerk[c].at = "announce" /\ q \in clerk[c].ids
      <4>1. kind = "deleted" BY <3>1, <1>9
      <4> QED BY <4>1, <3>1, <1>5, <1>7 DEF Going
    <3>2. CASE \E d \in Clerks : d # c /\ clerk[d].at = "announce" /\ q \in clerk[d].ids
      BY <3>2, <1>3 DEF Going
    <3>3. CASE Told(queue, "deleted", q) BY <3>3, <1>7 DEF Going
    <3>4. CASE InLine(v, "deleted", q) \/ q \in fading[v] BY <3>4, <2>1, <2>2 DEF Going
    <3> QED BY <2>4, <3>1, <3>2, <3>3, <3>4 DEF Going
  <2>5. LastRows(v) \subseteq Questions BY LastTyped DEF FeedInv
  <2> QED BY <1>8, <2>3, <2>4, <2>5, PagesStay, KeptSame DEF FeedInv
<1> QED BY <1>12, <1>13, <1>14, <1>15 DEF FeedInv

-----------------------------------------------------------------------------
(* The hub and the connections *)

LEMMA BoardStays ==
    ASSUME FeedInv, UNCHANGED boardVars, TellsOfGone(queue'), \A k \in Lines : TellsOfGone(line'[k].buffer),
           \A v \in Viewers : fading'[v] \subseteq Gone
    PROVE  BoardInv' /\ Gone' = Gone
<1>1. Inserting' = Inserting BY DEF Inserting, boardVars
<1>2. Gone' = Gone BY <1>1 DEF Gone, boardVars
<1>3. \A s : TellsOfGone(s) <=> \A q : Told(s, "deleted", q) => q \in Gone' BY <1>2 DEF TellsOfGone
<1>4. TellsOfGone(queue)' BY <1>3 DEF TellsOfGone
<1>5. \A k \in Lines : TellsOfGone(line[k].buffer)' BY <1>3 DEF TellsOfGone
<1> QED BY <1>1, <1>2, <1>4, <1>5 DEF BoardInv, boardVars, FeedInv

\* A browser whose last list is as it was, and whose tidings are still on their way.
LEMMA KeptThere ==
    ASSUME FeedInv, UNCHANGED boardVars, NEW v \in Viewers, asking'[v] = asking[v],
           LastStale(v)' \/ (LastRows(v)' = LastRows(v) /\ LastStale(v)' = LastStale(v)),
           LastStale(v)' \/ \A q : (Told(queue, "created", q) \/ InLine(v, "created", q)) =>
                                       (Told(queue, "created", q) \/ InLine(v, "created", q))',
           LastStale(v)' \/ \A q : (Told(queue, "deleted", q) \/ InLine(v, "deleted", q) \/ q \in fading[v]) =>
                                       (Told(queue, "deleted", q) \/ InLine(v, "deleted", q) \/ q \in fading[v])'
    PROVE  KeptUp(v)'
<1>1. CASE LastStale(v)' BY <1>1 DEF KeptUp
<1>2. CASE ~LastStale(v)'
  <2>1. clerk' = clerk /\ asked' = asked /\ hushed' = hushed /\ untold' = untold BY DEF boardVars
  <2>2. \A q : Coming(v, q) => Coming(v, q)' BY <1>2, <2>1 DEF Coming
  <2>3. \A q : Going(v, q) => Going(v, q)' BY <1>2, <2>1 DEF Going
  <2>4. LastRows(v) \subseteq Questions BY LastTyped DEF FeedInv
  <2> QED BY <2>1, <2>2, <2>3, <2>4, KeptSame DEF FeedInv
<1> QED BY <1>1, <1>2

Wired(k, r) == line' = [line EXCEPT ![k] = r]

LEMMA LineFields ==
    ASSUME FeedTyped, NEW k \in Lines, NEW r \in LineRows, Wired(k, r)
    PROVE  /\ line' \in [Lines -> LineRows] /\ line'[k] = r
           /\ \A l \in Lines : l # k => line'[l] = line[l]
BY DEF FeedTyped, Wired

LEMMA Muddled ==
    ASSUME FeedTyped, NEW broken, Muddle(broken), shown' = shown
    PROVE  /\ replies' \in [Viewers -> Seq(Lists)]
           /\ \A v \in Viewers : /\ v \in broken => LastStale(v)'
                                 /\ v \notin broken => /\ LastRows(v)' = LastRows(v)
                                                       /\ LastStale(v)' = LastStale(v)
<1> USE DEF Muddle
<1>1. ASSUME NEW v \in Viewers, v \in broken
      PROVE  replies'[v] \in Seq(Lists) /\ LastStale(v)'
  <2>1. PICK s \in Seq(Lists) : s = replies[v] BY DEF FeedTyped
  <2>2. PICK n \in Nat : n = Len(s) /\ DOMAIN s = 1..n BY <2>1
  <2>3. PICK t : t = [i \in 1..n |-> [s[i] EXCEPT !.stale = TRUE]] OBVIOUS
  <2>4. replies'[v] = t BY <1>1, <2>1, <2>2, <2>3 DEF Spoiled
  <2>5. \A i \in 1..n : s[i] \in Lists BY <2>1, <2>2
  <2>6. \A i \in 1..n : t[i] \in Lists /\ t[i].stale BY <2>3, <2>5 DEF Lists
  <2>7. t \in Seq(Lists) /\ Len(t) = n BY <2>2, <2>3, <2>6
  <2>8. t = << >> \/ t[Len(t)].stale BY <2>2, <2>6, <2>7
  <2>9. v \in muddled' BY <1>1
  <2> QED BY <2>4, <2>7, <2>8, <2>9 DEF LastStale
<1>2. ASSUME NEW v \in Viewers, v \notin broken
      PROVE  replies'[v] \in Seq(Lists) /\ LastRows(v)' = LastRows(v) /\ LastStale(v)' = LastStale(v)
  <2>1. replies'[v] = replies[v] /\ (v \in muddled' <=> v \in muddled) BY <1>2 DEF Spoiled
  <2> QED BY <2>1 DEF LastRows, LastStale, FeedTyped
<1>3. replies' \in [Viewers -> Seq(Lists)]
  <2>1. \A v \in Viewers : Spoiled(v, broken) \in Seq(Lists)
    <3>1. \A v \in Viewers : replies'[v] = Spoiled(v, broken) OBVIOUS
    <3> QED BY <3>1, <1>1, <1>2
  <2> QED BY <2>1
<1> QED BY <1>1, <1>2, <1>3

LEMMA LinesRule ==
    ASSUME FeedTyped, LinesInv, current' = current, recloses' = 0,
           \A l \in Lines : /\ line'[l].registered => line'[l].open
                            /\ line'[l].at \in {"unused", "dialling"} => line'[l].open /\ ~line'[l].registered
                            /\ line[l].at \in {"dialling", "live"} => line'[l].at \in {"dialling", "live"}
    PROVE  LinesInv'
<1>1. ASSUME NEW v \in Viewers, current[v] # NoLine PROVE line'[current[v]].at \in {"dialling", "live"}
  <2>1. PICK k \in Lines : k = current[v] BY <1>1 DEF FeedTyped
  <2>2. line[k].at \in {"dialling", "live"} BY <1>1, <2>1 DEF LinesInv
  <2> QED BY <2>1, <2>2
<1>2. \A v \in Viewers : current'[v] # NoLine => line'[current'[v]].at \in {"dialling", "live"} BY <1>1
<1> QED BY <1>2 DEF LinesInv

LEMMA RegisterStep == ASSUME FeedInv, NEW k \in Lines, HubRegister(k) PROVE FeedInv'
<1> USE DEF HubRegister
<1>1. FeedTyped /\ LinesInv /\ BoardInv /\ line[k] \in LineRows BY DEF FeedInv, FeedTyped
<1>2. PICK r \in LineRows : /\ r.at = "live" /\ r.registered /\ r.open = line[k].open
                            /\ r.buffer = line[k].buffer /\ Wired(k, r)
  <2>1. PICK r : r = [line[k] EXCEPT !.at = "live", !.registered = TRUE] OBVIOUS
  <2>2. r \in LineRows BY <1>1, <2>1 DEF LineRows
  <2>3. r.at = "live" /\ r.registered /\ r.open = line[k].open /\ r.buffer = line[k].buffer
    BY <1>1, <2>1 DEF LineRows
  <2>4. Wired(k, r) BY <2>1 DEF Wired
  <2> QED BY <2>2, <2>3, <2>4
<1>3. line' \in [Lines -> LineRows] /\ line'[k] = r /\ \A l \in Lines : l # k => line'[l] = line[l]
  BY <1>1, <1>2, LineFields
<1>4. \A l \in Lines : line'[l].buffer = line[l].buffer BY <1>2, <1>3
<1>5. FeedTyped' BY <1>1, <1>3 DEF FeedTyped, boardVars, pageVars
<1>6. BoardInv' BY <1>1, <1>4, BoardStays DEF BoardInv, pageVars
<1>7. LinesInv'
  <2>1. \A l \in Lines : /\ line'[l].registered => line'[l].open
                         /\ line'[l].at \in {"unused", "dialling"} => line'[l].open /\ ~line'[l].registered
                         /\ line[l].at \in {"dialling", "live"} => line'[l].at \in {"dialling", "live"}
    BY <1>1, <1>2, <1>3 DEF LinesInv
  <2>2. current' = current /\ recloses' = 0 BY <1>1 DEF LinesInv
  <2> QED BY <1>1, <2>1, <2>2, LinesRule
<1>8. ASSUME NEW v \in Viewers PROVE KeptUp(v)'
  <2>1. \A kind, q : InLine(v, kind, q) => InLine(v, kind, q)' BY <1>1, <1>4 DEF InLine, FeedTyped
  <2>2. fading' = fading BY DEF pageVars
  <2> QED BY <2>1, <2>2, PagesStay, KeptThere
<1> QED BY <1>5, <1>6, <1>7, <1>8 DEF FeedInv

LEMMA UnregisterStep == ASSUME FeedInv, NEW k \in Lines, HubUnregister(k) PROVE FeedInv'
<1> USE DEF HubUnregister
<1>1. FeedTyped /\ LinesInv /\ BoardInv /\ line[k] \in LineRows BY DEF FeedInv, FeedTyped
<1>2. PICK r \in LineRows : /\ r.at = "dead" /\ ~r.registered /\ r.buffer = line[k].buffer /\ Wired(k, r)
  <2>1. CASE StillMember(k)
    <3>1. PICK r : r = [line[k] EXCEPT !.at = "dead", !.registered = FALSE, !.open = FALSE] OBVIOUS
    <3>2. r \in LineRows BY <1>1, <3>1 DEF LineRows
    <3>3. r.at = "dead" /\ ~r.registered /\ r.buffer = line[k].buffer BY <1>1, <3>1 DEF LineRows
    <3>4. Wired(k, r) BY <2>1, <3>1 DEF Wired
    <3> QED BY <3>2, <3>3, <3>4
  <2>2. CASE ~StillMember(k)
    <3>1. PICK r : r = [line[k] EXCEPT !.at = "dead"] OBVIOUS
    <3>2. r \in LineRows BY <1>1, <3>1 DEF LineRows
    <3>3. r.at = "dead" /\ ~r.registered /\ r.buffer = line[k].buffer
      BY <1>1, <2>2, <3>1 DEF LineRows, StillMember
    <3>4. Wired(k, r) BY <2>2, <3>1 DEF Wired
    <3> QED BY <3>2, <3>3, <3>4
  <2> QED BY <2>1, <2>2
<1>3. line' \in [Lines -> LineRows] /\ line'[k] = r /\ \A l \in Lines : l # k => line'[l] = line[l]
  BY <1>1, <1>2, LineFields
<1>4. \A l \in Lines : line'[l].buffer = line[l].buffer BY <1>2, <1>3
<1>5. FeedTyped' BY <1>1, <1>3 DEF FeedTyped, boardVars, pageVars
<1>6. BoardInv' BY <1>1, <1>4, BoardStays DEF BoardInv, pageVars
<1>7. recloses' = 0 BY <1>1 DEF LinesInv, StillMember
<1>8. LinesInv'
  <2>1. \A l \in Lines : /\ line'[l].registered => line'[l].open
                         /\ line'[l].at \in {"unused", "dialling"} => line'[l].open /\ ~line'[l].registered
                         /\ line[l].at \in {"dialling", "live"} => line'[l].at \in {"dialling", "live"}
    BY <1>1, <1>2, <1>3 DEF LinesInv
  <2>2. current' = current OBVIOUS
  <2> QED BY <1>1, <1>7, <2>1, <2>2, LinesRule
<1>9. ASSUME NEW v \in Viewers PROVE KeptUp(v)'
  <2>1. \A kind, q : InLine(v, kind, q) => InLine(v, kind, q)' BY <1>1, <1>4 DEF InLine, FeedTyped
  <2>2. fading' = fading BY DEF pageVars
  <2> QED BY <2>1, <2>2, PagesStay, KeptThere
<1> QED BY <1>5, <1>6, <1>8, <1>9 DEF FeedInv

LEMMA BroadcastStep == ASSUME FeedInv, HubBroadcast PROVE FeedInv'
<1>1. FeedTyped /\ LinesInv /\ BoardInv /\ queue \in Seq(Tidings) /\ queue # << >> /\ line \in [Lines -> LineRows]
        /\ current' = current /\ recloses' = recloses /\ shown' = shown /\ asking' = asking /\ fading' = fading
        /\ UNCHANGED boardVars /\ queue' = Tail(queue)
  BY DEF FeedInv, FeedTyped, HubBroadcast
<1>2. PICK m \in Tidings : m = Head(queue) BY <1>1, ToldTail
<1>3. queue' = Tail(queue) /\ queue' \in Seq(Tidings) BY <1>1, ToldTail
<1>4. \A kind, q : Told(queue, kind, q) <=> Told(queue', kind, q) \/ (m.kind = kind /\ q \in m.ids)
  BY <1>1, <1>2, <1>3, ToldTail
<1>5. PICK full : full = {k \in Registered : Len(line[k].buffer) = BufferSize} OBVIOUS
<1>6. Muddle({v \in Viewers : current[v] \notin Registered \ full}) BY <1>5 DEF HubBroadcast
<1>7. line' = [k \in Lines |-> CASE k \in full -> [line[k] EXCEPT !.registered = FALSE, !.open = FALSE]
                                 [] k \in Registered \ full -> [line[k] EXCEPT !.buffer = Append(@, m)]
                                 [] OTHER -> line[k]]
  BY <1>2, <1>5 DEF HubBroadcast
<1>8. ASSUME NEW k \in Lines
      PROVE  /\ line'[k] \in LineRows /\ line'[k].at = line[k].at
             /\ line'[k].registered => line[k].registered /\ (line'[k].open <=> line[k].open)
             /\ line[k].registered \/ line'[k].open = line[k].open
             /\ k \in Registered \ full => line'[k].buffer = Append(line[k].buffer, m)
             /\ k \notin Registered \ full => line'[k].buffer = line[k].buffer
  <2>1. line[k] \in LineRows BY <1>1
  <2>2. PICK n : n = line'[k] OBVIOUS
  <2>3. CASE k \in full
    <3>1. n = [line[k] EXCEPT !.registered = FALSE, !.open = FALSE] BY <2>2, <2>3, <1>7
    <3>2. n \in LineRows /\ n.at = line[k].at /\ ~n.registered /\ n.buffer = line[k].buffer
      BY <2>1, <3>1 DEF LineRows
    <3>3. line[k].registered BY <2>3, <1>5 DEF Registered
    <3> QED BY <2>2, <2>3, <3>2, <3>3
  <2>4. CASE k \in Registered \ full
    <3>1. n = [line[k] EXCEPT !.buffer = Append(line[k].buffer, m)] BY <2>2, <2>4, <1>7
    <3>2. line[k].buffer \in Seq(Tidings) BY <2>1 DEF LineRows
    <3>3. Append(line[k].buffer, m) \in Seq(Tidings) BY <3>2
    <3>4. n \in LineRows /\ n.at = line[k].at /\ n.registered = line[k].registered /\ n.open = line[k].open
          /\ n.buffer = Append(line[k].buffer, m)
      BY <2>1, <3>1, <3>3 DEF LineRows
    <3> QED BY <2>2, <2>4, <3>4
  <2>5. CASE k \notin full /\ k \notin Registered \ full
    <3>1. n = line[k] BY <2>2, <2>5, <1>7
    <3> QED BY <2>1, <2>2, <2>5, <3>1
  <2> QED BY <2>3, <2>4, <2>5
<1>9. line' \in [Lines -> LineRows]
  <2>1. DOMAIN line' = Lines /\ line' = [k \in Lines |-> line'[k]] BY <1>7
  <2> QED BY <2>1, <1>8
<1>10. FeedTyped'
  <2>1. shown' = shown /\ replies' \in [Viewers -> Seq(Lists)] BY <1>1, <1>6, Muddled
  <2> QED BY <1>1, <1>3, <1>9, <2>1 DEF FeedTyped, boardVars
<1>11. BoardInv'
  <2>1. TellsOfGone(queue') BY <1>1, <1>4 DEF BoardInv, TellsOfGone
  <2>2. ASSUME NEW k \in Lines PROVE TellsOfGone(line'[k].buffer)
    <3>1. line[k].buffer \in Seq(Tidings) BY <1>1 DEF LineRows
    <3>2. \A kind, q : Told(Append(line[k].buffer, m), kind, q)
                          <=> Told(line[k].buffer, kind, q) \/ (m.kind = kind /\ q \in m.ids)
      BY <3>1, ToldAppend
    <3>3. TellsOfGone(line[k].buffer) BY <1>1 DEF BoardInv
    <3>4. \A q : m.kind = "deleted" /\ q \in m.ids => q \in Gone BY <1>1, <1>4 DEF BoardInv, TellsOfGone
    <3>5. TellsOfGone(Append(line[k].buffer, m)) BY <3>2, <3>3, <3>4 DEF TellsOfGone
    <3> QED BY <3>3, <3>5, <1>8
  <2>3. \A v \in Viewers : fading'[v] \subseteq Gone BY <1>1 DEF BoardInv
  <2> QED BY <1>1, <2>1, <2>2, <2>3, BoardStays
<1>12. LinesInv'
  <2>1. ASSUME NEW k \in Lines
        PROVE  /\ line'[k].registered => line'[k].open
               /\ line'[k].at \in {"unused", "dialling"} => line'[k].open /\ ~line'[k].registered
               /\ line[k].at \in {"dialling", "live"} => line'[k].at \in {"dialling", "live"}
    BY <1>1, <1>8 DEF LinesInv
  <2>2. recloses' = 0 BY <1>1 DEF LinesInv
  <2> QED BY <1>1, <2>1, <2>2, LinesRule
<1>13. ASSUME NEW v \in Viewers PROVE KeptUp(v)'
  <2>1. CASE current[v] \notin Registered \ full
    <3>1. LastStale(v)' BY <2>1, <1>1, <1>6, Muddled
    <3> QED BY <1>1, <3>1, KeptThere
  <2>2. CASE current[v] \in Registered \ full
    <3>1. LastRows(v)' = LastRows(v) /\ LastStale(v)' = LastStale(v) BY <2>2, <1>1, <1>6, Muddled
    <3>2. current[v] \in Lines /\ current[v] # NoLine BY <2>2, FeedAssumption DEF Registered
    <3>3. PICK k \in Lines : k = current[v] BY <3>2
    <3>4. line[k].buffer \in Seq(Tidings) /\ line'[k].buffer = Append(line[k].buffer, m)
      BY <2>2, <3>3, <1>1, <1>8 DEF LineRows
    <3>5. \A kind, q : Told(line'[k].buffer, kind, q)
                          <=> Told(line[k].buffer, kind, q) \/ (m.kind = kind /\ q \in m.ids)
      BY <3>4, ToldAppend
    <3>6. \A kind, q : /\ InLine(v, kind, q) <=> Told(line[k].buffer, kind, q)
                       /\ InLine(v, kind, q)' <=> Told(line'[k].buffer, kind, q)
                       /\ Told(queue, kind, q)' <=> Told(queue', kind, q)
      BY <3>2, <3>3, <1>1 DEF InLine, Told
    <3>7. \A kind, q : (Told(queue, kind, q) \/ InLine(v, kind, q)) => (Told(queue, kind, q) \/ InLine(v, kind, q))'
      BY <3>5, <3>6, <1>4
    <3>8. UNCHANGED boardVars /\ asking'[v] = asking[v] /\ fading' = fading BY <1>1
    <3> QED BY <3>1, <3>7, <3>8, KeptThere
  <2> QED BY <2>1, <2>2
<1> QED BY <1>10, <1>11, <1>12, <1>13 DEF FeedInv

\* A page takes an unused line.
LEMMA DialStep ==
    ASSUME FeedInv, NEW v \in Viewers, NEW k \in Lines, current[v] = NoLine, line[k].at = "unused",
           current' = [current EXCEPT ![v] = k], line' = [line EXCEPT ![k].at = "dialling"],
           UNCHANGED <<boardVars, queue, recloses, shown, replies, fading, muddled>>,
           asking' = asking \/ asking' = [asking EXCEPT ![v] = 1]
    PROVE  FeedInv'
<1>1. FeedTyped /\ LinesInv /\ BoardInv /\ line[k] \in LineRows BY DEF FeedInv, FeedTyped
<1>2. PICK r \in LineRows : /\ r.at = "dialling" /\ r.registered = line[k].registered /\ r.open = line[k].open
                            /\ r.buffer = line[k].buffer /\ Wired(k, r)
  <2>1. PICK r : r = [line[k] EXCEPT !.at = "dialling"] OBVIOUS
  <2>2. r \in LineRows BY <1>1, <2>1 DEF LineRows
  <2>3. r.at = "dialling" /\ r.registered = line[k].registered /\ r.open = line[k].open
        /\ r.buffer = line[k].buffer
    BY <1>1, <2>1 DEF LineRows
  <2>4. Wired(k, r) BY <2>1 DEF Wired
  <2> QED BY <2>2, <2>3, <2>4
<1>3. line' \in [Lines -> LineRows] /\ line'[k] = r /\ \A l \in Lines : l # k => line'[l] = line[l]
  BY <1>1, <1>2, LineFields
<1>4. \A l \in Lines : line'[l].buffer = line[l].buffer BY <1>2, <1>3
<1>5. /\ current' \in [Viewers -> Lines \cup {NoLine}] /\ current'[v] = k
      /\ \A w \in Viewers : w # v => current'[w] = current[w]
  BY <1>1 DEF FeedTyped
<1>6. asking' \in [Viewers -> Nat] /\ (asking'[v] = asking[v] \/ asking'[v] = 1)
      /\ \A w \in Viewers : w # v => asking'[w] = asking[w]
  <2>1. asking \in [Viewers -> Nat] BY <1>1 DEF FeedTyped
  <2>2. CASE asking' = asking BY <2>1, <2>2
  <2>3. CASE asking' = [asking EXCEPT ![v] = 1] BY <2>1, <2>3
  <2> QED BY <2>2, <2>3
<1>7. FeedTyped' BY <1>1, <1>3, <1>5, <1>6 DEF FeedTyped, boardVars
<1>8. BoardInv' BY <1>1, <1>4, BoardStays DEF BoardInv
<1>9. \A w \in Viewers : current[w] # k
  <2>1. k # NoLine BY FeedAssumption
  <2> QED BY <2>1, <1>1 DEF LinesInv
<1>10. LinesInv'
  <2>1. \A l \in Lines : /\ line'[l].registered => line'[l].open
                         /\ line'[l].at \in {"unused", "dialling"} => line'[l].open /\ ~line'[l].registered
    BY <1>1, <1>2, <1>3 DEF LinesInv
  <2>2. \A w \in Viewers : current[w] # NoLine => current[w] \in Lines BY <1>1 DEF FeedTyped
  <2>3. \A w \in Viewers : current'[w] # NoLine => line'[current'[w]].at \in {"dialling", "live"}
    BY <1>1, <1>2, <1>3, <1>5, <1>9, <2>2 DEF LinesInv
  <2>4. \A u, w \in Viewers : current'[u] # NoLine /\ current'[u] = current'[w] => u = w
    BY <1>1, <1>5, <1>9 DEF LinesInv
  <2> QED BY <1>1, <2>1, <2>3, <2>4 DEF LinesInv
<1>11. ASSUME NEW w \in Viewers PROVE KeptUp(w)'
  <2>1. LastRows(w)' = LastRows(w) /\ LastStale(w)' = LastStale(w) BY DEF LastRows, LastStale
  <2>2. \A kind, q : InLine(w, kind, q) => InLine(w, kind, q)'
    <3>1. CASE w = v BY <3>1 DEF InLine
    <3>2. CASE w # v BY <3>2, <1>1, <1>4, <1>5 DEF InLine, FeedTyped
    <3> QED BY <3>1, <3>2
  <2>3. CASE asking'[w] = asking[w] BY <2>1, <2>2, <2>3, KeptThere
  <2>4. CASE asking'[w] # asking[w] BY <2>4, <1>6 DEF KeptUp
  <2> QED BY <2>3, <2>4
<1> QED BY <1>7, <1>8, <1>10, <1>11 DEF FeedInv

LEMMA EmptiedLine ==
    ASSUME NEW row \in LineRows
    PROVE  [row EXCEPT !.at = "failing", !.buffer = << >>] \in LineRows
<1>1. PICK e \in Seq(Tidings) : e = << >>
  <2>1. << >> \in Seq(Tidings) OBVIOUS
  <2> QED BY <2>1
<1>2. [row EXCEPT !.at = "failing", !.buffer = e] \in LineRows BY DEF LineRows
<1> QED BY <1>1, <1>2

LEMMA LineLostStep == ASSUME FeedInv, NEW v \in Viewers, NEW k \in Lines, LineLost(v, k) PROVE FeedInv'
<1> USE DEF LineLost, Has
<1>1. FeedTyped /\ LinesInv /\ BoardInv /\ line[k] \in LineRows BY DEF FeedInv, FeedTyped
<1>2. PICK r \in LineRows : /\ r.at = "failing" /\ r.registered = line[k].registered /\ r.open = line[k].open
                            /\ r.buffer = << >> /\ Wired(k, r)
  <2>1. PICK r : r = [line[k] EXCEPT !.at = "failing", !.buffer = << >>] OBVIOUS
  <2>2. r \in LineRows BY <1>1, <2>1, EmptiedLine
  <2>3. r.at = "failing" /\ r.registered = line[k].registered /\ r.open = line[k].open /\ r.buffer = << >>
    BY <1>1, <2>1 DEF LineRows
  <2>4. Wired(k, r) BY <2>1 DEF Wired
  <2> QED BY <2>2, <2>3, <2>4
<1>3. line' \in [Lines -> LineRows] /\ line'[k] = r /\ \A l \in Lines : l # k => line'[l] = line[l]
  BY <1>1, <1>2, LineFields
<1>4. /\ current' \in [Viewers -> Lines \cup {NoLine}] /\ current'[v] = NoLine
      /\ \A w \in Viewers : w # v => current'[w] = current[w]
  BY <1>1 DEF FeedTyped
<1>5. PICK broken : broken = (IF line[k].buffer # << >> THEN {v} ELSE {}) OBVIOUS
<1>6. Muddle(broken) BY <1>5
<1>7. FeedTyped'
  <2>1. replies' \in [Viewers -> Seq(Lists)] BY <1>1, <1>6, Muddled
  <2> QED BY <1>1, <1>3, <1>4, <2>1 DEF FeedTyped, boardVars
<1>8. BoardInv'
  <2>1. TellsOfGone(r.buffer) BY <1>2, ToldNothing DEF TellsOfGone
  <2>2. \A l \in Lines : TellsOfGone(line'[l].buffer) BY <2>1, <1>1, <1>3 DEF BoardInv
  <2> QED BY <1>1, <2>2, BoardStays DEF BoardInv
<1>9. k # NoLine /\ \A w \in Viewers : w # v => current[w] # k
  <2>1. k # NoLine BY FeedAssumption
  <2> QED BY <2>1, <1>1 DEF LinesInv
<1>10. LinesInv'
  <2>1. \A l \in Lines : /\ line'[l].registered => line'[l].open
                         /\ line'[l].at \in {"unused", "dialling"} => line'[l].open /\ ~line'[l].registered
    BY <1>1, <1>2, <1>3 DEF LinesInv
  <2>2. \A w \in Viewers : current[w] # NoLine => current[w] \in Lines BY <1>1 DEF FeedTyped
  <2>3. \A w \in Viewers : current'[w] # NoLine => line'[current'[w]].at \in {"dialling", "live"}
    BY <1>1, <1>3, <1>4, <1>9, <2>2 DEF LinesInv
  <2>4. \A u, w \in Viewers : current'[u] # NoLine /\ current'[u] = current'[w] => u = w
    BY <1>1, <1>4 DEF LinesInv
  <2> QED BY <1>1, <2>1, <2>3, <2>4 DEF LinesInv
<1>11. ASSUME NEW w \in Viewers PROVE KeptUp(w)'
  <2>1. CASE w \in broken
    <3>1. LastStale(w)' BY <2>1, <1>1, <1>6, Muddled
    <3> QED BY <3>1, KeptThere
  <2>2. CASE w \notin broken
    <3>1. LastRows(w)' = LastRows(w) /\ LastStale(w)' = LastStale(w) BY <2>2, <1>1, <1>6, Muddled
    <3>2. \A kind, q : InLine(w, kind, q) => InLine(w, kind, q)'
      <4>1. CASE w = v
        <5>1. line[k].buffer = << >> BY <4>1, <2>2, <1>5
        <5> QED BY <4>1, <5>1, ToldNothing DEF InLine
      <4>2. CASE w # v BY <4>2, <1>1, <1>3, <1>4, <1>9 DEF InLine, FeedTyped
      <4> QED BY <4>1, <4>2
    <3> QED BY <3>1, <3>2, KeptThere
  <2> QED BY <2>1, <2>2
<1> QED BY <1>7, <1>8, <1>10, <1>11 DEF FeedInv

LEMMA DeliveredStep == ASSUME FeedInv, NEW v \in Viewers, NEW k \in Lines, Delivered(v, k) PROVE FeedInv'
<1>1. FeedTyped /\ LinesInv /\ BoardInv /\ line[k] \in LineRows /\ line[k].buffer \in Seq(Tidings)
  BY DEF FeedInv, FeedTyped, LineRows
<1>2. /\ current[v] = k /\ line[k].buffer # << >>
      /\ line' = [line EXCEPT ![k].buffer = Tail(@)]
      /\ UNCHANGED <<boardVars, queue, current, recloses, shown, replies, muddled>>
  BY DEF Delivered, Has
<1>3. PICK m \in Tidings : m = Head(line[k].buffer) BY <1>1, <1>2, ToldTail
<1>4. \/ m.kind = "created" /\ asking' = [asking EXCEPT ![v] = @ + 1] /\ fading' = fading
      \/ m.kind = "deleted" /\ fading' = [fading EXCEPT ![v] = @ \cup m.ids] /\ asking' = asking
  BY <1>3 DEF Delivered
<1>5. PICK b \in Seq(Tidings) : b = Tail(line[k].buffer) BY <1>1, <1>2, ToldTail
<1>6. \A kind, q : Told(line[k].buffer, kind, q) <=> Told(b, kind, q) \/ (m.kind = kind /\ q \in m.ids)
  BY <1>1, <1>2, <1>3, <1>5, ToldTail
<1>7. PICK r \in LineRows : /\ r.at = line[k].at /\ r.registered = line[k].registered /\ r.open = line[k].open
                            /\ r.buffer = b /\ Wired(k, r)
  <2>1. PICK r : r = [line[k] EXCEPT !.buffer = b] OBVIOUS
  <2>2. r \in LineRows BY <1>1, <2>1 DEF LineRows
  <2>3. r.at = line[k].at /\ r.registered = line[k].registered /\ r.open = line[k].open /\ r.buffer = b
    BY <1>1, <2>1 DEF LineRows
  <2>4. Wired(k, r) BY <1>2, <1>5, <2>1 DEF Wired
  <2> QED BY <2>2, <2>3, <2>4
<1>8. line' \in [Lines -> LineRows] /\ line'[k] = r /\ \A l \in Lines : l # k => line'[l] = line[l]
  BY <1>1, <1>7, LineFields
<1>9. m.kind = "deleted" => m.ids \subseteq Gone BY <1>1, <1>6 DEF BoardInv, TellsOfGone
<1>10. /\ asking' \in [Viewers -> Nat] /\ fading' \in [Viewers -> SUBSET Questions]
       /\ \A w \in Viewers : w # v => asking'[w] = asking[w] /\ fading'[w] = fading[w]
       /\ \A w \in Viewers : fading'[w] \subseteq Gone
       /\ m.kind = "created" => asking'[v] # 0
       /\ m.kind # "created" => asking'[v] = asking[v] /\ m.kind = "deleted" /\ fading'[v] = fading[v] \cup m.ids
  <2>1. asking \in [Viewers -> Nat] /\ fading \in [Viewers -> SUBSET Questions]
        /\ \A w \in Viewers : fading[w] \subseteq Gone
    BY <1>1 DEF FeedTyped, BoardInv
  <2>2. CASE m.kind = "created" /\ asking' = [asking EXCEPT ![v] = @ + 1] /\ fading' = fading
    <3>1. asking'[v] = asking[v] + 1 /\ asking[v] \in Nat BY <2>1, <2>2
    <3>2. asking'[v] # 0 BY <3>1
    <3> QED BY <2>1, <2>2, <3>2
  <2>3. CASE m.kind = "deleted" /\ fading' = [fading EXCEPT ![v] = @ \cup m.ids] /\ asking' = asking
    <3>1. m.ids \subseteq Questions BY DEF Tidings
    <3> QED BY <2>1, <2>3, <3>1, <1>9
  <2> QED BY <1>4, <2>2, <2>3
<1>11. FeedTyped' BY <1>1, <1>2, <1>8, <1>10 DEF FeedTyped, boardVars
<1>12. BoardInv'
  <2>1. TellsOfGone(r.buffer) BY <1>1, <1>6, <1>7 DEF BoardInv, TellsOfGone
  <2>2. \A l \in Lines : TellsOfGone(line'[l].buffer) BY <2>1, <1>1, <1>8 DEF BoardInv
  <2> QED BY <1>1, <1>2, <1>10, <2>2, BoardStays DEF BoardInv
<1>13. LinesInv'
  <2>1. ASSUME NEW l \in Lines
        PROVE  /\ line'[l].registered => line'[l].open
               /\ line'[l].at \in {"unused", "dialling"} => line'[l].open /\ ~line'[l].registered
               /\ line[l].at \in {"dialling", "live"} => line'[l].at \in {"dialling", "live"}
    BY <1>1, <1>7, <1>8 DEF LinesInv
  <2>2. recloses' = 0 BY <1>1, <1>2 DEF LinesInv
  <2> QED BY <1>1, <1>2, <2>1, <2>2, LinesRule
<1>14. k # NoLine /\ \A w \in Viewers : w # v => current[w] # k
  <2>1. k # NoLine BY FeedAssumption
  <2> QED BY <2>1, <1>1, <1>2 DEF LinesInv
<1>15. \A w \in Viewers : LastRows(w)' = LastRows(w) /\ LastStale(w)' = LastStale(w)
  BY <1>2 DEF LastRows, LastStale
<1>16. \A kind, q : Told(queue, kind, q)' <=> Told(queue, kind, q) BY <1>2 DEF Told
<1>17. ASSUME NEW w \in Viewers PROVE KeptUp(w)'
  <2>1. CASE w # v
    <3>1. \A kind, q : InLine(w, kind, q) => InLine(w, kind, q)'
      BY <2>1, <1>1, <1>2, <1>8, <1>14 DEF InLine, FeedTyped
    <3>2. asking'[w] = asking[w] /\ fading'[w] = fading[w] BY <2>1, <1>10
    <3> QED BY <1>2, <1>15, <1>16, <3>1, <3>2, KeptThere
  <2>2. CASE w = v /\ m.kind = "created" BY <2>2, <1>10 DEF KeptUp
  <2>3. CASE w = v /\ m.kind # "created"
    <3>1. \A kind, q : /\ InLine(v, kind, q) <=> Told(line[k].buffer, kind, q)
                       /\ InLine(v, kind, q)' <=> Told(b, kind, q)
      BY <1>2, <1>7, <1>8, <1>14 DEF InLine
    <3>2. asking'[v] = asking[v] /\ m.kind = "deleted" /\ fading'[v] = fading[v] \cup m.ids BY <2>3, <1>10
    <3>3. \A q : InLine(v, "created", q) => InLine(v, "created", q)' BY <3>1, <3>2, <1>6
    <3>4. \A q : InLine(v, "deleted", q) \/ q \in fading[v] => InLine(v, "deleted", q)' \/ q \in fading'[v]
      BY <3>1, <3>2, <1>6
    <3> QED BY <2>3, <1>2, <1>15, <1>16, <3>2, <3>3, <3>4, KeptThere
  <2> QED BY <2>1, <2>2, <2>3
<1> QED BY <1>11, <1>12, <1>13, <1>17 DEF FeedInv

-----------------------------------------------------------------------------
(* The lists of the browsers *)

\* A step of the pages only: the board, the queue and the lines stay.
LEMMA PageRule ==
    ASSUME FeedInv, UNCHANGED <<boardVars, queue, lineVars>>,
           shown' \in [Viewers -> SUBSET Questions], asking' \in [Viewers -> Nat],
           replies' \in [Viewers -> Seq(Lists)], fading' \in [Viewers -> SUBSET Questions],
           \A w \in Viewers : fading'[w] \subseteq fading[w], \A w \in Viewers : KeptUp(w)'
    PROVE  FeedInv'
<1>1. FeedTyped' BY DEF FeedInv, FeedTyped, boardVars, lineVars
<1>2. LinesInv' BY LinesStay DEF FeedInv
<1>3. \A w \in Viewers : fading'[w] \subseteq Gone BY DEF FeedInv, BoardInv
<1>4. TellsOfGone(queue') /\ \A l \in Lines : TellsOfGone(line'[l].buffer) BY DEF FeedInv, BoardInv, lineVars
<1>5. BoardInv' BY <1>3, <1>4, BoardStays
<1> QED BY <1>1, <1>2, <1>5 DEF FeedInv

LEMMA PageOthers ==
    ASSUME FeedInv, UNCHANGED <<boardVars, queue, lineVars>>, NEW w \in Viewers, asking'[w] = asking[w],
           fading'[w] = fading[w],
           LastStale(w)' \/ (LastRows(w)' = LastRows(w) /\ LastStale(w)' = LastStale(w))
    PROVE  KeptUp(w)'
<1>1. \A kind, q : /\ InLine(w, kind, q)' <=> InLine(w, kind, q)
                   /\ Told(queue, kind, q)' <=> Told(queue, kind, q)
  BY DEF InLine, Told, lineVars
<1> QED BY <1>1, KeptThere

LEMMA ListReadStep == ASSUME FeedInv, NEW v \in Viewers, ListRead(v) PROVE FeedInv'
<1> USE DEF ListRead
<1>1. /\ asking \in [Viewers -> Nat] /\ replies \in [Viewers -> Seq(Lists)] /\ asked \subseteq Questions
      /\ shown \in [Viewers -> SUBSET Questions] /\ fading \in [Viewers -> SUBSET Questions]
  BY DEF FeedInv, FeedTyped
<1>2. PICK l \in Lists : l = [rows |-> asked, stale |-> FALSE] BY <1>1 DEF Lists
<1>3. l.rows = asked /\ ~l.stale BY <1>2
<1>4. PICK s \in Seq(Lists) : s = replies[v] BY <1>1
<1>5. PICK n \in Nat : n = Len(s) BY <1>4
<1>6. PICK t : t = Append(s, l) OBVIOUS
<1>7. t \in Seq(Lists) /\ Len(t) = n + 1 /\ t[n + 1] = l BY <1>4, <1>5, <1>6
<1>8. replies'[v] = t /\ \A w \in Viewers : w # v => replies'[w] = replies[w] BY <1>1, <1>2, <1>4, <1>6
<1>9. asking' \in [Viewers -> Nat] /\ \A w \in Viewers : w # v => asking'[w] = asking[w]
  <2>1. asking[v] \in Nat /\ asking[v] > 0 BY <1>1
  <2>2. asking[v] - 1 \in Nat BY <2>1
  <2> QED BY <2>2, <1>1
<1>10. replies' \in [Viewers -> Seq(Lists)] BY <1>1, <1>2, <1>4, <1>6, <1>7
<1>11. ASSUME NEW w \in Viewers PROVE KeptUp(w)'
  <2>1. CASE w = v
    <3>1. t # << >> BY <1>5, <1>7
    <3>2. LastRows(v)' = asked BY <3>1, <1>3, <1>7, <1>8 DEF LastRows
    <3> QED BY <2>1, <3>2 DEF KeptUp, boardVars
  <2>2. CASE w # v
    <3>1. LastRows(w)' = LastRows(w) /\ LastStale(w)' = LastStale(w) BY <2>2, <1>8 DEF LastRows, LastStale
    <3> QED BY <2>2, <3>1, <1>9, PageOthers
  <2> QED BY <2>1, <2>2
<1> QED BY <1>1, <1>9, <1>10, <1>11, PageRule

LEMMA ListLostStep == ASSUME FeedInv, NEW v \in Viewers, ListLost(v) PROVE FeedInv'
<1> USE DEF ListLost
<1>1. /\ asking \in [Viewers -> Nat] /\ FeedTyped
      /\ shown \in [Viewers -> SUBSET Questions] /\ fading \in [Viewers -> SUBSET Questions]
  BY DEF FeedInv, FeedTyped
<1>2. asking' \in [Viewers -> Nat] /\ \A w \in Viewers : w # v => asking'[w] = asking[w]
  <2>1. asking[v] \in Nat /\ asking[v] > 0 BY <1>1
  <2>2. asking[v] - 1 \in Nat BY <2>1
  <2> QED BY <2>2, <1>1
<1>3. /\ replies' \in [Viewers -> Seq(Lists)]
      /\ \A w \in Viewers : /\ w \in {v} => LastStale(w)'
                            /\ w \notin {v} => LastRows(w)' = LastRows(w) /\ LastStale(w)' = LastStale(w)
  BY <1>1, Muddled
<1>4. ASSUME NEW w \in Viewers PROVE KeptUp(w)'
  <2>1. CASE w = v BY <2>1, <1>3 DEF KeptUp
  <2>2. CASE w # v BY <2>2, <1>2, <1>3, PageOthers
  <2> QED BY <2>1, <2>2
<1> QED BY <1>1, <1>2, <1>3, <1>4, PageRule

LEMMA ListAppliedStep ==
    ASSUME FeedInv, NEW v \in Viewers, NEW i \in DOMAIN replies[v], ListApplied(v, i)
    PROVE  FeedInv'
<1>1. /\ asking \in [Viewers -> Nat] /\ replies \in [Viewers -> Seq(Lists)]
      /\ shown \in [Viewers -> SUBSET Questions] /\ fading \in [Viewers -> SUBSET Questions]
  BY DEF FeedInv, FeedTyped
<1>2. PICK s \in Seq(Lists) : s = replies[v] BY <1>1
<1>3. PICK n \in Nat : n = Len(s) /\ n > 0 /\ DOMAIN s = 1..n /\ i \in 1..n BY <1>2
<1>4. PICK t : t = [j \in 1..n |-> IF j < i THEN [s[j] EXCEPT !.stale = TRUE] ELSE s[j]] OBVIOUS
<1>5. /\ shown' = [shown EXCEPT ![v] = s[i].rows]
      /\ muddled' = (IF s[i].stale THEN muddled \cup {v} ELSE muddled \ {v})
      /\ replies' = [replies EXCEPT ![v] = RemoveAt(t, i)]
      /\ UNCHANGED <<boardVars, queue, lineVars, asking, fading>>
  BY <1>2, <1>3, <1>4 DEF ListApplied
<1>6. \A j \in 1..n : s[j] \in Lists BY <1>2, <1>3
<1>7. \A j \in 1..n : t[j] \in Lists /\ (j < i => t[j].stale) /\ (~(j < i) => t[j] = s[j])
  BY <1>4, <1>6 DEF Lists
<1>8. t \in Seq(Lists) /\ Len(t) = n BY <1>3, <1>4, <1>7
<1>9. PICK u : u = RemoveAt(t, i) OBVIOUS
<1>10. /\ u \in Seq(Lists) /\ Len(u) = n - 1
       /\ n > 1 => u[n - 1] = IF i = n THEN t[n - 1] ELSE t[n]
  <2>1. t \in Seq(Lists) /\ i \in 1..Len(t) /\ Len(t) = n BY <1>3, <1>8
  <2>2. /\ RemoveAt(t, i) \in Seq(Lists) /\ Len(RemoveAt(t, i)) = Len(t) - 1
        /\ Len(t) > 1 => RemoveAt(t, i)[Len(t) - 1] = IF i = Len(t) THEN t[Len(t) - 1] ELSE t[Len(t)]
    BY <2>1, Removed
  <2> QED BY <2>1, <2>2, <1>9
<1>11. replies'[v] = u /\ \A w \in Viewers : w # v => replies'[w] = replies[w] BY <1>1, <1>5, <1>9
<1>12. replies' \in [Viewers -> Seq(Lists)] BY <1>1, <1>5, <1>9, <1>10
<1>13. s[i].rows \subseteq Questions BY <1>3, <1>6 DEF Lists
<1>14. /\ shown' \in [Viewers -> SUBSET Questions] /\ shown'[v] = s[i].rows
       /\ \A w \in Viewers : w # v => shown'[w] = shown[w]
  BY <1>1, <1>5, <1>13
<1>15. ASSUME NEW w \in Viewers PROVE KeptUp(w)'
  <2>1. CASE w # v
    <3>1. LastRows(w)' = LastRows(w) /\ (LastStale(w)' <=> LastStale(w))
      BY <2>1, <1>5, <1>11, <1>14 DEF LastRows, LastStale
    <3>2. LastStale(w)' \/ (LastRows(w)' = LastRows(w) /\ LastStale(w)' = LastStale(w))
      BY <2>1, <1>5, <1>11, <1>14 DEF LastRows, LastStale
    <3> QED BY <3>2, <1>5, PageOthers
  <2>2. CASE w = v /\ n = 1
    <3>1. u = << >> /\ i = 1 /\ s # << >> BY <2>2, <1>2, <1>3, <1>10
    <3>2. LastRows(v) = s[1].rows /\ (LastStale(v) <=> s[1].stale)
      BY <2>2, <3>1, <1>2, <1>3 DEF LastRows, LastStale
    <3>3. LastRows(v)' = s[1].rows /\ (LastStale(v)' <=> s[1].stale)
      BY <3>1, <1>5, <1>11, <1>14 DEF LastRows, LastStale
    <3>4. \A kind, q : /\ InLine(v, kind, q)' <=> InLine(v, kind, q)
                       /\ Told(queue, kind, q)' <=> Told(queue, kind, q)
      BY <1>5 DEF InLine, Told, lineVars
    <3>5. \A q : (Coming(v, q)' <=> Coming(v, q)) /\ (Going(v, q)' <=> Going(v, q))
      BY <3>4, <1>5 DEF Coming, Going, boardVars
    <3>6. asked' = asked /\ hushed' = hushed /\ untold' = untold /\ asking' = asking BY <1>5 DEF boardVars
    <3> QED BY <2>2, <3>2, <3>3, <3>5, <3>6 DEF KeptUp, FeedInv
  <2>3. CASE w = v /\ n # 1
    <3>1. n > 1 /\ n - 1 \in 1..n /\ n \in 1..n /\ n - 1 > 0 BY <2>3, <1>3
    <3>2. u # << >> /\ s # << >> BY <3>1, <1>2, <1>3, <1>10
    <3>3. CASE i = n
      <4>1. n - 1 < i BY <3>1, <3>3
      <4>2. u[n - 1].stale BY <3>1, <3>3, <4>1, <1>7, <1>10
      <4>3. LastStale(v)' BY <3>2, <4>2, <1>10, <1>11 DEF LastStale
      <4> QED BY <2>3, <4>3 DEF KeptUp
    <3>4. CASE i # n
      <4>1. ~(n < i) BY <3>4, <1>3
      <4>2. u[n - 1] = s[n] BY <3>1, <3>4, <4>1, <1>7, <1>10
      <4>3. LastStale(v)' = LastStale(v) /\ LastRows(v)' = LastRows(v)
        BY <3>2, <4>2, <1>2, <1>3, <1>10, <1>11 DEF LastStale, LastRows
      <4> QED BY <2>3, <4>3, <1>5, PageOthers
    <3> QED BY <3>3, <3>4
  <2> QED BY <2>1, <2>2, <2>3
<1> QED BY <1>1, <1>5, <1>12, <1>14, <1>15, PageRule

LEMMA FadeEndsStep == ASSUME FeedInv, NEW v \in Viewers, FadeEnds(v) PROVE FeedInv'
<1>1. /\ asking \in [Viewers -> Nat] /\ replies \in [Viewers -> Seq(Lists)]
      /\ shown \in [Viewers -> SUBSET Questions] /\ fading \in [Viewers -> SUBSET Questions]
  BY DEF FeedInv, FeedTyped
<1>2. PICK s \in Seq(Lists) : s = replies[v] BY <1>1
<1>3. PICK n \in Nat : n = Len(s) /\ DOMAIN s = 1..n BY <1>2
<1>4. PICK t : t = [i \in 1..n |-> [rows |-> s[i].rows, stale |-> s[i].stale \/ s[i].rows \cap fading[v] # {}]] OBVIOUS
<1>5. /\ shown' = [shown EXCEPT ![v] = shown[v] \ fading[v]]
      /\ replies' = [replies EXCEPT ![v] = t]
      /\ fading' = [fading EXCEPT ![v] = {}]
      /\ UNCHANGED <<boardVars, queue, lineVars, asking, muddled>>
  BY <1>2, <1>3, <1>4 DEF FadeEnds, Without
<1>6. \A i \in 1..n : s[i] \in Lists BY <1>2, <1>3
<1>7. \A i \in 1..n : /\ t[i] \in Lists /\ t[i].rows = s[i].rows
                      /\ t[i].stale <=> (s[i].stale \/ s[i].rows \cap fading[v] # {})
  BY <1>4, <1>6 DEF Lists
<1>8. t \in Seq(Lists) /\ Len(t) = n BY <1>3, <1>4, <1>7
<1>9. replies' \in [Viewers -> Seq(Lists)] /\ replies'[v] = t /\ \A w \in Viewers : w # v => replies'[w] = replies[w]
  BY <1>1, <1>5, <1>8
<1>10. /\ shown' \in [Viewers -> SUBSET Questions] /\ shown'[v] = shown[v] \ fading[v]
       /\ \A w \in Viewers : w # v => shown'[w] = shown[w]
  BY <1>1, <1>5
<1>11. /\ fading' \in [Viewers -> SUBSET Questions] /\ fading'[v] = {}
       /\ \A w \in Viewers : w # v => fading'[w] = fading[w]
  BY <1>1, <1>5
<1>12. ASSUME NEW w \in Viewers PROVE KeptUp(w)'
  <2>1. CASE w # v
    <3>1. LastRows(w)' = LastRows(w) /\ LastStale(w)' = LastStale(w)
      BY <2>1, <1>5, <1>9, <1>10 DEF LastRows, LastStale
    <3> QED BY <2>1, <3>1, <1>5, <1>11, PageOthers
  <2>2. CASE w = v
    <3>1. SUFFICES ASSUME asking[v] = 0, ~LastStale(v)'
                   PROVE  /\ \A q \in asked \ (LastRows(v)' \cup hushed) : Coming(v, q)'
                          /\ \A q \in LastRows(v)' \ (asked \cup untold) : Going(v, q)'
      BY <2>2, <1>5 DEF KeptUp, boardVars
    <3>2. ~LastStale(v) /\ LastRows(v)' \cap fading[v] = {} /\ LastRows(v)' \subseteq LastRows(v)
          /\ LastRows(v) \ LastRows(v)' \subseteq fading[v]
      <4>1. CASE n = 0
        <5>1. s = << >> /\ t = << >> BY <4>1, <1>2, <1>3, <1>8
        <5> QED BY <5>1, <3>1, <1>2, <1>5, <1>9, <1>10 DEF LastRows, LastStale
      <4>2. CASE n # 0
        <5>1. s # << >> /\ t # << >> /\ n \in 1..n BY <4>2, <1>2, <1>3, <1>8
        <5>2. LastRows(v)' = t[n].rows /\ (LastStale(v)' <=> t[n].stale)
          BY <5>1, <1>8, <1>9 DEF LastRows, LastStale
        <5>3. LastRows(v) = s[n].rows /\ (LastStale(v) <=> s[n].stale)
          BY <5>1, <1>2, <1>3 DEF LastRows, LastStale
        <5> QED BY <3>1, <5>1, <5>2, <5>3, <1>7
      <4> QED BY <4>1, <4>2
    <3>3. fading[v] \subseteq Gone /\ Gone \cap asked = {} BY DEF FeedInv, BoardInv, Gone
    <3>4. KeptUp(v) BY DEF FeedInv
    <3>5. \A kind, q : /\ InLine(v, kind, q)' <=> InLine(v, kind, q)
                       /\ Told(queue, kind, q)' <=> Told(queue, kind, q)
      BY <1>5 DEF InLine, Told, lineVars
    <3>6. \A q : Coming(v, q) => Coming(v, q)' BY <3>5, <1>5 DEF Coming, boardVars
    <3>7. \A q : Going(v, q) /\ q \notin fading[v] => Going(v, q)' BY <3>5, <1>5 DEF Going, boardVars
    <3>8. ASSUME NEW q \in asked, q \notin LastRows(v)', q \notin hushed PROVE Coming(v, q)'
      <4>1. q \notin LastRows(v) BY <3>2, <3>3, <3>8
      <4> QED BY <4>1, <3>1, <3>2, <3>4, <3>6, <3>8 DEF KeptUp
    <3>9. ASSUME NEW q \in LastRows(v)', q \notin asked, q \notin untold PROVE Going(v, q)'
      <4>1. q \in LastRows(v) /\ q \notin fading[v] BY <3>2, <3>9
      <4>2. Going(v, q) BY <4>1, <3>1, <3>2, <3>4, <3>9 DEF KeptUp
      <4> QED BY <4>1, <4>2, <3>7
    <3> QED BY <3>8, <3>9
  <2> QED BY <2>1, <2>2
<1>13. \A w \in Viewers : fading'[w] \subseteq fading[w] BY <1>11
<1>14. asking' \in [Viewers -> Nat] BY <1>1, <1>5
<1> QED BY <1>5, <1>9, <1>10, <1>11, <1>12, <1>13, <1>14, PageRule

-----------------------------------------------------------------------------
(* What is shown at rest *)

LEMMA FeedStarts == ASSUME FeedInit PROVE FeedInv
<1> USE DEF FeedInit
<1>1. FeedTyped
  <2>1. NoTask \in ClerkRows BY DEF NoTask, ClerkRows
  <2>2. Unused \in LineRows
    <3>1. << >> \in Seq(Tidings) OBVIOUS
    <3> QED BY <3>1 DEF Unused, LineRows
  <2>3. queue \in Seq(Tidings) /\ clerk \in [Clerks -> ClerkRows] /\ line \in [Lines -> LineRows]
    BY <2>1, <2>2
  <2>4. replies \in [Viewers -> Seq(Lists)] OBVIOUS
  <2> QED BY <2>3, <2>4, FeedAssumption DEF FeedTyped
<1>2. \A c \in Clerks : clerk[c].at = "idle" BY DEF NoTask
<1>3. Inserting = {} BY <1>2 DEF Inserting
<1>4. BoardInv
  <2>1. TellsOfGone(queue) BY ToldNothing DEF TellsOfGone
  <2>2. \A k \in Lines : TellsOfGone(line[k].buffer) BY ToldNothing DEF TellsOfGone, Unused
  <2> QED BY <1>2, <1>3, <2>1, <2>2 DEF BoardInv
<1>5. LinesInv BY DEF LinesInv, Unused
<1>6. \A v \in Viewers : KeptUp(v) BY DEF KeptUp, LastStale
<1> QED BY <1>1, <1>4, <1>5, <1>6 DEF FeedInv

LEMMA FeedSteps == ASSUME FeedInv, [FeedNext]_feedVars PROVE FeedInv'
<1>1. ASSUME NEW c \in Clerks, NEW q \in Questions, AskLook(c, q) PROVE FeedInv' BY <1>1, AskLookStep
<1>2. ASSUME NEW c \in Clerks, NEW q \in Questions, DeleteLook(c, q) PROVE FeedInv' BY <1>2, DeleteLookStep
<1>3. ASSUME NEW c \in Clerks, AskInsert(c) PROVE FeedInv' BY <1>3, AskInsertStep
<1>4. ASSUME NEW c \in Clerks, AskAnswer(c) PROVE FeedInv' BY <1>4, AskAnswerStep
<1>5. ASSUME NEW c \in Clerks, AskTell(c) PROVE FeedInv' BY <1>5, TellStep DEF AskTell
<1>6. ASSUME NEW c \in Clerks, DeleteRemove(c) PROVE FeedInv' BY <1>6, DeleteRemoveStep
<1>7. ASSUME NEW c \in Clerks, DeleteTell(c) PROVE FeedInv' BY <1>7, TellStep DEF DeleteTell
<1>8. ASSUME NEW k \in Lines, HubRegister(k) PROVE FeedInv' BY <1>8, RegisterStep
<1>9. ASSUME NEW k \in Lines, HubUnregister(k) PROVE FeedInv' BY <1>9, UnregisterStep
<1>10. CASE HubBroadcast BY <1>10, BroadcastStep
<1>11. ASSUME NEW v \in Viewers, NEW k \in Lines, OpenPage(v, k) PROVE FeedInv'
  BY <1>11, DialStep DEF OpenPage
<1>12. ASSUME NEW v \in Viewers, NEW k \in Lines, Reconnect(v, k) PROVE FeedInv'
  BY <1>12, DialStep DEF Reconnect, pageVars
<1>13. ASSUME NEW v \in Viewers, NEW k \in Lines, LineLost(v, k) PROVE FeedInv' BY <1>13, LineLostStep
<1>14. ASSUME NEW v \in Viewers, NEW k \in Lines, Delivered(v, k) PROVE FeedInv' BY <1>14, DeliveredStep
<1>15. ASSUME NEW v \in Viewers, ListRead(v) PROVE FeedInv' BY <1>15, ListReadStep
<1>16. ASSUME NEW v \in Viewers, ListLost(v) PROVE FeedInv' BY <1>16, ListLostStep
<1>17. ASSUME NEW v \in Viewers, FadeEnds(v) PROVE FeedInv' BY <1>17, FadeEndsStep
<1>18. ASSUME NEW v \in Viewers, NEW i, ListApplied(v, i) PROVE FeedInv'
  <2>1. i \in DOMAIN replies[v] BY <1>18 DEF ListApplied
  <2> QED BY <2>1, <1>18, ListAppliedStep
<1>19. CASE UNCHANGED feedVars
  <2>1. UNCHANGED <<boardVars, queue, lineVars, pageVars, muddled>> BY <1>19 DEF feedVars
  <2>2. \A w \in Viewers : KeptUp(w)'
    <3>1. \A w \in Viewers : fading'[w] = fading[w] BY <2>1 DEF pageVars
    <3> QED BY <2>1, <3>1, PagesStay, PageOthers
  <2> QED BY <2>1, <2>2, PageRule DEF FeedInv, FeedTyped, pageVars
<1> QED BY <1>1, <1>2, <1>3, <1>4, <1>5, <1>6, <1>7, <1>8, <1>9, <1>10, <1>11, <1>12, <1>13, <1>14, <1>15,
           <1>16, <1>17, <1>18, <1>19 DEF FeedNext

LEMMA FeedMeans == ASSUME FeedInv PROVE FeedSound
<1>1. HubSurvives BY DEF FeedInv, LinesInv, HubSurvives
<1>2. ASSUME NEW v \in Viewers \ muddled, AtRest(v)
      PROVE  shown[v] \ (hushed \cup untold) = asked \ hushed
  <2>1. asking[v] = 0 /\ replies[v] = << >> /\ fading[v] = {} /\ queue = << >> /\ line[current[v]].buffer = << >>
    BY <1>2 DEF AtRest
  <2>2. LastRows(v) = shown[v] /\ ~LastStale(v) BY <1>2, <2>1 DEF LastRows, LastStale
  <2>3. \A q : ~Coming(v, q)
    <3>1. \A c \in Clerks : clerk[c].at \notin {"answer", "tell"} BY <1>2 DEF AtRest
    <3> QED BY <3>1, <2>1, ToldNothing DEF Coming, InLine
  <2>4. \A q : ~Going(v, q)
    <3>1. \A c \in Clerks : clerk[c].at # "announce" BY <1>2 DEF AtRest
    <3> QED BY <3>1, <2>1, ToldNothing DEF Going, InLine
  <2>5. asked \ hushed \subseteq shown[v] /\ shown[v] \ untold \subseteq asked
    BY <2>1, <2>2, <2>3, <2>4 DEF FeedInv, KeptUp
  <2>6. asked \cap untold = {} BY DEF FeedInv, BoardInv, Gone
  <2> QED BY <2>5, <2>6
<1> QED BY <1>1, <1>2 DEF FeedSound, ShownIsAsked

(***************************************************************************)
(* The hub survives its clients, and a list at rest shows the questions    *)
(* that are asked (websocket.go:65-130, App.jsx:2261-2300, 2611-2636): any *)
(* order of asks, deletions, broadcasts and lists, and any number of       *)
(* browsers and connections and any size of the channels.                  *)
(***************************************************************************)
THEOREM TheFeedStaysSound == FeedSpec => []FeedSound
<1>1. FeedInit => FeedInv BY FeedStarts
<1>2. FeedInv /\ [FeedNext]_feedVars => FeedInv' BY FeedSteps
<1>3. FeedInv => FeedSound BY FeedMeans
<1> QED BY <1>1, <1>2, <1>3, PTL DEF FeedSpec

-----------------------------------------------------------------------------
(* The types of the parts.                                                  *)

LEMMA PeopleAreTyped == PeopleSpec => []PeopleTypeOK
<1>1. PeopleInv => PeopleTypeOK BY DEF PeopleInv, CallsTyped
<1> QED BY <1>1, PeopleStart, PeopleStep, PTL DEF PeopleSpec

\* A member has an account, and so does whoever is about to become one, unless the
\* request knows that it is gone.
Comes(x) == x.op \in {"accept", "mark"} /\ ~x.gone
MembersKnown ==
  /\ belongs \subseteq known
  /\ \A d \in Desks : Comes(errand[d]) => errand[d].email \in known
InvitationsShape == InvitationsInv /\ MembersKnown

LEMMA MembersStayKnown == InvitationsShape /\ [InvitationsNext]_invitationVars => MembersKnown'
<1> SUFFICES ASSUME InvitationsShape, [InvitationsNext]_invitationVars PROVE MembersKnown' OBVIOUS
<1>1. InvitationsTyped /\ MembersKnown BY DEF InvitationsShape, InvitationsInv
<1>2. ASSUME NEW d \in Desks, NEW x \in DeskErrands, ErrandTurns(d, x), known \subseteq known',
             belongs' \subseteq known', Comes(x) => x.email \in known'
      PROVE  MembersKnown'
  <2>1. ASSUME NEW o \in Desks, Comes(errand'[o]) PROVE errand'[o].email \in known'
    <3>1. CASE o = d BY <1>2, <2>1, <3>1 DEF ErrandTurns
    <3>2. CASE o # d BY <1>1, <1>2, <2>1, <3>2 DEF ErrandTurns, MembersKnown
    <3> QED BY <3>1, <3>2
  <2> QED BY <1>2, <2>1 DEF MembersKnown, Comes
<1>3. ASSUME NEW d \in Desks, Leaves(d), UNCHANGED <<known, belongs>> PROVE MembersKnown'
  <2>1. ErrandTurns(d, NoErrand) BY <1>1, <1>3, Leaving
  <2> QED BY <1>1, <1>2, <1>3, <2>1, NoErrandTyped DEF MembersKnown, Comes
<1>4. ASSUME NEW d \in Desks, NEW e \in Guests, NEW m \in Guests, InviteCheck(d, e, m) PROVE MembersKnown'
  <2>1. PICK x \in DeskErrands : ErrandTurns(d, x) /\ x.op = "invite" BY <1>1, <1>4, Starting DEF InviteCheck
  <2> QED BY <1>1, <1>2, <1>4, <2>1 DEF InviteCheck, MembersKnown, Comes
<1>5. ASSUME NEW d \in Desks, NEW i \in Invites,
             AcceptRead(d, i) \/ RegisterRead(d, i) \/ RevokeRead(d, i) \/ RenewRead(d, i)
      PROVE  MembersKnown'
  <2>1. invite[i].email \in Guests BY <1>1 DEF InvitationsTyped, InviteRows
  <2>2. PICK op \in {"accept", "register", "revoke", "renew"} :
          Starts(d, op, invite[i].email, {i}) /\ (op = "accept" => invite[i].email \in known)
    BY <1>5 DEF AcceptRead, RegisterRead, RevokeRead, RenewRead
  <2>3. PICK x \in DeskErrands : ErrandTurns(d, x) /\ x.op = op /\ x.email = invite[i].email
    BY <1>1, <2>1, <2>2, Starting
  <2>4. UNCHANGED <<known, belongs>> BY <1>5 DEF AcceptRead, RegisterRead, RevokeRead, RenewRead
  <2> QED BY <1>1, <1>2, <2>2, <2>3, <2>4 DEF MembersKnown, Comes
<1>6. ASSUME NEW d \in Desks, InviteRevoke(d) PROVE MembersKnown'
  <2>1. PICK x \in DeskErrands : ErrandTurns(d, x) /\ x.op = "insert" BY <1>1, <1>6, Proceeding DEF InviteRevoke
  <2> QED BY <1>1, <1>2, <1>6, <2>1 DEF InviteRevoke, MembersKnown, Comes
<1>7. ASSUME NEW d \in Desks, RegisterUser(d) PROVE MembersKnown'
  <2>1. CASE errand[d].email \in known BY <1>3, <1>7, <2>1 DEF RegisterUser
  <2>2. CASE errand[d].email \notin known
    <3>1. PICK x \in DeskErrands : ErrandTurns(d, x) /\ x.email = errand[d].email
      BY <1>1, <1>7, <2>2, Proceeding DEF RegisterUser
    <3>2. known' = known \union {errand[d].email} /\ belongs' = belongs BY <1>7, <2>2 DEF RegisterUser
    <3> QED BY <1>1, <1>2, <3>1, <3>2 DEF MembersKnown
  <2> QED BY <2>1, <2>2
<1>8. ASSUME NEW d \in Desks, AcceptJoin(d) PROVE MembersKnown'
  <2>1. CASE errand[d].email \in belongs \/ errand[d].gone BY <1>3, <1>8, <2>1 DEF AcceptJoin
  <2>2. CASE ~(errand[d].email \in belongs \/ errand[d].gone)
    <3>1. PICK x \in DeskErrands : ErrandTurns(d, x) /\ x.email = errand[d].email
      BY <1>1, <1>8, <2>2, Proceeding DEF AcceptJoin
    <3>2. belongs' = belongs \union {errand[d].email} /\ known' = known BY <1>8, <2>2 DEF AcceptJoin
    <3>3. errand[d].email \in known BY <1>1, <1>8, <2>2 DEF AcceptJoin, MembersKnown, Comes
    <3> QED BY <1>1, <1>2, <3>1, <3>2, <3>3 DEF MembersKnown
  <2> QED BY <2>1, <2>2
<1>9. ASSUME NEW d \in Desks, AcceptMark(d) \/ InviteWrite(d) \/ \E i \in Invites : InviteInsert(d, i)
      PROVE  MembersKnown'
  BY <1>3, <1>9 DEF AcceptMark, InviteWrite, InviteInsert
<1>10. ASSUME NEW i \in Invites, InviteLapses(i) PROVE MembersKnown'
  BY <1>1, <1>10 DEF InviteLapses, MembersKnown, Comes
<1>11. ASSUME NEW e \in Guests, SignsUp(e) PROVE MembersKnown' BY <1>1, <1>11 DEF SignsUp, MembersKnown, Comes
<1>12. ASSUME NEW e \in Guests, AccountRemoved(e) PROVE MembersKnown'
  <2>1. known' = known \ {e} /\ belongs' = belongs \ {e} BY <1>12 DEF AccountRemoved
  <2>2. ASSUME NEW d \in Desks, Comes(errand'[d]) PROVE errand'[d].email \in known'
    <3>1. errand[d] \in DeskErrands BY <1>1 DEF InvitationsTyped
    <3>2. errand'[d] # NoErrand BY <2>2, NoErrandTyped DEF Comes
    <3>3. errand'[d] = IF errand[d].email = e /\ errand[d].op \in {"accept", "mark"}
                       THEN [errand[d] EXCEPT !.gone = TRUE] ELSE errand[d]
      BY <1>12, <3>2 DEF AccountRemoved
    <3>4. CASE errand[d].email = e /\ errand[d].op \in {"accept", "mark"}
      BY <2>2, <3>1, <3>3, <3>4 DEF Comes, DeskErrands
    <3>5. CASE ~(errand[d].email = e /\ errand[d].op \in {"accept", "mark"})
      BY <1>1, <2>1, <2>2, <3>3, <3>5 DEF Comes, MembersKnown
    <3> QED BY <3>4, <3>5
  <2> QED BY <1>1, <2>1, <2>2 DEF MembersKnown, Comes
<1>13. CASE UNCHANGED invitationVars BY <1>1, <1>13 DEF invitationVars, MembersKnown, Comes
<1> QED
  BY <1>4, <1>5, <1>6, <1>7, <1>8, <1>9, <1>10, <1>11, <1>12, <1>13 DEF InvitationsNext

\* Whatever requests overlap with the removal of accounts, a member has an account
\* (InvitationsTypeOK; service.go:143-172, database/users.go).
LEMMA InvitationsAreTyped == InvitationsSpec => []InvitationsTypeOK
<1>1. InvitationsInit => InvitationsShape
  <2> SUFFICES ASSUME InvitationsInit PROVE InvitationsShape OBVIOUS
  <2>1. \A d \in Desks : ~Comes(errand[d]) BY NoErrandTyped DEF InvitationsInit, Comes
  <2> QED BY <2>1, InvitationsStart DEF InvitationsInit, InvitationsShape, MembersKnown
<1>2. InvitationsShape /\ [InvitationsNext]_invitationVars => InvitationsShape'
  BY InvitationsStep, MembersStayKnown DEF InvitationsShape
<1>3. InvitationsShape => InvitationsTypeOK
  BY DEF InvitationsShape, InvitationsInv, InvitationsTyped, MembersKnown, InvitationsTypeOK, InviteRows, DeskErrands
<1> QED BY <1>1, <1>2, <1>3, PTL DEF InvitationsSpec

-----------------------------------------------------------------------------
\* The numbers a title gets are those the search tries.
WellMarked(t) == t \in [name : Names, marks : Seq(1..MaxSuffix)]
DeedsNumbered == \A c \in Writers : WellMarked(deed[c].title) /\ deed[c].n \in 1..MaxSuffix
TitlesNumbered ==
  /\ \A s \in Places : titleOf[s] = NoTitle \/ WellMarked(titleOf[s])
  /\ DeedsNumbered /\ halted \subseteq Places /\ clouded \subseteq Places
TitlesShape == TitlesInv /\ TitlesNumbered

LEMMA TypedNumbered == ASSUME NEW name \in Names PROVE WellMarked(Typed(name))
BY DEF Typed, WellMarked

LEMMA NoDeedNumbered == WellMarked(NoDeed.title) /\ NoDeed.n \in 1..MaxSuffix /\ 2 \in 1..MaxSuffix
BY TypedNumbered, TitlesAssumption DEF NoDeed

LEMMA CopyNumbered == ASSUME NEW t, WellMarked(t), NEW n \in 1..MaxSuffix PROVE WellMarked(CopyTitle(t, n))
<1>1. PICK k \in 1..MaxSuffix : k = IF t.name \in LongNames THEN 1 ELSE n BY TitlesAssumption
<1>2. t.marks \in Seq(1..MaxSuffix) BY DEF WellMarked
<1>3. Append(t.marks, k) \in Seq(1..MaxSuffix) BY <1>2
<1>4. CopyTitle(t, n) = [t EXCEPT !.marks = Append(t.marks, k)] BY <1>1 DEF CopyTitle
<1> QED BY <1>3, <1>4 DEF WellMarked

LEMMA DeedNumbered ==
  ASSUME TitlesShape, NEW c \in Writers, NEW x, deed' = [deed EXCEPT ![c] = x],
         WellMarked(x.title), x.n \in 1..MaxSuffix
  PROVE  DeedsNumbered'
BY DEF TitlesShape, TitlesInv, TitlesTyped, TitlesNumbered, DeedsNumbered, WellMarked

LEMMA OverNumbered == ASSUME TitlesShape, NEW c \in Writers, deed' = Over(c) PROVE DeedsNumbered'
<1>1. PICK x : x = [NoDeed EXCEPT !.op = "done"] OBVIOUS
<1>2. x.title = NoDeed.title /\ x.n = NoDeed.n BY <1>1 DEF NoDeed
<1> QED BY <1>1, <1>2, NoDeedNumbered, DeedNumbered DEF Over

LEMMA WrittenNumbered ==
  ASSUME TitlesShape, NEW c \in Writers, NEW s \in Places, NEW t, NEW after, TitleWritten(c, s, t, after),
         WellMarked(t), WellMarked(after[c].title), after[c].n \in 1..MaxSuffix, halted' = halted
  PROVE  TitlesNumbered'
<1>1. TitlesTyped /\ TitlesNumbered BY DEF TitlesShape, TitlesInv
<1>2. \A d \in Writers : deed[d] \in Deeds /\ WellMarked(deed[d].title) /\ deed[d].n \in 1..MaxSuffix
  BY <1>1 DEF TitlesTyped, TitlesNumbered, DeedsNumbered
<1>3. ASSUME NEW d \in Writers PROVE WellMarked(deed'[d].title) /\ deed'[d].n \in 1..MaxSuffix
  <2>1. CASE d = c BY <2>1 DEF TitleWritten
  <2>2. CASE d # c
    <3>1. PICK b : b = (deed[d].at \in {"insert", "title"}) OBVIOUS
    <3>2. deed'[d] = [deed[d] EXCEPT !.stale = b] BY <2>2, <3>1 DEF TitleWritten
    <3>3. deed'[d].title = deed[d].title /\ deed'[d].n = deed[d].n BY <1>2, <3>2 DEF Deeds
    <3> QED BY <1>2, <3>3
  <2> QED BY <2>1, <2>2
<1>4. \A p \in Places : titleOf'[p] = NoTitle \/ WellMarked(titleOf'[p])
  BY <1>1 DEF TitleWritten, TitlesTyped, TitlesNumbered
<1>5. clouded' \subseteq Places BY <1>1 DEF TitleWritten, TitlesNumbered
<1> QED BY <1>1, <1>3, <1>4, <1>5 DEF TitlesNumbered, DeedsNumbered, WellMarked

LEMMA TitlesStayNumbered == TitlesShape /\ [TitlesNext]_titleVars => TitlesNumbered'
<1> SUFFICES ASSUME TitlesShape, [TitlesNext]_titleVars PROVE TitlesNumbered' OBVIOUS
<1>1. TitlesTyped /\ TitlesNumbered BY DEF TitlesShape, TitlesInv
<1>2. \A c \in Writers : deed[c] \in Deeds /\ WellMarked(deed[c].title) /\ deed[c].n \in 1..MaxSuffix
  BY <1>1 DEF TitlesTyped, TitlesNumbered, DeedsNumbered
<1>3. ASSUME UNCHANGED <<titleOf, clouded>>, halted' \subseteq Places, DeedsNumbered' PROVE TitlesNumbered'
  BY <1>1, <1>3 DEF TitlesNumbered, WellMarked
<1>4. ASSUME NEW c \in Writers, NEW x, deed' = [deed EXCEPT ![c] = x], WellMarked(x.title), x.n \in 1..MaxSuffix,
             UNCHANGED <<titleOf, clouded>>, halted' \subseteq Places
      PROVE  TitlesNumbered'
  <2>1. DeedsNumbered' BY <1>4, DeedNumbered
  <2> QED BY <1>3, <1>4, <2>1
<1>5. ASSUME NEW c \in Writers, deed' = Over(c), UNCHANGED <<titleOf, clouded>>, halted' \subseteq Places
      PROVE  TitlesNumbered'
  <2>1. DeedsNumbered' BY <1>5, OverNumbered
  <2> QED BY <1>3, <1>5, <2>1
<1>6. halted \subseteq Places BY <1>1 DEF TitlesNumbered
<1>7. ASSUME NEW s \in Places, RemoveSession(s) PROVE TitlesNumbered'
  BY <1>1, <1>7 DEF RemoveSession, Ghosts, TitlesNumbered, DeedsNumbered, WellMarked, TitlesTyped
<1>8. ASSUME NEW c \in Writers, NEW name \in Names, CreateCheck(c, name) \/ ImportTitle(c, name) PROVE TitlesNumbered'
  <2>1. UNCHANGED <<titleOf, clouded>> /\ halted' \subseteq Places BY <1>6, <1>8 DEF CreateCheck, ImportTitle, Ghosts
  <2>2. CASE deed' = Over(c) BY <1>5, <2>1, <2>2
  <2>3. CASE deed' # Over(c)
    <3>1. PICK op \in {"create", "import"} :
            deed' = [deed EXCEPT ![c] = [NoDeed EXCEPT !.op = op, !.title = Typed(name), !.at = "insert"]]
      <4>1. CASE CreateCheck(c, name)
        <5>1. deed' = [deed EXCEPT ![c] = [NoDeed EXCEPT !.op = "create", !.title = Typed(name), !.at = "insert"]]
          BY <2>3, <4>1 DEF CreateCheck
        <5> QED BY <5>1
      <4>2. CASE ImportTitle(c, name)
        <5>1. deed' = [deed EXCEPT ![c] = [NoDeed EXCEPT !.op = "import", !.at = "insert", !.title = Typed(name)]]
          BY <4>2 DEF ImportTitle
        <5>2. [NoDeed EXCEPT !.op = "import", !.at = "insert", !.title = Typed(name)] =
                [NoDeed EXCEPT !.op = "import", !.title = Typed(name), !.at = "insert"]
          BY DEF NoDeed
        <5> QED BY <5>1, <5>2
      <4> QED BY <1>8, <4>1, <4>2
    <3>2. PICK x : x = [NoDeed EXCEPT !.op = op, !.title = Typed(name), !.at = "insert"] OBVIOUS
    <3>3. x.title = Typed(name) /\ x.n = NoDeed.n BY <3>2 DEF NoDeed
    <3>4. deed' = [deed EXCEPT ![c] = x] BY <3>1, <3>2
    <3>5. WellMarked(x.title) /\ x.n \in 1..MaxSuffix BY <3>3, TypedNumbered, NoDeedNumbered
    <3> QED BY <1>4, <2>1, <3>4, <3>5
  <2> QED BY <2>2, <2>3
<1>9. ASSUME NEW c \in Writers, NEW s \in Places, CopyBegin(c, s) PROVE TitlesNumbered'
  <2>1. UNCHANGED <<titleOf, clouded>> /\ halted' \subseteq Places BY <1>6, <1>9 DEF CopyBegin, Ghosts
  <2>2. WellMarked(titleOf[s]) BY <1>1, <1>9 DEF CopyBegin, Live, TitlesNumbered
  <2>3. PICK x : x = [NoDeed EXCEPT !.op = "copy", !.at = "search", !.title = titleOf[s]] OBVIOUS
  <2>4. x.title = titleOf[s] /\ x.n = NoDeed.n BY <2>3 DEF NoDeed
  <2>5. deed' = [deed EXCEPT ![c] = x] BY <1>9, <2>3 DEF CopyBegin
  <2>6. WellMarked(x.title) /\ x.n \in 1..MaxSuffix BY <2>2, <2>4, NoDeedNumbered
  <2> QED BY <1>4, <2>1, <2>5, <2>6
<1>10. ASSUME NEW c \in Writers, CopySearch(c) PROVE TitlesNumbered'
  <2>1. UNCHANGED <<titleOf, clouded>> /\ halted' \subseteq Places BY <1>6, <1>10 DEF CopySearch, Ghosts
  <2>2. CASE Taken(CopyTitle(deed[c].title, deed[c].n), Live)
    <3>1. PICK n : n = IF deed[c].n = MaxSuffix THEN 2 ELSE deed[c].n + 1 OBVIOUS
    <3>2. n \in 1..MaxSuffix
      <4>1. deed[c].n \in 1..MaxSuffix /\ MaxSuffix \in Nat BY <1>2, TitlesAssumption
      <4>2. CASE deed[c].n = MaxSuffix BY <3>1, <4>2, NoDeedNumbered
      <4>3. CASE deed[c].n # MaxSuffix
        <5>1. n = deed[c].n + 1 BY <3>1, <4>3
        <5>2. PICK m \in 1..MaxSuffix : m = deed[c].n BY <4>1
        <5>3. m + 1 \in 1..MaxSuffix BY <4>1, <4>3, <5>2
        <5> QED BY <5>1, <5>2, <5>3
      <4> QED BY <4>2, <4>3
    <3>3. PICK x : x = [deed[c] EXCEPT !.n = n, !.stale = FALSE] OBVIOUS
    <3>4. x.title = deed[c].title /\ x.n = n BY <1>2, <3>3 DEF Deeds
    <3>5. deed' = [deed EXCEPT ![c] = x] BY <1>10, <2>2, <3>1, <3>3 DEF CopySearch
    <3>6. WellMarked(x.title) /\ x.n \in 1..MaxSuffix BY <1>2, <3>2, <3>4
    <3> QED BY <1>4, <2>1, <3>5, <3>6
  <2>3. CASE ~Taken(CopyTitle(deed[c].title, deed[c].n), Live)
    <3>1. PICK t : t = CopyTitle(deed[c].title, deed[c].n) OBVIOUS
    <3>2. WellMarked(t) BY <1>2, <3>1, CopyNumbered
    <3>3. PICK x : x = [deed[c] EXCEPT !.at = "insert", !.title = t, !.stale = FALSE] OBVIOUS
    <3>4. x.title = t /\ x.n = deed[c].n BY <1>2, <3>3 DEF Deeds
    <3>5. deed' = [deed EXCEPT ![c] = x] BY <1>10, <2>3, <3>1, <3>3 DEF CopySearch
    <3>6. WellMarked(x.title) /\ x.n \in 1..MaxSuffix BY <1>2, <3>2, <3>4
    <3> QED BY <1>4, <2>1, <3>5, <3>6
  <2> QED BY <2>2, <2>3
<1>11. ASSUME NEW c \in Writers, InsertSession(c) PROVE TitlesNumbered'
  <2>1. halted' = halted BY <1>11 DEF InsertSession
  <2>2. CASE TitleWritten(c, c, deed[c].title, Over(c))
    <3>1. PICK x : x = [NoDeed EXCEPT !.op = "done"] OBVIOUS
    <3>2. x.title = NoDeed.title /\ x.n = NoDeed.n BY <3>1 DEF NoDeed
    <3>3. PICK after : after = Over(c) OBVIOUS
    <3>4. after[c] = x BY <1>1, <3>1, <3>3 DEF Over, TitlesTyped
    <3>5. TitleWritten(c, c, deed[c].title, after) BY <2>2, <3>3
    <3>6. c \in Places /\ WellMarked(deed[c].title) BY <1>2 DEF Places
    <3>7. WellMarked(after[c].title) /\ after[c].n \in 1..MaxSuffix BY <3>2, <3>4, NoDeedNumbered
    <3> QED BY <2>1, <3>5, <3>6, <3>7, WrittenNumbered
  <2>3. CASE deed' = Over(c) /\ UNCHANGED <<titleOf, clouded>> BY <1>5, <1>6, <2>1, <2>3
  <2> QED BY <1>11, <2>2, <2>3 DEF InsertSession
<1>12. ASSUME NEW c \in Writers, NEW s \in Places, NEW wants \in SUBSET Fields, NEW name \in Names,
              PatchBegin(c, s, wants, name)
       PROVE  TitlesNumbered'
  <2>1. UNCHANGED <<titleOf, clouded>> /\ halted' \subseteq Places BY <1>6, <1>12 DEF PatchBegin, Ghosts
  <2>2. PICK at : at = IF "title" \in wants THEN "look" ELSE After("title", wants) OBVIOUS
  <2>3. PICK x : x = [NoDeed EXCEPT !.op = "patch", !.on = s, !.wants = wants, !.title = Typed(name), !.at = at]
    OBVIOUS
  <2>4. x.title = Typed(name) /\ x.n = NoDeed.n BY <2>3 DEF NoDeed
  <2>5. deed' = [deed EXCEPT ![c] = x] BY <1>12, <2>2, <2>3 DEF PatchBegin
  <2>6. WellMarked(x.title) /\ x.n \in 1..MaxSuffix BY <2>4, TypedNumbered, NoDeedNumbered
  <2> QED BY <1>4, <2>1, <2>5, <2>6
<1>13. ASSUME NEW c \in Writers, PatchLook(c) PROVE TitlesNumbered'
  <2>1. UNCHANGED <<titleOf, clouded>> /\ halted' \subseteq Places BY <1>6, <1>13 DEF PatchLook, Ghosts
  <2>2. CASE deed' = Over(c) BY <1>5, <2>1, <2>2
  <2>3. CASE deed' # Over(c)
    <3>1. PICK x : x = [deed[c] EXCEPT !.at = "title", !.stale = FALSE] OBVIOUS
    <3>2. x.title = deed[c].title /\ x.n = deed[c].n BY <1>2, <3>1 DEF Deeds
    <3>3. deed' = [deed EXCEPT ![c] = x] BY <1>13, <2>3, <3>1 DEF PatchLook
    <3>4. WellMarked(x.title) /\ x.n \in 1..MaxSuffix BY <1>2, <3>2
    <3> QED BY <1>4, <2>1, <3>3, <3>4
  <2> QED BY <2>2, <2>3
<1>14. ASSUME NEW c \in Writers, PatchTitle(c) PROVE TitlesNumbered'
  <2>1. halted' = halted BY <1>14 DEF PatchTitle
  <2>2. PICK s \in Places : s = deed[c].on BY <1>2 DEF Deeds
  <2>3. CASE s \in Live
    <3>1. PICK at : at = After("title", deed[c].wants) OBVIOUS
    <3>2. PICK x : x = [deed[c] EXCEPT !.at = at] OBVIOUS
    <3>3. x.title = deed[c].title /\ x.n = deed[c].n BY <1>2, <3>2 DEF Deeds
    <3>4. PICK after : after = [deed EXCEPT ![c] = x] OBVIOUS
    <3>5. after[c] = x BY <1>1, <3>4 DEF TitlesTyped
    <3>6. [deed EXCEPT ![c].at = After("title", deed[c].wants)] = after BY <3>1, <3>2, <3>4
    <3>7. TitleWritten(c, s, deed[c].title, after) BY <1>14, <2>2, <2>3, <3>6 DEF PatchTitle
    <3>8. WellMarked(deed[c].title) /\ WellMarked(after[c].title) /\ after[c].n \in 1..MaxSuffix BY <1>2, <3>3, <3>5
    <3> QED BY <2>1, <3>7, <3>8, WrittenNumbered
  <2>4. CASE s \notin Live
    <3>1. deed' = Over(c) /\ UNCHANGED <<titleOf, clouded>> BY <1>14, <2>2, <2>4 DEF PatchTitle
    <3> QED BY <1>5, <1>6, <2>1, <3>1
  <2> QED BY <2>3, <2>4
<1>15. ASSUME NEW c \in Writers, PatchRefused(c) PROVE TitlesNumbered'
  <2>1. deed' = Over(c) /\ UNCHANGED <<titleOf, clouded>> /\ halted' = halted \cup {deed[c].on}
    BY <1>15 DEF PatchRefused
  <2>2. halted' \subseteq Places BY <1>2, <1>6, <2>1 DEF Deeds
  <2> QED BY <1>5, <2>1, <2>2
<1>16. ASSUME NEW c \in Writers, PatchField(c) PROVE TitlesNumbered'
  <2>1. UNCHANGED <<titleOf, clouded>> /\ halted' \subseteq Places BY <1>6, <1>16 DEF PatchField, Ghosts
  <2>2. PICK at : at = After(deed[c].at, deed[c].wants) OBVIOUS
  <2>3. PICK x : x = [deed[c] EXCEPT !.at = at] OBVIOUS
  <2>4. x.title = deed[c].title /\ x.n = deed[c].n BY <1>2, <2>3 DEF Deeds
  <2>5. deed' = [deed EXCEPT ![c] = x] BY <1>16, <2>2, <2>3 DEF PatchField
  <2>6. WellMarked(x.title) /\ x.n \in 1..MaxSuffix BY <1>2, <2>4
  <2> QED BY <1>4, <2>1, <2>5, <2>6
<1>17. ASSUME NEW c \in Writers, PatchTrigger(c) PROVE TitlesNumbered'
  <2>1. deed' = Over(c) /\ UNCHANGED <<titleOf, clouded>> /\ halted' \subseteq Places
    BY <1>6, <1>17 DEF PatchTrigger, Ghosts
  <2> QED BY <1>5, <2>1
<1>18. CASE UNCHANGED titleVars
  BY <1>1, <1>18 DEF titleVars, TitlesNumbered, DeedsNumbered, WellMarked
<1>19. CASE TitlesNext
  BY <1>7, <1>8, <1>9, <1>10, <1>11, <1>12, <1>13, <1>14, <1>15, <1>16, <1>17, <1>19 DEF TitlesNext
<1> QED BY <1>18, <1>19

\* Whatever requests overlap, a title carries the suffixes the search tries, and what is
\* to be indexed is a session there is (TitlesTypeOK; sessions.go:340-376).
LEMMA TitlesAreTyped == TitlesSpec => []TitlesTypeOK
<1>1. TitlesInit => TitlesShape
  <2> SUFFICES ASSUME TitlesInit PROVE TitlesShape OBVIOUS
  <2>1. \A c \in Writers : deed[c] = NoDeed BY DEF TitlesInit
  <2>2. WellMarked(Typed(FirstName)) BY TypedNumbered, TitlesAssumption
  <2>3. \A s \in Places : titleOf[s] = NoTitle \/ titleOf[s] = Typed(FirstName) BY DEF TitlesInit
  <2>4. halted = {} /\ clouded = {} BY DEF TitlesInit
  <2>5. DeedsNumbered BY <2>1, NoDeedNumbered DEF DeedsNumbered
  <2>6. TitlesNumbered BY <2>2, <2>3, <2>4, <2>5 DEF TitlesNumbered
  <2> QED BY <2>6, TitlesStart DEF TitlesShape
<1>2. TitlesShape /\ [TitlesNext]_titleVars => TitlesShape' BY TitlesStep, TitlesStayNumbered DEF TitlesShape
<1>3. TitlesShape => TitlesTypeOK
  <2> SUFFICES ASSUME TitlesShape PROVE TitlesTypeOK OBVIOUS
  <2>1. TitlesTyped /\ TitlesNumbered BY DEF TitlesShape, TitlesInv
  <2>2. unindexed \subseteq Places BY <2>1 DEF TitlesTyped, Live
  <2>3. \A c \in Writers : deed[c] \in Deeds /\ deed[c].n \in 1..MaxSuffix
    BY <2>1 DEF TitlesTyped, TitlesNumbered, DeedsNumbered
  <2>4. \A c \in Writers :
          /\ deed[c].op \in {"none", "create", "copy", "import", "patch", "done"}
          /\ deed[c].at \in {"start", "search", "insert", "look", "title", "status", "context",
                             "primary", "trigger"}
          /\ deed[c].on \in Places /\ deed[c].wants \subseteq Fields /\ deed[c].stale \in BOOLEAN
    BY <2>3 DEF Deeds
  <2>5. \A s \in Places : titleOf[s] = NoTitle \/ titleOf[s] \in [name : Names, marks : Seq(1..MaxSuffix)]
    BY <2>1 DEF TitlesNumbered, WellMarked
  <2>6. halted \subseteq Places /\ clouded \subseteq Places BY <2>1 DEF TitlesNumbered
  <2> QED BY <2>2, <2>3, <2>4, <2>5, <2>6 DEF TitlesTypeOK
<1> QED BY <1>1, <1>2, <1>3, PTL DEF TitlesSpec

-----------------------------------------------------------------------------
\* No channel holds more than its capacity, and a request under way is about a question.
ClerksKnown == \A c \in Clerks : clerk[c].at \in {"idle", "done"} \/ clerk[c].q \in Questions
QueueFits   == Len(queue) \in 0..QueueSize
BuffersFit  == \A k \in Lines : Len(line[k].buffer) \in 0..BufferSize
FetchesFit  == \A v \in Viewers : asking[v] \in 0..MaxFetches
FeedCounted == /\ ClerksKnown /\ QueueFits /\ BuffersFit /\ FetchesFit
               /\ muddled \subseteq Viewers /\ hushed \subseteq Questions
FeedShape == FeedInv /\ FeedCounted

LEMMA Bounds ==
  /\ QueueSize \in Nat /\ BufferSize \in Nat /\ MaxFetches \in Nat
  /\ QueueSize > 0 /\ BufferSize > 0 /\ MaxFetches > 0
<1>1. \A n \in Nat \ {0} : n \in Nat /\ n > 0 OBVIOUS
<1> QED BY <1>1, FeedAssumption

LEMMA EndedKnown == ASSUME ClerksKnown, NEW c \in Clerks, FeedTyped, clerk' = Ended(c) PROVE ClerksKnown'
<1>1. PICK r : r = [NoTask EXCEPT !.at = "done"] OBVIOUS
<1>2. r.at = "done" BY <1>1 DEF NoTask
<1>3. clerk' = [clerk EXCEPT ![c] = r] BY <1>1 DEF Ended
<1> QED BY <1>2, <1>3 DEF ClerksKnown, FeedTyped

LEMMA GoesOnKnown ==
  ASSUME ClerksKnown, NEW c \in Clerks, FeedTyped, NEW at, clerk[c].at \notin {"idle", "done"},
         clerk' = [clerk EXCEPT ![c].at = at]
  PROVE  ClerksKnown'
<1>1. clerk[c] \in ClerkRows /\ clerk[c].q \in Questions BY DEF ClerksKnown, FeedTyped
<1>2. PICK r : r = [clerk[c] EXCEPT !.at = at] OBVIOUS
<1>3. r.q \in Questions BY <1>1, <1>2 DEF ClerkRows
<1>4. clerk' = [clerk EXCEPT ![c] = r] BY <1>2
<1> QED BY <1>3, <1>4 DEF ClerksKnown, FeedTyped

LEMMA ClerkCounted ==
  ASSUME FeedShape, UNCHANGED <<lineVars, asking, muddled>>, ClerksKnown', QueueFits', hushed' \subseteq Questions
  PROVE  FeedCounted'
BY DEF FeedShape, FeedCounted, lineVars, BuffersFit, FetchesFit

LEMMA ClerksCount ==
  ASSUME FeedShape, NEW c \in Clerks,
         \/ \E q \in Questions : AskLook(c, q) \/ DeleteLook(c, q)
         \/ AskInsert(c) \/ AskAnswer(c) \/ AskTell(c) \/ DeleteRemove(c) \/ DeleteTell(c)
  PROVE  FeedCounted'
<1>1. /\ FeedTyped /\ ClerksKnown /\ QueueFits /\ hushed \subseteq Questions /\ clerk[c] \in ClerkRows
      /\ queue \in Seq(Tidings)
  BY DEF FeedShape, FeedInv, FeedCounted, FeedTyped
<1>2. UNCHANGED <<lineVars, asking, muddled>>
  BY DEF AskLook, DeleteLook, AskInsert, AskAnswer, AskTell, DeleteRemove, DeleteTell, Tell, BoardOnly, pageVars
<1>3. ASSUME queue' = queue PROVE QueueFits' BY <1>1, <1>3 DEF QueueFits
<1>4. ASSUME NEW q \in Questions, AskLook(c, q) \/ DeleteLook(c, q) PROVE FeedCounted'
  <2>1. PICK r : r.q = q /\ clerk' = [clerk EXCEPT ![c] = r]
    <3>1. CASE AskLook(c, q)
      <4>1. PICK r : r = [at |-> "insert", q |-> q, ids |-> {q}] OBVIOUS
      <4> QED BY <3>1, <4>1 DEF AskLook
    <3>2. CASE DeleteLook(c, q)
      <4>1. PICK r : r = [at |-> "remove", q |-> q, ids |-> {q} \cup Replies(q)] OBVIOUS
      <4> QED BY <3>2, <4>1 DEF DeleteLook
    <3> QED BY <1>4, <3>1, <3>2
  <2>2. ClerksKnown' BY <1>1, <2>1 DEF ClerksKnown, FeedTyped
  <2>3. queue' = queue /\ hushed' = hushed BY <1>4 DEF AskLook, DeleteLook, BoardOnly
  <2> QED BY <1>1, <1>2, <1>3, <2>2, <2>3, ClerkCounted
<1>5. CASE AskInsert(c)
  <2>1. clerk[c].at \notin {"idle", "done"} /\ queue' = queue /\ hushed' = hushed BY <1>5 DEF AskInsert, BoardOnly
  <2>2. clerk' = [clerk EXCEPT ![c].at = "answer"] \/ clerk' = Ended(c) BY <1>5 DEF AskInsert
  <2>3. ClerksKnown' BY <1>1, <2>1, <2>2, EndedKnown, GoesOnKnown
  <2> QED BY <1>1, <1>2, <1>3, <2>1, <2>3, ClerkCounted
<1>6. CASE AskAnswer(c)
  <2>1. clerk[c].at = "answer" /\ queue' = queue BY <1>6 DEF AskAnswer, BoardOnly
  <2>2. clerk' = [clerk EXCEPT ![c].at = "tell"] \/ clerk' = Ended(c) BY <1>6 DEF AskAnswer
  <2>3. ClerksKnown' BY <1>1, <2>1, <2>2, EndedKnown, GoesOnKnown
  <2>4. clerk[c].q \in Questions BY <1>1, <2>1 DEF ClerksKnown
  <2>5. hushed' \subseteq Questions BY <1>1, <1>6, <2>4 DEF AskAnswer
  <2> QED BY <1>2, <1>3, <2>1, <2>3, <2>5, ClerkCounted
<1>7. CASE DeleteRemove(c)
  <2>1. clerk[c].at = "remove" /\ queue' = queue /\ hushed' = hushed BY <1>7 DEF DeleteRemove, BoardOnly
  <2>2. clerk' = [clerk EXCEPT ![c].at = "announce"] \/ clerk' = Ended(c) BY <1>7 DEF DeleteRemove
  <2>3. ClerksKnown' BY <1>1, <2>1, <2>2, EndedKnown, GoesOnKnown
  <2> QED BY <1>1, <1>2, <1>3, <2>1, <2>3, ClerkCounted
<1>8. ASSUME NEW kind, Tell(c, kind) PROVE FeedCounted'
  <2>1. Len(queue) < QueueSize /\ clerk' = Ended(c) /\ hushed' = hushed BY <1>8 DEF Tell
  <2>2. PICK m : queue' = Append(queue, m) BY <1>8 DEF Tell
  <2>3. Len(queue') = Len(queue) + 1 /\ Len(queue) \in Nat BY <1>1, <2>2
  <2>4. QueueFits' BY <2>1, <2>3, Bounds DEF QueueFits
  <2>5. ClerksKnown' BY <1>1, <2>1, EndedKnown
  <2> QED BY <1>1, <1>2, <2>1, <2>4, <2>5, ClerkCounted
<1> QED BY <1>4, <1>5, <1>6, <1>7, <1>8 DEF AskTell, DeleteTell

LEMMA LineCounted ==
  ASSUME FeedShape, UNCHANGED <<clerk, hushed>>, QueueFits', BuffersFit', FetchesFit', muddled' \subseteq Viewers
  PROVE  FeedCounted'
BY DEF FeedShape, FeedCounted, ClerksKnown

LEMMA BufferFits ==
  ASSUME BuffersFit, NEW k \in Lines, FeedTyped, NEW r, line' = [line EXCEPT ![k] = r],
         Len(r.buffer) \in 0..BufferSize
  PROVE  BuffersFit'
BY DEF BuffersFit, FeedTyped

LEMMA LinesCount ==
  ASSUME FeedShape, HubBroadcast \/ \E k \in Lines : HubRegister(k) \/ HubUnregister(k)
  PROVE  FeedCounted'
<1>1. /\ FeedTyped /\ QueueFits /\ BuffersFit /\ FetchesFit /\ muddled \subseteq Viewers
      /\ queue \in Seq(Tidings)
  BY DEF FeedShape, FeedInv, FeedCounted, FeedTyped
<1>2. UNCHANGED <<clerk, hushed, asking>> BY DEF HubBroadcast, HubRegister, HubUnregister, boardVars, pageVars
<1>3. FetchesFit' BY <1>1, <1>2 DEF FetchesFit
<1>4. ASSUME NEW k \in Lines, HubRegister(k) \/ HubUnregister(k) PROVE FeedCounted'
  <2>1. line[k] \in LineRows /\ Len(line[k].buffer) \in 0..BufferSize BY <1>1 DEF FeedTyped, BuffersFit
  <2>2. queue' = queue /\ muddled' = muddled BY <1>4 DEF HubRegister, HubUnregister
  <2>3. PICK r : line' = [line EXCEPT ![k] = r] /\ r.buffer = line[k].buffer
    <3>1. CASE HubRegister(k)
      <4>1. PICK r : r = [line[k] EXCEPT !.at = "live", !.registered = TRUE] OBVIOUS
      <4>2. line' = [line EXCEPT ![k] = r] BY <3>1, <4>1 DEF HubRegister
      <4>3. r.buffer = line[k].buffer BY <2>1, <4>1 DEF LineRows
      <4> QED BY <4>2, <4>3
    <3>2. CASE HubUnregister(k)
      <4>1. PICK r : r = IF StillMember(k) THEN [line[k] EXCEPT !.at = "dead", !.registered = FALSE, !.open = FALSE]
                         ELSE [line[k] EXCEPT !.at = "dead"]
        OBVIOUS
      <4>2. line' = [line EXCEPT ![k] = r] BY <3>2, <4>1 DEF HubUnregister
      <4>3. r.buffer = line[k].buffer BY <2>1, <4>1 DEF LineRows
      <4> QED BY <4>2, <4>3
    <3> QED BY <1>4, <3>1, <3>2
  <2>4. BuffersFit' BY <1>1, <2>1, <2>3, BufferFits
  <2>5. QueueFits' BY <1>1, <2>2 DEF QueueFits
  <2> QED BY <1>1, <1>2, <1>3, <2>2, <2>4, <2>5, LineCounted
<1>5. CASE HubBroadcast
  <2>1. queue # << >> /\ queue' = Tail(queue) BY <1>5 DEF HubBroadcast
  <2>2. Len(queue') = Len(queue) - 1 /\ Len(queue) \in Nat /\ Len(queue) > 0 BY <1>1, <2>1
  <2>3. QueueFits' BY <1>1, <2>2, Bounds DEF QueueFits
  <2>4. muddled' \subseteq Viewers BY <1>1, <1>5 DEF HubBroadcast, Muddle
  <2>5. PICK full : full = {k \in Registered : Len(line[k].buffer) = BufferSize} OBVIOUS
  <2>6. PICK m : m = Head(queue) OBVIOUS
  <2>7. line' = [k \in Lines |-> CASE k \in full -> [line[k] EXCEPT !.registered = FALSE, !.open = FALSE]
                                   [] k \in Registered \ full -> [line[k] EXCEPT !.buffer = Append(@, m)]
                                   [] OTHER -> line[k]]
    BY <1>5, <2>5, <2>6 DEF HubBroadcast
  <2>8. ASSUME NEW k \in Lines PROVE Len(line'[k].buffer) \in 0..BufferSize
    <3>1. line[k] \in LineRows /\ line[k].buffer \in Seq(Tidings) /\ Len(line[k].buffer) \in 0..BufferSize
      BY <1>1 DEF FeedTyped, LineRows, BuffersFit
    <3>2. PICK n : n = line'[k] OBVIOUS
    <3>3. CASE k \in full
      <4>1. n = [line[k] EXCEPT !.registered = FALSE, !.open = FALSE] BY <2>7, <3>2, <3>3
      <4>2. n.buffer = line[k].buffer BY <3>1, <4>1 DEF LineRows
      <4> QED BY <3>1, <3>2, <4>2
    <3>4. CASE k \in Registered \ full
      <4>1. n = [line[k] EXCEPT !.buffer = Append(line[k].buffer, m)] BY <2>7, <3>2, <3>4
      <4>2. n.buffer = Append(line[k].buffer, m) BY <3>1, <4>1 DEF LineRows
      <4>3. Len(n.buffer) = Len(line[k].buffer) + 1 BY <3>1, <4>2
      <4>4. Len(line[k].buffer) # BufferSize BY <2>5, <3>4
      <4>5. Len(line[k].buffer) + 1 \in 0..BufferSize BY <3>1, <4>4, Bounds
      <4> QED BY <3>2, <4>3, <4>5
    <3>5. CASE k \notin full /\ k \notin Registered \ full
      <4>1. n = line[k] BY <2>7, <3>2, <3>5
      <4> QED BY <3>1, <3>2, <4>1
    <3> QED BY <3>3, <3>4, <3>5
  <2>9. BuffersFit' BY <2>8 DEF BuffersFit
  <2> QED BY <1>2, <1>3, <2>3, <2>4, <2>9, LineCounted
<1> QED BY <1>4, <1>5

LEMMA PagesCount ==
  ASSUME FeedShape, NEW v \in Viewers,
         \/ \E k \in Lines : OpenPage(v, k) \/ Reconnect(v, k) \/ LineLost(v, k) \/ Delivered(v, k)
         \/ ListRead(v) \/ ListLost(v) \/ FadeEnds(v)
         \/ \E i : ListApplied(v, i)
  PROVE  FeedCounted'
<1>1. /\ FeedTyped /\ QueueFits /\ BuffersFit /\ FetchesFit /\ muddled \subseteq Viewers
  BY DEF FeedShape, FeedInv, FeedCounted
<1>2. UNCHANGED <<clerk, hushed, queue>>
  BY DEF OpenPage, Reconnect, LineLost, Delivered, ListRead, ListLost, FadeEnds, ListApplied, boardVars
<1>3. QueueFits' BY <1>1, <1>2 DEF QueueFits
<1>4. muddled' \subseteq Viewers
  BY <1>1 DEF OpenPage, Reconnect, LineLost, Delivered, ListRead, ListLost, FadeEnds, ListApplied, Muddle
<1>5. asking \in [Viewers -> Nat] /\ asking[v] \in 0..MaxFetches BY <1>1 DEF FeedTyped, FetchesFit
<1>6. ASSUME NEW n, n \in 0..MaxFetches, asking' = [asking EXCEPT ![v] = n] PROVE FetchesFit'
  BY <1>1, <1>5, <1>6 DEF FetchesFit
<1>7. ASSUME asking' = asking PROVE FetchesFit' BY <1>1, <1>7 DEF FetchesFit
<1>8. ASSUME line' = line PROVE BuffersFit' BY <1>1, <1>8 DEF BuffersFit
<1>9. ASSUME NEW k \in Lines, OpenPage(v, k) \/ Reconnect(v, k) PROVE FeedCounted'
  <2>1. line[k] \in LineRows /\ Len(line[k].buffer) \in 0..BufferSize BY <1>1 DEF FeedTyped, BuffersFit
  <2>2. PICK r : r = [line[k] EXCEPT !.at = "dialling"] OBVIOUS
  <2>3. line' = [line EXCEPT ![k] = r] BY <1>9, <2>2 DEF OpenPage, Reconnect
  <2>4. r.buffer = line[k].buffer BY <2>1, <2>2 DEF LineRows
  <2>5. BuffersFit' BY <1>1, <2>1, <2>3, <2>4, BufferFits
  <2>6. asking' = [asking EXCEPT ![v] = 1] \/ asking' = asking BY <1>9 DEF OpenPage, Reconnect, pageVars
  <2>7. 1 \in 0..MaxFetches BY Bounds
  <2>8. FetchesFit' BY <1>6, <1>7, <2>6, <2>7
  <2> QED BY <1>2, <1>3, <1>4, <2>5, <2>8, LineCounted
<1>10. ASSUME NEW k \in Lines, LineLost(v, k) PROVE FeedCounted'
  <2>1. line[k] \in LineRows BY <1>1 DEF FeedTyped
  <2>2. PICK e : e = << >> OBVIOUS
  <2>3. PICK r : r = [line[k] EXCEPT !.at = "failing", !.buffer = e] OBVIOUS
  <2>4. line' = [line EXCEPT ![k] = r] BY <1>10, <2>2, <2>3 DEF LineLost
  <2>5. r.buffer = e BY <2>1, <2>3 DEF LineRows
  <2>6. Len(e) \in 0..BufferSize BY <2>2, Bounds
  <2>7. BuffersFit' BY <1>1, <2>4, <2>5, <2>6, BufferFits
  <2>8. FetchesFit' BY <1>7, <1>10 DEF LineLost
  <2> QED BY <1>2, <1>3, <1>4, <2>7, <2>8, LineCounted
<1>11. ASSUME NEW k \in Lines, Delivered(v, k) PROVE FeedCounted'
  <2>1. /\ line[k] \in LineRows /\ line[k].buffer \in Seq(Tidings) /\ Len(line[k].buffer) \in 0..BufferSize
        /\ line[k].buffer # << >>
    BY <1>1, <1>11 DEF FeedTyped, BuffersFit, LineRows, Delivered
  <2>2. PICK t : t = Tail(line[k].buffer) OBVIOUS
  <2>3. PICK r : r = [line[k] EXCEPT !.buffer = t] OBVIOUS
  <2>4. line' = [line EXCEPT ![k] = r] BY <1>11, <2>2, <2>3 DEF Delivered
  <2>5. r.buffer = t BY <2>1, <2>3 DEF LineRows
  <2>6. Len(t) = Len(line[k].buffer) - 1 /\ Len(line[k].buffer) > 0 BY <2>1, <2>2
  <2>7. Len(t) \in 0..BufferSize BY <2>1, <2>6, Bounds
  <2>8. BuffersFit' BY <1>1, <2>4, <2>5, <2>7, BufferFits
  <2>9. asking' = asking \/ (asking[v] < MaxFetches /\ asking' = [asking EXCEPT ![v] = asking[v] + 1])
    BY <1>11 DEF Delivered
  <2>10. asking[v] < MaxFetches => asking[v] + 1 \in 0..MaxFetches BY <1>5, Bounds
  <2>11. FetchesFit' BY <1>6, <1>7, <2>9, <2>10
  <2> QED BY <1>2, <1>3, <1>4, <2>8, <2>11, LineCounted
<1>12. CASE ListRead(v) \/ ListLost(v)
  <2>1. line' = line /\ asking[v] > 0 /\ asking' = [asking EXCEPT ![v] = asking[v] - 1]
    BY <1>12 DEF ListRead, ListLost, lineVars
  <2>2. asking[v] - 1 \in 0..MaxFetches BY <1>5, <2>1, Bounds
  <2>3. FetchesFit' BY <1>6, <2>1, <2>2
  <2> QED BY <1>2, <1>3, <1>4, <1>8, <2>1, <2>3, LineCounted
<1>13. CASE FadeEnds(v) \/ \E i : ListApplied(v, i)
  <2>1. line' = line /\ asking' = asking BY <1>13 DEF FadeEnds, ListApplied, lineVars
  <2> QED BY <1>2, <1>3, <1>4, <1>7, <1>8, <2>1, LineCounted
<1> QED BY <1>9, <1>10, <1>11, <1>12, <1>13

\* Whatever overlaps, no channel of the hub is over its capacity, and rows and messages
\* are of questions there are or were (FeedTypeOK; websocket.go:20-130).
LEMMA FeedIsTyped == FeedSpec => []FeedTypeOK
<1>1. FeedInit => FeedShape
  <2> SUFFICES ASSUME FeedInit PROVE FeedShape OBVIOUS
  <2>1. FeedInv BY FeedStarts
  <2>2. \A c \in Clerks : clerk[c].at = "idle" BY DEF FeedInit, NoTask
  <2>3. \A k \in Lines : line[k].buffer = << >> BY DEF FeedInit, Unused
  <2>4. Len(<< >>) \in 0..BufferSize /\ Len(<< >>) \in 0..QueueSize /\ 0 \in 0..MaxFetches BY Bounds
  <2>5. BuffersFit BY <2>3, <2>4 DEF BuffersFit
  <2>6. QueueFits /\ FetchesFit BY <2>4 DEF FeedInit, QueueFits, FetchesFit
  <2> QED BY <2>1, <2>2, <2>5, <2>6 DEF FeedInit, FeedShape, FeedCounted, ClerksKnown
<1>2. FeedShape /\ [FeedNext]_feedVars => FeedShape'
  <2> SUFFICES ASSUME FeedShape, [FeedNext]_feedVars PROVE FeedShape' OBVIOUS
  <2>1. FeedInv' BY FeedSteps DEF FeedShape
  <2>2. CASE UNCHANGED feedVars
    <3>1. UNCHANGED <<clerk, hushed, queue, line, asking, muddled>>
      BY <2>2 DEF feedVars, boardVars, lineVars, pageVars
    <3>2. FeedCounted' BY <3>1 DEF FeedShape, FeedCounted, ClerksKnown, QueueFits, BuffersFit, FetchesFit
    <3> QED BY <2>1, <3>2 DEF FeedShape
  <2>3. CASE FeedNext
    <3>1. FeedCounted' BY <2>3, ClerksCount, LinesCount, PagesCount DEF FeedNext
    <3> QED BY <2>1, <3>1 DEF FeedShape
  <2> QED BY <2>2, <2>3
<1>3. FeedShape => FeedTypeOK
  <2> SUFFICES ASSUME FeedShape PROVE FeedTypeOK OBVIOUS
  <2>1. FeedTyped /\ FeedCounted /\ BoardInv /\ LinesInv BY DEF FeedShape, FeedInv
  <2>2. Gone \subseteq Questions BY DEF Gone
  <2>3. asked \cap fresh = {} /\ untold \subseteq Questions /\ \A v \in Viewers : fading[v] \subseteq Questions
    BY <2>1, <2>2 DEF BoardInv
  <2>4. \A c \in Clerks : clerk[c].ids \subseteq Questions /\ (clerk[c].at \in {"idle", "done"} \/ clerk[c].q \in Questions)
    BY <2>1 DEF FeedTyped, ClerkRows, FeedCounted, ClerksKnown
  <2>5. Len(queue) <= QueueSize /\ \A k \in Lines : Len(line[k].buffer) <= BufferSize
    <3>1. \A a, b : a \in 0..b => a <= b OBVIOUS
    <3> QED BY <2>1, <3>1 DEF FeedCounted, QueueFits, BuffersFit
  <2>6. \A k \in Lines : line[k].registered => line[k].open BY <2>1 DEF LinesInv
  <2>7. /\ asked \subseteq Questions /\ fresh \subseteq Questions /\ current \in [Viewers -> Lines \cup {NoLine}]
        /\ \A v \in Viewers : shown[v] \subseteq Questions
    BY <2>1 DEF FeedTyped
  <2>8. \A v \in Viewers : asking[v] \in 0..MaxFetches BY <2>1 DEF FeedCounted, FetchesFit
  <2>9. muddled \subseteq Viewers /\ hushed \subseteq Questions BY <2>1 DEF FeedCounted
  <2> QED BY <2>3, <2>4, <2>5, <2>6, <2>7, <2>8, <2>9 DEF FeedTypeOK
<1> QED BY <1>1, <1>2, <1>3, PTL DEF FeedSpec

-----------------------------------------------------------------------------
(* The composed instance.                                                   *)

LEMMA ActivityBegins ==
  ActivityInit => /\ PeopleInit /\ InvitationsInit /\ TitlesInit /\ FeedInit /\ PipelineInit
                  /\ ConnectionsInit /\ ListingInit /\ IngestInit /\ WatchInit
BY DEF ActivityInit

LEMMA ActivitySteps ==
  [ActivityNext]_activityVars =>
    /\ [PeopleNext]_peopleVars /\ [InvitationsNext]_invitationVars /\ [TitlesNext]_titleVars
    /\ [FeedNext]_feedVars /\ [PipelineNext]_pipeVars /\ [ConnectionsNext]_connVars
    /\ [ListingNext]_listingVars /\ [IngestNext]_ingestVars /\ [WatchNext]_watchVars
    /\ part' = part
<1>1. ASSUME UNCHANGED activityVars
      PROVE  UNCHANGED <<part, peopleVars, invitationVars, titleVars, feedVars, pipeVars,
                         connVars, listingVars, ingestVars, watchVars>>
  BY <1>1 DEF activityVars
<1>2. ASSUME ActivityNext
      PROVE  /\ [PeopleNext]_peopleVars /\ [InvitationsNext]_invitationVars /\ [TitlesNext]_titleVars
             /\ [FeedNext]_feedVars /\ [PipelineNext]_pipeVars /\ [ConnectionsNext]_connVars
             /\ [ListingNext]_listingVars /\ [WatchNext]_watchVars /\ part' = part
  BY <1>2 DEF ActivityNext
<1>3. ASSUME ActivityNext PROVE [IngestNext]_ingestVars
  <2>1. CASE part = "ingest" BY <1>3, <2>1 DEF ActivityNext
  <2>2. CASE part = "rival ingest" BY <1>3, <2>2 DEF ActivityNext
  <2>3. CASE part \notin {"ingest", "rival ingest"} BY <1>3, <2>3 DEF ActivityNext
  <2> QED BY <2>1, <2>2, <2>3
<1> QED BY <1>1, <1>2, <1>3

\* The instance that the runs check is each of its parts: what is proved of a part
\* holds of it.
THEOREM ActivityIsItsParts ==
  ActivitySpec => /\ PeopleSpec /\ InvitationsSpec /\ TitlesSpec /\ FeedSpec /\ PipelineSpec
                  /\ ConnectionsSpec /\ ListingSpec /\ IngestSpec /\ WatchSpec
BY ActivityBegins, ActivitySteps, PTL
   DEF ActivitySpec, PeopleSpec, InvitationsSpec, TitlesSpec, FeedSpec, PipelineSpec, ConnectionsSpec,
       ListingSpec, IngestSpec, WatchSpec

\* Whatever part runs, and for every value of the constants, its rows, requests, channels
\* and counts keep to their types: a member and a stance have an account, no channel of the
\* hub and no telemetry buffer is over its capacity (websocket.go:65-130,
\* guardrails/log.go:70-102), there is one row of a connection (zoom_auth.go:300-360), and a
\* walk is over the folders and files there are (msgraph/client.go:691-765).
THEOREM ActivityIsTyped == ActivitySpec => []ActivityTypeOK
<1>1. ActivityInit => part \in Parts BY DEF ActivityInit
<1>2. part \in Parts /\ [ActivityNext]_activityVars => (part \in Parts)' BY ActivitySteps
<1>3. /\ part \in Parts
      /\ PeopleTypeOK /\ InvitationsTypeOK /\ TitlesTypeOK /\ FeedTypeOK /\ PipelineTypeOK
      /\ ConnectionsTypeOK /\ ListingTypeOK /\ IngestTypeOK /\ WatchTypeOK
      => ActivityTypeOK
  BY DEF Parts, ActivityTypeOK
<1>4. ActivitySpec => [](part \in Parts) BY <1>1, <1>2, PTL DEF ActivitySpec
<1> QED
  BY <1>3, <1>4, ActivityIsItsParts, PeopleAreTyped, InvitationsAreTyped, TitlesAreTyped, FeedIsTyped,
     PipelineIsTyped, ConnectionsAreTyped, ListingIsTyped, IngestIsTyped, WatchIsTyped, PTL

\* What the runs check of the composed instance holds of it for every value of the constants:
\* a session keeps a creator and the installation an admin (session_memberships.go:135-200,
\* admin_users.go:171-183), a stance is locked with the outcome (session_stances.go:58-63),
\* invitations agree with memberships (invitations/service.go:60-77), titles tell sessions
\* apart (sessions.go:186-203), a list at rest shows what is asked (websocket.go:65-130), an
\* answer given out was vouched for (qa.go:509-640), a connection is one account's and can be
\* renewed (zoom_auth.go:300-360), every recording within the limits is listed once
\* (msgraph/client.go:691-765), an import leaves its own recording's file behind
\* (pipeline_zoom.go:191-294), and a rise of errors is reported (cmd/obsworker/main.go:118-200).
THEOREM ActivityHolds ==
  ActivitySpec => /\ [](AuthorityKept /\ InvitationsAgree /\ TitlesRight /\ FeedSound /\ GuardsHold
                        /\ ConnectionSound /\ ListingRight /\ ImportsAreOwn /\ HealthReported)
                  /\ StancesLocked
BY ActivityIsItsParts, AuthorityIsKept, StancesAreLocked, InvitationsStayAgreed, TitlesStayRight,
   TheFeedStaysSound, GuardsStay, ConnectionStaysSound, TheListStaysRight, ImportsStayOwn,
   HealthIsReported, PTL
=============================================================================
