---------------------------- MODULE SessionTitles ----------------------------
(***************************************************************************)
(* The sessions of one creator and their titles: created, copied, imported *)
(* and patched.  A title is looked up and then written, in two statements; *)
(* a patch applies its fields one after the other and stops at the first   *)
(* that is refused.                                                        *)
(***************************************************************************)
EXTENDS Naturals, Sequences

CONSTANTS
    Names,          \* titles a user may type
    LongNames,      \* those too long for "Copy of", the name and a suffix (512 bytes)
    Writers,        \* requests, one each; a session is named by the one that made it
    FirstSession,   \* the session there is at the start
    FirstName,      \* its title
    MaxSuffix,      \* bound of the model: suffixes before the search's count wraps
    NoTitle         \* no such session

ASSUME TitlesAssumption ==
    /\ LongNames \subseteq Names /\ FirstName \in Names
    /\ FirstSession \notin Writers
    /\ MaxSuffix \in Nat /\ MaxSuffix > 1
    /\ NoTitle \notin [name : Names, marks : Seq(Nat)]

VARIABLES
    titleOf,        \* sessions.title
    deed,           \* each request: what it does, how far it is, what it read
    unindexed,      \* sessions whose title, status or context changed after the last trigger
    halted,         \* ghost: sessions a patch was applied to in part
    clouded         \* ghost: sessions whose title was written over a check made before another write

titleVars == <<titleOf, deed, unindexed, halted, clouded>>

Places == Writers \cup {FirstSession}
Fields == {"title", "status", "context", "primary"}
Typed(name) == [name |-> name, marks |-> << >>]
Live == {s \in Places : titleOf[s] # NoTitle}

\* "Copy of ..." with its (n), cut to 512 bytes: a long one loses the suffix
CopyTitle(t, n) == [t EXCEPT !.marks = Append(@, IF t.name \in LongNames THEN 1 ELSE n)]

NoDeed == [op |-> "none", at |-> "start", on |-> FirstSession, title |-> Typed(FirstName), n |-> 1,
           wants |-> {}, stale |-> FALSE]

TitlesInit ==
    /\ titleOf = [s \in Places |-> IF s = FirstSession THEN Typed(FirstName) ELSE NoTitle]
    /\ deed = [c \in Writers |-> NoDeed]
    /\ unindexed = {} /\ halted = {} /\ clouded = {}

-----------------------------------------------------------------------------
\* mutant: the look-up misses
TakenNever(t, others) == FALSE

\* SessionWithTitleExistsForCreator
Taken(t, others) == \E s \in others : titleOf[s] = t

Over(c) == [deed EXCEPT ![c] = [NoDeed EXCEPT !.op = "done"]]
Ghosts == <<halted, clouded>>

\* CreateSession, CreateSessionFromZoom, and CopySession with a title of its own
CreateCheck(c, name) ==
    /\ deed[c].op = "none"
    /\ deed' = IF Taken(Typed(name), Live) THEN Over(c)
               ELSE [deed EXCEPT ![c] = [NoDeed EXCEPT !.op = "create", !.title = Typed(name), !.at = "insert"]]
    /\ UNCHANGED <<titleOf, unindexed>> /\ UNCHANGED Ghosts

\* CopySession without a title; the source is read once
CopyBegin(c, s) ==
    /\ deed[c].op = "none" /\ s \in Live
    /\ deed' = [deed EXCEPT ![c] = [NoDeed EXCEPT !.op = "copy", !.at = "search", !.title = titleOf[s]]]
    /\ UNCHANGED <<titleOf, unindexed>> /\ UNCHANGED Ghosts

CopySearch(c) ==
    LET d == deed[c]
        t == CopyTitle(d.title, d.n)
    IN
    /\ d.at = "search"
    /\ deed' = IF Taken(t, Live)
               THEN [deed EXCEPT ![c].n = IF d.n = MaxSuffix THEN 2 ELSE d.n + 1, ![c].stale = FALSE]
               ELSE [deed EXCEPT ![c].at = "insert", ![c].title = t, ![c].stale = FALSE]
    /\ UNCHANGED <<titleOf, unindexed>> /\ UNCHANGED Ghosts

\* a title is written: whoever looked before that may be wrong now
TitleWritten(c, s, t, after) ==
    /\ titleOf' = [titleOf EXCEPT ![s] = t]
    /\ deed' = [d \in Writers |-> IF d = c THEN after[c]
                                  ELSE [deed[d] EXCEPT !.stale = deed[d].at \in {"insert", "title"}]]
    /\ clouded' = IF deed[c].stale \/ deed[c].op = "import" THEN clouded \cup {s} ELSE clouded \ {s}

InsertSession(c) ==
    /\ deed[c].at = "insert"
    /\ \/ TitleWritten(c, c, deed[c].title, Over(c))
       \/ deed' = Over(c) /\ UNCHANGED <<titleOf, clouded>>
    /\ UNCHANGED <<unindexed, halted>>

\* RunImportJob: the template's title, without a look
ImportTitle(c, name) ==
    /\ deed[c].op = "none"
    /\ deed' = [deed EXCEPT ![c] = [NoDeed EXCEPT !.op = "import", !.at = "insert", !.title = Typed(name)]]
    /\ UNCHANGED <<titleOf, unindexed>> /\ UNCHANGED Ghosts

RemoveSession(s) ==
    /\ s \in Live
    /\ titleOf' = [titleOf EXCEPT ![s] = NoTitle]
    /\ unindexed' = unindexed \ {s}
    /\ UNCHANGED deed /\ UNCHANGED Ghosts

-----------------------------------------------------------------------------
(* UpdateSessionStatus: title, status, context, primary, then the trigger. *)
Ordered == <<"title", "status", "context", "primary", "trigger">>

\* the next field the patch brings
After(f, wants) ==
    LET at == CHOOSE i \in 1..5 : Ordered[i] = f
        left == {i \in at + 1..5 : Ordered[i] \in wants \cup {"trigger"}}
    IN Ordered[CHOOSE i \in left : \A j \in left : i <= j]

PatchBegin(c, s, wants, name) ==
    /\ deed[c].op = "none" /\ s \in Live /\ wants # {}
    /\ "title" \notin wants => name = FirstName
    /\ deed' = [deed EXCEPT ![c] = [NoDeed EXCEPT !.op = "patch", !.on = s, !.wants = wants,
                    !.title = Typed(name), !.at = IF "title" \in wants THEN "look" ELSE After("title", wants)]]
    /\ UNCHANGED <<titleOf, unindexed>> /\ UNCHANGED Ghosts

\* the title of a session in the look-up's way is refused before anything is written
PatchLook(c) ==
    /\ deed[c].op = "patch" /\ deed[c].at = "look"
    /\ deed' = IF Taken(deed[c].title, Live \ {deed[c].on}) THEN Over(c)
               ELSE [deed EXCEPT ![c].at = "title", ![c].stale = FALSE]
    /\ UNCHANGED <<titleOf, unindexed>> /\ UNCHANGED Ghosts

PatchTitle(c) ==
    LET s == deed[c].on IN
    /\ deed[c].op = "patch" /\ deed[c].at = "title"
    /\ IF s \in Live
       THEN TitleWritten(c, s, deed[c].title, [deed EXCEPT ![c].at = After("title", deed[c].wants)]) /\ unindexed' = unindexed \cup {s}
       ELSE deed' = Over(c) /\ UNCHANGED <<titleOf, unindexed, clouded>>
    /\ UNCHANGED halted

\* an invalid value, a primary of another session, a row that is gone: the
\* request ends with an error and without a trigger
PatchRefused(c) ==
    /\ deed[c].op = "patch" /\ deed[c].at \in deed[c].wants \ {"title"}
    /\ halted' = halted \cup {deed[c].on}
    /\ deed' = Over(c)
    /\ UNCHANGED <<titleOf, unindexed, clouded>>

PatchField(c) ==
    LET f == deed[c].at
        s == deed[c].on
    IN
    /\ deed[c].op = "patch" /\ f \in deed[c].wants \ {"title"} /\ s \in Live
    /\ deed' = [deed EXCEPT ![c].at = After(f, deed[c].wants)]
    /\ unindexed' = unindexed \cup {x \in {s} : f # "primary"}
    /\ UNCHANGED titleOf /\ UNCHANGED Ghosts

Indexed(wants) == wants \cap {"title", "status", "context"} # {}

\* triggerIndex, which reads the session after the writes
PatchTrigger(c) ==
    /\ deed[c].op = "patch" /\ deed[c].at = "trigger"
    /\ unindexed' = IF Indexed(deed[c].wants) THEN unindexed \ {deed[c].on} ELSE unindexed
    /\ deed' = Over(c)
    /\ UNCHANGED titleOf /\ UNCHANGED Ghosts

-----------------------------------------------------------------------------
TitlesNext ==
    \/ \E s \in Places : RemoveSession(s)
    \/ \E c \in Writers :
         \/ \E name \in Names : CreateCheck(c, name) \/ ImportTitle(c, name)
         \/ \E s \in Places : CopyBegin(c, s)
         \/ \E s \in Places, wants \in SUBSET Fields, name \in Names : PatchBegin(c, s, wants, name)
         \/ CopySearch(c) \/ InsertSession(c)
         \/ PatchLook(c) \/ PatchTitle(c) \/ PatchRefused(c) \/ PatchField(c) \/ PatchTrigger(c)

TitlesSpec == TitlesInit /\ [][TitlesNext]_titleVars

\* a request that searches a title goes on
TitlesFair == TitlesSpec /\ \A c \in Writers : WF_titleVars(CopySearch(c))

-----------------------------------------------------------------------------
TitlesTypeOK ==
    /\ \A s \in Places : titleOf[s] = NoTitle \/ titleOf[s] \in [name : Names, marks : Seq(1..MaxSuffix)]
    /\ \A c \in Writers :
         /\ deed[c].op \in {"none", "create", "copy", "import", "patch", "done"}
         /\ deed[c].at \in {"start", "search", "insert", "look", "title", "status", "context",
                            "primary", "trigger"}
         /\ deed[c].on \in Places /\ deed[c].n \in 1..MaxSuffix
         /\ deed[c].wants \subseteq Fields /\ deed[c].stale \in BOOLEAN
    /\ unindexed \subseteq Places /\ halted \subseteq Places /\ clouded \subseteq Places

(* Two sessions of a creator never have one title, unless one is from a    *)
(* template or was named while another title was being written             *)
(* (sessions.go:194-203, 340-376, 1043-1067).                              *)
TitlesDiffer ==
    \A s \in Live \ clouded : \A t \in Live \ clouded : titleOf[s] = titleOf[t] => s = t

(* A change of the title, the status or the context always reaches the     *)
(* index, unless a later field of the same patch was refused               *)
(* (sessions.go:1131-1137).                                                *)
MetadataFollows ==
    \A s \in unindexed \ halted :
        \E c \in Writers : deed[c].op = "patch" /\ deed[c].on = s

\* Titles tell the sessions of a creator apart, and what a patch changed can be found
\* (sessions.go:186-203, 1043-1067, 1131-1137).
TitlesRight == TitlesDiffer /\ MetadataFollows

\* The second without its excuse, as the comment at the trigger has it.
MetadataIndexed ==
    \A s \in unindexed :
        \E c \in Writers : deed[c].op = "patch" /\ deed[c].on = s

(* The search for a free default title ends (sessions.go:359 "ensure       *)
(* uniqueness by appending (2), (3), ... as needed").                      *)
SearchEnds == \A c \in Writers : deed[c].at = "search" ~> deed[c].at # "search"
=============================================================================
