----------------------------- MODULE HealthWatch -----------------------------
(***************************************************************************)
(* The observability worker (cmd/obsworker): a run reads one window of     *)
(* metrics, compares it with the baseline the last run left, publishes a   *)
(* bundle with a verdict, and only then makes its window the new baseline. *)
(* Runs of two workflows may overlap; the baseline lives in the object     *)
(* store, with a file of the machine as its fallback.                      *)
(***************************************************************************)
EXTENDS Naturals, FiniteSets

CONSTANTS
    Watches,        \* the runs of the worker
    Windows,        \* the windows of metrics a run may see
    Forceable,      \* the values OBS_FORCE_STATUS may have
    OnR2,           \* OBS_BASELINE_R2
    LowN,           \* below this many transactions nothing is compared (20)
    SlowFrom,       \* smallBaselineP95Threshold (50 ms)
    AuthMax,        \* OBS_AUTH_USER_THRESHOLD (5)
    NoBase          \* no baseline

ASSUME WatchAssumption ==
    /\ NoBase \notin Windows /\ OnR2 \in BOOLEAN /\ Forceable \subseteq {"GREEN", "YELLOW", "RED"}
    /\ {LowN, SlowFrom, AuthMax} \subseteq Nat \ {0}
    /\ \A w \in Windows : {w.n, w.p95, w.rpm, w.errors, w.auth, w.hot} \subseteq Nat

VARIABLES
    watch,          \* each run: how far it is, its window, the baseline it loaded, its verdict
    disc, shelf,    \* the baseline in the file and in the object store
    bundles         \* the bundles published

watchVars == <<watch, disc, shelf, bundles>>

Asleep == [at |-> "idle", seen |-> NoBase, prev |-> NoBase, status |-> "GREEN", forced |-> FALSE]

WatchInit ==
    /\ watch = [r \in Watches |-> Asleep]
    /\ disc = NoBase /\ shelf = NoBase /\ bundles = {}

-----------------------------------------------------------------------------
(* ComputeDelta *)

\* percentages mean something only against a baseline with enough traffic
Comparable(prev, now) == prev.n >= LowN /\ now.n >= LowN

Slower(prev, now, pct) ==
    Comparable(prev, now) /\ prev.p95 >= SlowFrom /\ now.p95 * 100 > prev.p95 * (100 + pct)

Quieter(prev, now) == Comparable(prev, now) /\ now.rpm * 100 < prev.rpm * 70

\* some user failed to log in too often: the 401s are no noise then
Hot(now) == now.hot >= AuthMax

OnlyExpected(now) == now.errors > 0 /\ now.auth >= now.errors /\ ~Hot(now)

\* mutant: errors are compared like the percentages
ErrorsRoseIfComparable(prev, now) ==
    Comparable(prev, now) /\ now.errors > prev.errors /\ ~OnlyExpected(now)

ErrorsRose(prev, now) == now.errors > prev.errors /\ ~OnlyExpected(now)

StatusOf(prev, now) ==
    IF prev = NoBase THEN "GREEN"
    ELSE IF now.hot >= 3 * AuthMax \/ ErrorsRose(prev, now) \/ Slower(prev, now, 50) THEN "RED"
    ELSE IF Hot(now) \/ Slower(prev, now, 20) \/ Quieter(prev, now) THEN "YELLOW"
    ELSE "GREEN"

-----------------------------------------------------------------------------
(* run *)
Turns(r, at) == watch' = [watch EXCEPT ![r].at = at]

\* any error ends the run there
GivesUp(r) == Turns(r, "over") /\ UNCHANGED <<disc, shelf, bundles>>

\* the base queries; an empty answer counts as zeros
Gather(r) ==
    /\ watch[r].at = "idle"
    /\ \/ \E w \in Windows : watch' = [watch EXCEPT ![r].at = "gathered", ![r].seen = w]
       \/ Turns(r, "over")
    /\ UNCHANGED <<disc, shelf, bundles>>

\* an object that is not there and one that cannot be read both send the run to the file
LoadBaseline(r) ==
    /\ watch[r].at = "gathered"
    /\ \/ OnR2 /\ shelf # NoBase /\ watch' = [watch EXCEPT ![r].at = "loaded", ![r].prev = shelf]
       \/ watch' = [watch EXCEPT ![r].at = "loaded", ![r].prev = disc]
       \/ Turns(r, "over")
    /\ UNCHANGED <<disc, shelf, bundles>>

\* a verdict other than GREEN, forced or not, has its own queries to make
Compare(r) ==
    /\ watch[r].at = "loaded"
    /\ \/ \E forced \in Forceable \cup {""} :
            LET status == IF forced = "" THEN StatusOf(watch[r].prev, watch[r].seen) ELSE forced IN
            watch' = [watch EXCEPT ![r].at = "compared", ![r].status = status, ![r].forced = (forced # "")]
       \/ Turns(r, "over")
    /\ UNCHANGED <<disc, shelf, bundles>>

WriteBundle(r) ==
    /\ watch[r].at = "compared"
    /\ bundles' = bundles \cup {[seen |-> watch[r].seen, prev |-> watch[r].prev,
                                 status |-> watch[r].status, forced |-> watch[r].forced]}
    /\ Turns(r, "published") /\ UNCHANGED <<disc, shelf>>

WriteBaseline(r) ==
    /\ watch[r].at = "published"
    /\ disc' = watch[r].seen
    /\ Turns(r, IF OnR2 THEN "filed" ELSE "over") /\ UNCHANGED <<shelf, bundles>>

PutBaseline(r) ==
    /\ watch[r].at = "filed"
    /\ shelf' = watch[r].seen
    /\ Turns(r, "over") /\ UNCHANGED <<disc, bundles>>

WriteFails(r) == watch[r].at \in {"compared", "published", "filed"} /\ GivesUp(r)

\* the next run has another machine
DiscLost ==
    /\ disc # NoBase /\ disc' = NoBase
    /\ UNCHANGED <<watch, shelf, bundles>>

WatchNext ==
    \/ DiscLost
    \/ \E r \in Watches :
         \/ Gather(r) \/ LoadBaseline(r) \/ Compare(r) \/ WriteBundle(r)
         \/ WriteBaseline(r) \/ PutBaseline(r) \/ WriteFails(r)

WatchSpec == WatchInit /\ [][WatchNext]_watchVars

-----------------------------------------------------------------------------
WatchTypeOK ==
    /\ {disc, shelf} \subseteq Windows \cup {NoBase}
    /\ \A r \in Watches : watch[r].seen \in Windows \cup {NoBase} /\ watch[r].prev \in Windows \cup {NoBase}
    /\ \A b \in bundles : b.seen \in Windows /\ b.status \in {"GREEN", "YELLOW", "RED"}

(***************************************************************************)
(* A baseline never takes in errors nobody was told of.  However runs fail *)
(* and overlap, and wherever the baseline was read from: if it holds more  *)
(* errors than every run that started without a baseline saw, some bundle  *)
(* that saw as many was RED or forced, or saw only expected 401s           *)
(* (main.go:198-211, delta.go:257-263).                                    *)
(***************************************************************************)
RiseReported ==
    \A base \in {disc, shelf} \ {NoBase} :
        \E b \in bundles :
            /\ b.seen.errors >= base.errors
            /\ b.prev = NoBase \/ b.status = "RED" \/ b.forced \/ OnlyExpected(b.seen)

(***************************************************************************)
(* Of two windows judged against the same baseline with the same traffic,  *)
(* the worse one never gets the better verdict (ComputeDelta).             *)
(***************************************************************************)
Rank(status) == CASE status = "GREEN" -> 0 [] status = "YELLOW" -> 1 [] OTHER -> 2

Worse(v, w) ==
    /\ v.n = w.n /\ v.auth = w.auth
    /\ v.errors >= w.errors /\ v.p95 >= w.p95 /\ v.hot >= w.hot /\ v.rpm <= w.rpm

WorseIsNoBetter ==
    \A b, c \in bundles :
        b.prev = c.prev /\ ~b.forced /\ ~c.forced /\ Worse(b.seen, c.seen) => Rank(b.status) >= Rank(c.status)

\* No rise of errors goes unreported, and a worse window never gets a better verdict
\* (cmd/obsworker/main.go:118-200).
HealthReported == RiseReported /\ WorseIsNoBetter
=============================================================================
