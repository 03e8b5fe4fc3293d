------------------------- MODULE MCSessionProcessing -------------------------
(* Instances of SessionProcessing for TLC. *)
EXTENDS ImportRefinement, TLC

CONSTANTS jz, jt, jm, sz, st, sm, w1, w2, c1, k1

\* A recording of Zoom, one of Teams and one of Google Meet.
ByProvider ==
  [j \in Jobs |-> IF j = jz THEN "zoom" ELSE IF j = jt THEN "teams" ELSE "google_meet"]

\* All in one session, or each in a session of its provider.
OneSession == [j \in Jobs |-> sz]
OwnSession == [j \in Jobs |-> IF j = jz THEN sz ELSE IF j = jt THEN st ELSE sm]

Providers ==
  [s \in Sessions |-> IF s = sz THEN "zoom" ELSE IF s = st THEN "teams" ELSE "google_meet"]

Interchangeable == Permutations(Workers)

\* No action reads the mirror: runs whose properties do not mention it leave it out.
WithoutMirror == <<row, worker, recon, client, callback, pollOver, faulted>>
==============================================================================
