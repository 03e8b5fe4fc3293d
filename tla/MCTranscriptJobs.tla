--------------------------- MODULE MCTranscriptJobs ---------------------------
(* Instances of TranscriptJobs for TLC. *)
EXTENDS TranscriptJobs

CONSTANTS video, material, link, t1, t2, p1, p2

Kinds == [j \in Jobs |-> IF j = video THEN "video" ELSE IF j = material THEN "material" ELSE "link"]

\* Every worker in one process, or each in a process of its own.
OneProcess == [w \in Workers |-> p1]
OwnProcess == [w \in Workers |-> IF w = t1 THEN p1 ELSE p2]
===============================================================================
