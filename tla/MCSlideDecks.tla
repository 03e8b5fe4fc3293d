----------------------------- MODULE MCSlideDecks -----------------------------
(* Slides in R2, slides on disk and a PDF on disk. *)
EXTENDS SlideDecks

ThreeSetups == [pipeline : {"pngs"}, storage : {"r2", "local"}]
               \union {[pipeline |-> "pdf", storage |-> "local"]}
===============================================================================
