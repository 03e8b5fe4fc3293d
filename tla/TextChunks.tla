------------------------------ MODULE TextChunks ------------------------------
(***************************************************************************)
(* How a text becomes chunks, before IndexSession stores them and before   *)
(* RetrieveChunks ranks them.  A plain text is cut by chunkText into       *)
(* overlapping pieces of bytes, which may cut a rune in two (the stored    *)
(* chunk then holds a replacement mark).  A PDF and a deck give a chunk    *)
(* for each page that is not blank, a transcript one for each segment;     *)
(* the chunk carries the number a citation opens.                          *)
(***************************************************************************)
EXTENDS Naturals, FiniteSets

CONSTANTS
    Size,           \* MaterialChunkSize (1200), or 1000 in RetrieveChunks
    Overlap,        \* MaterialChunkOverlap (150), or 200
    RuneMax,        \* bytes of the longest rune (4)
    MaxText,        \* bound of the model: bytes of a plain text
    MaxPages        \* bound of the model: pages of a deck

ASSUME ChunksAssumption ==
    /\ {Size, Overlap, MaxPages} \subseteq Nat /\ {RuneMax, MaxText} \subseteq Nat \ {0}
    /\ Overlap < Size /\ RuneMax <= Overlap + 1

VARIABLES
    source,         \* the text that is cut
    start,          \* where the next piece of a plain text starts
    cuts,           \* the chunks
    whole           \* the text is cut

chunksVars == <<source, start, cuts, whole>>

-----------------------------------------------------------------------------
\* A plain text is its length and the places where a rune ends.
Plain ==
    {t \in [kind : {"plain"}, len : 1..MaxText, marks : SUBSET (0..MaxText), blank : {{}}] :
        /\ t.marks \subseteq 0..t.len /\ {0, t.len} \subseteq t.marks
        /\ \A a \in t.marks \ {t.len} : \E b \in t.marks : a < b /\ b <= a + RuneMax}

\* Anything else is a number of pages (or segments), some without text: pages
\* of a file, or the lines of a deck's extracted text, one for each slide.
Paged ==
    {t \in [kind : {"pages", "lines"}, len : 1..MaxPages, marks : {{}}, blank : SUBSET (1..MaxPages)] :
        t.blank \subseteq 1..t.len}

ChunksInit ==
    /\ source \in Plain \cup Paged
    /\ start = 0 /\ cuts = {} /\ whole = FALSE

-----------------------------------------------------------------------------
\* mutant: pieces that do not overlap
NextWithoutOverlap(end) == end

NextStart(end) == end - Overlap

\* one round of the loop of chunkText
CutPiece ==
    /\ source.kind = "plain" /\ ~whole
    /\ LET end == IF start + Size > source.len THEN source.len ELSE start + Size IN
       /\ cuts' = cuts \cup {[from |-> start, to |-> end, page |-> 0]}
       /\ whole' = (end = source.len)
       /\ start' = IF end = source.len THEN start ELSE NextStart(end)
    /\ UNCHANGED source

Worded == (1..source.len) \ source.blank

\* BuildMaterialChunksFromSlides counts what it is given: from the extracted
\* text that is the slides with text only
PageOf(i) == IF source.kind = "lines" THEN Cardinality({j \in Worded : j <= i}) ELSE i

CutPages ==
    /\ source.kind # "plain" /\ ~whole
    /\ cuts' = {[from |-> i - 1, to |-> i, page |-> PageOf(i)] : i \in Worded}
    /\ whole' = TRUE
    /\ UNCHANGED <<source, start>>

ChunksNext == CutPiece \/ CutPages

ChunksSpec == ChunksInit /\ [][ChunksNext]_chunksVars

-----------------------------------------------------------------------------
ChunksTypeOK ==
    /\ source \in Plain \cup Paged /\ start \in 0..(source.len - 1) /\ whole \in BOOLEAN
    /\ \A c \in cuts : c.from < c.to /\ c.to <= source.len

Within(a, b) == \E c \in cuts : c.from <= a /\ b <= c.to

(***************************************************************************)
(* Cutting loses nothing: any passage of a plain text no longer than the   *)
(* overlap, and one byte more, is whole in some chunk (chunkText).         *)
(***************************************************************************)
SpansWhole ==
    source.kind = "plain" /\ whole =>
        \A a, b \in 0..source.len : a < b /\ b <= a + Overlap + 1 => Within(a, b)

(***************************************************************************)
(* A rune that one cut tears is whole in the neighbouring chunk, so a      *)
(* reader of all the chunks misses no character (index.go:201).            *)
(***************************************************************************)
RunesWhole ==
    source.kind = "plain" /\ whole =>
        \A a, b \in source.marks :
            a < b /\ (\A m \in source.marks : m <= a \/ b <= m) => Within(a, b)

(***************************************************************************)
(* Every page with text has its chunk, and no two have the same number.    *)
(***************************************************************************)
PagesApart ==
    source.kind # "plain" /\ whole =>
        /\ \A i \in Worded : Within(i - 1, i)
        /\ \A c, d \in cuts : c.page = d.page => c = d

\* No text, character or page is lost between two chunks (chunker.go:126-190, index.go:85-215).
NothingTorn == SpansWhole /\ RunesWhole /\ PagesApart

(***************************************************************************)
(* "Each chunk gets anchor page (1-based) so citations open the correct    *)
(* slide" (the comment of BuildMaterialChunksFromSlides).                  *)
(***************************************************************************)
CitesItsSlide == \A c \in cuts : source.kind # "plain" => c.page = c.to
=============================================================================
