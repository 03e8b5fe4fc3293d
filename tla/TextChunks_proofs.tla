--------------------------- MODULE TextChunks_proofs ---------------------------
(***************************************************************************)
(* Theorems about TextChunks and LexicalRanking: whatever the size of a    *)
(* chunk, the overlap and the text, no passage, character or page is lost  *)
(* between two chunks; of the chunks of a session the best are handed over.*)
(***************************************************************************)
EXTENDS LexicalRanking, TextChunks, FiniteSetTheorems, TLAPS

-----------------------------------------------------------------------------
(* Texts *)

\* What is cut is a plain text of at least a byte, or pages.
LEMMA SourceType ==
  ASSUME source \in Plain \cup Paged
  PROVE  /\ source.len \in Nat \ {0}
         /\ source.kind = "plain" => source \in Plain
         /\ source.kind # "plain" => source \in Paged
<1>1. CASE source \in Plain
  BY <1>1, ChunksAssumption DEF Plain
<1>2. CASE source \in Paged
  BY <1>2, ChunksAssumption DEF Paged
<1>3. QED
  BY <1>1, <1>2

\* Between the end of one rune and the end of the next lie at most RuneMax bytes.
LEMMA RuneLength ==
  ASSUME source \in Plain, NEW a \in source.marks, NEW b \in source.marks, a < b,
         \A m \in source.marks : m <= a \/ b <= m
  PROVE  a \in 0..source.len /\ b \in 0..source.len /\ b <= a + Overlap + 1
<1>1. /\ source.len \in Nat /\ source.marks \subseteq 0..source.len
      /\ \A x \in source.marks \ {source.len} : \E y \in source.marks : x < y /\ y <= x + RuneMax
  BY ChunksAssumption DEF Plain
<1>2. a \in 0..source.len /\ b \in 0..source.len /\ a # source.len
  BY <1>1
<1>3. PICK y \in source.marks : a < y /\ y <= a + RuneMax
  BY <1>1, <1>2
<1>4. b <= y /\ y \in 0..source.len
  BY <1>1, <1>2, <1>3
<1>5. QED
  BY <1>2, <1>3, <1>4, ChunksAssumption

-----------------------------------------------------------------------------
(* Plain texts *)

\* A short passage that starts before position till lies in a chunk.
Covered(till) == \A a, b \in 0..source.len : a < b /\ b <= a + Overlap + 1 /\ a < till => Within(a, b)

\* The number of a page's chunk, as the two kinds of file give it.
Numbered == \A c \in cuts : \E i \in Worded : c = [from |-> i - 1, to |-> i, page |-> PageOf(i)]

CutInv ==
  /\ ChunksTypeOK
  /\ source.kind = "plain" => Covered(IF whole THEN source.len ELSE start)
  /\ source.kind # "plain" /\ whole =>
       /\ \A i \in Worded : Within(i - 1, i)
       /\ Numbered

LEMMA InitCut == ChunksInit => CutInv
<1> SUFFICES ASSUME ChunksInit PROVE CutInv
  OBVIOUS
<1>1. /\ source \in Plain \cup Paged /\ source.len \in Nat \ {0}
      /\ start = 0 /\ cuts = {} /\ whole = FALSE
  BY SourceType DEF ChunksInit
<1>2. start \in 0..(source.len - 1)
  BY <1>1
<1>3. ChunksTypeOK
  BY <1>1, <1>2 DEF ChunksTypeOK
<1>4. Covered(IF whole THEN source.len ELSE start)
  BY <1>1 DEF Covered
<1>5. QED
  BY <1>1, <1>3, <1>4 DEF CutInv

\* A piece covers what starts in it and before the start of the next piece.
LEMMA PieceCovers == CutInv /\ CutPiece => CutInv'
<1> SUFFICES ASSUME CutInv, CutPiece PROVE CutInv'
  OBVIOUS
<1> DEFINE end == IF start + Size > source.len THEN source.len ELSE start + Size
<1> DEFINE piece == [from |-> start, to |-> end, page |-> 0]
<1>1. /\ source.kind = "plain" /\ ~whole /\ source' = source
      /\ cuts' = cuts \cup {piece} /\ whole' = (end = source.len)
      /\ start' = IF end = source.len THEN start ELSE end - Overlap
  BY DEF CutPiece, NextStart
<1>2. /\ source \in Plain \cup Paged /\ source.len \in Nat \ {0} /\ start \in 0..(source.len - 1)
      /\ \A c \in cuts : c.from < c.to /\ c.to <= source.len
  BY SourceType DEF CutInv, ChunksTypeOK
<1>3. /\ Size \in Nat /\ Overlap \in Nat /\ Overlap < Size
  BY ChunksAssumption
<1>4. end \in 1..source.len /\ start < end
  BY <1>2, <1>3
<1>5. end # source.len => end = start + Size /\ end < source.len
  BY <1>2, <1>3
<1> HIDE DEF end
<1>6. ChunksTypeOK'
  <2>1. start' \in 0..(source'.len - 1)
    BY <1>1, <1>2, <1>3, <1>4, <1>5
  <2>2. \A c \in cuts' : c.from < c.to /\ c.to <= source'.len
    BY <1>1, <1>2, <1>4
  <2>3. QED
    BY <1>1, <1>2, <2>1, <2>2 DEF ChunksTypeOK
<1>7. Covered(IF whole THEN source.len ELSE start)'
  <2> SUFFICES ASSUME NEW a \in 0..source.len, NEW b \in 0..source.len, a < b,
                      b <= a + Overlap + 1, a < IF whole' THEN source.len ELSE start'
               PROVE  \E c \in cuts' : c.from <= a /\ b <= c.to
    BY <1>1 DEF Covered, Within
  <2>1. CASE a < start
    BY <1>1, <2>1 DEF CutInv, Covered, Within
  <2>2. ASSUME start <= a PROVE b <= end
    <3>1. CASE end = source.len
      BY <1>2, <3>1
    <3>2. CASE end # source.len
      <4>1. a < end - Overlap
        BY <1>1, <3>2
      <4>2. end \in Nat /\ a \in Nat /\ b \in Nat
        BY <1>2, <1>4
      <4>3. QED
        BY <1>3, <4>1, <4>2
    <3>3. QED
      BY <3>1, <3>2
  <2>3. piece \in cuts' /\ piece.from = start /\ piece.to = end
    BY <1>1
  <2>4. CASE start <= a
    BY <2>2, <2>3, <2>4
  <2>5. QED
    BY <1>2, <2>1, <2>4
<1>8. QED
  BY <1>1, <1>6, <1>7 DEF CutInv

-----------------------------------------------------------------------------
(* Pages *)

\* A later page with text has the higher number.
LEMMA PageOfRises ==
  ASSUME source \in Paged, NEW i \in Worded, NEW j \in Worded, i < j
  PROVE  PageOf(i) # PageOf(j)
<1>1. source.len \in Nat /\ Worded \subseteq 1..source.len /\ i \in Nat /\ j \in Nat
  BY ChunksAssumption DEF Paged, Worded
<1> DEFINE upto(n) == {k \in Worded : k <= n}
<1>2. IsFiniteSet(upto(j))
  <2>1. 1 \in Int /\ source.len \in Int
    BY <1>1
  <2>2. IsFiniteSet(1..source.len)
    BY <2>1, FS_Interval, Zenon
  <2>3. upto(j) \in SUBSET (1..source.len)
    BY <1>1
  <2>4. QED
    BY <2>2, <2>3, FS_Subset, Zenon
<1>3. upto(i) \subseteq upto(j) /\ upto(i) # upto(j)
  <2>1. ASSUME NEW k \in upto(i) PROVE k \in upto(j)
    <3>1. k \in Worded /\ k \in Nat /\ k <= i
      BY <1>1
    <3>2. QED
      BY <1>1, <3>1
  <2>2. j \in upto(j) /\ j \notin upto(i)
    BY <1>1
  <2>3. QED
    BY <2>1, <2>2, Zenon
<1>4. Cardinality(upto(i)) # Cardinality(upto(j))
  BY <1>2, <1>3, FS_Subset
<1>5. QED
  BY <1>1, <1>4 DEF PageOf

LEMMA PagesCover == CutInv /\ CutPages => CutInv'
<1> SUFFICES ASSUME CutInv, CutPages PROVE CutInv'
  OBVIOUS
<1>1. /\ source.kind # "plain" /\ source' = source /\ start' = start /\ whole' = TRUE
      /\ cuts' = {[from |-> i - 1, to |-> i, page |-> PageOf(i)] : i \in Worded}
  BY DEF CutPages
<1>2. /\ source \in Plain \cup Paged /\ source.len \in Nat \ {0} /\ start \in 0..(source.len - 1)
  BY SourceType DEF CutInv, ChunksTypeOK
<1>3. Worded' = Worded /\ Worded \subseteq 1..source.len /\ \A i \in Worded : PageOf(i)' = PageOf(i)
  BY <1>1 DEF Worded, PageOf
<1>4. ChunksTypeOK'
  <2>1. \A c \in cuts' : c.from < c.to /\ c.to <= source.len
    BY <1>1, <1>2, <1>3
  <2>2. QED
    BY <1>1, <1>2, <2>1 DEF ChunksTypeOK
<1>5. \A i \in Worded' : Within(i - 1, i)'
  <2> SUFFICES ASSUME NEW i \in Worded PROVE \E c \in cuts' : c.from <= i - 1 /\ i <= c.to
    BY <1>3 DEF Within
  <2>1. [from |-> i - 1, to |-> i, page |-> PageOf(i)] \in cuts'
    BY <1>1
  <2>2. QED
    BY <1>2, <1>3, <2>1
<1>6. Numbered'
  BY <1>1, <1>3 DEF Numbered
<1>7. QED
  BY <1>1, <1>4, <1>5, <1>6 DEF CutInv

-----------------------------------------------------------------------------
\* A step that changes nothing of the text changes nothing of what is known of it.
LEMMA StutterKeeps == CutInv /\ UNCHANGED chunksVars => CutInv'
<1> SUFFICES ASSUME CutInv, UNCHANGED chunksVars PROVE CutInv'
  OBVIOUS
<1>1. source' = source /\ start' = start /\ cuts' = cuts /\ whole' = whole
  BY DEF chunksVars
<1>2. ChunksTypeOK'
  BY <1>1 DEF CutInv, ChunksTypeOK
<1>3. source'.kind = "plain" => Covered(IF whole THEN source.len ELSE start)'
  BY <1>1 DEF CutInv, Covered, Within
<1>4. Worded' = Worded /\ \A i \in Worded : PageOf(i)' = PageOf(i)
  BY <1>1 DEF Worded, PageOf
<1>5. source'.kind # "plain" /\ whole' => \A i \in Worded' : Within(i - 1, i)'
  BY <1>1, <1>4 DEF CutInv, Within
<1>6. source'.kind # "plain" /\ whole' => Numbered'
  BY <1>1, <1>4 DEF CutInv, Numbered
<1>7. QED
  BY <1>2, <1>3, <1>5, <1>6 DEF CutInv

LEMMA CutInvImplies == CutInv => NothingTorn
<1> SUFFICES ASSUME CutInv PROVE NothingTorn
  OBVIOUS
<1>1. source \in Plain \cup Paged /\ source.len \in Nat \ {0}
      /\ (source.kind = "plain" => source \in Plain) /\ (source.kind # "plain" => source \in Paged)
  BY SourceType DEF CutInv, ChunksTypeOK
<1>2. SpansWhole
  <2> SUFFICES ASSUME source.kind = "plain", whole, NEW a \in 0..source.len, NEW b \in 0..source.len,
                      a < b, b <= a + Overlap + 1
               PROVE  Within(a, b)
    BY DEF SpansWhole
  <2>1. a < source.len
    BY <1>1
  <2>2. QED
    BY <2>1 DEF CutInv, Covered
<1>3. RunesWhole
  <2> SUFFICES ASSUME source.kind = "plain", whole, NEW a \in source.marks, NEW b \in source.marks,
                      a < b, \A m \in source.marks : m <= a \/ b <= m
               PROVE  Within(a, b)
    BY DEF RunesWhole
  <2>1. a \in 0..source.len /\ b \in 0..source.len /\ b <= a + Overlap + 1
    BY <1>1, RuneLength
  <2>2. QED
    BY <1>2, <2>1 DEF SpansWhole
<1>4. PagesApart
  <2> SUFFICES ASSUME source.kind # "plain", whole
               PROVE  /\ \A i \in Worded : Within(i - 1, i)
                      /\ \A c, d \in cuts : c.page = d.page => c = d
    BY DEF PagesApart
  <2>1. ASSUME NEW c \in cuts, NEW d \in cuts, c.page = d.page PROVE c = d
    <3>1. PICK i \in Worded : c = [from |-> i - 1, to |-> i, page |-> PageOf(i)]
      BY DEF CutInv, Numbered
    <3>2. PICK j \in Worded : d = [from |-> j - 1, to |-> j, page |-> PageOf(j)]
      BY DEF CutInv, Numbered
    <3>3. PageOf(i) = PageOf(j) /\ i \in Nat /\ j \in Nat
      BY <1>1, <2>1, <3>1, <3>2 DEF Worded
    <3>4. ~(i < j) /\ ~(j < i)
      BY <1>1, <3>3, PageOfRises
    <3>5. QED
      BY <3>1, <3>2, <3>3, <3>4
  <2>2. QED
    BY <2>1 DEF CutInv
<1>5. QED
  BY <1>2, <1>3, <1>4 DEF NothingTorn

\* Whatever the sizes, the text and its pages, no short passage, no character and no
\* page is lost between two chunks (chunkText, BuildMaterialChunksFromSlides).
THEOREM NothingLost == ChunksSpec => []NothingTorn
<1>1. CutInv /\ [ChunksNext]_chunksVars => CutInv'
  BY PieceCovers, PagesCover, StutterKeeps DEF ChunksNext
<1>2. QED
  BY <1>1, InitCut, CutInvImplies, PTL DEF ChunksSpec
-----------------------------------------------------------------------------
(* The best chunks are handed over (LexicalRanking).                        *)

\* What the prover cannot add up: a sum over the words is a number.
ScoresAreNumbers == \A question, chunk \in Bags, long \in BOOLEAN : Score(question, chunk, long) \in Nat

ScoreAt(p) == score[order[p]]

\* Every chunk is in one place.
Arranges(n, f) ==
    /\ f \in [1..n -> 1..n]
    /\ \A p, q \in 1..n : f[p] = f[q] => p = q
    /\ \A c \in 1..n : \E p \in 1..n : f[p] = c
AllThere(n) == score \in [1..n -> Nat] /\ Arranges(n, order)

\* Two places exchange their chunks.
Exchange(f, g, i, j) == g = [f EXCEPT ![i] = f[j], ![j] = f[i]]
Exchanged(n, f, g, i, j) ==
    g[i] = f[j] /\ g[j] = f[i] /\ \A p \in 1..n : p # i /\ p # j => g[p] = f[p]

\* The exchange sort: the places before i are settled, and of those before j none
\* scores more than what is at i.
SettledTo(n, i)  == \A p, q \in 1..n : p < q /\ p < i => ScoreAt(p) >= ScoreAt(q)
BestOf(n, i, j)  == \A q \in 1..n : i < q /\ q < j => ScoreAt(i) >= ScoreAt(q)
HandedOf(n, i)   == handed # <<>> => i >= n /\ handed = [p \in 1..Lesser(TopK, n) |-> order[p]]
Sorting(n, i, j) ==
    /\ AllThere(n) /\ at = <<i, j>> /\ 1 <= i /\ i < j
    /\ SettledTo(n, i) /\ BestOf(n, i, j) /\ HandedOf(n, i)

RankInv == \E n, i, j \in Nat : Sorting(n, i, j)

LEMMA PlacesAre ==
    ASSUME NEW n \in Nat, AllThere(n) PROVE Positions = 1..n /\ Cardinality(Positions) = n
<1>1. Positions = 1..n BY DEF Positions, AllThere, Arranges
<1> QED BY <1>1, FS_Interval

LEMMA ScoresAre == ASSUME NEW n \in Nat, AllThere(n) PROVE \A p \in 1..n : ScoreAt(p) \in Nat
BY DEF AllThere, Arranges, ScoreAt

LEMMA RankStart == ASSUME ScoresAreNumbers, RankInit PROVE RankInv
<1>1. PICK question \in Bags, n \in 0..MaxChunks :
        score \in [1..n -> {Score(question, chunk, long) : chunk \in Bags, long \in BOOLEAN}]
  BY DEF RankInit
<1>2. n \in Nat BY RankingAssumption
<1>3. score \in [1..n -> Nat] BY <1>1 DEF ScoresAreNumbers
<1>4. order = [p \in 1..n |-> p] /\ at = <<1, 2>> /\ handed = <<>> BY <1>3 DEF RankInit
<1>5. AllThere(n) BY <1>3, <1>4 DEF AllThere, Arranges
<1>6. SettledTo(n, 1) BY <1>2 DEF SettledTo
<1>7. BestOf(n, 1, 2) BY <1>2 DEF BestOf
<1>8. HandedOf(n, 1) BY <1>4 DEF HandedOf
<1>9. Sorting(n, 1, 2) BY <1>4, <1>5, <1>6, <1>7, <1>8 DEF Sorting
<1> QED BY <1>2, <1>9 DEF RankInv

LEMMA ExchangeArranges ==
    ASSUME NEW n \in Nat, NEW f, Arranges(n, f), NEW i \in 1..n, NEW j \in 1..n, NEW g,
           Exchange(f, g, i, j)
    PROVE  Arranges(n, g) /\ Exchanged(n, f, g, i, j)
<1>1. /\ f \in [1..n -> 1..n] /\ \A p, q \in 1..n : f[p] = f[q] => p = q
      /\ \A c \in 1..n : \E p \in 1..n : f[p] = c
  BY DEF Arranges
<1>2. /\ g \in [1..n -> 1..n] /\ g[i] = f[j] /\ g[j] = f[i]
      /\ \A p \in 1..n : p # i /\ p # j => g[p] = f[p]
  BY <1>1 DEF Exchange
<1>3. ASSUME NEW p \in 1..n, NEW q \in 1..n, g[p] = g[q] PROVE p = q
  <2>1. \A r, t \in 1..n : f[r] = f[t] => r = t BY <1>1
  <2>2. CASE p = i BY <1>2, <1>3, <2>1, <2>2
  <2>3. CASE p = j BY <1>2, <1>3, <2>1, <2>3
  <2>4. CASE p # i /\ p # j BY <1>2, <1>3, <2>1, <2>4
  <2> QED BY <2>2, <2>3, <2>4
<1>4. ASSUME NEW c \in 1..n PROVE \E p \in 1..n : g[p] = c
  <2>1. PICK p \in 1..n : f[p] = c BY <1>1
  <2>2. CASE p = i BY <1>2, <2>1, <2>2
  <2>3. CASE p = j BY <1>2, <2>1, <2>3
  <2>4. CASE p # i /\ p # j BY <1>2, <2>1, <2>4
  <2> QED BY <2>2, <2>3, <2>4
<1> QED BY <1>2, <1>3, <1>4 DEF Arranges, Exchanged

\* The inner loop is over: the next place is settled.
LEMMA OuterGoesOn ==
    ASSUME NEW n \in Nat, NEW i \in Nat, NEW j \in Nat, Sorting(n, i, j), j > n,
           UNCHANGED <<score, order, handed>>, at' = <<i + 1, i + 2>>
    PROVE  RankInv'
<1>1. AllThere(n)' BY DEF Sorting, AllThere, Arranges
<1>2. \A p \in 1..n : ScoreAt(p)' = ScoreAt(p) BY DEF ScoreAt
<1>3. SettledTo(n, i + 1)
  <2> SUFFICES ASSUME NEW p \in 1..n, NEW q \in 1..n, p < q, p < i + 1 PROVE ScoreAt(p) >= ScoreAt(q)
      BY DEF SettledTo
  <2>1. CASE p < i BY <2>1 DEF Sorting, SettledTo
  <2>2. CASE p = i
    <3>1. i < q /\ q < j BY <2>2
    <3> QED BY <2>2, <3>1 DEF Sorting, BestOf
  <2> QED BY <2>1, <2>2
<1>4. SettledTo(n, i + 1)' BY <1>2, <1>3 DEF SettledTo
<1>5. BestOf(n, i + 1, i + 2)' BY DEF BestOf
<1>6. HandedOf(n, i + 1)'
  <2>1. handed # <<>> => i + 1 >= n BY DEF Sorting, HandedOf
  <2> QED BY <2>1 DEF Sorting, HandedOf
<1>7. 1 <= i + 1 /\ i + 1 < i + 2 /\ i + 1 \in Nat /\ i + 2 \in Nat OBVIOUS
<1>8. Sorting(n, i + 1, i + 2)' BY <1>1, <1>4, <1>5, <1>6, <1>7 DEF Sorting
<1> QED BY <1>7, <1>8 DEF RankInv

\* The inner loop goes on, and nothing is exchanged.
LEMMA InnerStays ==
    ASSUME NEW n \in Nat, NEW i \in Nat, NEW j \in Nat, Sorting(n, i, j), i < n, j <= n,
           ~ComesLater(i, j), UNCHANGED <<score, order, handed>>, at' = <<i, j + 1>>
    PROVE  RankInv'
<1>0. AllThere(n) /\ 1 <= i /\ i < j BY DEF Sorting
<1>1. AllThere(n)' BY <1>0 DEF AllThere, Arranges
<1>2. \A p \in 1..n : ScoreAt(p)' = ScoreAt(p) BY DEF ScoreAt
<1>3. SettledTo(n, i)' BY <1>2 DEF Sorting, SettledTo
<1>4. BestOf(n, i, j + 1)
  <2> SUFFICES ASSUME NEW q \in 1..n, i < q, q < j + 1 PROVE ScoreAt(i) >= ScoreAt(q) BY DEF BestOf
  <2>1. CASE q < j BY <2>1 DEF Sorting, BestOf
  <2>2. CASE q = j
    <3>1. ~(ScoreAt(i) < ScoreAt(j)) BY DEF ComesLater, ScoreAt
    <3>2. i \in 1..n /\ j \in 1..n BY <1>0
    <3>3. ScoreAt(i) \in Nat /\ ScoreAt(j) \in Nat BY <1>0, <3>2, ScoresAre
    <3> QED BY <2>2, <3>1, <3>3
  <2> QED BY <2>1, <2>2
<1>5. i \in 1..n BY <1>0
<1>6. BestOf(n, i, j + 1)' BY <1>2, <1>4, <1>5 DEF BestOf
<1>7. HandedOf(n, i)' BY DEF Sorting, HandedOf
<1>8. i < j + 1 /\ j + 1 \in Nat BY <1>0
<1>9. Sorting(n, i, j + 1)' BY <1>0, <1>1, <1>3, <1>6, <1>7, <1>8 DEF Sorting
<1> QED BY <1>8, <1>9 DEF RankInv

\* The inner loop goes on with what scores more in the outer place.
LEMMA InnerExchanges ==
    ASSUME NEW n \in Nat, NEW i \in Nat, NEW j \in Nat, Sorting(n, i, j), i < n, j <= n,
           ComesLater(i, j), UNCHANGED <<score, handed>>, at' = <<i, j + 1>>,
           order' = [order EXCEPT ![i] = order[j], ![j] = order[i]]
    PROVE  RankInv'
<1>0. AllThere(n) /\ 1 <= i /\ i < j BY DEF Sorting
<1>1. i \in 1..n /\ j \in 1..n BY <1>0
<1>2. Arranges(n, order') /\ Exchanged(n, order, order', i, j)
  <2>1. Arranges(n, order) BY <1>0 DEF AllThere
  <2>2. Exchange(order, order', i, j) BY DEF Exchange
  <2> QED BY <1>1, <2>1, <2>2, ExchangeArranges
<1>3. AllThere(n)' BY <1>0, <1>2 DEF AllThere, Arranges
<1>4. /\ ScoreAt(i)' = ScoreAt(j) /\ ScoreAt(j)' = ScoreAt(i)
      /\ \A p \in 1..n : p # i /\ p # j => ScoreAt(p)' = ScoreAt(p)
  BY <1>2 DEF ScoreAt, Exchanged
<1>5. ScoreAt(i) < ScoreAt(j) BY DEF ComesLater, ScoreAt
<1>6. SettledTo(n, i)'
  <2> SUFFICES ASSUME NEW p \in 1..n, NEW q \in 1..n, p < q, p < i PROVE ScoreAt(p)' >= ScoreAt(q)'
      BY DEF SettledTo
  <2>1. p # i /\ p # j /\ p < j BY <1>0
  <2>2. ScoreAt(p) >= ScoreAt(q) /\ ScoreAt(p) >= ScoreAt(i) /\ ScoreAt(p) >= ScoreAt(j)
    BY <1>1, <2>1 DEF Sorting, SettledTo
  <2>3. ScoreAt(p)' = ScoreAt(p) /\ ScoreAt(q)' \in {ScoreAt(q), ScoreAt(i), ScoreAt(j)} BY <1>4, <2>1
  <2> QED BY <2>2, <2>3
<1>7. BestOf(n, i, j + 1)'
  <2> SUFFICES ASSUME NEW q \in 1..n, i < q, q < j + 1 PROVE ScoreAt(i)' >= ScoreAt(q)'
      BY DEF BestOf
  <2>1. ScoreAt(i) \in Nat /\ ScoreAt(j) \in Nat /\ ScoreAt(q) \in Nat BY <1>0, <1>1, ScoresAre
  <2>2. PICK a, b, c : a = ScoreAt(i) /\ b = ScoreAt(j) /\ c = ScoreAt(q) OBVIOUS
  <2>3. CASE q < j
    <3>1. q # i /\ q # j BY <2>3
    <3>2. a >= c BY <2>2, <2>3 DEF Sorting, BestOf
    <3>3. b >= c BY <1>5, <2>1, <2>2, <3>2
    <3> QED BY <1>4, <2>2, <3>1, <3>3
  <2>4. CASE q = j
    <3>1. b >= a BY <1>5, <2>1, <2>2
    <3> QED BY <1>4, <2>2, <2>4, <3>1
  <2> QED BY <2>3, <2>4
<1>8. HandedOf(n, i)'
  <2>1. handed = <<>> BY DEF Sorting, HandedOf
  <2> QED BY <2>1 DEF HandedOf
<1>9. i < j + 1 /\ j + 1 \in Nat BY <1>0
<1>10. Sorting(n, i, j + 1)' BY <1>0, <1>3, <1>6, <1>7, <1>8, <1>9 DEF Sorting
<1> QED BY <1>9, <1>10 DEF RankInv

LEMMA CompareKeeps == ASSUME RankInv, CompareNext PROVE RankInv'
<1>1. PICK n \in Nat, i \in Nat, j \in Nat : Sorting(n, i, j) BY DEF RankInv
<1>2. at[1] = i /\ at[2] = j BY <1>1 DEF Sorting
<1>3. Cardinality(Positions) = n BY <1>1, PlacesAre DEF Sorting
<1>4. i < n /\ UNCHANGED <<score, handed>> BY <1>2, <1>3 DEF CompareNext
<1>5. CASE j > n
  <2>1. at' = <<i + 1, i + 2>> /\ UNCHANGED order BY <1>2, <1>3, <1>5 DEF CompareNext
  <2> QED BY <1>1, <1>4, <1>5, <2>1, OuterGoesOn
<1>6. CASE j <= n
  <2>1. /\ at' = <<i, j + 1>>
        /\ order' = IF ComesLater(i, j) THEN [order EXCEPT ![i] = order[j], ![j] = order[i]] ELSE order
    BY <1>2, <1>3, <1>6 DEF CompareNext
  <2>2. CASE ComesLater(i, j) BY <1>1, <1>4, <1>6, <2>1, <2>2, InnerExchanges
  <2>3. CASE ~ComesLater(i, j) BY <1>1, <1>4, <1>6, <2>1, <2>3, InnerStays
  <2> QED BY <2>2, <2>3
<1> QED BY <1>5, <1>6

LEMMA HandOverKeeps == ASSUME RankInv, HandOver PROVE RankInv'
<1>1. PICK n \in Nat, i \in Nat, j \in Nat : Sorting(n, i, j) BY DEF RankInv
<1>2. at[1] = i BY <1>1 DEF Sorting
<1>3. Cardinality(Positions) = n BY <1>1, PlacesAre DEF Sorting
<1>4. i >= n /\ handed' = [p \in 1..Lesser(TopK, n) |-> order[p]] /\ UNCHANGED <<score, order, at>>
  BY <1>2, <1>3 DEF HandOver
<1>5. HandedOf(n, i)' BY <1>4 DEF HandedOf
<1>6. AllThere(n)' /\ at' = <<i, j>> /\ 1 <= i /\ i < j BY <1>1, <1>4 DEF Sorting, AllThere, Arranges
<1>7. SettledTo(n, i)' /\ BestOf(n, i, j)' BY <1>1, <1>4 DEF Sorting, SettledTo, BestOf, ScoreAt
<1>8. Sorting(n, i, j)' BY <1>5, <1>6, <1>7 DEF Sorting
<1> QED BY <1>8 DEF RankInv

LEMMA RankMeans == ASSUME RankInv PROVE BestHanded
<1>1. PICK n \in Nat, i \in Nat, j \in Nat : Sorting(n, i, j) BY DEF RankInv
<1>2. Positions = 1..n /\ DOMAIN score = 1..n BY <1>1, PlacesAre DEF Sorting, AllThere, Arranges
<1>3. \A p, q \in Positions : order[p] = order[q] => p = q BY <1>1, <1>2 DEF Sorting, AllThere, Arranges
<1>4. CASE handed = <<>>
  <2>1. DOMAIN handed = {} BY <1>4
  <2> QED BY <1>3, <1>4, <2>1 DEF BestHanded
<1>5. CASE handed # <<>>
  <2>1. PICK h : h = Lesser(TopK, n) OBVIOUS
  <2>2. h \in Nat /\ h <= n BY <2>1, RankingAssumption DEF Lesser
  <2>3. i >= n /\ handed = [p \in 1..h |-> order[p]] BY <1>1, <1>5, <2>1 DEF Sorting, HandedOf
  <2>4. DOMAIN handed = 1..h /\ \A p \in 1..h : handed[p] = order[p] BY <2>3
  <2>5. \A p, q \in 1..n : p < q => p < i BY <2>3
  <2>6. \A p, q \in 1..n : p < q => score[order[p]] >= score[order[q]]
    BY <1>1, <2>5 DEF Sorting, SettledTo, ScoreAt
  <2>7. 1..h \subseteq 1..n BY <2>2
  <2>8. \A p, q \in DOMAIN handed : p < q => score[handed[p]] >= score[handed[q]] BY <2>4, <2>6, <2>7
  <2>9. ASSUME NEW c \in DOMAIN score \ {handed[p] : p \in DOMAIN handed}, NEW p \in DOMAIN handed
        PROVE score[handed[p]] >= score[c]
    <3>1. PICK r \in 1..n : order[r] = c BY <1>1, <1>2 DEF Sorting, AllThere, Arranges
    <3>2. r \notin 1..h BY <2>4, <3>1
    <3>3. p \in 1..h /\ p < r BY <2>2, <2>4, <3>2
    <3> QED BY <2>4, <2>6, <2>7, <3>1, <3>3
  <2> QED BY <1>3, <2>8, <2>9 DEF BestHanded
<1> QED BY <1>4, <1>5

\* No chunk that is left out scores more than one that is handed over and none is lost or
\* doubled (scoreChunks, RetrieveChunks), for any chunks, words and topK.
THEOREM TheBestAreHanded == ASSUME ScoresAreNumbers PROVE RankSpec => []BestHanded
<1>1. RankInit => RankInv BY RankStart
<1>2. RankInv /\ [RankNext]_rankVars => RankInv'
  <2>1. ASSUME RankInv, UNCHANGED rankVars PROVE RankInv'
    <3>1. UNCHANGED <<score, order, at, handed>> BY <2>1 DEF rankVars
    <3>2. PICK n \in Nat, i \in Nat, j \in Nat : Sorting(n, i, j) BY <2>1 DEF RankInv
    <3>3. Sorting(n, i, j)' BY <3>1, <3>2 DEF Sorting, AllThere, Arranges, SettledTo, BestOf, HandedOf, ScoreAt
    <3> QED BY <3>3 DEF RankInv
  <2> QED BY <2>1, CompareKeeps, HandOverKeeps DEF RankNext
<1>3. RankInv => BestHanded BY RankMeans
<1> QED BY <1>1, <1>2, <1>3, PTL DEF RankSpec
================================================================================
