---------------------------- MODULE LexicalRanking ----------------------------
(***************************************************************************)
(* RetrieveChunks: the chunks of a session's links, materials and          *)
(* recording are scored by the words they share with the question, sorted  *)
(* by exchanges in place, and the first topK are handed over.              *)
(***************************************************************************)
EXTENDS Naturals, FiniteSets
Sums == INSTANCE FiniteSetsExt

CONSTANTS
    Words,          \* words of a question
    MaxChunks,      \* bound of the model: chunks to rank
    MaxOften,       \* bound of the model: how often a word occurs
    TopK            \* chunks to hand over (5)

ASSUME RankingAssumption == IsFiniteSet(Words) /\ {MaxChunks, MaxOften} \subseteq Nat /\ TopK \in Nat \ {0}

VARIABLES
    score,          \* of each chunk, in the order they were collected
    order,          \* scored: which chunk is where
    at,             \* the two indices of the exchange sort
    handed          \* what is returned

rankVars == <<score, order, at, handed>>

Positions == DOMAIN order
Lesser(m, n) == IF m < n THEN m ELSE n

\* words in common, each as often as in both, with 5% more for a long chunk;
\* the length of the question, by which every score is divided, is left out
Score(question, chunk, long) ==
    Sums!MapThenSumSet(LAMBDA w : Lesser(question[w], chunk[w]), Words) * (IF long THEN 105 ELSE 100)

Bags == [Words -> 0..MaxOften]

RankInit ==
    /\ \E question \in Bags, n \in 0..MaxChunks :
          score \in [1..n -> {Score(question, chunk, long) : chunk \in Bags, long \in BOOLEAN}]
    /\ order = [p \in DOMAIN score |-> p]
    /\ at = <<1, 2>> /\ handed = <<>>

\* mutant: the scores of the places, not of the chunks that are there now
ComesLaterByPlace(p, q) == score[p] < score[q]

ComesLater(p, q) == score[order[p]] < score[order[q]]

\* one comparison of the two nested loops
CompareNext ==
    LET i == at[1]
        j == at[2] IN
    /\ i < Cardinality(Positions)
    /\ IF j <= Cardinality(Positions)
       THEN /\ order' = IF ComesLater(i, j) THEN [order EXCEPT ![i] = order[j], ![j] = order[i]] ELSE order
            /\ at' = <<i, j + 1>>
       ELSE at' = <<i + 1, i + 2>> /\ UNCHANGED order
    /\ UNCHANGED <<score, handed>>

HandOver ==
    /\ at[1] >= Cardinality(Positions) /\ handed = <<>> /\ Positions # {}
    /\ handed' = [p \in 1..Lesser(TopK, Cardinality(Positions)) |-> order[p]]
    /\ UNCHANGED <<score, order, at>>

RankNext == CompareNext \/ HandOver

RankSpec == RankInit /\ [][RankNext]_rankVars

-----------------------------------------------------------------------------
RankTypeOK == order \in [DOMAIN score -> DOMAIN score] /\ \A p \in DOMAIN handed : handed[p] \in DOMAIN score

(***************************************************************************)
(* No chunk that was left out scores more than one that was handed over,   *)
(* the best come first, and none is lost or doubled by the exchanges       *)
(* (scoreChunks, RetrieveChunks).                                          *)
(***************************************************************************)
BestHanded ==
    /\ \A p, q \in Positions : order[p] = order[q] => p = q
    /\ \A p, q \in DOMAIN handed : p < q => score[handed[p]] >= score[handed[q]]
    /\ handed # <<>> =>
         \A c \in DOMAIN score \ {handed[p] : p \in DOMAIN handed} :
             \A p \in DOMAIN handed : score[handed[p]] >= score[c]
=============================================================================
