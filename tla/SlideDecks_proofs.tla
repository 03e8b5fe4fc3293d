-------------------------- MODULE SlideDecks_proofs --------------------------
(***************************************************************************)
(* Proofs about the slide decks: the types, the owner of the conversion    *)
(* slot, and that a deck shown as ready is whole and of the stored file.   *)
(***************************************************************************)
EXTENDS SlideDecks, TLAPS

(* The inductive invariant.  A ready deck is whole because its manifest is *)
(* written after all its objects; that is worth something only while every *)
(* conversion under way works on the one generation of the file, which is  *)
(* what holds until a deletion runs beside one of them.                    *)

Holding == {"convert", "put", "manifest", "tidy", "fail"}

\* What is stored under the name is the newest upload or nothing.
SourceIsCurrent == source \in {0, material.gen}

\* A conversion has stored nothing before it is done converting, and everything
\* before it writes the manifest.
BeginsClean(w) ==
  /\ w.done \subseteq Assets
  /\ w.step \in {"unused", "fetch", "mark", "clear", "wait", "convert"} =>
       w.done = {} /\ ~w.broken
  /\ w.step = "manifest" => w.done = Assets /\ ~w.broken
RunsBeginClean == \A r \in Runs : BeginsClean(run[r])

\* A conversion under way is of the live file, nothing is deleting that file, and
\* what the conversion has stored is still there, or has been stored again since.
Works(w) ==
  w.step \in Steps =>
    /\ material.live /\ delete = "none" /\ w.gen = material.gen
    /\ ~w.broken => \A a \in w.done : store.asset[a] = material.gen
RunsWork == ~overtaken => \A r \in Runs : Works(run[r])

\* No object of another generation is left, and no manifest without its objects.
NothingStored == store.manifest = 0 /\ \A a \in 1..Pages : store.asset[a] = 0
ObjectsAreCurrent ==
  ~overtaken =>
    /\ store.manifest \in {0, material.gen}
    /\ \A a \in 1..Pages : store.asset[a] \in {0, material.gen}
    /\ store.manifest # 0 => \A a \in Assets : store.asset[a] = material.gen
    /\ ~material.live \/ delete = "row" => NothingStored

DeckInv ==
  /\ TypeOK /\ SlotHasOwner /\ SourceIsCurrent
  /\ RunsBeginClean /\ RunsWork /\ ObjectsAreCurrent

-----------------------------------------------------------------------------
(* Types *)

StoreType == [manifest : 0..MaxGen, asset : [1..Pages -> 0..MaxGen],
              failed : BOOLEAN, processing : {"none", "fresh", "stale"}]
RunType == [step : Steps \union {"unused", "over"}, gen : 0..MaxGen,
            done : SUBSET (1..Pages), broken : BOOLEAN, queued : BOOLEAN]

LEMMA Sizes ==
  /\ Assets \subseteq 1..Pages /\ 1 \in Assets /\ 1 \in 1..Pages
  /\ 0 \in 0..MaxGen /\ NoRun \notin Runs
  /\ Empty \in StoreType /\ Over \in RunType /\ At("unused") \in RunType
<1>1. 1 \in 1..Pages /\ 0 \in 0..MaxGen /\ NoRun \notin Runs BY DeckAssumption DEF Runs
<1>2. Assets \subseteq 1..Pages /\ 1 \in Assets BY <1>1 DEF Assets
<1>3. Empty \in StoreType BY <1>1 DEF Empty, StoreType
<1>4. Over \in RunType /\ At("unused") \in RunType BY <1>1 DEF Over, At, RunType, Steps
<1> QED BY <1>1, <1>2, <1>3, <1>4

LEMMA FaultsCounted ==
  ASSUME faults \in 0..FaultLimit, faults' = faults \/ Failed
  PROVE  faults' \in 0..FaultLimit
  BY DeckAssumption DEF Failed, MayFail

LEMMA InitInv == Init => DeckInv
<1> SUFFICES ASSUME Init PROVE DeckInv OBVIOUS
<1> USE DEF Init
<1>1. TypeOK
  <2>1. material \in [gen : 0..MaxGen, live : BOOLEAN] /\ source \in 0..MaxGen BY DeckAssumption
  <2>2. store \in StoreType /\ run \in [Runs -> RunType] BY Sizes
  <2>3. faults \in 0..FaultLimit BY DeckAssumption
  <2> QED BY <2>1, <2>2, <2>3 DEF TypeOK, StoreType, RunType
<1>2. SlotHasOwner BY Sizes DEF SlotHasOwner
<1>3. SourceIsCurrent BY DEF SourceIsCurrent
<1>4. RunsBeginClean BY DEF RunsBeginClean, BeginsClean, At
<1>5. RunsWork BY DEF RunsWork, Works, At, Steps
<1>6. ObjectsAreCurrent BY Sizes DEF ObjectsAreCurrent, NothingStored, Empty
<1> QED BY <1>1, <1>2, <1>3, <1>4, <1>5, <1>6 DEF DeckInv

-----------------------------------------------------------------------------
(* The steps of a conversion *)

\* A conversion that moves on, and stores no object, keeps the invariant as long as
\* it gives the slot back before it ends and writes the manifest last.
LEMMA RunMoves ==
  ASSUME DeckInv, NEW r \in Runs, NEW w \in RunType, run' = [run EXCEPT ![r] = w],
         \/ w = Over
         \/ /\ run[r].step \in Steps /\ w.gen = run[r].gen
            /\ w.done = run[r].done /\ w.broken = run[r].broken,
         BeginsClean(w),
         slot' \in {slot, r, NoRun}, slot' = r => w.step \in Holding,
         store' \in StoreType, store'.manifest = store.manifest, store'.asset = store.asset,
         UNCHANGED <<setup, material, source, status, delete, overtaken>>,
         faults' \in 0..FaultLimit, silent' \in BOOLEAN
  PROVE  DeckInv'
<1>1. run' \in [Runs -> RunType] /\ run'[r] = w /\ \A q \in Runs \ {r} : run'[q] = run[q]
  BY DEF DeckInv, TypeOK, RunType
<1>2. TypeOK' BY <1>1 DEF DeckInv, TypeOK, StoreType, RunType
<1>3. SlotHasOwner'
  <2>1. CASE slot' = r BY <2>1, <1>1 DEF SlotHasOwner, Holding
  <2>2. CASE slot' # r BY <2>2, <1>1, Sizes DEF SlotHasOwner, DeckInv
  <2> QED BY <2>1, <2>2
<1>4. SourceIsCurrent' BY DEF DeckInv, SourceIsCurrent
<1>5. RunsBeginClean'
  <2> SUFFICES ASSUME NEW q \in Runs PROVE BeginsClean(run[q])' BY DEF RunsBeginClean
  <2>1. BeginsClean(run'[q]) BY <1>1 DEF DeckInv, RunsBeginClean
  <2> QED BY <2>1 DEF BeginsClean, Assets
<1>6. RunsWork'
  <2> SUFFICES ASSUME ~overtaken, NEW q \in Runs PROVE Works(run[q])' BY DEF RunsWork
  <2>1. Works(run[q]) /\ Works(run[r]) BY DEF DeckInv, RunsWork
  <2>2. CASE q # r BY <2>1, <2>2, <1>1 DEF Works
  <2>3. CASE q = r /\ w = Over BY <2>3, <1>1 DEF Works, Over, At, Steps
  <2>4. CASE q = r /\ w # Over BY <2>1, <2>4, <1>1 DEF Works
  <2> QED BY <2>2, <2>3, <2>4
<1>7. ObjectsAreCurrent' BY DEF DeckInv, ObjectsAreCurrent, NothingStored, Assets
<1> QED BY <1>2, <1>3, <1>4, <1>5, <1>6, <1>7 DEF DeckInv

\* The two forms such a move takes: the next step, and the end.
LEMMA Goes ==
  ASSUME DeckInv, NEW r \in Runs, NEW s \in Steps, Go(r, s)
  PROVE  \E w \in RunType :
           /\ run' = [run EXCEPT ![r] = w] /\ w.step = s /\ w.gen = run[r].gen
           /\ w.done = run[r].done /\ w.broken = run[r].broken
<1>1. run[r] \in RunType /\ run \in [Runs -> RunType] BY DEF DeckInv, TypeOK, RunType
<1>2. PICK w \in RunType : w = [run[r] EXCEPT !.step = s] BY <1>1 DEF RunType
<1>3. run' = [run EXCEPT ![r] = w] BY <1>1, <1>2 DEF Go, RunType
<1>4. /\ w.step = s /\ w.gen = run[r].gen
      /\ w.done = run[r].done /\ w.broken = run[r].broken BY <1>1, <1>2 DEF RunType
<1> QED BY <1>3, <1>4

\* What holds of the store when only its marks change.
LEMMA MarksOnly ==
  ASSUME DeckInv,
         \/ store' = store
         \/ \E b \in BOOLEAN : store' = [store EXCEPT !.failed = b]
         \/ \E m \in {"none", "fresh", "stale"} : store' = [store EXCEPT !.processing = m]
  PROVE  store' \in StoreType /\ store'.manifest = store.manifest /\ store'.asset = store.asset
<1>1. store \in StoreType BY DEF DeckInv, TypeOK, StoreType
<1> QED BY <1>1 DEF StoreType

LEMMA DeckFacts ==
  ASSUME DeckInv
  PROVE  /\ faults \in 0..FaultLimit /\ silent \in BOOLEAN /\ overtaken \in BOOLEAN
         /\ slot \in Runs \union {NoRun}
         /\ \A r \in Runs : BeginsClean(run[r]) /\ run[r] \in RunType
  BY DEF DeckInv, TypeOK, RunsBeginClean, RunType

LEMMA MarkKeeps == ASSUME DeckInv, NEW r \in Runs, Mark(r) PROVE DeckInv'
<1> USE DEF Mark
<1>1. PICK w \in RunType :
        /\ run' = [run EXCEPT ![r] = w] /\ w.step = "clear" /\ w.gen = run[r].gen
        /\ w.done = run[r].done /\ w.broken = run[r].broken
  BY Goes DEF Steps
<1>2. store' \in StoreType /\ store'.manifest = store.manifest /\ store'.asset = store.asset
  BY MarksOnly
<1>3. slot # r BY DEF DeckInv, SlotHasOwner
<1>4. BeginsClean(w) BY <1>1, DeckFacts DEF BeginsClean
<1>5. faults' \in 0..FaultLimit BY DeckFacts, FaultsCounted
<1> QED BY <1>1, <1>2, <1>3, <1>4, <1>5, RunMoves, DeckFacts DEF Steps

LEMMA ClearFailureKeeps == ASSUME DeckInv, NEW r \in Runs, ClearFailure(r) PROVE DeckInv'
<1> USE DEF ClearFailure
<1>0. run[r] \in RunType /\ run \in [Runs -> RunType] BY DEF DeckInv, TypeOK, RunType
<1>1. PICK queue \in BOOLEAN : run' = [run EXCEPT ![r].step = "wait", ![r].queued = queue] OBVIOUS
<1>2. PICK w \in RunType : w = [run[r] EXCEPT !.step = "wait", !.queued = queue]
  BY <1>0 DEF RunType, Steps
<1>3. run' = [run EXCEPT ![r] = w] BY <1>0, <1>1, <1>2 DEF RunType
<1>4. /\ w.step = "wait" /\ w.gen = run[r].gen
      /\ w.done = run[r].done /\ w.broken = run[r].broken BY <1>0, <1>2 DEF RunType
<1>5. store' \in StoreType /\ store'.manifest = store.manifest /\ store'.asset = store.asset
  BY MarksOnly
<1>6. slot # r BY DEF DeckInv, SlotHasOwner
<1>7. BeginsClean(w) BY <1>4, DeckFacts DEF BeginsClean
<1> QED BY <1>3, <1>4, <1>5, <1>6, <1>7, RunMoves, DeckFacts DEF Steps

LEMMA TakeSlotKeeps == ASSUME DeckInv, NEW r \in Runs, TakeSlot(r) PROVE DeckInv'
<1> USE DEF TakeSlot
<1>1. PICK w \in RunType :
        /\ run' = [run EXCEPT ![r] = w] /\ w.step = "convert" /\ w.gen = run[r].gen
        /\ w.done = run[r].done /\ w.broken = run[r].broken
  BY Goes DEF Steps
<1>2. store' \in StoreType /\ store'.manifest = store.manifest /\ store'.asset = store.asset
  BY MarksOnly
<1>3. BeginsClean(w) BY <1>1, DeckFacts DEF BeginsClean
<1> QED BY <1>1, <1>2, <1>3, RunMoves, DeckFacts DEF Steps, Holding

LEMMA NoConverterKeeps == ASSUME DeckInv, NEW r \in Runs, NoConverter(r) PROVE DeckInv'
<1> USE DEF NoConverter
<1>1. PICK w \in RunType :
        /\ run' = [run EXCEPT ![r] = w] /\ w.step = "fail" /\ w.gen = run[r].gen
        /\ w.done = run[r].done /\ w.broken = run[r].broken
  BY Goes DEF Steps
<1>2. store' \in StoreType /\ store'.manifest = store.manifest /\ store'.asset = store.asset
  BY MarksOnly
<1>3. BeginsClean(w) BY <1>1, DeckFacts DEF BeginsClean
<1>4. faults' \in 0..FaultLimit BY DeckFacts, FaultsCounted
<1> QED BY <1>1, <1>2, <1>3, <1>4, RunMoves, DeckFacts DEF Steps, Holding

LEMMA ConvertKeeps ==
  ASSUME DeckInv, NEW r \in Runs, ConvertToImages(r) \/ ConvertToPDF(r) PROVE DeckInv'
<1> USE DEF ConvertToImages, ConvertToPDF
<1>1. PICK w \in RunType :
        /\ run' = [run EXCEPT ![r] = w] /\ w.step \in {"put", "fail"} /\ w.gen = run[r].gen
        /\ w.done = run[r].done /\ w.broken = run[r].broken
  BY Goes DEF Steps
<1>2. store' \in StoreType /\ store'.manifest = store.manifest /\ store'.asset = store.asset
  BY MarksOnly
<1>3. BeginsClean(w) BY <1>1, DeckFacts DEF BeginsClean
<1>4. faults' \in 0..FaultLimit BY DeckFacts, FaultsCounted
<1>5. slot' \in {slot, NoRun} /\ run[r].step = "convert" OBVIOUS
<1> QED BY <1>1, <1>2, <1>3, <1>4, <1>5, RunMoves, DeckFacts DEF Steps, Holding

LEMMA PutsDoneKeeps == ASSUME DeckInv, NEW r \in Runs, PutsDone(r) PROVE DeckInv'
<1> USE DEF PutsDone
<1>1. PICK w \in RunType :
        /\ run' = [run EXCEPT ![r] = w]
        /\ w.step = IF run[r].broken THEN "fail" ELSE "manifest"
        /\ w.gen = run[r].gen /\ w.done = run[r].done /\ w.broken = run[r].broken
  BY Goes DEF Steps
<1>2. store' \in StoreType /\ store'.manifest = store.manifest /\ store'.asset = store.asset
  BY MarksOnly
<1>3. BeginsClean(w) BY <1>1, DeckFacts DEF BeginsClean, AllPut
<1> QED BY <1>1, <1>2, <1>3, RunMoves, DeckFacts DEF Steps, Holding

LEMMA ClearFailureAgainKeeps ==
  ASSUME DeckInv, NEW r \in Runs, ClearFailureAgain(r) PROVE DeckInv'
<1> USE DEF ClearFailureAgain
<1>1. PICK w \in RunType :
        /\ run' = [run EXCEPT ![r] = w] /\ w.step = "unmark" /\ w.gen = run[r].gen
        /\ w.done = run[r].done /\ w.broken = run[r].broken
  BY Goes DEF Steps
<1>2. store' \in StoreType /\ store'.manifest = store.manifest /\ store'.asset = store.asset
  BY MarksOnly
<1>3. BeginsClean(w) BY <1>1, DeckFacts DEF BeginsClean
<1>4. slot' \in {slot, NoRun} /\ slot' # r BY Sizes DEF Release
<1>5. silent' \in BOOLEAN OBVIOUS
<1> QED BY <1>1, <1>2, <1>3, <1>4, <1>5, RunMoves, DeckFacts DEF Steps

LEMMA WriteFailureKeeps == ASSUME DeckInv, NEW r \in Runs, WriteFailure(r) PROVE DeckInv'
<1> USE DEF WriteFailure
<1>1. PICK w \in RunType :
        /\ run' = [run EXCEPT ![r] = w] /\ w.step = "unmark" /\ w.gen = run[r].gen
        /\ w.done = run[r].done /\ w.broken = run[r].broken
  BY Goes DEF Steps
<1>2. store' \in StoreType /\ store'.manifest = store.manifest /\ store'.asset = store.asset
  BY MarksOnly
<1>3. BeginsClean(w) BY <1>1, DeckFacts DEF BeginsClean
<1>4. slot' \in {slot, NoRun} /\ slot' # r BY Sizes DEF Release
<1>5. silent' \in BOOLEAN /\ faults' \in 0..FaultLimit BY DeckFacts, FaultsCounted
<1> QED BY <1>1, <1>2, <1>3, <1>4, <1>5, RunMoves, DeckFacts DEF Steps

LEMMA OverIsClean == BeginsClean(Over) /\ Over.step = "over"
  BY DEF BeginsClean, Over, At

LEMMA UnmarkKeeps == ASSUME DeckInv, NEW r \in Runs, Unmark(r) PROVE DeckInv'
<1> USE DEF Unmark
<1>1. store' \in StoreType /\ store'.manifest = store.manifest /\ store'.asset = store.asset
  BY MarksOnly
<1>2. slot # r BY DEF DeckInv, SlotHasOwner
<1> QED BY <1>1, <1>2, OverIsClean, Sizes, RunMoves, DeckFacts

\* What is stored under the name is, while nothing is deleted, the live upload.
LEMMA FetchSourceKeeps == ASSUME DeckInv, NEW r \in Runs, FetchSource(r) PROVE DeckInv'
<1> USE DEF FetchSource
<1>0. run[r] \in RunType /\ run \in [Runs -> RunType] BY DEF DeckInv, TypeOK, RunType
<1>1. store' \in StoreType /\ store'.manifest = store.manifest /\ store'.asset = store.asset
  BY MarksOnly
<1>2. slot # r BY DEF DeckInv, SlotHasOwner
<1>3. faults' \in 0..FaultLimit BY DeckFacts, FaultsCounted DEF Failed
<1>4. CASE run' = [run EXCEPT ![r] = Over]
  BY <1>1, <1>2, <1>3, <1>4, OverIsClean, Sizes, RunMoves, DeckFacts
<1>5. CASE source # 0 /\ run' = [run EXCEPT ![r].step = "mark", ![r].gen = source]
  <2>1. PICK w : w = [run[r] EXCEPT !.step = "mark", !.gen = source] OBVIOUS
  <2>2. source \in 0..MaxGen /\ source = material.gen
    BY <1>5 DEF DeckInv, TypeOK, SourceIsCurrent
  <2>3. w \in RunType /\ w.step = "mark" /\ w.gen = source /\ w.done = run[r].done
        /\ w.broken = run[r].broken
    BY <1>0, <2>1, <2>2 DEF RunType, Steps
  <2>4. run' = [run EXCEPT ![r] = w] BY <1>0, <1>5, <2>1 DEF RunType
  <2>5. BeginsClean(w) BY <2>3, DeckFacts DEF BeginsClean
  <2>6. run'[r] = w /\ run' \in [Runs -> RunType] /\ \A q \in Runs \ {r} : run'[q] = run[q]
    BY <1>0, <2>3, <2>4
  <2>7. TypeOK' BY <2>6, <1>3, <1>5 DEF DeckInv, TypeOK, RunType
  <2>8. SlotHasOwner' BY <1>2, <2>6 DEF DeckInv, SlotHasOwner
  <2>9. RunsBeginClean'
    <3> SUFFICES ASSUME NEW q \in Runs PROVE BeginsClean(run[q])' BY DEF RunsBeginClean
    <3>1. BeginsClean(run'[q]) BY <2>5, <2>6 DEF DeckInv, RunsBeginClean
    <3> QED BY <3>1 DEF BeginsClean, Assets
  <2>10. RunsWork'
    <3> SUFFICES ASSUME ~overtaken, NEW q \in Runs PROVE Works(run[q])' BY DEF RunsWork
    <3>1. Works(run[q]) /\ Works(run[r]) BY DEF DeckInv, RunsWork
    <3>2. CASE q # r BY <3>1, <3>2, <2>6 DEF Works
    <3>3. CASE q = r
      <4>1. w.done = {} BY <2>3, <2>5 DEF BeginsClean
      <4>2. material.live /\ delete = "none" BY <3>1 DEF Works, Steps
      <4> QED BY <3>3, <4>1, <4>2, <2>2, <2>3, <2>6 DEF Works
    <3> QED BY <3>2, <3>3
  <2>11. SourceIsCurrent' /\ ObjectsAreCurrent'
    BY DEF DeckInv, SourceIsCurrent, ObjectsAreCurrent, NothingStored, Assets
  <2> QED BY <2>7, <2>8, <2>9, <2>10, <2>11 DEF DeckInv
<1> QED BY <1>4, <1>5

-----------------------------------------------------------------------------
(* The objects and the manifest *)

\* An object is of the generation its conversion works on, which is the live one.
LEMMA PutAssetKeeps ==
  ASSUME DeckInv, NEW r \in Runs, NEW a \in Assets, PutAsset(r, a) PROVE DeckInv'
<1> USE DEF PutAsset
<1>0. /\ run[r] \in RunType /\ run \in [Runs -> RunType] /\ store \in StoreType
      /\ store.asset \in [1..Pages -> 0..MaxGen] /\ a \in 1..Pages
      /\ run[r].gen \in 0..MaxGen /\ run[r].broken \in BOOLEAN
  BY Sizes DEF DeckInv, TypeOK, RunType, StoreType
<1>1. /\ store' \in StoreType /\ store'.manifest = store.manifest
      /\ \A b \in 1..Pages : store'.asset[b] = store.asset[b]
                             \/ (b = a /\ store'.asset[b] = run[r].gen)
  <2>1. CASE store' = store BY <2>1, <1>0
  <2>2. CASE store' = [store EXCEPT !.asset[a] = run[r].gen]
    <3>1. PICK f : f = [store.asset EXCEPT ![a] = run[r].gen] OBVIOUS
    <3>2. f \in [1..Pages -> 0..MaxGen] /\ f[a] = run[r].gen
          /\ \A b \in 1..Pages : b # a => f[b] = store.asset[b]
      BY <3>1, <1>0
    <3>3. store' = [store EXCEPT !.asset = f] BY <2>2, <3>1
    <3>4. store' \in StoreType /\ store'.manifest = store.manifest /\ store'.asset = f
      BY <3>2, <3>3, <1>0 DEF StoreType
    <3> QED BY <3>2, <3>4
  <2>3. store' = store \/ store' = [store EXCEPT !.asset[a] = run[r].gen] OBVIOUS
  <2> QED BY <2>1, <2>2, <2>3
<1>2. PICK w \in RunType :
        /\ run' = [run EXCEPT ![r] = w] /\ w.step = "put" /\ w.gen = run[r].gen
        /\ w.done = run[r].done \union {a}
        /\ run[r].broken => w.broken
        /\ ~w.broken => store'.asset[a] = run[r].gen
  <2>1. CASE /\ store' = [store EXCEPT !.asset[a] = run[r].gen]
             /\ run' = [run EXCEPT ![r].done = @ \union {a}]
    <3>1. PICK w : w = [run[r] EXCEPT !.done = @ \union {a}] OBVIOUS
    <3>2. /\ w \in RunType /\ w.step = "put" /\ w.gen = run[r].gen
          /\ w.done = run[r].done \union {a} /\ w.broken = run[r].broken
      BY <3>1, <1>0 DEF RunType
    <3>3. run' = [run EXCEPT ![r] = w] BY <2>1, <3>1, <1>0 DEF RunType
    <3>4. store'.asset[a] = run[r].gen BY <2>1, <1>0 DEF StoreType
    <3> QED BY <3>2, <3>3, <3>4
  <2>2. CASE run' = [run EXCEPT ![r].done = @ \union {a}, ![r].broken = TRUE]
    <3>1. PICK w : w = [run[r] EXCEPT !.done = @ \union {a}, !.broken = TRUE] OBVIOUS
    <3>2. /\ w \in RunType /\ w.step = "put" /\ w.gen = run[r].gen
          /\ w.done = run[r].done \union {a} /\ w.broken
      BY <3>1, <1>0 DEF RunType
    <3>3. run' = [run EXCEPT ![r] = w] BY <2>2, <3>1, <1>0 DEF RunType
    <3> QED BY <3>2, <3>3
  <2> QED BY <2>1, <2>2
<1>3. run' \in [Runs -> RunType] /\ run'[r] = w /\ \A q \in Runs \ {r} : run'[q] = run[q]
  BY <1>0, <1>2
<1>4. TypeOK'
  <2>1. faults' \in 0..FaultLimit BY DeckFacts, FaultsCounted
  <2> QED BY <1>1, <1>3, <2>1 DEF DeckInv, TypeOK, StoreType, RunType
<1>5. SlotHasOwner' BY <1>2, <1>3 DEF DeckInv, SlotHasOwner
<1>6. SourceIsCurrent' BY DEF DeckInv, SourceIsCurrent
<1>7. RunsBeginClean'
  <2> SUFFICES ASSUME NEW q \in Runs PROVE BeginsClean(run[q])' BY DEF RunsBeginClean
  <2>1. BeginsClean(w) BY <1>2, DeckFacts DEF BeginsClean
  <2>2. BeginsClean(run'[q]) BY <2>1, <1>3, DeckFacts
  <2> QED BY <2>2 DEF BeginsClean, Assets
<1>8. ASSUME ~overtaken PROVE run[r].gen = material.gen /\ material.live /\ delete = "none"
  BY <1>8 DEF DeckInv, RunsWork, Works, Steps
<1>9. RunsWork'
  <2> SUFFICES ASSUME ~overtaken, NEW q \in Runs PROVE Works(run[q])' BY DEF RunsWork
  <2>1. Works(run[q]) /\ Works(run[r]) BY DEF DeckInv, RunsWork
  <2>2. \A b \in run[q].done : b \in 1..Pages BY DeckFacts, Sizes DEF BeginsClean
  <2>3. CASE q # r BY <2>1, <2>2, <2>3, <1>1, <1>3, <1>8 DEF Works
  <2>4. CASE q = r
    <3>1. \A b \in run[r].done : b \in 1..Pages BY <2>2, <2>4
    <3>2. ASSUME ~w.broken, NEW b \in w.done PROVE store'.asset[b] = material.gen
      <4>1. CASE b = a BY <4>1, <3>2, <1>2, <1>8
      <4>2. CASE b # a BY <4>2, <3>1, <3>2, <1>1, <1>2, <2>1 DEF Works, Steps
      <4> QED BY <4>1, <4>2
    <3> QED BY <2>4, <3>2, <1>2, <1>3, <1>8 DEF Works
  <2> QED BY <2>3, <2>4
<1>10. ObjectsAreCurrent'
  <2> SUFFICES ASSUME ~overtaken PROVE ObjectsAreCurrent' BY DEF ObjectsAreCurrent
  <2>1. run[r].gen = material.gen /\ material.live /\ delete = "none" BY <1>8
  <2>2. Assets' = Assets /\ Assets \subseteq 1..Pages BY Sizes DEF Assets
  <2> QED BY <1>1, <2>1, <2>2 DEF DeckInv, ObjectsAreCurrent
<1> QED BY <1>4, <1>5, <1>6, <1>7, <1>9, <1>10 DEF DeckInv

LEMMA PutManifestKeeps == ASSUME DeckInv, NEW r \in Runs, PutManifest(r) PROVE DeckInv'
<1> USE DEF PutManifest
<1>0. /\ run[r] \in RunType /\ store \in StoreType /\ run[r].gen \in 0..MaxGen
      /\ run \in [Runs -> RunType]
  BY DEF DeckInv, TypeOK, RunType, StoreType
<1>1. CASE store' = store /\ Go(r, "fail") /\ Failed
  <2>1. PICK w \in RunType :
          /\ run' = [run EXCEPT ![r] = w] /\ w.step = "fail" /\ w.gen = run[r].gen
          /\ w.done = run[r].done /\ w.broken = run[r].broken
    BY <1>1, Goes DEF Steps
  <2>2. BeginsClean(w) BY <2>1, DeckFacts DEF BeginsClean
  <2>3. faults' \in 0..FaultLimit BY <1>1, DeckFacts, FaultsCounted
  <2> QED BY <1>0, <1>1, <2>1, <2>2, <2>3, RunMoves, DeckFacts DEF Steps, Holding
<1>2. CASE store' = [store EXCEPT !.manifest = run[r].gen] /\ faults' = faults /\ Go(r, "tidy")
  <2>1. PICK w \in RunType :
          /\ run' = [run EXCEPT ![r] = w] /\ w.step = "tidy" /\ w.gen = run[r].gen
          /\ w.done = run[r].done /\ w.broken = run[r].broken
    BY <1>2, Goes DEF Steps
  <2>2. run' \in [Runs -> RunType] /\ run'[r] = w /\ \A q \in Runs \ {r} : run'[q] = run[q]
    BY <1>0, <2>1
  <2>3. store' \in StoreType /\ store'.manifest = run[r].gen /\ store'.asset = store.asset
    BY <1>0, <1>2 DEF StoreType
  <2>4. TypeOK' BY <1>2, <2>2, <2>3 DEF DeckInv, TypeOK, StoreType, RunType
  <2>5. SlotHasOwner' BY <2>1, <2>2 DEF DeckInv, SlotHasOwner
  <2>6. SourceIsCurrent' BY DEF DeckInv, SourceIsCurrent
  <2>7. RunsBeginClean'
    <3> SUFFICES ASSUME NEW q \in Runs PROVE BeginsClean(run[q])' BY DEF RunsBeginClean
    <3>1. BeginsClean(w) BY <2>1, DeckFacts DEF BeginsClean
    <3>2. BeginsClean(run'[q]) BY <3>1, <2>2, DeckFacts
    <3> QED BY <3>2 DEF BeginsClean, Assets
  <2>8. RunsWork'
    <3> SUFFICES ASSUME ~overtaken, NEW q \in Runs PROVE Works(run[q])' BY DEF RunsWork
    <3>1. Works(run[q]) /\ Works(run[r]) BY DEF DeckInv, RunsWork
    <3>2. CASE q # r BY <3>1, <3>2, <2>2, <2>3 DEF Works
    <3>3. CASE q = r BY <3>1, <3>3, <2>1, <2>2, <2>3 DEF Works, Steps
    <3> QED BY <3>2, <3>3
  <2>9. ObjectsAreCurrent'
    <3> SUFFICES ASSUME ~overtaken PROVE ObjectsAreCurrent' BY DEF ObjectsAreCurrent
    <3>1. Works(run[r]) /\ BeginsClean(run[r]) BY DeckFacts DEF DeckInv, RunsWork
    <3>2. /\ run[r].gen = material.gen /\ material.live /\ delete = "none"
          /\ \A a \in Assets : store.asset[a] = material.gen
      BY <3>1 DEF Works, BeginsClean, Steps
    <3>3. Assets' = Assets BY DEF Assets
    <3> QED BY <2>3, <3>2, <3>3 DEF DeckInv, ObjectsAreCurrent
  <2> QED BY <2>4, <2>5, <2>6, <2>7, <2>8, <2>9 DEF DeckInv
<1> QED BY <1>1, <1>2

LEMMA RunStepKeeps == ASSUME DeckInv, NEW r \in Runs, RunStep(r) PROVE DeckInv'
<1>1. ASSUME NEW a \in Assets, PutSlide(r, a) \/ SaveSlide(r, a) \/ PutAsset(r, a)
      PROVE  DeckInv'
  BY <1>1, PutAssetKeeps DEF PutSlide, SaveSlide
<1>2. CASE StorePDF(r) BY <1>2, Sizes, PutAssetKeeps DEF StorePDF
<1> QED BY <1>1, <1>2, FetchSourceKeeps, MarkKeeps, ClearFailureKeeps, TakeSlotKeeps,
           NoConverterKeeps, ConvertKeeps, PutsDoneKeeps, PutManifestKeeps,
           ClearFailureAgainKeeps, WriteFailureKeeps, UnmarkKeeps DEF RunStep

-----------------------------------------------------------------------------
(* Requests, the deletion, the death of the process *)

\* A conversion that is started: its row was unused.
LEMMA Starts ==
  ASSUME DeckInv, NEW r \in Runs, NextRun(r), NEW s \in Steps, NEW g \in 0..MaxGen,
         run' = [run EXCEPT ![r].step = s, ![r].gen = g]
  PROVE  \E w \in RunType :
           /\ w.step = s /\ w.gen = g /\ w.done = {} /\ ~w.broken
           /\ run' \in [Runs -> RunType] /\ run'[r] = w
           /\ \A q \in Runs \ {r} : run'[q] = run[q]
<1>1. run[r] \in RunType /\ run \in [Runs -> RunType] BY DEF DeckInv, TypeOK, RunType
<1>2. PICK w : w = [run[r] EXCEPT !.step = s, !.gen = g] OBVIOUS
<1>3. run[r].done = {} /\ ~run[r].broken BY DeckFacts DEF BeginsClean, NextRun
<1>4. w \in RunType /\ w.step = s /\ w.gen = g /\ w.done = {} /\ ~w.broken
  BY <1>1, <1>2, <1>3 DEF RunType
<1>5. run' = [run EXCEPT ![r] = w] BY <1>1, <1>2 DEF RunType
<1> QED BY <1>1, <1>4, <1>5

LEMMA StartedIsClean ==
  ASSUME DeckInv, NEW r \in Runs, NEW w, NextRun(r), UNCHANGED setup,
         w.step \in {"fetch", "mark"}, w.done = {}, ~w.broken,
         run' \in [Runs -> RunType], run'[r] = w, \A q \in Runs \ {r} : run'[q] = run[q],
         UNCHANGED slot
  PROVE  RunsBeginClean' /\ SlotHasOwner'
<1>1. SlotHasOwner' BY DEF DeckInv, SlotHasOwner, NextRun
<1>2. ASSUME NEW q \in Runs PROVE BeginsClean(run[q])'
  <2>1. BeginsClean(w) BY DEF BeginsClean
  <2>2. BeginsClean(run'[q]) BY <2>1, DeckFacts
  <2> QED BY <2>2 DEF BeginsClean, Assets
<1> QED BY <1>1, <1>2 DEF RunsBeginClean

\* A file is uploaded again when the row is gone: nothing works on the old one then,
\* and nothing of it is left, unless the deletion was overtaken.
LEMMA UploadKeeps == ASSUME DeckInv, NEW r \in Runs, Upload(r) PROVE DeckInv'
<1> USE DEF Upload
<1>1. PICK g \in 0..MaxGen : g = material.gen + 1
  BY DeckAssumption DEF DeckInv, TypeOK
<1>2. PICK w \in RunType :
        /\ w.step = "mark" /\ w.gen = g /\ w.done = {} /\ ~w.broken
        /\ run' \in [Runs -> RunType] /\ run'[r] = w
        /\ \A q \in Runs \ {r} : run'[q] = run[q]
  <2>1. run' = [run EXCEPT ![r].step = "mark", ![r].gen = g] BY <1>1
  <2>2. NextRun(r) /\ "mark" \in Steps BY DEF Steps
  <2> HIDE DEF Upload
  <2> QED BY <2>1, <2>2, Starts
<1>3. RunsBeginClean' /\ SlotHasOwner' BY <1>2, StartedIsClean
<1>4. material' = [gen |-> g, live |-> TRUE] /\ source' = g BY <1>1
<1>5. TypeOK' BY <1>2, <1>4 DEF DeckInv, TypeOK, RunType
<1>6. SourceIsCurrent' BY <1>4 DEF SourceIsCurrent
<1>7. RunsWork'
  <2> SUFFICES ASSUME ~overtaken, NEW q \in Runs PROVE Works(run[q])' BY DEF RunsWork
  <2>1. Works(run[q]) BY DEF DeckInv, RunsWork
  <2>2. CASE q # r
    <3>1. run[q].step \notin Steps BY <2>1 DEF Works
    <3>2. run'[q] = run[q] BY <2>2, <1>2
    <3> QED BY <3>1, <3>2 DEF Works
  <2>3. CASE q = r
    <3>1. material'.live /\ material'.gen = g /\ delete' = "none" BY <1>4
    <3>2. run'[q] = w BY <2>3, <1>2
    <3> HIDE DEF Upload
    <3> QED BY <3>1, <3>2, <1>2 DEF Works
  <2> QED BY <2>2, <2>3
<1>8. ObjectsAreCurrent'
  <2> SUFFICES ASSUME ~overtaken PROVE ObjectsAreCurrent' BY DEF ObjectsAreCurrent
  <2>1. NothingStored BY DEF DeckInv, ObjectsAreCurrent
  <2> QED BY <2>1, <1>4, Sizes DEF ObjectsAreCurrent, NothingStored
<1> QED BY <1>3, <1>5, <1>6, <1>7, <1>8 DEF DeckInv

LEMMA RetryKeeps == ASSUME DeckInv, NEW r \in Runs, RetryMaterialSlides(r) PROVE DeckInv'
<1> USE DEF RetryMaterialSlides
<1>1. material.gen \in 0..MaxGen BY DEF DeckInv, TypeOK
<1>2. PICK s \in {"fetch", "mark"} :
        run' = [run EXCEPT ![r].step = s, ![r].gen = material.gen]
  <2>1. CASE setup.storage = "r2" BY <2>1
  <2>2. CASE setup.storage # "r2" BY <2>2
  <2> QED BY <2>1, <2>2
<1>3. PICK w \in RunType :
        /\ w.step = s /\ w.gen = material.gen /\ w.done = {} /\ ~w.broken
        /\ run' \in [Runs -> RunType] /\ run'[r] = w
        /\ \A q \in Runs \ {r} : run'[q] = run[q]
  <2>1. NextRun(r) /\ s \in Steps BY DEF Steps
  <2> HIDE DEF RetryMaterialSlides
  <2> QED BY <2>1, <1>1, <1>2, Starts
<1>4. RunsBeginClean' /\ SlotHasOwner' BY <1>3, StartedIsClean
<1>5. TypeOK' BY <1>3 DEF DeckInv, TypeOK, RunType
<1>6. SourceIsCurrent' BY DEF DeckInv, SourceIsCurrent
<1>7. RunsWork'
  <2> SUFFICES ASSUME ~overtaken', NEW q \in Runs PROVE Works(run[q])' BY DEF RunsWork
  <2>1. ~overtaken /\ delete = "none" OBVIOUS
  <2>2. Works(run[q]) BY <2>1 DEF DeckInv, RunsWork
  <2>3. CASE q # r BY <2>2, <2>3, <1>3 DEF Works
  <2>4. CASE q = r BY <2>1, <2>4, <1>3 DEF Works
  <2> QED BY <2>3, <2>4
<1>8. ObjectsAreCurrent' BY DEF DeckInv, ObjectsAreCurrent, NothingStored, Assets
<1> QED BY <1>4, <1>5, <1>6, <1>7, <1>8 DEF DeckInv

\* What a step leaves that moves no conversion: the clean starts and the slot.
LEMMA RunsStay ==
  ASSUME DeckInv, UNCHANGED <<setup, run, slot>>
  PROVE  RunsBeginClean' /\ SlotHasOwner'
  BY DEF DeckInv, RunsBeginClean, BeginsClean, SlotHasOwner, Assets

LEMMA DeleteSourceKeeps == ASSUME DeckInv, DeleteSource PROVE DeckInv'
<1> USE DEF DeleteSource
<1>1. TypeOK'
  <2>1. faults' \in 0..FaultLimit BY DeckFacts, FaultsCounted
  <2>2. source' \in 0..MaxGen BY Sizes DEF DeckInv, TypeOK
  <2> QED BY <2>1, <2>2 DEF DeckInv, TypeOK
<1>2. RunsBeginClean' /\ SlotHasOwner' BY RunsStay
<1>3. SourceIsCurrent' BY DEF DeckInv, SourceIsCurrent
<1>4. RunsWork' BY DEF RunsWork, Works, Converting, Alive
<1>5. ObjectsAreCurrent' BY DEF DeckInv, ObjectsAreCurrent, NothingStored, Assets
<1> QED BY <1>1, <1>2, <1>3, <1>4, <1>5 DEF DeckInv

LEMMA DeletePrefixKeeps == ASSUME DeckInv, DeletePrefix PROVE DeckInv'
<1> USE DEF DeletePrefix
<1>1. TypeOK'
  <2>1. faults' \in 0..FaultLimit BY DeckFacts, FaultsCounted
  <2>2. store' \in StoreType BY Sizes DEF DeckInv, TypeOK, StoreType
  <2> QED BY <2>1, <2>2 DEF DeckInv, TypeOK, StoreType
<1>2. RunsBeginClean' /\ SlotHasOwner' BY RunsStay
<1>3. SourceIsCurrent' BY DEF DeckInv, SourceIsCurrent
<1>4. RunsWork' BY DEF RunsWork, Works, Converting, Alive
<1>5. ObjectsAreCurrent'
  <2> SUFFICES ASSUME ~overtaken' PROVE ObjectsAreCurrent' BY DEF ObjectsAreCurrent
  <2>1. store' = Empty OBVIOUS
  <2> QED BY <2>1, Sizes DEF ObjectsAreCurrent, NothingStored, Empty
<1> QED BY <1>1, <1>2, <1>3, <1>4, <1>5 DEF DeckInv

LEMMA SoftDeleteKeeps == ASSUME DeckInv, SoftDelete PROVE DeckInv'
<1> USE DEF SoftDelete
<1>1. material' \in [gen : 0..MaxGen, live : BOOLEAN] /\ material'.gen = material.gen
  BY DEF DeckInv, TypeOK
<1>2. TypeOK' BY <1>1 DEF DeckInv, TypeOK
<1>3. RunsBeginClean' /\ SlotHasOwner' BY RunsStay
<1>4. SourceIsCurrent' BY <1>1 DEF DeckInv, SourceIsCurrent
<1>5. RunsWork' BY DEF RunsWork, Works, Converting, Alive
<1>6. ObjectsAreCurrent' BY <1>1 DEF DeckInv, ObjectsAreCurrent, NothingStored, Assets
<1> QED BY <1>2, <1>3, <1>4, <1>5, <1>6 DEF DeckInv

LEMMA CrashKeeps == ASSUME DeckInv, Crash PROVE DeckInv'
<1> USE DEF Crash
<1>0. run \in [Runs -> RunType] BY DEF DeckInv, TypeOK, RunType
<1>1. run' \in [Runs -> RunType] BY <1>0, Sizes
<1>2. \A r \in Runs : run'[r] = Over \/ (run'[r] = run[r] /\ ~Alive(r)) OBVIOUS
<1>3. TypeOK'
  <2>1. faults' \in 0..FaultLimit /\ silent' \in BOOLEAN BY DeckFacts, FaultsCounted
  <2> QED BY <1>1, <2>1 DEF DeckInv, TypeOK, RunType
<1>4. SlotHasOwner' BY Sizes DEF SlotHasOwner
<1>5. SourceIsCurrent' BY DEF DeckInv, SourceIsCurrent
<1>6. RunsBeginClean'
  <2> SUFFICES ASSUME NEW r \in Runs PROVE BeginsClean(run[r])' BY DEF RunsBeginClean
  <2>1. BeginsClean(run'[r]) BY <1>2, OverIsClean, DeckFacts
  <2> QED BY <2>1 DEF BeginsClean, Assets
<1>7. RunsWork' BY <1>2, OverIsClean DEF RunsWork, Works, Alive, Steps
<1>8. ObjectsAreCurrent' BY DEF DeckInv, ObjectsAreCurrent, NothingStored, Assets
<1> QED BY <1>3, <1>4, <1>5, <1>6, <1>7, <1>8 DEF DeckInv

\* The status request and the age of the marker change marks only.
LEMMA StatusKeeps == ASSUME DeckInv, GrowStale \/ StatusStep PROVE DeckInv'
<1> USE DEF GrowStale, StatusStep, AskStatus, ReadMarker, WriteStranded, SweepMarker
<1>1. store' \in StoreType /\ store'.manifest = store.manifest /\ store'.asset = store.asset
  BY MarksOnly
<1>2. TypeOK'
  <2>1. status' \in {"none", "marker?", "stranded", "sweep"} BY DEF DeckInv, TypeOK
  <2> QED BY <1>1, <2>1 DEF DeckInv, TypeOK, StoreType
<1>3. RunsBeginClean' /\ SlotHasOwner' BY RunsStay
<1>4. SourceIsCurrent' BY DEF DeckInv, SourceIsCurrent
<1>5. UNCHANGED <<run, material, delete, overtaken, setup>> OBVIOUS
<1>6. RunsWork' BY <1>1, <1>5 DEF DeckInv, RunsWork, Works
<1>7. ObjectsAreCurrent' BY <1>1, <1>5 DEF DeckInv, ObjectsAreCurrent, NothingStored, Assets
<1> QED BY <1>2, <1>3, <1>4, <1>6, <1>7 DEF DeckInv

-----------------------------------------------------------------------------
LEMMA NextKeeps == ASSUME DeckInv, [Next]_vars PROVE DeckInv'
<1>1. CASE UNCHANGED vars
  <2> USE <1>1 DEF vars
  <2>1. TypeOK' BY DEF DeckInv, TypeOK
  <2>2. RunsBeginClean' /\ SlotHasOwner' BY RunsStay
  <2>3. SourceIsCurrent' BY DEF DeckInv, SourceIsCurrent
  <2>4. RunsWork' BY DEF DeckInv, RunsWork, Works
  <2>5. ObjectsAreCurrent' BY DEF DeckInv, ObjectsAreCurrent, NothingStored, Assets
  <2> QED BY <2>1, <2>2, <2>3, <2>4, <2>5 DEF DeckInv
<1>2. CASE Next
  BY <1>2, UploadKeeps, RetryKeeps, RunStepKeeps, DeleteSourceKeeps, DeletePrefixKeeps,
     SoftDeleteKeeps, CrashKeeps, StatusKeeps DEF Next, DeleteStep
<1> QED BY <1>1, <1>2

(* The invariant holds of every state of the specification. *)
THEOREM DeckSafety == Spec => []DeckInv
  BY InitInv, NextKeeps, PTL DEF Spec

(* Rows, objects, conversions and requests keep to their types.             *)
THEOREM TypeCorrect == Spec => []TypeOK
<1>1. DeckInv => TypeOK BY DEF DeckInv
<1> QED BY <1>1, DeckSafety, PTL

(* A ready deck is whole and of the stored file, and the conversion slot is *)
(* never left with a conversion that is over.                               *)
THEOREM DecksAreWhole == Spec => []DecksHold
<1>1. ASSUME DeckInv PROVE DecksHold
  <2>1. ASSUME material.live, delete = "none", Shown = "ready", ~overtaken
        PROVE  /\ DeckListed /\ PdfServed
               /\ \A a \in Assets : ImageServed(a)
               /\ \A a \in Assets : store.asset[a] = store.manifest
               /\ store.manifest = material.gen
    <3>1. store.manifest # 0 BY <2>1 DEF Shown
    <3>2. store.manifest = material.gen /\ \A a \in Assets : store.asset[a] = material.gen
      BY <2>1, <3>1, <1>1 DEF DeckInv, ObjectsAreCurrent
    <3> QED BY <3>1, <3>2, Sizes DEF DeckListed, PdfServed, ImageServed
  <2> QED BY <2>1, <1>1 DEF DecksHold, ReadyDeckIsWhole, DeckInv
<1> QED BY <1>1, DeckSafety, PTL
==============================================================================
