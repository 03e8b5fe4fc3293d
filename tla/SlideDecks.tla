------------------------------ MODULE SlideDecks ------------------------------
(***************************************************************************)
(* The slide deck of a PowerPoint material: the goroutines that convert it *)
(* (of the upload and of every retry), the one conversion slot of the      *)
(* process, the objects beside the file that say how far a conversion is   *)
(* (manifest.json, failed.json, processing.json), the request that reads   *)
(* them, and the deletion of the material.  A file name gives the storage  *)
(* key, so a file uploaded again after a deletion uses the same objects.   *)
(***************************************************************************)
EXTENDS Naturals, FiniteSets

CONSTANTS
  MaxRuns,     \* bound of the model: conversions that are started
  Pages,       \* slides of a deck
  MaxGen,      \* bound of the model: uploads under the file name
  FaultLimit,  \* bound of the model: storage and converter failures, and deaths
  Setups,      \* the deployments looked at
  NoRun

ASSUME DeckAssumption ==
  /\ Pages \in Nat \ {0} /\ MaxGen \in Nat \ {0} /\ FaultLimit \in Nat
  /\ MaxRuns \in Nat
  /\ Setups \subseteq [pipeline : {"pngs", "pdf"}, storage : {"r2", "local"}]
  /\ NoRun \notin Nat

VARIABLES
  setup,       \* the deployment: pipeline "pngs" or "pdf", objects in "r2" or "local" files
  material,    \* the newest row under the file name: its generation, and whether it is live
  source,      \* generation of the stored file, 0 when there is none
  store,       \* the derived objects, each with the generation it was made from
  run,
  slot,        \* slideConversionSem
  status,      \* a request that computes the status, step by step
  delete,      \* the deletion of the material, step by step
  faults,
  overtaken,   \* history: a deletion ran beside a conversion, or left its objects
  silent       \* history: the marks that would end the waiting were never written, or taken away

vars == <<setup, material, source, store, run, slot, status, delete, faults, overtaken, silent>>

Runs == 1..MaxRuns

\* mutant: slides are numbered from 0
FromZero == 0..(Pages - 1)

Assets == IF setup.pipeline = "pdf" THEN {1} ELSE 1..Pages

Steps == {"fetch", "mark", "clear", "wait", "convert", "put", "manifest", "tidy", "fail", "unmark"}
Alive(r) == run[r].step \in Steps
Converting == \E r \in Runs : Alive(r)
At(step) == [step |-> step, gen |-> 0, done |-> {}, broken |-> FALSE, queued |-> FALSE]
Over == At("over")
NextRun(r) == run[r].step = "unused" /\ \A q \in Runs : q < r => run[q].step # "unused"

MayFail == faults < FaultLimit
Failed == MayFail /\ faults' = faults + 1

\* GetSlidesStatus, as the four objects would answer it at once.
Shown ==
  IF store.manifest # 0 THEN "ready"
  ELSE IF store.failed THEN "failed"
  ELSE "processing"

\* GetMaterialSlides looks for the manifest; in R2, and for a PDF, for the first object too.
DeckListed ==
  /\ store.manifest # 0
  /\ setup # [pipeline |-> "pngs", storage |-> "local"] => store.asset[1] # 0

\* GetMaterialSlideImage and GetMaterialSlidePDF serve the files of local storage.
ImageServed(a) == setup = [pipeline |-> "pngs", storage |-> "local"] => store.asset[a] # 0
PdfServed == setup = [pipeline |-> "pdf", storage |-> "local"] => store.asset[1] # 0

-----------------------------------------------------------------------------
(* Requests *)

\* The file is stored, the row is created and the conversion is started.
Upload(r) ==
  /\ ~material.live /\ delete = "none"
  /\ material.gen < MaxGen
  /\ NextRun(r)
  /\ material' = [gen |-> material.gen + 1, live |-> TRUE]
  /\ source' = material.gen + 1
  /\ run' = [run EXCEPT ![r].step = "mark", ![r].gen = material.gen + 1]
  /\ UNCHANGED <<setup, store, slot, status, delete, faults, overtaken, silent>>

\* Nothing keeps a retry from starting beside another conversion.
RetryMaterialSlides(r) ==
  /\ material.live
  /\ NextRun(r)
  /\ run' = [run EXCEPT ![r].step = IF setup.storage = "r2" THEN "fetch" ELSE "mark",
                        ![r].gen = material.gen]
  /\ overtaken' = (overtaken \/ delete # "none")
  /\ UNCHANGED <<setup, material, source, store, slot, status, delete, faults, silent>>

\* A retry reads the file that is stored under the key when it comes to it.
FetchSource(r) ==
  /\ run[r].step = "fetch"
  /\ \/ /\ source # 0
        /\ run' = [run EXCEPT ![r].step = "mark", ![r].gen = source]
        /\ faults' = faults
     \/ /\ source = 0 \/ MayFail
        /\ run' = [run EXCEPT ![r] = Over]
        /\ faults' = IF source = 0 THEN faults ELSE faults + 1
  /\ UNCHANGED <<setup, material, source, store, slot, status, delete, overtaken, silent>>

-----------------------------------------------------------------------------
(* The deletion: the file, the derived objects, the row *)

\* Best effort: an error of the storage is logged. (The last upload of the model stays.)
DeleteSource ==
  /\ material.live /\ delete = "none"
  /\ material.gen < MaxGen
  /\ \/ source' = 0 /\ faults' = faults
     \/ Failed /\ source' = source
  /\ delete' = "prefix"
  /\ overtaken' = (overtaken \/ Converting)
  /\ UNCHANGED <<setup, material, store, run, slot, status, silent>>

Empty == [manifest |-> 0, asset |-> [a \in 1..Pages |-> 0], failed |-> FALSE, processing |-> "none"]

DeletePrefix ==
  /\ delete = "prefix"
  /\ \/ store' = Empty /\ overtaken' = (overtaken \/ Converting) /\ faults' = faults
     \/ Failed /\ store' = store /\ overtaken' = TRUE
  /\ delete' = "row"
  /\ UNCHANGED <<setup, material, source, run, slot, status, silent>>

SoftDelete ==
  /\ delete = "row"
  /\ material' = [material EXCEPT !.live = FALSE]
  /\ delete' = "none"
  /\ overtaken' = (overtaken \/ Converting)
  /\ silent' = FALSE
  /\ UNCHANGED <<setup, source, store, run, slot, status, faults>>

-----------------------------------------------------------------------------
(* A conversion *)

Go(r, step) == run' = [run EXCEPT ![r].step = step]

\* Markers are written on a best effort: nobody looks at the error.
Mark(r) ==
  /\ run[r].step = "mark"
  /\ \/ store' = [store EXCEPT !.processing = "fresh"] /\ faults' = faults
     \/ Failed /\ store' = store
  /\ Go(r, "clear")
  /\ UNCHANGED <<setup, material, source, slot, status, delete, overtaken, silent>>

\* It has to queue behind the conversion that has the slot, or behind other decks.
ClearFailure(r) ==
  /\ run[r].step = "clear"
  /\ store' = [store EXCEPT !.failed = FALSE]
  /\ \E queue \in BOOLEAN :
       /\ slot # NoRun => queue
       /\ run' = [run EXCEPT ![r].step = "wait", ![r].queued = queue]
  /\ UNCHANGED <<setup, material, source, slot, status, delete, faults, overtaken, silent>>

TakeSlot(r) ==
  /\ run[r].step = "wait"
  /\ slot = NoRun
  /\ slot' = r
  /\ Go(r, "convert")
  /\ UNCHANGED <<setup, material, source, store, status, delete, faults, overtaken, silent>>

\* Neither unoconv nor soffice is installed: found out before the slot is asked for.
NoConverter(r) ==
  /\ run[r].step = "wait"
  /\ Failed
  /\ Go(r, "fail")
  /\ UNCHANGED <<setup, material, source, store, slot, status, delete, overtaken, silent>>

\* unoconv or soffice, and pdftoppm, within their time limits; the images are in
\* memory when the slot is given back.
ConvertToImages(r) ==
  /\ run[r].step = "convert" /\ setup.pipeline = "pngs"
  /\ \/ Go(r, "put") /\ faults' = faults
     \/ Failed /\ Go(r, "fail")
  /\ slot' = NoRun
  /\ UNCHANGED <<setup, material, source, store, status, delete, overtaken, silent>>

\* The slot is kept with the PDF, for the caller's clean-up to give back.
ConvertToPDF(r) ==
  /\ run[r].step = "convert" /\ setup.pipeline = "pdf"
  /\ \/ Go(r, "put") /\ slot' = slot /\ faults' = faults
     \/ Failed /\ Go(r, "fail") /\ slot' = NoRun
  /\ UNCHANGED <<setup, material, source, store, status, delete, overtaken, silent>>

PutAsset(r, a) ==
  /\ run[r].step = "put"
  /\ a \in Assets \ run[r].done
  /\ \/ /\ store' = [store EXCEPT !.asset[a] = run[r].gen]
        /\ run' = [run EXCEPT ![r].done = @ \union {a}]
        /\ faults' = faults
     \/ /\ Failed
        /\ store' = store
        /\ run' = [run EXCEPT ![r].done = @ \union {a}, ![r].broken = TRUE]
  /\ UNCHANGED <<setup, material, source, slot, status, delete, overtaken, silent>>

\* One goroutine per slide.
PutSlide(r, a) == setup = [pipeline |-> "pngs", storage |-> "r2"] /\ PutAsset(r, a)

\* One file after the other, to the first that fails.
SaveSlide(r, a) ==
  /\ setup = [pipeline |-> "pngs", storage |-> "local"]
  /\ ~run[r].broken
  /\ \A b \in Assets \ run[r].done : a <= b
  /\ PutAsset(r, a)

StorePDF(r) == setup.pipeline = "pdf" /\ PutAsset(r, 1)

\* mutant: the manifest is written before every slide has been stored
AllPutButLast(r) == Cardinality(Assets \ run[r].done) <= 1

AllPut(r) == \/ run[r].done = Assets
             \/ setup.storage = "local" /\ run[r].broken

PutsDone(r) ==
  /\ run[r].step = "put"
  /\ AllPut(r)
  /\ Go(r, IF run[r].broken THEN "fail" ELSE "manifest")
  /\ UNCHANGED <<setup, material, source, store, slot, status, delete, faults, overtaken, silent>>

PutManifest(r) ==
  /\ run[r].step = "manifest"
  /\ \/ /\ store' = [store EXCEPT !.manifest = run[r].gen]
        /\ faults' = faults
        /\ Go(r, "tidy")
     \/ Failed /\ store' = store /\ Go(r, "fail")
  /\ UNCHANGED <<setup, material, source, slot, status, delete, overtaken, silent>>

Release(r) == slot' = IF slot = r THEN NoRun ELSE slot

\* A conversion whose manifest a deletion took away clears the failure of another.
ClearFailureAgain(r) ==
  /\ run[r].step = "tidy"
  /\ store' = [store EXCEPT !.failed = FALSE]
  /\ silent' = (silent \/ (store.failed /\ store.manifest = 0))
  /\ Release(r)
  /\ Go(r, "unmark")
  /\ UNCHANGED <<setup, material, source, status, delete, faults, overtaken>>

WriteFailure(r) ==
  /\ run[r].step = "fail"
  /\ \/ store' = [store EXCEPT !.failed = TRUE] /\ faults' = faults /\ silent' = silent
     \/ Failed /\ store' = store /\ silent' = TRUE
  /\ Release(r)
  /\ Go(r, "unmark")
  /\ UNCHANGED <<setup, material, source, status, delete, overtaken>>

\* The deferred removal of the marker, whoever wrote it.
Unmark(r) ==
  /\ run[r].step = "unmark"
  /\ store' = [store EXCEPT !.processing = "none"]
  /\ run' = [run EXCEPT ![r] = Over]
  /\ UNCHANGED <<setup, material, source, slot, status, delete, faults, overtaken, silent>>

RunStep(r) ==
  \/ FetchSource(r) \/ Mark(r) \/ ClearFailure(r) \/ TakeSlot(r) \/ NoConverter(r)
  \/ ConvertToImages(r) \/ ConvertToPDF(r)
  \/ \E a \in Assets : PutSlide(r, a) \/ SaveSlide(r, a)
  \/ StorePDF(r)
  \/ PutsDone(r) \/ PutManifest(r) \/ ClearFailureAgain(r) \/ WriteFailure(r) \/ Unmark(r)

\* The process is killed with every conversion and request in it; it is started
\* again at once.
Crash ==
  /\ Converting \/ delete # "none"
  /\ Failed
  /\ run' = [r \in Runs |-> IF Alive(r) THEN Over ELSE run[r]]
  /\ slot' = NoRun
  /\ silent' = (silent \/ (Shown = "processing" /\ store.processing = "none"))
  /\ status' = "none" /\ delete' = "none"
  /\ UNCHANGED <<setup, material, source, store, overtaken>>

-----------------------------------------------------------------------------
(* The status request, and the age of the marker *)

\* SlidesStaleProcessingThreshold: a conversion that gets the slot at once is
\* over by then, as the code expects; one that had to queue may not be.
GrowStale ==
  /\ store.processing = "fresh"
  /\ \A r \in Runs : Alive(r) => run[r].queued
  /\ store' = [store EXCEPT !.processing = "stale"]
  /\ UNCHANGED <<setup, material, source, run, slot, status, delete, faults, overtaken, silent>>

\* mutant: an old marker is never given up
NeverStale == FALSE

IsStale == store.processing = "stale"

\* The manifest, failed.json and the marker are looked at one after the other; it
\* is the reading of the marker that what follows may be too late for.
AskStatus ==
  /\ material.live /\ status = "none"
  /\ Shown = "processing"
  /\ status' = "marker?"
  /\ UNCHANGED <<setup, material, source, store, run, slot, delete, faults, overtaken, silent>>

ReadMarker ==
  /\ status = "marker?"
  /\ status' = IF IsStale THEN "stranded" ELSE "none"
  /\ UNCHANGED <<setup, material, source, store, run, slot, delete, faults, overtaken, silent>>

WriteStranded ==
  /\ status = "stranded"
  /\ store' = [store EXCEPT !.failed = TRUE]
  /\ status' = "sweep"
  /\ UNCHANGED <<setup, material, source, run, slot, delete, faults, overtaken, silent>>

SweepMarker ==
  /\ status = "sweep"
  /\ store' = [store EXCEPT !.processing = "none"]
  /\ status' = "none"
  /\ UNCHANGED <<setup, material, source, run, slot, delete, faults, overtaken, silent>>

StatusStep == AskStatus \/ ReadMarker \/ WriteStranded \/ SweepMarker

-----------------------------------------------------------------------------
Init ==
  /\ setup \in Setups
  /\ material = [gen |-> 0, live |-> FALSE]
  /\ source = 0
  /\ store = Empty
  /\ run = [r \in Runs |-> At("unused")]
  /\ slot = NoRun
  /\ status = "none" /\ delete = "none"
  /\ faults = 0
  /\ overtaken = FALSE /\ silent = FALSE

DeleteStep == DeleteSource \/ DeletePrefix \/ SoftDelete

Next ==
  \/ \E r \in Runs : Upload(r) \/ RetryMaterialSlides(r) \/ RunStep(r)
  \/ DeleteStep
  \/ Crash
  \/ GrowStale \/ StatusStep

Spec == Init /\ [][Next]_vars

\* Goroutines run on, time passes, and somebody
\* keeps looking at the session; nobody has to upload, retry or delete.
Fairness ==
  /\ \A r \in Runs : WF_vars(RunStep(r)) /\ SF_vars(TakeSlot(r))
  /\ WF_vars(GrowStale) /\ WF_vars(StatusStep)
  /\ WF_vars(DeletePrefix \/ SoftDelete)

FairSpec == Spec /\ Fairness

-----------------------------------------------------------------------------
TypeOK ==
  /\ setup \in Setups
  /\ material \in [gen : 0..MaxGen, live : BOOLEAN]
  /\ source \in 0..MaxGen
  /\ store \in [manifest : 0..MaxGen, asset : [1..Pages -> 0..MaxGen],
                failed : BOOLEAN, processing : {"none", "fresh", "stale"}]
  /\ run \in [Runs -> [step : Steps \union {"unused", "over"}, gen : 0..MaxGen,
                       done : SUBSET (1..Pages), broken : BOOLEAN, queued : BOOLEAN]]
  /\ slot \in Runs \union {NoRun}
  /\ status \in {"none", "marker?", "stranded", "sweep"}
  /\ delete \in {"none", "prefix", "row"}
  /\ faults \in 0..FaultLimit
  /\ overtaken \in BOOLEAN /\ silent \in BOOLEAN

\* A deck shown as ready can be served whole, from the file that is stored now
\* and in the same generation throughout, however many conversions run beside
\* each other, unless a deletion ran beside one of them or left
\* the old objects (session_materials.go:766-768, 864-910).
ReadyDeckIsWhole ==
  material.live /\ delete = "none" /\ Shown = "ready" /\ ~overtaken =>
    /\ DeckListed /\ PdfServed
    /\ \A a \in Assets : ImageServed(a)
    /\ \A a \in Assets : store.asset[a] = store.manifest
    /\ store.manifest = material.gen

\* Whoever holds the conversion slot is a conversion in progress: no way out of
\* the converter, and no failure after it, keeps the slot
\* (slides_converter.go:556-561, 706-735).
SlotHasOwner == slot \in Runs => run[slot].step \in {"convert", "put", "manifest", "tidy", "fail"}

\* Decks and the converter's slot, through any runs, deletions and faults.
DecksHold == ReadyDeckIsWhole /\ SlotHasOwner

\* A live deck does not stay "processing": it becomes ready or failed, also when
\* the process dies in the middle, unless the conversion left no mark at all
\* (session_materials.go:1203-1210, 1311-1320).
DeckSettles == material.live /\ Shown = "processing" ~>
                 Shown # "processing" \/ ~material.live \/ silent

\* What the code says of the threshold: only a conversion that was killed is
\* older than it, so none is given up while it runs (session_materials.go:1207-1209).
StrandedIsDead == [][status = "marker?" /\ status' = "stranded" => ~Converting]_vars
===============================================================================
