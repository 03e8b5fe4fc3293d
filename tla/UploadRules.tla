------------------------------ MODULE UploadRules ------------------------------
(***************************************************************************)
(* What SessionUploadMaterial does with a file by its extension, content   *)
(* type and first bytes: where its text comes from, the status the new row *)
(* gets, and whether an extraction job is made for it.                     *)
(***************************************************************************)
EXTENDS Naturals

ImageExts == {".png"}
VideoExts == {".mp4"}
SpreadsheetExts == {".csv", ".xls", ".xlsx"}
Exts == ImageExts \union VideoExts \union SpreadsheetExts
          \union {".txt", ".pdf", ".docx", ".pptx", ".ppt", ".other"}
ContentTypes == {"image", "video", "csv", "text", "pdf", "office", "other"}

\* "magic": the first bytes are those of an image; "sidecar": markitdown is
\* configured, for images and for files; "readable", "parsed": the outcome of
\* reading the file back and of extracting its text while the request waits.
FileKinds == [ext : Exts, type : ContentTypes, magic : BOOLEAN,
              imageSidecar : BOOLEAN, fileSidecar : BOOLEAN,
              readable : BOOLEAN, parsed : BOOLEAN]

IsImage(f) == f.magic \/ f.type = "image" \/ f.ext \in ImageExts
IsVideo(f) == f.type = "video" \/ f.ext \in VideoExts
IsOffice(f) == f.ext \in {".docx", ".xlsx", ".pptx"} \/ f.type = "office"
IsPDF(f) == f.type = "pdf" \/ f.ext = ".pdf"

ImageGate(f) == IsImage(f) /\ f.imageSidecar
FileGate(f) == f.ext \in SpreadsheetExts /\ f.fileSidecar

\* The first case of the switch that applies.
Route(f) ==
  IF ImageGate(f) THEN "sidecar"
  ELSE IF IsImage(f) THEN "as it is"
  ELSE IF f.ext = ".csv" \/ f.type = "csv" THEN "csv"
  ELSE IF f.ext = ".xls" THEN "xls"
  ELSE IF FileGate(f) THEN "sidecar"
  ELSE IF f.type = "text" \/ f.ext = ".txt" THEN "text"
  ELSE IF IsPDF(f) THEN "job"
  ELSE IF IsOffice(f) THEN
    (IF f.ext \in {".pptx", ".ppt", ".docx", ".xlsx"} THEN "office" ELSE "job")
  ELSE IF IsVideo(f) THEN "as it is"
  ELSE "none"

\* The text is at hand when the row is created.
HasText(f) ==
  \/ Route(f) = "csv" /\ f.readable /\ f.parsed
  \/ Route(f) \in {"xls", "office"} /\ f.parsed
  \/ Route(f) = "text" /\ f.readable

Deferred(f) ==
  \/ Route(f) \in {"sidecar", "job"}
  \/ Route(f) = "office" /\ ~f.parsed
  \/ Route(f) = "csv" /\ f.readable /\ ~f.parsed /\ FileGate(f)

TextStatus(f) ==
  IF HasText(f) \/ Route(f) = "as it is" THEN "ready"
  ELSE IF Deferred(f) THEN "pending"
  ELSE "failed"

\* mutant: a spreadsheet is not sent to the sidecar although its row waits for it
NeedsExtractionOfficeOnly(f) ==
  /\ IsPDF(f) \/ IsOffice(f)
  /\ ~(TextStatus(f) = "ready" /\ HasText(f))

NeedsExtraction(f) ==
  /\ IsPDF(f) \/ IsOffice(f) \/ ImageGate(f) \/ FileGate(f)
  /\ ~(TextStatus(f) = "ready" /\ HasText(f))

HasDeck(f) == f.ext \in {".ppt", ".pptx"}
===============================================================================
