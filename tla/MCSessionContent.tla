---------------------------- MODULE MCSessionContent ----------------------------
(* What a session holds: uploads, the primary content, the videos, copies, the   *)
(* index built from them, answers and their review.  These parts keep no state   *)
(* in common, so one instance checks them one at a time: a behaviour exercises   *)
(* one part, and the others keep one initial state.  This is what each part does *)
(* alone, without the product of all of them.                                    *)
EXTENDS MaterialFiles, PrimaryContent, SessionVideos, SessionCopy,
        SessionIndex, TextChunks, LexicalRanking, AnswerReview, TLC

VARIABLE part
contentVars == <<part, filesVars, primaryVars, videosVars, copyVars,
                 indexVars, chunksVars, rankVars, reviewVars>>
Parts == {"files", "primary", "videos", "copy", "index", "faulty index", "chunks",
          "rank", "review"}

TextFile  == [ext |-> ".txt", type |-> "text", magic |-> FALSE, imageSidecar |-> FALSE,
              fileSidecar |-> TRUE, readable |-> TRUE, parsed |-> TRUE]
TableFile == [TextFile EXCEPT !.ext = ".csv", !.parsed = FALSE]
MovieFile == [TextFile EXCEPT !.ext = ".mp4", !.type = "video"]
SomeFiles == {TextFile, TableFile, MovieFile}
OwnKeys == [n \in Names |-> n]

UploadLinkAndPart == ("u1" :> "upload") @@ ("x1" :> "url") @@ ("p1" :> "presigned")
OnePieceEach == ("f1" :> "file") @@ ("m1" :> "material") @@ ("l1" :> "link")
                @@ ("w1" :> "video") @@ ("w2" :> "video") @@ ("t1" :> "transcript")
OnePlain == CHOOSE plain \in Plain : plain.len = 1

ContentInit ==
  /\ part \in Parts
  /\ FilesInit /\ PrimaryInit /\ VideosInit /\ IndexInit /\ ReviewInit
  /\ CopyInit /\ (part = "copy" \/ mode = "sync")
  /\ IF part = "chunks" THEN ChunksInit
     ELSE source = OnePlain /\ start = 0 /\ cuts = {} /\ whole = FALSE
  /\ IF part = "rank" THEN RankInit
     ELSE score = <<>> /\ order = <<>> /\ at = <<1, 2>> /\ handed = <<>>

ContentNext ==
  /\ part' = part
  /\ IF part = "files" THEN FilesNext ELSE UNCHANGED filesVars
  /\ IF part = "primary" THEN PrimaryNext ELSE UNCHANGED primaryVars
  /\ IF part = "videos" THEN VideosNext ELSE UNCHANGED videosVars
  /\ IF part = "copy" THEN CopyNext ELSE UNCHANGED copyVars
  /\ CASE part = "index" -> IndexNext /\ slips' = 0              \* two texts, nothing fails
       [] part = "faulty index" -> IndexNext /\ text'["m1"] = "none" \* one text
       [] OTHER -> UNCHANGED indexVars
  /\ IF part = "chunks" THEN ChunksNext ELSE UNCHANGED chunksVars
  /\ IF part = "rank" THEN RankNext ELSE UNCHANGED rankVars
  /\ IF part = "review" THEN ReviewNext ELSE UNCHANGED reviewVars

ContentSpec == ContentInit /\ [][ContentNext]_contentVars

\* The rows, files, runs and requests of every part keep to their types; a copy
\* that is not there holds no rows (the other parts' variables do not change).
ContentTypeOK ==
  CASE part = "files"   -> FilesTypeOK
    [] part = "primary" -> PrimaryTypeOK
    [] part = "videos"  -> VideosTypeOK
    [] part = "copy"    -> CopyTypeOK
    [] part \in {"index", "faulty index"} -> IndexTypeOK
    [] part = "chunks"  -> ChunksTypeOK
    [] part = "rank"    -> RankTypeOK
    [] part = "review"  -> ReviewTypeOK
================================================================================
