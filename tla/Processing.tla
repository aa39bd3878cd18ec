----------------------------- MODULE Processing -----------------------------
(***************************************************************************)
(* From a file to the document that search finds: the OCR gate, the hash,  *)
(* the loaders with their fallbacks, and index_document around them        *)
(* (document_processor.py, indexer_v2.py).                                 *)
(*                                                                         *)
(* The file is opened again by every step, and may be rewritten between    *)
(* two of them.  Contents of a file are numbered as they are written, so   *)
(* the hash of a content is its number.  The write is one step here;       *)
(* DualStore takes it apart.                                               *)
(***************************************************************************)
EXTENDS Integers, FiniteSets

CONSTANTS MaxWrites,   \* bound: times the file is rewritten or removed
          MaxPasses,   \* bound: calls of index_document
          NoText       \* nothing read, nothing indexed

ASSUME ProcessingAssumption == MaxWrites \in Nat /\ MaxPasses \in Nat

VARIABLES onDisk,       \* its kind, the number of its content, the content
          tesseract,   \* OCR_AVAILABLE
          row,         \* the document: file_hash, the content its text is of, the text
          pass,        \* the call of index_document
          passes

processingVars == <<onDisk, tesseract, row, pass, passes>>

\* Kinds of files, by extension: what a loader does with them differs.
Kinds == {"text", "sheet", "pptx", "docx", "doc", "pdf", "image", "other"}

\* What a content holds.  native: text of its own, short is 50 characters or
\* less; late: none of it on the first three pages; pictured: text that OCR
\* would find; state: whether it can be opened.
Content == [native : {"none", "short", "long"}, late : BOOLEAN, pictured : BOOLEAN,
            state : {"fine", "encrypted", "broken", "missing"}]
ContentOf(kind) ==
  {c \in Content :
    /\ kind # "pdf" => ~c.late /\ c.state # "encrypted"
    /\ kind \notin {"pdf", "image"} => ~c.pictured /\ c.native # "short"
    /\ kind = "image" => c.native = "none"
    /\ c.native = "none" => ~c.late
    /\ c.state # "fine" => c.native = "none" /\ ~c.pictured}

OcrModes == {"auto", "skip", "only"}
Texts == {"native", "ocr", "fallback"}
NoPass == [at |-> "done", mode |-> "auto", force |-> FALSE, hash |-> 0, read |-> 0,
           text |-> NoText, answer |-> "none"]

ProcessingInit ==
  /\ \E kind \in Kinds : \E c \in ContentOf(kind) :
       onDisk = [kind |-> kind, version |-> 1, content |-> c]
  /\ tesseract \in BOOLEAN
  /\ row = [hash |-> 0, read |-> 0, text |-> NoText]
  /\ pass = NoPass /\ passes = 0

\* Somebody writes the file, or removes it.
Rewrite ==
  /\ onDisk.version <= MaxWrites
  /\ \E c \in ContentOf(onDisk.kind) :
       onDisk' = [onDisk EXCEPT !.version = @ + 1, !.content = c]
  /\ UNCHANGED <<tesseract, row, pass, passes>>

PassEnds(answer) ==
  /\ pass' = [pass EXCEPT !.at = "done", !.answer = answer]
  /\ UNCHANGED <<onDisk, tesseract, row, passes>>
GoesOn(p) == pass' = p /\ UNCHANGED <<onDisk, tesseract, row, passes>>

IndexFile(mode, force) ==
  /\ pass.at = "done" /\ passes < MaxPasses /\ passes' = passes + 1
  /\ pass' = [NoPass EXCEPT !.at = IF mode = "only" THEN "gate" ELSE "hash",
                            !.mode = mode, !.force = force]
  /\ UNCHANGED <<onDisk, tesseract, row>>

\* _is_ocr_only_file: images, and PDFs whose first pages have no text.  A PDF
\* that cannot be opened counts as one with text of its own.
IsOcrOnly ==
  \/ onDisk.kind = "image"
  \/ /\ onDisk.kind = "pdf" /\ onDisk.content.state = "fine"
     /\ onDisk.content.native = "none" \/ onDisk.content.late

OcrGate ==
  /\ pass.at = "gate"
  /\ IF IsOcrOnly THEN GoesOn([pass EXCEPT !.at = "hash"]) ELSE PassEnds("has native text")

\* _validate_source: the file is there and of a supported kind; then
\* calculate_file_hash reads it, before the loader does.
ValidateAndHash ==
  /\ pass.at = "hash"
  /\ IF onDisk.content.state = "missing" \/ onDisk.kind = "other" THEN PassEnds("error")
     ELSE GoesOn([pass EXCEPT !.at = "load", !.hash = onDisk.version])

\* What the OCR engine reads off a file: it may also fail (a timeout, a bad page).
ByOcr == IF onDisk.content.pictured THEN {"ocr", "failed"} ELSE {NoText, "failed"}

Native == IF onDisk.content.native = "none" THEN NoText ELSE "native"

\* PDFDocumentLoader.load: native text unless the mode is "only"; 50 characters
\* or less are used only where OCR is skipped or not installed.
FromPdf(mode) ==
  LET c == onDisk.content
  IN CASE c.state = "encrypted" -> {"encrypted"}
       [] c.state \in {"broken", "missing"} -> {"failed"}
       [] mode # "only" /\ (c.native = "long" \/ mode = "skip" \/ ~tesseract) -> {Native}
       [] mode = "only" /\ ~tesseract -> {"failed"}
       [] OTHER -> ByOcr

\* ImageDocumentLoader.load
FromImage(mode) ==
  IF mode = "skip" THEN {NoText}
  ELSE IF ~tesseract \/ onDisk.content.state # "fine" THEN {"failed"}
  ELSE ByOcr

\* TextDocumentLoader and SpreadsheetLoader
FromText == {IF onDisk.content.state = "fine" THEN Native ELSE "failed"}

\* _load_pptx_document: a presentation without text is an error.
FromSlides == {IF Native = NoText THEN "failed" ELSE Native}

\* _load_word_document.  A .doc is converted by LibreOffice, or read by the
\* unstructured loader as .html is: that may be missing or fail.
FromWord == FromSlides \cup (IF onDisk.kind = "doc" THEN {"failed"} ELSE {})

LoadedText(mode) ==
  CASE onDisk.kind = "pdf" -> FromPdf(mode)
    [] onDisk.kind = "image" -> FromImage(mode)
    [] onDisk.kind = "pptx" -> FromSlides
    [] onDisk.kind \in {"docx", "doc"} -> FromWord
    [] OTHER -> FromText

\* _metadata_fallback_document: textless media are found by their names.
OrFallback(text) ==
  IF text = NoText /\ onDisk.kind \in {"pdf", "image"} THEN "fallback" ELSE text

LoadFile ==
  /\ pass.at = "load"
  /\ \E text \in LoadedText(pass.mode) :
       CASE text = "encrypted" -> PassEnds("encrypted")
         [] text = "failed" \/ OrFallback(text) = NoText -> PassEnds("error")
         [] OTHER -> GoesOn([pass EXCEPT !.at = "check", !.read = onDisk.version,
                                  !.text = OrFallback(text)])

\* A slip for UnchangedIsTrue: the file is hashed again for the metadata.
MutFileHash == onDisk.version

\* metadata['file_hash']
FileHash == pass.hash

\* The check of an existing document, and may_replace before it is replaced.
Existing == row.text # NoText
CheckExisting ==
  /\ pass.at = "check"
  /\ IF Existing /\ ~pass.force /\ row.hash = FileHash THEN PassEnds("unchanged")
     ELSE \/ Existing /\ PassEnds("refused")
          \/ GoesOn([pass EXCEPT !.at = "write"])

\* Embedding and writing.  A failure leaves what was there before.
WriteRow ==
  /\ pass.at = "write"
  /\ \/ PassEnds("error")
     \/ /\ row' = [hash |-> FileHash, read |-> pass.read, text |-> pass.text]
        /\ pass' = [pass EXCEPT !.at = "done", !.answer = "success"]
        /\ UNCHANGED <<onDisk, tesseract, passes>>

ProcessingNext ==
  \/ Rewrite \/ OcrGate \/ ValidateAndHash \/ LoadFile \/ CheckExisting \/ WriteRow
  \/ \E mode \in OcrModes, force \in BOOLEAN : IndexFile(mode, force)

ProcessingSpec == ProcessingInit /\ [][ProcessingNext]_processingVars

-----------------------------------------------------------------------------
\* An answer "unchanged" can be relied on: the text in the index is of the
\* content this pass hashed or of a later one, however the file was rewritten
\* while this pass and the one that indexed it were reading.
UnchangedIsTrue == pass.answer = "unchanged" => row.read >= pass.hash

\* The variables have their types.
ProcessingTypeOK ==
  /\ onDisk.kind \in Kinds /\ onDisk.content \in ContentOf(onDisk.kind)
  /\ onDisk.version \in 1 .. MaxWrites + 1
  /\ tesseract \in BOOLEAN
  /\ row.text \in Texts \cup {NoText} /\ row.hash <= onDisk.version /\ row.read <= onDisk.version
  /\ pass.text \in Texts \cup {NoText} /\ pass.mode \in OcrModes
  /\ pass.at \in {"gate", "hash", "load", "check", "write", "done"}
  /\ passes \in 0 .. MaxPasses
=============================================================================
