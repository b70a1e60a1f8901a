----------------------------- MODULE ChatComposer -----------------------------
(***************************************************************************)
(* The composer of the chat page: the text and the attachments of the next *)
(* message, their uploads to the object store, and a send that is queued   *)
(* until the uploads are over.                                             *)
(*                                                                         *)
(* An event changes the state; React then renders and runs the composer's  *)
(* effects, which see that state and may change it again, until nothing    *)
(* changes.  A pass of effects is one step, and the next event waits for   *)
(* the passes to end.  The entries of two files have different uids: two   *)
(* files of one name added in one millisecond would share theirs.          *)
(***************************************************************************)
EXTENDS Integers, SequencesExt

CONSTANTS
  Image, Document,  \* the files the user may attach
  Draft,            \* the texts the user may type
  MaxFiles,         \* MAX_FILE_COUNT
  MaxUpload,        \* bound: uploads
  MaxSend           \* bound: messages

NoText == ""

ASSUME ComposerAssumption ==
  /\ Image \cap Document = {} /\ NoText \notin Draft
  /\ {MaxFiles, MaxUpload, MaxSend} \subseteq Nat

VARIABLES
  box,      \* the composer and the part of useChat it works with: text, files
            \* (a set of entries: their order is that of their uids), queued,
            \* failed (uploadFailed), was (wasUploadingRef), last (lastSentRef),
            \* state (sendState) and pending
  rendered, \* what the effects last ran with
  uploads,  \* the file of each upload; its place is the entry's uid
  flights,  \* the uploads under way: the keys of useOssUpload's progress
  running,  \* whether a run of the conversation may still report
  asked,    \* ghost: the text when send was last pressed, and whether a
            \* completion came after that
  sent      \* the messages chat.send took: [text, files], with asked and the
            \* entries that stayed behind

composerVars == <<box, rendered, uploads, flights, running, asked, sent>>

Nothing == [text |-> NoText, files |-> {}]

Look == [files |-> box.files, queued |-> box.queued, failed |-> box.failed,
         state |-> box.state, uploading |-> flights # {}, again |-> FALSE]
Settled == rendered = Look

ComposerInit ==
  /\ box = [text |-> NoText, files |-> {}, queued |-> FALSE, failed |-> FALSE,
            was |-> FALSE, last |-> Nothing, state |-> "editing", pending |-> FALSE]
  /\ uploads = <<>> /\ flights = {}
  /\ rendered = Look
  /\ running = FALSE
  /\ asked = [text |-> NoText, overtaken |-> FALSE] /\ sent = <<>>

-----------------------------------------------------------------------------
(* Attachments.                                                            *)

(* addFiles: as many of fs as there is room for beside the entries shown.  *)
StartUploads(c, fs, shown) ==
  LET room  == IF shown < MaxFiles THEN MaxFiles - shown ELSE 0
      taken == SubSeq(fs, 1, IF room < Len(fs) THEN room ELSE Len(fs))
      n     == Len(uploads)
  IN  /\ n + Len(taken) <= MaxUpload
      /\ uploads' = uploads \o taken
      /\ flights' = flights \cup (n + 1 .. n + Len(taken))
      /\ box' = [c EXCEPT !.files =
                   @ \cup {[uid |-> u, st |-> "uploading"] : u \in n + 1 .. n + Len(taken)}]

Attach(f) ==
  /\ Settled
  /\ StartUploads(box, <<f>>, Cardinality(box.files))
  /\ UNCHANGED <<rendered, running, asked, sent>>

(* The two answers of an upload, presign and PUT, succeed, or one fails.   *)
(* The entry and the progress change before the next render.               *)
UploadEnds(u, st) ==
  /\ Settled /\ u \in flights
  /\ flights' = flights \ {u}
  /\ box' = [box EXCEPT !.files =
               {IF e.uid = u THEN [uid |-> u, st |-> st] ELSE e : e \in box.files}]
  /\ UNCHANGED <<rendered, uploads, running, asked, sent>>

RemoveFile(u) ==
  /\ Settled /\ \E e \in box.files : e.uid = u
  /\ box' = [box EXCEPT !.files = {e \in box.files : e.uid # u}]
  /\ UNCHANGED <<rendered, uploads, flights, running, asked, sent>>

(* Failed entries are removed and their files added again.  The room is    *)
(* counted with the failed entries still there.                            *)
RetryUpload ==
  LET again == SetToSortSeq({e.uid : e \in {f \in box.files : f.st = "error"}}, <)
  IN  /\ Settled /\ box.failed
      /\ StartUploads([box EXCEPT !.failed = FALSE,
                                  !.files = {e \in box.files : e.st # "error"}],
                      [i \in DOMAIN again |-> uploads[again[i]]], Cardinality(box.files))
      /\ UNCHANGED <<rendered, running, asked, sent>>

(* uploadFilesToAttachmentRefs: what is neither under way nor failed.      *)
Refs(files) == {e \in files : e.st \notin {"uploading", "error"}}

Blocked_ImagesOnly(files) ==
  \E e \in files : uploads[e.uid] \in Image /\ e.st # "done"

(* validateAttachmentsForSend: a failed upload, or an image without a URL. *)
Blocked(files) ==
  \E e \in files : e.st = "error" \/ (uploads[e.uid] \in Image /\ e.st # "done")

-----------------------------------------------------------------------------
(* Sending.                                                                *)

(* chat.send, over an open socket: an empty message, or one while another  *)
(* is pending, is not taken.                                               *)
Takes(text) == ~box.pending /\ (text # NoText \/ Refs(box.files) # {})

HandOver(c, text) ==
  IF Takes(text) THEN [c EXCEPT !.pending = TRUE, !.state = "accepted"] ELSE c

NewMessage(text, pressed) ==
  [text |-> text, files |-> Refs(box.files), asked |-> pressed,
   left |-> {[image |-> uploads[e.uid] \in Image, st |-> e.st, flying |-> e.uid \in flights] :
               e \in box.files \ Refs(box.files)}]

Dispatch(text, pressed) ==
  IF Takes(text) THEN running' = TRUE /\ sent' = Append(sent, NewMessage(text, pressed))
  ELSE UNCHANGED <<running, sent>>

(* The composer is emptied whether or not the message was taken.           *)
Emptied(c) == [c EXCEPT !.files = {}, !.text = NoText]

Refused(c) == [c EXCEPT !.failed = TRUE, !.state = "failed"]

Type(t) ==
  /\ Settled /\ ~box.pending /\ t # box.text
  /\ box' = [box EXCEPT !.text = t]
  /\ UNCHANGED <<rendered, uploads, flights, running, asked, sent>>

(* handleSend, from the button or from Enter.                              *)
PressSend ==
  LET c == [box EXCEPT !.last = [text |-> box.text, files |-> box.files]]
  IN  /\ Settled /\ ~box.pending /\ (box.text # NoText \/ box.files # {})
      /\ Len(sent) < MaxSend
      /\ asked' = [text |-> box.text, overtaken |-> FALSE]
      /\ \/ /\ flights # {}
            /\ box' = [c EXCEPT !.queued = TRUE, !.state = "queued_until_upload_done"]
            /\ UNCHANGED <<running, sent>>
         \/ /\ flights = {} /\ Blocked(box.files)
            /\ box' = Refused(c)
            /\ UNCHANGED <<running, sent>>
         \/ /\ flights = {} /\ ~Blocked(box.files)
            /\ box' = Emptied(HandOver(c, box.text))
            /\ Dispatch(box.text, asked')
      /\ UNCHANGED <<rendered, uploads, flights>>

-----------------------------------------------------------------------------
(* The effects, in their order.  Each takes the state so far, c, and sees  *)
(* what was rendered: box and flights.                                     *)

Turned == box.state # rendered.state

(* A send that failed puts back what it took, in place of what is there.   *)
PutsBack == /\ Turned /\ box.state = "failed" /\ rendered.state # "editing"
            /\ box.last.files # {}

RestoreInput(c) ==
  [c EXCEPT
     !.text  = IF /\ Turned /\ box.state = "failed" /\ rendered.state # "editing"
                  /\ box.text = NoText
               THEN box.last.text ELSE @,
     !.files = IF PutsBack THEN box.last.files ELSE @]

ForgetSent(c) ==
  IF Turned /\ box.state = "completed" THEN [c EXCEPT !.last = Nothing] ELSE c

ReportUploads(c) ==
  IF <<Look.uploading, box.queued, box.failed>> = <<rendered.uploading, rendered.queued, rendered.failed>>
  THEN c
  ELSE IF Look.uploading
       THEN [c EXCEPT !.was = TRUE, !.state = IF box.queued THEN "queued_until_upload_done"
                                              ELSE "uploading"]
       ELSE [c EXCEPT !.was = FALSE, !.state = IF box.failed THEN "failed"
                                               ELSE IF box.was THEN "editing" ELSE @]

DetectFailures(c) ==
  IF Look.uploading \/ (~rendered.uploading /\ box.files = rendered.files /\ ~rendered.again) THEN c
  ELSE [c EXCEPT !.failed = \E e \in box.files : e.st = "error"]

(* One render and its effects.  A queued send goes out, or is refused, in  *)
(* the first pass that finds no upload under way.                          *)
Render ==
  LET c == ReportUploads(ForgetSent(RestoreInput(box)))
      d == [c EXCEPT !.queued = FALSE]
      due == box.queued /\ ~Look.uploading
  IN  /\ ~Settled
      /\ rendered' = [Look EXCEPT !.again = PutsBack]
      /\ \/ /\ ~due
            /\ box' = DetectFailures(c)
            /\ UNCHANGED <<running, sent>>
         \/ /\ due /\ Blocked(box.files)
            /\ box' = DetectFailures(Refused(d))
            /\ UNCHANGED <<running, sent>>
         \/ /\ due /\ ~Blocked(box.files)
            /\ box' = DetectFailures([Emptied(HandOver(d, c.last.text)) EXCEPT !.state = "sending"])
            /\ Dispatch(c.last.text, asked)
      /\ UNCHANGED <<uploads, flights, asked>>

-----------------------------------------------------------------------------
(* What useChat makes of the run's events.                                 *)

RunReports(st) ==
  /\ Settled /\ running
  /\ st \in {"running", "waiting_approval", "waiting_user"} /\ st # box.state
  /\ box' = [box EXCEPT !.state = st,
                        !.pending = CASE st = "waiting_approval" -> TRUE
                                      [] st = "waiting_user"     -> FALSE
                                      [] OTHER                   -> @]
  /\ UNCHANGED <<rendered, uploads, flights, running, asked, sent>>

RunStops(st) ==
  /\ Settled /\ running /\ st \in {"completed", "failed"}
  /\ running' = FALSE
  /\ box' = [box EXCEPT !.state = st, !.pending = FALSE]
  /\ asked' = [asked EXCEPT !.overtaken = @ \/ st = "completed"]
  /\ UNCHANGED <<rendered, uploads, flights, sent>>

(* The response timer fires, or the user presses stop: the run may still   *)
(* report.                                                                 *)
LoseTrack ==
  /\ Settled /\ box.pending
  /\ box' = [box EXCEPT !.pending = FALSE]
  /\ UNCHANGED <<rendered, uploads, flights, running, asked, sent>>

ComposerNext ==
  \/ \E f \in Image \cup Document : Attach(f)
  \/ \E u \in flights, st \in {"done", "error"} : UploadEnds(u, st)
  \/ \E u \in DOMAIN uploads : RemoveFile(u)
  \/ RetryUpload
  \/ \E t \in Draft \cup {NoText} : Type(t)
  \/ PressSend
  \/ Render
  \/ \E st \in {"running", "waiting_approval", "waiting_user"} : RunReports(st)
  \/ \E st \in {"completed", "failed"} : RunStops(st)
  \/ LoseTrack

ComposerSpec == ComposerInit /\ [][ComposerNext]_composerVars

-----------------------------------------------------------------------------
Entry == [uid : Int, st : {"uploading", "done", "error"}]
States == {"editing", "uploading", "queued_until_upload_done", "sending", "accepted", "running",
           "waiting_approval", "waiting_user", "completed", "failed"}
Content == [text : Draft \cup {NoText}, files : SUBSET Entry]

ComposerTypeOK ==
  /\ box \in [text : Draft \cup {NoText}, files : SUBSET Entry, queued : BOOLEAN,
              failed : BOOLEAN, was : BOOLEAN, last : Content, state : States,
              pending : BOOLEAN]
  /\ rendered \in [files : SUBSET Entry, queued : BOOLEAN, failed : BOOLEAN, state : States,
                   uploading : BOOLEAN, again : BOOLEAN]
  /\ flights \subseteq Int /\ running \in BOOLEAN
  /\ asked \in [text : Draft \cup {NoText}, overtaken : BOOLEAN]
  /\ sent \in Seq([text : Draft \cup {NoText}, files : SUBSET Entry,
                   asked : [text : Draft \cup {NoText}, overtaken : BOOLEAN],
                   left : SUBSET [image : BOOLEAN, st : {"uploading", "done", "error"},
                                  flying : BOOLEAN]])

(* A message says what was in the input when send was pressed, unless a    *)
(* run completed after that, and carries every attachment the composer     *)
(* holds when it goes out: none is under way, none has failed, and only a  *)
(* document may stay behind, one that a failed send put back as it was     *)
(* when send was pressed.                                                  *)
MessagesAreWhole ==
  \A i \in DOMAIN sent :
    LET m == sent[i]
    IN  /\ m.text = m.asked.text \/ (m.asked.overtaken /\ m.text = NoText)
        /\ \A e \in m.files : e.st = "done"
        /\ \A e \in m.left : ~e.image /\ e.st = "uploading" /\ ~e.flying

(* The inductive invariant: what was last sent is what was asked for, or   *)
(* was forgotten on a completion; and a completion that the effects have   *)
(* not seen came after send was pressed.                                   *)
ComposerInv ==
  /\ ComposerTypeOK
  /\ box.last.text = asked.text \/ (asked.overtaken /\ box.last.text = NoText)
  /\ Turned /\ box.state = "completed" => asked.overtaken
  /\ MessagesAreWhole
=============================================================================
