----------------------- MODULE AssistantMessageStream -----------------------
(***************************************************************************)
(* The object that builds one assistant message while its run executes: a  *)
(* list of parts, the event of every change, and the row that is saved     *)
(* when the message is snapshot or completed.                              *)
(*                                                                         *)
(* A part's id is its place in the list.  The text of a part is the        *)
(* sequence of the deltas appended to it, so the length of the text is the *)
(* next deltaIndex.  Labels, metadata, previews, rich cards and timestamps *)
(* are left out.                                                           *)
(***************************************************************************)
EXTENDS Naturals, Sequences, SequencesExt

PartKinds == {"text", "status", "tool_use", "tool_result", "error"}

OpenStatuses == {"streaming", "running", "pending"}

FirstStatus == [text |-> "streaming", status |-> "running", tool_use |-> "pending",
                tool_result |-> "none", error |-> "none"]

(* A part as it is when it starts; only text parts have a semantic role.   *)
NewPart(parts, partKind, role) ==
  [id |-> Len(parts) + 1, kind |-> partKind, st |-> FirstStatus[partKind],
   text |-> <<>>, role |-> role]

IsOpen(part) == part.st \in OpenStatuses

(* completeOpenParts: finalization closes whatever is still open.          *)
CompleteOpenParts(parts, outcome) ==
  [i \in DOMAIN parts |->
     IF ~IsOpen(parts[i]) THEN parts[i]
     ELSE [parts[i] EXCEPT !.st =
             CASE parts[i].kind = "status" ->
                    IF outcome = "completed" THEN "completed" ELSE "failed"
               [] parts[i].kind = "tool_use" -> "interrupted"
               [] OTHER -> "completed"]]

(* mergeContent: once any text has a role, the final texts and the         *)
(* questions to the user are the message's content.                        *)
MergeContent(parts) ==
  LET texts == SelectSeq(parts, LAMBDA p : p.kind = "text")
      kept  == IF \E i \in DOMAIN texts : texts[i].role # "none"
               THEN SelectSeq(texts, LAMBDA p : p.role \in {"final", "user_prompt"})
               ELSE texts
  IN  [i \in DOMAIN kept |-> kept[i].text]

(* The elements of a list that are in a set, in their order.               *)
Only(list, set) ==
  LET kept[i \in 0 .. Len(list)] ==
        IF i = 0 THEN <<>>
        ELSE IF list[i] \in set THEN Append(kept[i - 1], list[i]) ELSE kept[i - 1]
  IN  kept[Len(list)]

(* The changes: each is the new list of parts and the event it emits.      *)
Change(parts, event) == [parts |-> parts, event |-> event]

StartPart(parts, partKind, role) ==
  LET part == NewPart(parts, partKind, role)
  IN  Change(Append(parts, part), [type |-> "part.started", part |-> part])

AppendText(parts, id) ==
  LET next == Len(parts[id].text) + 1
  IN  Change([parts EXCEPT ![id].text = Append(@, next)],
             [type |-> "part.delta", id |-> id, index |-> next])

CompleteTextPart(parts, id) ==
  Change([parts EXCEPT ![id].st = "completed"],
         [type |-> "part.updated", id |-> id,
          patch |-> [st |-> "completed", text |-> parts[id].text]])

UpdateTextPartRole(parts, id, role) ==
  Change([parts EXCEPT ![id].role = role],
         [type |-> "part.updated", id |-> id, patch |-> [role |-> role]])

(* updateStatus and updateToolUse. *)
UpdateStatus(parts, id, status) ==
  Change([parts EXCEPT ![id].st = status],
         [type |-> "part.updated", id |-> id, patch |-> [st |-> status]])

Completed(parts) ==
  [type |-> "message.completed", parts |-> parts, content |-> MergeContent(parts)]
=============================================================================
