---------------------------- MODULE MemoryWriter ----------------------------
(***************************************************************************)
(* The memories of finished turns.  A turn extracts its candidates; for    *)
(* each the writer searches for similar memories, decides, waits for an    *)
(* embedding, creates the new memory and then marks the old one            *)
(* superseded, each a call of its own.  When a call fails the wrapper runs *)
(* the whole turn again.  Turns of one user and of one conversation write  *)
(* at the same time, users edit and delete, and a worker prunes.           *)
(*                                                                         *)
(* Embeddings, quality scores, and ages are left out: a memory that may be *)
(* pruned may be pruned at once, and one that expires is hidden like one   *)
(* that is deleted.  A failed write is a write that did not happen.        *)
(***************************************************************************)
EXTENDS MemoryPolicy, FiniteSets

CONSTANTS
  Turn,       \* the turns that end
  Slot,       \* the places memories belong to, <<kind, owner>>
  SlotOf,     \* SlotOf[w][x]: the slot of a text turn w's user asks to remember
  SummarySlotOf, \* SummarySlotOf[w]: the slot of turn w's summary
  Key,        \* the keys of memories; a summary's key is its turn
  KeyOf,      \* KeyOf[text]: the key of what a user asked to remember
  Conf,       \* the confidences a summary may have, in tenths
  MaxRetries, \* retries of a turn's writes
  MaxFault,   \* bound: calls that fail, and crashes
  MaxUser     \* bound: memories users create, edit or hide

Source == {"user_explicit", "agent", "api"}

ASSUME WriterAssumption ==
  /\ SlotOf \in [Turn -> [Text -> Slot]] /\ SummarySlotOf \in [Turn -> Slot]
  /\ KeyOf \in [Text -> Key] /\ Turn \subseteq Key
  /\ Conf \subseteq Nat /\ MaxRetries \in Nat /\ MaxFault \in Nat /\ MaxUser \in Nat

VARIABLES
  rows,     \* the memories in the order of their creation, [slot, text, key, src,
            \* conf, turn, by, hidden, gone]; by: the row that superseded it, or 0
  writer,   \* writer[w]: [pc, cands, todo, attempt, old, links, new, written]
  reported, \* the rows announced by agent.memory.written
  faults, users

vars == <<rows, writer, reported, faults, users>>

None == "none"
Candidate == [slot : Slot, text : Text, key : Key, src : Source, conf : Nat]
Row == [slot : Slot, text : Text, key : Key, src : Source, conf : Nat,
        turn : Turn \cup {None}, by : Nat, hidden : BOOLEAN, gone : BOOLEAN]

Live(i) == rows[i].by = 0 /\ ~rows[i].hidden /\ ~rows[i].gone

Writer(place) == [pc |-> place, cands |-> <<>>, todo |-> <<>>, attempt |-> 0,
                  old |-> 0, links |-> {}, new |-> 0, written |-> {}]

Init ==
  /\ rows = <<>>
  /\ writer = [w \in Turn |-> Writer("idle")]
  /\ reported = {} /\ faults = 0 /\ users = 0

-----------------------------------------------------------------------------

At(w, place) == writer[w].pc = place
Cand(w) == Head(writer[w].todo)

(* The words of what the user asked to remember decide its type, and the   *)
(* type who it belongs to: a preference to the user, all else to the       *)
(* conversation.  Type and first words are the key.                        *)
Wish(w, x) ==
  [slot |-> SlotOf[w][x], text |-> x, key |-> KeyOf[x], src |-> "user_explicit", conf |-> 9]

(* extractCandidates: what the user asked to remember, and a summary of    *)
(* the turn; either may be missing.                                        *)
Said(w) == {Wish(w, x) : x \in Text}

Summary(w, text, conf) ==
  [slot |-> SummarySlotOf[w], text |-> text, key |-> w, src |-> "agent", conf |-> conf]

Summaries(w) == {Summary(w, x, n) : x \in Text, n \in Conf}

Extracted(w) ==
  {<<c>> : c \in Said(w) \cup Summaries(w)} \cup {<<c, s>> : c \in Said(w), s \in Summaries(w)}

Extract(w) ==
  /\ At(w, "idle")
  /\ \E cands \in Extracted(w) :
       writer' = [writer EXCEPT ![w].pc = "search", ![w].cands = cands, ![w].todo = cands]
  /\ UNCHANGED <<rows, reported, faults, users>>

(* Mutant: the owner of the scope is not asked for. *)
Similar_AnyOwner(slot, text) ==
  {i \in DOMAIN rows :
     Live(i) /\ rows[i].slot[1] = slot[1] /\ Relevance[rows[i].text, text] > 0}

(* search: the live memories of the slot that contain the candidate's      *)
(* title.                                                                  *)
Similar(slot, text) ==
  {i \in DOMAIN rows : Live(i) /\ rows[i].slot = slot /\ Relevance[rows[i].text, text] > 0}

Decide(w) ==
  /\ At(w, "search") /\ writer[w].todo # <<>>
  /\ \E d \in Decisions(Cand(w), rows, Similar(Cand(w).slot, Cand(w).text)) :
       writer' = [writer EXCEPT
         ![w].pc = IF d.write THEN "create" ELSE "search",
         ![w].todo = IF d.write THEN @ ELSE Tail(@),
         ![w].old = d.old, ![w].links = d.links]
  /\ UNCHANGED <<rows, reported, faults, users>>

(* create: the memory and its links in one transaction, which a linked     *)
(* memory pruned meanwhile makes fail.                                     *)
NewRow(c, turn) ==
  [slot |-> c.slot, text |-> c.text, key |-> c.key, src |-> c.src, conf |-> c.conf,
   turn |-> turn, by |-> 0, hidden |-> FALSE, gone |-> FALSE]

Create(w) ==
  LET id == Len(rows) + 1
      superseding == writer[w].old # 0
  IN  /\ At(w, "create") /\ \A i \in writer[w].links : ~rows[i].gone
      /\ rows' = Append(rows, NewRow(Cand(w), w))
      /\ writer' = [writer EXCEPT
           ![w].pc = IF superseding THEN "supersede" ELSE "search",
           ![w].todo = IF superseding THEN @ ELSE Tail(@),
           ![w].new = IF superseding THEN id ELSE 0, ![w].written = @ \cup {id}]
      /\ UNCHANGED <<reported, faults, users>>

(* Mutant: the two memories change places. *)
Supersede_Swapped(w) ==
  /\ At(w, "supersede")
  /\ rows' = [rows EXCEPT ![writer[w].new].by = writer[w].old]
  /\ writer' = [writer EXCEPT ![w].pc = "search", ![w].todo = Tail(@),
                                ![w].old = 0, ![w].links = {}, ![w].new = 0]
  /\ UNCHANGED <<reported, faults, users>>

Supersede(w) ==
  /\ At(w, "supersede")
  /\ rows' = [rows EXCEPT ![writer[w].old].by = writer[w].new]
  /\ writer' = [writer EXCEPT ![w].pc = "search", ![w].todo = Tail(@),
                                ![w].old = 0, ![w].links = {}, ![w].new = 0]
  /\ UNCHANGED <<reported, faults, users>>

(* The turn's writes are done: each is announced.                          *)
Report(w) ==
  /\ At(w, "search") /\ writer[w].todo = <<>>
  /\ reported' = reported \cup writer[w].written
  /\ writer' = [writer EXCEPT ![w] = Writer("done")]
  /\ UNCHANGED <<rows, faults, users>>

(* MemoryRetryWrapper: after a failed call the turn starts over; after the *)
(* last attempt the result is empty.                                       *)
StartOver(w) ==
  IF writer[w].attempt < MaxRetries
  THEN writer' = [writer EXCEPT ![w].pc = "search", ![w].todo = writer[w].cands,
                                ![w].written = {}, ![w].attempt = @ + 1]
  ELSE writer' = [writer EXCEPT ![w] = Writer("failed")]

CallFails(w) ==
  /\ \/ At(w, "search") /\ writer[w].todo # <<>>
     \/ At(w, "create") \/ At(w, "supersede")
  /\ \/ faults < MaxFault /\ faults' = faults + 1
     \/ /\ At(w, "create") /\ \E i \in writer[w].links : rows[i].gone
        /\ UNCHANGED faults
  /\ StartOver(w)
  /\ UNCHANGED <<rows, reported, users>>

Crash ==
  /\ faults < MaxFault /\ faults' = faults + 1
  /\ writer' = [w \in Turn |-> IF writer[w].pc \in {"idle", "done", "failed"} THEN writer[w]
                               ELSE Writer("lost")]
  /\ UNCHANGED <<rows, reported, users>>

-----------------------------------------------------------------------------
(* The memory routes, and the pruning worker.                              *)

AddByHand(slot, text, key) ==
  /\ users < MaxUser /\ users' = users + 1
  /\ rows' = Append(rows, NewRow([slot |-> slot, text |-> text, key |-> key,
                                  src |-> "api", conf |-> 8], None))
  /\ UNCHANGED <<writer, reported, faults>>

Edit(i, text) ==
  /\ users < MaxUser /\ users' = users + 1
  /\ ~rows[i].gone /\ rows' = [rows EXCEPT ![i].text = text]
  /\ UNCHANGED <<writer, reported, faults>>

(* Deleted, expired, or superseded by hand.                                *)
Hide(i) ==
  /\ users < MaxUser /\ users' = users + 1
  /\ ~rows[i].gone /\ rows' = [rows EXCEPT ![i].hidden = TRUE]
  /\ UNCHANGED <<writer, reported, faults>>

Prune(i) ==
  /\ ~rows[i].gone /\ ~Live(i)
  /\ rows' = [rows EXCEPT ![i].gone = TRUE]
  /\ UNCHANGED <<writer, reported, faults, users>>

-----------------------------------------------------------------------------

Write(w) == Extract(w) \/ Decide(w) \/ Create(w) \/ Supersede(w) \/ Report(w) \/ CallFails(w)

Next ==
  \/ \E w \in Turn : Write(w)
  \/ Crash
  \/ \E slot \in Slot, text \in Text, key \in Key \ Turn : AddByHand(slot, text, key)
  \/ \E i \in DOMAIN rows : Hide(i) \/ Prune(i) \/ \E text \in Text : Edit(i, text)

Spec == Init /\ [][Next]_vars

-----------------------------------------------------------------------------

TypeOK ==
  /\ rows \in Seq(Row)
  /\ writer \in [Turn -> [pc : {"idle", "search", "create", "supersede", "done", "failed", "lost"},
                          cands : Seq(Candidate), todo : Seq(Candidate), attempt : Nat,
                          old : Nat, links : SUBSET Nat, new : Nat, written : SUBSET Nat]]

(* A memory is superseded only by one that was created after it, and that  *)
(* belongs to the same place: no two supersede each other, and no turn     *)
(* touches the memories of another user or conversation.                   *)
SupersededByNewer ==
  \A i \in DOMAIN rows : rows[i].by # 0
    => rows[i].by \in i + 1 .. Len(rows) /\ rows[rows[i].by].slot = rows[i].slot

(* Nothing is forgotten by superseding it: whatever turns overlap, fail or *)
(* are lost, a newer memory of the same place remains that none has        *)
(* superseded, and that is there unless a user has hidden it.              *)
Remembered ==
  \A i \in DOMAIN rows : rows[i].by # 0
    => \E j \in i + 1 .. Len(rows) :
         rows[j].slot = rows[i].slot /\ rows[j].by = 0 /\ (rows[j].gone => rows[j].hidden)

(* "If all attempts fail, returns a partial result with the successfully   *)
(* written records" (memory-retry.ts): every memory a turn has created is  *)
(* announced, also when the wrapper gives the turn up.                     *)
WrittenIsReported ==
  \A w \in Turn : At(w, "failed")
    => \A i \in DOMAIN rows : rows[i].turn = w => i \in reported
=============================================================================
