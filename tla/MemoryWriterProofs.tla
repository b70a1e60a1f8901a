------------------------- MODULE MemoryWriterProofs -------------------------
(***************************************************************************)
(* Theorems about MemoryWriter, for every set of turns, texts and slots,   *)
(* every relevance of one text to another, and every bound on retries,     *)
(* faults and what users do.  The inductive invariant WInv adds to the two *)
(* properties what a writer knows between two of its calls (Pending), and  *)
(* that only what is superseded or hidden is ever pruned (PrunedAway).     *)
(***************************************************************************)
EXTENDS MemoryWriter, TLAPS

(* Between deciding and superseding, a writer holds an older row of its    *)
(* candidate's slot, and from the creation on also the new one.            *)
PendingOf(w) ==
  /\ At(w, "create") =>
       /\ writer[w].todo # <<>>
       /\ writer[w].old # 0 =>
            /\ writer[w].old \in DOMAIN rows
            /\ rows[writer[w].old].slot = Cand(w).slot
  /\ At(w, "supersede") =>
       /\ writer[w].todo # <<>>
       /\ writer[w].old \in DOMAIN rows /\ writer[w].new \in DOMAIN rows
       /\ writer[w].old < writer[w].new
       /\ rows[writer[w].old].slot = rows[writer[w].new].slot

Pending == \A w \in Turn : PendingOf(w)

PrunedAway == \A i \in DOMAIN rows : rows[i].gone => rows[i].by # 0 \/ rows[i].hidden

(* The head of what superseded row i, later ones included.                 *)
Heads(i) == {j \in DOMAIN rows : i < j /\ rows[j].slot = rows[i].slot /\ rows[j].by = 0}

Headed == \A i \in DOMAIN rows : rows[i].by # 0 => Heads(i) # {}

WInv == TypeOK /\ Pending /\ PrunedAway /\ SupersededByNewer /\ Headed
-----------------------------------------------------------------------------
(* A decision writes nothing, or a memory that replaces none or one of the *)
(* rows the search has found, and is linked to rows it has found.          *)
LEMMA DecisionFromSearch ==
  ASSUME NEW c, NEW rs, NEW similar, NEW d \in Decisions(c, rs, similar)
  PROVE  d.old \in {0} \cup similar /\ d.links \subseteq similar
<1> DEFINE Clashing == {i \in similar : Contradicts(c, rs[i])}
           Alike == {i \in similar : Succeeds(c, rs[i])}
           Linked(i) == {i} \cup Confirmed(c, rs, similar)
<1>1. Confirmed(c, rs, similar) \subseteq similar
  BY DEF Confirmed
<1>2. Reject.old = 0 /\ Reject.links = {}
  BY DEF Reject
<1>3. CASE c.text \in Unfit
  BY <1>2, <1>3 DEF Decisions
<1>4. CASE c.text \notin Unfit /\ Clashing # {}
  <2>1. d \in {IF Outranks(c, rs[i])
               THEN [write |-> TRUE, old |-> i, links |-> Linked(i)]
               ELSE Reject : i \in Clashing}
    BY <1>4 DEF Decisions
  <2>2. PICK i \in Clashing :
          d = [write |-> TRUE, old |-> i, links |-> Linked(i)] \/ d = Reject
    BY <2>1
  <2> QED
    BY <1>1, <1>2, <2>2
<1>5. CASE c.text \notin Unfit /\ Clashing = {} /\ Alike # {}
  <2>1. d \in {[write |-> TRUE, old |-> i, links |-> Confirmed(c, rs, similar)] : i \in Alike}
    BY <1>5 DEF Decisions
  <2> QED
    BY <1>1, <2>1
<1>6. CASE c.text \notin Unfit /\ Clashing = {} /\ Alike = {}
  <2>1. d = Reject \/ d = [write |-> TRUE, old |-> 0, links |-> Confirmed(c, rs, similar)]
    BY <1>6 DEF Decisions
  <2> QED
    BY <1>1, <1>2, <2>1
<1> QED
  BY <1>3, <1>4, <1>5, <1>6
-----------------------------------------------------------------------------
LEMMA InitWInv == Init => WInv
<1> SUFFICES ASSUME Init PROVE WInv
  OBVIOUS
<1>1. TypeOK
  BY DEF Init, TypeOK, Writer
<1>2. Pending
  BY DEF Init, Pending, PendingOf, At, Writer
<1>3. PrunedAway /\ SupersededByNewer /\ Headed
  BY DEF Init, PrunedAway, SupersededByNewer, Headed
<1> QED
  BY <1>1, <1>2, <1>3 DEF WInv

(* What a turn may say, and what becomes of it, has its type.              *)
LEMMA CandidateType ==
  ASSUME NEW w \in Turn
  PROVE  Said(w) \cup Summaries(w) \subseteq Candidate
<1>1. Said(w) \subseteq Candidate
  BY WriterAssumption DEF Said, Wish, Candidate, Source
<1>2. ASSUME NEW s \in Summaries(w) PROVE s \in Candidate
  <2>1. PICK x \in Text, n \in Conf :
          s = Summary(w, x, n)
    BY <1>2 DEF Summaries
  <2>2. SummarySlotOf[w] \in Slot /\ w \in Key /\ n \in Nat
    BY WriterAssumption
  <2> QED
    BY <2>1, <2>2 DEF Summary, Candidate, Source
<1> QED
  BY <1>1, <1>2

LEMMA ExtractedType ==
  ASSUME NEW w \in Turn, NEW cands \in Extracted(w)
  PROVE  cands \in Seq(Candidate)
<1>1. CASE \E c \in Said(w) \cup Summaries(w) : cands = <<c>>
  BY <1>1, CandidateType
<1>2. CASE \E c \in Said(w), s \in Summaries(w) : cands = <<c, s>>
  BY <1>2, CandidateType
<1> QED
  BY <1>1, <1>2 DEF Extracted

LEMMA NewRowType ==
  ASSUME NEW c \in Candidate, NEW turn \in Turn \cup {None}
  PROVE  /\ NewRow(c, turn) \in Row
         /\ NewRow(c, turn).slot = c.slot /\ NewRow(c, turn).by = 0
         /\ ~NewRow(c, turn).gone
  BY DEF NewRow, Candidate, Row

(* A new memory at the end leaves the others as they are, and breaks       *)
(* nothing that is said of them.                                           *)
LEMMA RowAdded ==
  ASSUME WInv, NEW r \in Row, r.by = 0, ~r.gone, rows' = Append(rows, r)
  PROVE  /\ rows' \in Seq(Row)
         /\ DOMAIN rows' = DOMAIN rows \cup {Len(rows) + 1}
         /\ \A i \in DOMAIN rows : rows'[i] = rows[i]
         /\ rows'[Len(rows) + 1] = r
         /\ PrunedAway' /\ SupersededByNewer' /\ Headed'
<1>1. rows \in Seq(Row) /\ Len(rows) \in Nat /\ DOMAIN rows = 1 .. Len(rows)
  BY DEF WInv, TypeOK
<1>2. /\ rows' \in Seq(Row) /\ Len(rows') = Len(rows) + 1
      /\ DOMAIN rows' = DOMAIN rows \cup {Len(rows) + 1}
      /\ \A i \in DOMAIN rows : rows'[i] = rows[i]
      /\ rows'[Len(rows) + 1] = r
  BY <1>1
<1>3. PrunedAway'
  BY <1>1, <1>2 DEF WInv, PrunedAway
<1>4. SupersededByNewer'
  <2> SUFFICES ASSUME NEW i \in DOMAIN rows', rows'[i].by # 0
               PROVE  rows'[i].by \in i + 1 .. Len(rows') /\ rows'[rows'[i].by].slot = rows'[i].slot
    BY DEF SupersededByNewer
  <2>1. i \in DOMAIN rows /\ rows'[i] = rows[i]
    BY <1>2
  <2>2. rows[i].by \in i + 1 .. Len(rows) /\ rows[rows[i].by].slot = rows[i].slot
    BY <2>1 DEF WInv, SupersededByNewer
  <2> QED
    BY <1>1, <1>2, <2>1, <2>2
<1>5. Headed'
  <2> SUFFICES ASSUME NEW i \in DOMAIN rows', rows'[i].by # 0
               PROVE  \E j \in DOMAIN rows' :
                         i < j /\ rows'[j].slot = rows'[i].slot /\ rows'[j].by = 0
    BY DEF Headed, Heads
  <2>1. i \in DOMAIN rows /\ rows'[i] = rows[i]
    BY <1>2
  <2>2. PICK j \in DOMAIN rows : i < j /\ rows[j].slot = rows[i].slot /\ rows[j].by = 0
    BY <2>1 DEF WInv, Headed, Heads
  <2> QED
    BY <1>2, <2>1, <2>2
<1> QED
  BY <1>2, <1>3, <1>4, <1>5

(* A change of one memory that leaves its slot, and what superseded it.    *)
LEMMA RowChanged ==
  ASSUME WInv, NEW i \in DOMAIN rows, NEW r \in Row,
         r.slot = rows[i].slot, r.by = rows[i].by, r.gone => r.by # 0 \/ r.hidden,
         rows' = [rows EXCEPT ![i] = r]
  PROVE  /\ rows' \in Seq(Row) /\ DOMAIN rows' = DOMAIN rows
         /\ \A k \in DOMAIN rows : rows'[k].slot = rows[k].slot /\ rows'[k].by = rows[k].by
         /\ PrunedAway' /\ SupersededByNewer' /\ Headed'
<1>1. rows \in Seq(Row) /\ Len(rows) \in Nat /\ DOMAIN rows = 1 .. Len(rows)
  BY DEF WInv, TypeOK
<1>2. rows' \in Seq(Row) /\ DOMAIN rows' = DOMAIN rows /\ Len(rows') = Len(rows)
  BY <1>1
<1>3. \A k \in DOMAIN rows : rows'[k] = IF k = i THEN r ELSE rows[k]
  BY <1>1
<1>4. \A k \in DOMAIN rows : rows'[k].slot = rows[k].slot /\ rows'[k].by = rows[k].by
  BY <1>3
<1>5. PrunedAway'
  BY <1>2, <1>3 DEF WInv, PrunedAway
<1>6. SupersededByNewer'
  <2> SUFFICES ASSUME NEW k \in DOMAIN rows, rows[k].by # 0
               PROVE  /\ rows[k].by \in k + 1 .. Len(rows)
                      /\ rows[k].by \in DOMAIN rows
                      /\ rows[rows[k].by].slot = rows[k].slot
    BY <1>2, <1>4 DEF SupersededByNewer
  <2> QED
    BY <1>1 DEF WInv, SupersededByNewer
<1>7. Headed'
  <2> SUFFICES ASSUME NEW k \in DOMAIN rows, rows[k].by # 0
               PROVE  \E j \in DOMAIN rows :
                         k < j /\ rows[j].slot = rows[k].slot /\ rows[j].by = 0
    BY <1>2, <1>4 DEF Headed, Heads
  <2> QED
    BY DEF WInv, Headed, Heads
<1> QED
  BY <1>2, <1>4, <1>5, <1>6, <1>7

(* Superseding keeps a head for every superseded memory: whatever the old  *)
(* one was the head of is now headed by what heads the new one.            *)
LEMMA RowSuperseded ==
  ASSUME WInv, NEW old \in DOMAIN rows, NEW new \in DOMAIN rows, old < new,
         rows[old].slot = rows[new].slot, rows' = [rows EXCEPT ![old].by = new]
  PROVE  /\ rows' \in Seq(Row) /\ DOMAIN rows' = DOMAIN rows
         /\ \A k \in DOMAIN rows : rows'[k].slot = rows[k].slot
         /\ PrunedAway' /\ SupersededByNewer' /\ Headed'
<1>1. rows \in Seq(Row) /\ Len(rows) \in Nat /\ DOMAIN rows = 1 .. Len(rows)
  BY DEF WInv, TypeOK
<1>2. /\ rows' = [rows EXCEPT ![old] = [rows[old] EXCEPT !.by = new]]
      /\ rows[old] \in Row /\ new \in Nat /\ new # 0
  BY <1>1
<1>3. [rows[old] EXCEPT !.by = new] \in Row
  BY <1>2 DEF Row
<1>4. rows' \in Seq(Row) /\ DOMAIN rows' = DOMAIN rows /\ Len(rows') = Len(rows)
  BY <1>1, <1>2, <1>3
<1>5. /\ \A k \in DOMAIN rows : k # old => rows'[k] = rows[k]
      /\ rows'[old] = [rows[old] EXCEPT !.by = new]
  BY <1>1, <1>2
<1>6. rows'[old].by = new /\ rows'[old].slot = rows[old].slot
  BY <1>2, <1>5 DEF Row
<1>7. \A k \in DOMAIN rows : rows'[k].slot = rows[k].slot
  BY <1>5, <1>6
<1>8. PrunedAway'
  BY <1>2, <1>4, <1>5, <1>6 DEF WInv, PrunedAway
<1>9. SupersededByNewer'
  <2> SUFFICES ASSUME NEW k \in DOMAIN rows, rows'[k].by # 0
               PROVE  /\ rows'[k].by \in k + 1 .. Len(rows)
                      /\ rows'[k].by \in DOMAIN rows
                      /\ rows[rows'[k].by].slot = rows[k].slot
    BY <1>4, <1>7 DEF SupersededByNewer
  <2>1. CASE k = old
    BY <2>1, <1>1, <1>6
  <2>2. CASE k # old
    BY <2>2, <1>1, <1>5 DEF WInv, SupersededByNewer
  <2> QED
    BY <2>1, <2>2
<1>10. Headed'
  <2> SUFFICES ASSUME NEW k \in DOMAIN rows, rows'[k].by # 0
               PROVE  \E j \in DOMAIN rows :
                         k < j /\ rows[j].slot = rows[k].slot /\ rows'[j].by = 0
    BY <1>4, <1>7 DEF Headed, Heads
  <2>1. \E j \in DOMAIN rows :
           old < j /\ rows[j].slot = rows[old].slot /\ rows'[j].by = 0
    <3>1. CASE rows[new].by = 0
      BY <3>1, <1>1, <1>5
    <3>2. CASE rows[new].by # 0
      <4>1. PICK j \in DOMAIN rows : new < j /\ rows[j].slot = rows[new].slot /\ rows[j].by = 0
        BY <3>2 DEF WInv, Headed, Heads
      <4> QED
        BY <4>1, <1>1, <1>5
    <3> QED
      BY <3>1, <3>2
  <2>2. CASE k = old
    BY <2>1, <2>2
  <2>3. CASE k # old
    <3>1. PICK j \in DOMAIN rows : k < j /\ rows[j].slot = rows[k].slot /\ rows[j].by = 0
      BY <2>3, <1>5 DEF WInv, Headed, Heads
    <3>2. CASE j = old
      BY <2>1, <3>1, <3>2, <1>1
    <3>3. CASE j # old
      BY <3>1, <3>3, <1>5
    <3> QED
      BY <3>2, <3>3
  <2> QED
    BY <2>2, <2>3
<1> QED
  BY <1>4, <1>7, <1>8, <1>9, <1>10
-----------------------------------------------------------------------------
(* A step of a writer that leaves the memories alone.                      *)
LEMMA RowsKept ==
  ASSUME WInv, UNCHANGED rows
  PROVE  PrunedAway' /\ SupersededByNewer' /\ Headed'
  BY DEF WInv, PrunedAway, SupersededByNewer, Headed, Heads

Places == {"idle", "search", "create", "supersede", "done", "failed", "lost"}

WriterState == [pc : Places, cands : Seq(Candidate), todo : Seq(Candidate), attempt : Nat,
                old : Nat, links : SUBSET Nat, new : Nat, written : SUBSET Nat]

(* A writer that is not between two calls about one candidate is owed      *)
(* nothing.                                                                *)
LEMMA AtRest ==
  ASSUME NEW w \in Turn, writer'[w].pc \notin {"create", "supersede"}
  PROVE  PendingOf(w)'
  BY DEF PendingOf, At

(* What is pending does not depend on what may change about a memory.      *)
LEMMA PendingKept ==
  ASSUME NEW w \in Turn, PendingOf(w), writer'[w] = writer[w],
         DOMAIN rows \subseteq DOMAIN rows',
         \A i \in DOMAIN rows : rows'[i].slot = rows[i].slot
  PROVE  PendingOf(w)'
<1>1. CASE At(w, "create")
  BY <1>1 DEF PendingOf, At, Cand
<1>2. CASE At(w, "supersede")
  BY <1>2 DEF PendingOf, At, Cand
<1>3. CASE ~At(w, "create") /\ ~At(w, "supersede")
  BY <1>3 DEF PendingOf, At
<1> QED
  BY <1>1, <1>2, <1>3

LEMMA ExtractStep ==
  ASSUME WInv, NEW w \in Turn, Extract(w)
  PROVE  WInv'
<1>1. PICK cands \in Extracted(w) :
        writer' = [writer EXCEPT ![w].pc = "search", ![w].cands = cands, ![w].todo = cands]
  BY DEF Extract
<1>2. cands \in Seq(Candidate)
  BY ExtractedType
<1>3. writer \in [Turn -> WriterState]
  BY DEF WInv, TypeOK, WriterState, Places
<1>4. writer' \in [Turn -> WriterState]
  <2> DEFINE next == [writer[w] EXCEPT !.pc = "search", !.cands = cands, !.todo = cands]
  <2>1. next \in WriterState
    BY <1>2, <1>3 DEF WriterState, Places
  <2> QED
    BY <1>1, <1>3, <2>1
<1>5. writer'[w].pc = "search" /\ \A v \in Turn : v # w => writer'[v] = writer[v]
  BY <1>1, <1>3 DEF WriterState
<1>6. UNCHANGED rows
  BY DEF Extract
<1>7. TypeOK'
  BY <1>4, <1>6 DEF WInv, TypeOK, WriterState, Places
<1>8. Pending'
  BY <1>5, <1>6, AtRest, PendingKept DEF WInv, Pending
<1> QED
  BY <1>6, <1>7, <1>8, RowsKept DEF WInv

LEMMA DecideStep ==
  ASSUME WInv, NEW w \in Turn, Decide(w)
  PROVE  WInv'
<1> DEFINE found == Similar(Cand(w).slot, Cand(w).text)
<1>1. /\ At(w, "search") /\ writer[w].todo # <<>> /\ UNCHANGED rows
      /\ \E d \in Decisions(Cand(w), rows, found) :
           writer' = [writer EXCEPT
             ![w].pc = IF d.write THEN "create" ELSE "search",
             ![w].todo = IF d.write THEN @ ELSE Tail(@),
             ![w].old = d.old, ![w].links = d.links]
  BY DEF Decide
<1>2. PICK d \in Decisions(Cand(w), rows, found) :
        writer' = [writer EXCEPT
          ![w].pc = IF d.write THEN "create" ELSE "search",
          ![w].todo = IF d.write THEN @ ELSE Tail(@),
          ![w].old = d.old, ![w].links = d.links]
  BY <1>1
<1>3. d.old \in {0} \cup found /\ d.links \subseteq found
  BY DecisionFromSearch
<1>4. /\ rows \in Seq(Row) /\ writer \in [Turn -> WriterState]
      /\ DOMAIN rows = 1 .. Len(rows) /\ Len(rows) \in Nat
  BY DEF WInv, TypeOK, WriterState, Places
<1>5. \A i \in found : i \in DOMAIN rows /\ rows[i].slot = Cand(w).slot
  BY Zenon DEF Similar
<1>6. d.old \in Nat /\ d.links \subseteq Nat
  BY <1>3, <1>4, <1>5
<1>7. Tail(writer[w].todo) \in Seq(Candidate)
  BY <1>1, <1>4 DEF WriterState
<1>8. writer' \in [Turn -> WriterState]
  <2> DEFINE next == [writer[w] EXCEPT !.pc = IF d.write THEN "create" ELSE "search",
                                       !.todo = IF d.write THEN @ ELSE Tail(@),
                                       !.old = d.old, !.links = d.links]
  <2>1. next \in WriterState
    BY <1>4, <1>6, <1>7 DEF WriterState, Places
  <2> QED
    BY <1>2, <1>4, <2>1
<1>9. \A v \in Turn : v # w => writer'[v] = writer[v]
  BY <1>2, <1>4
<1>10. TypeOK'
  BY <1>1, <1>8 DEF WInv, TypeOK, WriterState, Places
<1>11. PendingOf(w)'
  <2>1. CASE d.write
    <3>1. /\ writer'[w].pc = "create" /\ writer'[w].todo = writer[w].todo
          /\ writer'[w].old = d.old
      BY <1>2, <1>4, <2>1 DEF WriterState
    <3>2. d.old # 0 => d.old \in DOMAIN rows /\ rows[d.old].slot = Cand(w).slot
      BY <1>3, <1>5
    <3> QED
      BY <1>1, <3>1, <3>2 DEF PendingOf, At, Cand
  <2>2. CASE ~d.write
    <3>1. writer'[w].pc = "search"
      BY <1>2, <1>4, <2>2 DEF WriterState
    <3> QED
      BY <3>1, AtRest
  <2> QED
    BY <2>1, <2>2
<1>12. Pending'
  BY <1>1, <1>9, <1>11, PendingKept DEF WInv, Pending
<1> QED
  BY <1>1, <1>10, <1>12, RowsKept DEF WInv

LEMMA CreateStep ==
  ASSUME WInv, NEW w \in Turn, Create(w)
  PROVE  WInv'
<1> DEFINE id == Len(rows) + 1
           superseding == writer[w].old # 0
           r == NewRow(Cand(w), w)
<1>1. /\ At(w, "create") /\ rows' = Append(rows, r)
      /\ writer' = [writer EXCEPT
           ![w].pc = IF superseding THEN "supersede" ELSE "search",
           ![w].todo = IF superseding THEN @ ELSE Tail(@),
           ![w].new = IF superseding THEN id ELSE 0, ![w].written = @ \cup {id}]
  BY DEF Create
<1>2. /\ rows \in Seq(Row) /\ writer \in [Turn -> WriterState]
      /\ DOMAIN rows = 1 .. Len(rows) /\ Len(rows) \in Nat
  BY DEF WInv, TypeOK, WriterState, Places
<1>3. /\ writer[w].todo # <<>>
      /\ superseding => writer[w].old \in DOMAIN rows /\ rows[writer[w].old].slot = Cand(w).slot
  BY <1>1 DEF WInv, Pending, PendingOf
<1>4. Cand(w) \in Candidate /\ Tail(writer[w].todo) \in Seq(Candidate)
  BY <1>2, <1>3 DEF WriterState, Cand
<1>5. r \in Row /\ r.slot = Cand(w).slot /\ r.by = 0 /\ ~r.gone
  BY <1>4, NewRowType
<1>6. /\ rows' \in Seq(Row) /\ DOMAIN rows' = DOMAIN rows \cup {id}
      /\ \A i \in DOMAIN rows : rows'[i] = rows[i]
      /\ rows'[id] = r
      /\ PrunedAway' /\ SupersededByNewer' /\ Headed'
  BY <1>1, <1>5, RowAdded
<1>7. writer' \in [Turn -> WriterState]
  <2> DEFINE next == [writer[w] EXCEPT !.pc = IF superseding THEN "supersede" ELSE "search",
                                       !.todo = IF superseding THEN @ ELSE Tail(@),
                                       !.new = IF superseding THEN id ELSE 0,
                                       !.written = @ \cup {id}]
  <2>1. writer[w] \in WriterState /\ id \in Nat
    BY <1>2
  <2>2. (writer[w].written \cup {id}) \in SUBSET Nat
    BY <2>1 DEF WriterState
  <2>3. next \in WriterState
    BY <1>4, <2>1, <2>2 DEF WriterState, Places
  <2> QED
    BY <1>1, <1>2, <2>3
<1>8. \A v \in Turn : v # w => writer'[v] = writer[v]
  BY <1>1, <1>2
<1>9. TypeOK'
  BY <1>6, <1>7 DEF TypeOK, WriterState, Places
<1>10. PendingOf(w)'
  <2>1. CASE superseding
    <3>1. /\ writer'[w].pc = "supersede" /\ writer'[w].todo = writer[w].todo
          /\ writer'[w].old = writer[w].old /\ writer'[w].new = id
      BY <1>1, <1>2, <2>1 DEF WriterState
    <3>2. writer[w].old \in DOMAIN rows' /\ id \in DOMAIN rows' /\ writer[w].old < id
      BY <1>2, <1>3, <1>6, <2>1
    <3>3. rows'[writer[w].old].slot = rows'[id].slot
      BY <1>3, <1>5, <1>6, <2>1
    <3> QED
      BY <1>3, <3>1, <3>2, <3>3 DEF PendingOf, At
  <2>2. CASE ~superseding
    <3>1. writer'[w].pc = "search"
      BY <1>1, <1>2, <2>2 DEF WriterState
    <3> QED
      BY <3>1, AtRest
  <2> QED
    BY <2>1, <2>2
<1>11. Pending'
  BY <1>6, <1>8, <1>10, PendingKept DEF WInv, Pending
<1> QED
  BY <1>6, <1>9, <1>11 DEF WInv

LEMMA SupersedeStep ==
  ASSUME WInv, NEW w \in Turn, Supersede(w)
  PROVE  WInv'
<1>1. /\ At(w, "supersede") /\ rows' = [rows EXCEPT ![writer[w].old].by = writer[w].new]
      /\ writer' = [writer EXCEPT ![w].pc = "search", ![w].todo = Tail(@),
                                   ![w].old = 0, ![w].links = {}, ![w].new = 0]
  BY DEF Supersede
<1>2. writer \in [Turn -> WriterState]
  BY DEF WInv, TypeOK, WriterState, Places
<1>3. /\ writer[w].todo # <<>>
      /\ writer[w].old \in DOMAIN rows /\ writer[w].new \in DOMAIN rows
      /\ writer[w].old < writer[w].new
      /\ rows[writer[w].old].slot = rows[writer[w].new].slot
  BY <1>1 DEF WInv, Pending, PendingOf
<1>4. /\ rows' \in Seq(Row) /\ DOMAIN rows' = DOMAIN rows
      /\ \A k \in DOMAIN rows : rows'[k].slot = rows[k].slot
      /\ PrunedAway' /\ SupersededByNewer' /\ Headed'
  BY <1>1, <1>3, RowSuperseded
<1>5. Tail(writer[w].todo) \in Seq(Candidate)
  BY <1>2, <1>3 DEF WriterState
<1>6. writer' \in [Turn -> WriterState]
  <2> DEFINE next == [writer[w] EXCEPT !.pc = "search", !.todo = Tail(@),
                                       !.old = 0, !.links = {}, !.new = 0]
  <2>1. next \in WriterState
    BY <1>2, <1>5 DEF WriterState, Places
  <2> QED
    BY <1>1, <1>2, <2>1
<1>7. writer'[w].pc = "search" /\ \A v \in Turn : v # w => writer'[v] = writer[v]
  BY <1>1, <1>2 DEF WriterState
<1>8. TypeOK'
  BY <1>4, <1>6 DEF TypeOK, WriterState, Places
<1>9. Pending'
  BY <1>4, <1>7, AtRest, PendingKept DEF WInv, Pending
<1> QED
  BY <1>4, <1>8, <1>9 DEF WInv

LEMMA ReportStep ==
  ASSUME WInv, NEW w \in Turn, Report(w)
  PROVE  WInv'
<1>1. UNCHANGED rows /\ writer' = [writer EXCEPT ![w] = Writer("done")]
  BY DEF Report
<1>2. writer \in [Turn -> WriterState] /\ Writer("done") \in WriterState
  BY DEF WInv, TypeOK, WriterState, Places, Writer
<1>3. TypeOK'
  BY <1>1, <1>2 DEF WInv, TypeOK, WriterState, Places
<1>4. writer'[w].pc = "done" /\ \A v \in Turn : v # w => writer'[v] = writer[v]
  BY <1>1, <1>2 DEF Writer
<1>5. Pending'
  BY <1>1, <1>4, AtRest, PendingKept DEF WInv, Pending
<1> QED
  BY <1>1, <1>3, <1>5, RowsKept DEF WInv

LEMMA CallFailsStep ==
  ASSUME WInv, NEW w \in Turn, CallFails(w)
  PROVE  WInv'
<1>1. UNCHANGED rows /\ StartOver(w)
  BY DEF CallFails
<1>2. writer \in [Turn -> WriterState] /\ Writer("failed") \in WriterState
  BY DEF WInv, TypeOK, WriterState, Places, Writer
<1>3. writer' \in [Turn -> WriterState]
  <2> DEFINE again == [writer[w] EXCEPT !.pc = "search", !.todo = writer[w].cands,
                                        !.written = {}, !.attempt = @ + 1]
  <2>0. /\ writer[w] \in WriterState /\ writer[w].cands \in Seq(Candidate)
        /\ writer[w].attempt + 1 \in Nat /\ {} \in SUBSET Nat
    BY <1>2 DEF WriterState
  <2>1. again \in WriterState
    BY <2>0 DEF WriterState, Places
  <2>2. \/ writer' = [writer EXCEPT ![w] = again]
        \/ writer' = [writer EXCEPT ![w] = Writer("failed")]
    BY <1>1, <1>2 DEF StartOver
  <2> QED
    BY <1>2, <2>1, <2>2
<1>4. /\ writer'[w].pc \in {"search", "failed"}
      /\ \A v \in Turn : v # w => writer'[v] = writer[v]
  BY <1>1, <1>2 DEF StartOver, Writer, WriterState
<1>5. TypeOK'
  BY <1>1, <1>3 DEF WInv, TypeOK, WriterState, Places
<1>6. Pending'
  BY <1>1, <1>4, AtRest, PendingKept DEF WInv, Pending
<1> QED
  BY <1>1, <1>5, <1>6, RowsKept DEF WInv

LEMMA CrashStep ==
  ASSUME WInv, Crash
  PROVE  WInv'
<1>1. /\ UNCHANGED rows
      /\ writer' = [w \in Turn |-> IF writer[w].pc \in {"idle", "done", "failed"} THEN writer[w]
                                   ELSE Writer("lost")]
  BY DEF Crash
<1>2. writer \in [Turn -> WriterState] /\ Writer("lost") \in WriterState
  BY DEF WInv, TypeOK, WriterState, Places, Writer
<1>3. TypeOK'
  BY <1>1, <1>2 DEF WInv, TypeOK, WriterState, Places
<1>4. \A w \in Turn : writer'[w].pc \in {"idle", "done", "failed", "lost"}
  BY <1>1, <1>2 DEF Writer
<1>5. Pending'
  BY <1>4, AtRest DEF Pending
<1> QED
  BY <1>1, <1>3, <1>5, RowsKept DEF WInv
-----------------------------------------------------------------------------
LEMMA AddByHandStep ==
  ASSUME WInv, NEW slot \in Slot, NEW text \in Text, NEW key \in Key \ Turn,
         AddByHand(slot, text, key)
  PROVE  WInv'
<1> DEFINE c == [slot |-> slot, text |-> text, key |-> key, src |-> "api", conf |-> 8]
           r == NewRow(c, None)
<1>1. rows' = Append(rows, r) /\ UNCHANGED writer
  BY DEF AddByHand
<1>2. r \in Row /\ r.by = 0 /\ ~r.gone
  <2>1. c \in Candidate
    BY DEF Candidate, Source
  <2> QED
    BY <2>1, NewRowType
<1>3. /\ rows' \in Seq(Row) /\ DOMAIN rows \subseteq DOMAIN rows'
      /\ \A i \in DOMAIN rows : rows'[i] = rows[i]
      /\ PrunedAway' /\ SupersededByNewer' /\ Headed'
  BY <1>1, <1>2, RowAdded
<1>4. TypeOK'
  BY <1>1, <1>3 DEF WInv, TypeOK
<1>5. Pending'
  BY <1>1, <1>3, PendingKept DEF WInv, Pending
<1> QED
  BY <1>3, <1>4, <1>5 DEF WInv

LEMMA RowStep ==
  ASSUME WInv, NEW i \in DOMAIN rows, Hide(i) \/ Prune(i) \/ \E text \in Text : Edit(i, text)
  PROVE  WInv'
<1>1. rows \in Seq(Row) /\ rows[i] \in Row
  BY DEF WInv, TypeOK
<1> DEFINE Changed ==
      \E r \in Row :
        /\ r.slot = rows[i].slot /\ r.by = rows[i].by /\ (r.gone => r.by # 0 \/ r.hidden)
        /\ rows' = [rows EXCEPT ![i] = r]
<1>2. Changed
  <2>1. CASE Hide(i)
    <3> DEFINE r == [rows[i] EXCEPT !.hidden = TRUE]
    <3>1. r \in Row /\ r.slot = rows[i].slot /\ r.by = rows[i].by /\ r.hidden
      BY <1>1 DEF Row
    <3>2. rows' = [rows EXCEPT ![i] = r]
      BY <2>1 DEF Hide
    <3> QED
      BY <3>1, <3>2
  <2>2. CASE Prune(i)
    <3> DEFINE r == [rows[i] EXCEPT !.gone = TRUE]
    <3>1. /\ r \in Row /\ r.slot = rows[i].slot /\ r.by = rows[i].by
          /\ r.hidden = rows[i].hidden
      BY <1>1 DEF Row
    <3>2. rows' = [rows EXCEPT ![i] = r] /\ (rows[i].by # 0 \/ rows[i].hidden)
      BY <2>2 DEF Prune, Live
    <3> QED
      BY <3>1, <3>2
  <2>3. ASSUME NEW text \in Text, Edit(i, text) PROVE Changed
    <3> DEFINE r == [rows[i] EXCEPT !.text = text]
    <3>1. /\ r \in Row /\ r.slot = rows[i].slot /\ r.by = rows[i].by
          /\ r.gone = rows[i].gone
      BY <1>1 DEF Row
    <3>2. rows' = [rows EXCEPT ![i] = r] /\ ~rows[i].gone
      BY <2>3 DEF Edit
    <3> QED
      BY <3>1, <3>2
  <2> QED
    BY <2>1, <2>2, <2>3
<1>3. PICK r \in Row :
        /\ r.slot = rows[i].slot /\ r.by = rows[i].by /\ (r.gone => r.by # 0 \/ r.hidden)
        /\ rows' = [rows EXCEPT ![i] = r]
  BY <1>2
<1>4. /\ rows' \in Seq(Row) /\ DOMAIN rows' = DOMAIN rows
      /\ \A k \in DOMAIN rows : rows'[k].slot = rows[k].slot
      /\ PrunedAway' /\ SupersededByNewer' /\ Headed'
  BY <1>3, RowChanged
<1>5. UNCHANGED writer
  BY DEF Hide, Prune, Edit
<1>6. TypeOK'
  BY <1>4, <1>5 DEF WInv, TypeOK
<1>7. Pending'
  BY <1>4, <1>5, PendingKept DEF WInv, Pending
<1> QED
  BY <1>4, <1>6, <1>7 DEF WInv
-----------------------------------------------------------------------------
LEMMA NextWInv ==
  ASSUME WInv, [Next]_vars
  PROVE  WInv'
<1>1. CASE \E w \in Turn : Write(w)
  BY <1>1, ExtractStep, DecideStep, CreateStep, SupersedeStep, ReportStep, CallFailsStep DEF Write
<1>2. CASE Crash
  BY <1>2, CrashStep
<1>3. CASE \E slot \in Slot, text \in Text, key \in Key \ Turn : AddByHand(slot, text, key)
  BY <1>3, AddByHandStep
<1>4. CASE \E i \in DOMAIN rows : Hide(i) \/ Prune(i) \/ \E text \in Text : Edit(i, text)
  BY <1>4, RowStep
<1>5. CASE UNCHANGED vars
  <2>1. TypeOK'
    BY <1>5 DEF WInv, TypeOK, vars
  <2>2. Pending'
    BY <1>5, PendingKept DEF WInv, Pending, vars
  <2> QED
    BY <1>5, <2>1, <2>2, RowsKept DEF WInv, vars
<1> QED
  BY <1>1, <1>2, <1>3, <1>4, <1>5 DEF Next

(* Headed says that something remains, PrunedAway that a user must have    *)
(* hidden it if it is not there.                                           *)
LEMMA WInvRemembers == WInv => Remembered
<1> SUFFICES ASSUME WInv, NEW i \in DOMAIN rows, rows[i].by # 0
             PROVE  \E j \in i + 1 .. Len(rows) :
                      rows[j].slot = rows[i].slot /\ rows[j].by = 0 /\ (rows[j].gone => rows[j].hidden)
  BY DEF Remembered
<1>1. DOMAIN rows = 1 .. Len(rows) /\ Len(rows) \in Nat
  BY DEF WInv, TypeOK
<1>2. PICK j \in DOMAIN rows : i < j /\ rows[j].slot = rows[i].slot /\ rows[j].by = 0
  BY DEF WInv, Headed, Heads
<1>3. rows[j].gone => rows[j].hidden
  BY <1>2 DEF WInv, PrunedAway
<1> QED
  BY <1>1, <1>2, <1>3

(* The writer keeps its invariant: between its calls it holds an older and *)
(* a newer memory of one slot, whatever turns, users and crashes do.       *)
THEOREM WriterInvariant == Spec => []WInv
<1>1. Init => WInv
  BY InitWInv
<1>2. WInv /\ [Next]_vars => WInv'
  BY NextWInv
<1> QED
  BY <1>1, <1>2, PTL DEF Spec

(* A memory is superseded only by a newer one of the same kind and owner,  *)
(* for any number of turns that overlap in search, create and supersede.   *)
THEOREM SupersededByNewerAlways == Spec => []SupersededByNewer
<1>1. WInv => SupersededByNewer
  BY DEF WInv
<1> QED
  BY <1>1, WriterInvariant, PTL

(* Superseding never leaves a slot without the memory that took over: the  *)
(* chain of superseded memories ends in one that is there, or was hidden   *)
(* by its user, whatever calls of MemoryWriter.write fail in between.      *)
THEOREM RememberedAlways == Spec => []Remembered
<1> QED
  BY WriterInvariant, WInvRemembers, PTL
=============================================================================
