-------------------------- MODULE ChatSessionProofs --------------------------
(***************************************************************************)
(* Theorems about ChatSession, for every set of runs and messages and      *)
(* every bound: the transcript is sound, and a page that keeps its socket  *)
(* is not left locked.  The inductive invariant is ChatInv.  What was said *)
(* (Said, the deltas of each part of each message) bounds every text that  *)
(* is saved, queued, written, replayed or shown, so an event applied late  *)
(* or twice adds nothing that is not in order; what is kept (Kept, the     *)
(* rows of the messages of closed runs) holds the content of every event   *)
(* that announces a complete message.  The page applies events one after   *)
(* the other: what holds of one event (Received) holds of all (Heard).     *)
(***************************************************************************)
EXTENDS ChatSession, NaturalsInduction, WellFoundedInduction, FiniteSetTheorems,
        SequenceTheorems, TLAPS

(* A set of numbers that is not empty has a least one.                       *)
LEMMA LeastNumber ==
  ASSUME NEW T, T \subseteq Nat, T # {}
  PROVE  \E x \in T : \A y \in T : x <= y
<1> DEFINE R == OpToRel(<, Nat)
<1>1. IsWellFoundedOn(R, Nat)
  BY NatLessThanWellFounded
<1>2. \A x, y \in Nat : x < y => <<x, y>> \in R
  BY DEF OpToRel
<1> HIDE DEF R
<1>3. PICK x \in T : \A y \in T : ~(<<y, x>> \in R)
  BY <1>1, WFMin
<1>4. ASSUME NEW y \in T PROVE x <= y
  <2>1. x \in Nat /\ y \in Nat /\ ~(<<y, x>> \in R)
    BY <1>3
  <2>2. ~(y < x)
    BY <1>2, <2>1
  <2> QED
    BY <2>1, <2>2
<1> QED
  BY <1>4

-----------------------------------------------------------------------------
(* Lists.                                                                    *)
Filtered(list, set, n, k) ==
  /\ DOMAIN k = 0..n
  /\ k[0] = <<>>
  /\ \A i \in 1..n : k[i] = IF list[i] \in set THEN Append(k[i - 1], list[i]) ELSE k[i - 1]

(* A list can be filtered: there is a list of what a set keeps of it.        *)
LEMMA FilterExists ==
  ASSUME NEW list, NEW set, NEW n \in Nat
  PROVE  \E k : Filtered(list, set, n, k)
<1> DEFINE T == {j \in 0..n : ~\E k : Filtered(list, set, j, k)}
<1> SUFFICES ASSUME ~\E k : Filtered(list, set, n, k) PROVE FALSE
  OBVIOUS
<1>1. T # {} /\ T \subseteq Nat
  <2>1. n \in 0..n
    OBVIOUS
  <2> QED
    BY <2>1
<1> HIDE DEF T
<1>2. PICK j \in T : \A l \in T : j <= l
  BY <1>1, LeastNumber
<1> USE DEF T
<1>3. j \in 0..n /\ ~\E k : Filtered(list, set, j, k)
  BY <1>2
<1>4. CASE j = 0
  <2>1. Filtered(list, set, 0, [i \in 0..0 |-> <<>>])
    BY DEF Filtered
  <2> QED
    BY <1>3, <1>4, <2>1
<1>5. CASE j # 0
  <2>1. j - 1 \in 0..n /\ j - 1 \notin T
    BY <1>2, <1>3, <1>5
  <2>2. PICK k : Filtered(list, set, j - 1, k)
    BY <2>1
  <2>3. PICK h : h = [i \in 0..j |-> IF i # j THEN k[i]
                       ELSE IF list[j] \in set THEN Append(k[j - 1], list[j]) ELSE k[j - 1]]
    OBVIOUS
  <2>4. DOMAIN h = 0..j /\ h[0] = <<>>
    BY <1>3, <1>5, <2>2, <2>3 DEF Filtered
  <2>5. ASSUME NEW i \in 1..j
        PROVE  h[i] = IF list[i] \in set THEN Append(h[i - 1], list[i]) ELSE h[i - 1]
    <3>1. i - 1 \in 0..j /\ i - 1 # j /\ i \in 0..j
      BY <1>3
    <3>2. h[i - 1] = k[i - 1]
      BY <2>3, <3>1
    <3>3. CASE i = j
      BY <2>3, <3>1, <3>2, <3>3
    <3>4. CASE i # j
      <4>1. i \in 1..(j - 1)
        BY <1>3, <3>4
      <4> QED
        BY <2>2, <2>3, <3>1, <3>2, <3>4, <4>1 DEF Filtered
    <3> QED
      BY <3>3, <3>4
  <2>6. Filtered(list, set, j, h)
    BY <2>4, <2>5 DEF Filtered
  <2> QED
    BY <1>3, <2>6
<1> QED
  BY <1>4, <1>5

(* What Only keeps of a list: members of the list, in its order.             *)
LEMMA OnlyIs ==
  ASSUME NEW list, Len(list) \in Nat, NEW set
  PROVE  \E k : Filtered(list, set, Len(list), k) /\ Only(list, set) = k[Len(list)]
<1> DEFINE f == CHOOSE f : f = [i \in 0..Len(list) |->
                   IF i = 0 THEN <<>>
                   ELSE IF list[i] \in set THEN Append(f[i - 1], list[i]) ELSE f[i - 1]]
<1>1. PICK k : Filtered(list, set, Len(list), k)
  BY FilterExists
<1>2. \E g : g = [i \in 0..Len(list) |->
                   IF i = 0 THEN <<>>
                   ELSE IF list[i] \in set THEN Append(g[i - 1], list[i]) ELSE g[i - 1]]
  <2>1. PICK g : g = [i \in 0..Len(list) |-> k[i]]
    OBVIOUS
  <2>2. PICK h : h = [i \in 0..Len(list) |->
                   IF i = 0 THEN <<>>
                   ELSE IF list[i] \in set THEN Append(g[i - 1], list[i]) ELSE g[i - 1]]
    OBVIOUS
  <2>3. ASSUME NEW i \in 0..Len(list) PROVE g[i] = h[i]
    <3>1. CASE i = 0
      BY <1>1, <2>1, <2>2, <3>1 DEF Filtered
    <3>2. CASE i # 0
      <4>1. i \in 1..Len(list) /\ i - 1 \in 0..Len(list)
        BY <3>2
      <4>2. k[i] = IF list[i] \in set THEN Append(k[i - 1], list[i]) ELSE k[i - 1]
        BY <1>1, <4>1 DEF Filtered
      <4>3. g[i] = k[i] /\ g[i - 1] = k[i - 1]
        BY <2>1, <4>1
      <4> QED
        BY <2>2, <3>2, <4>2, <4>3
    <3> QED
      BY <3>1, <3>2
  <2>4. g = h
    <3>1. DOMAIN g = 0..Len(list) /\ DOMAIN h = 0..Len(list)
      BY <2>1, <2>2
    <3>2. g = [i \in 0..Len(list) |-> g[i]] /\ h = [i \in 0..Len(list) |-> h[i]]
      BY <2>1, <2>2, <3>1
    <3> QED
      BY <2>3, <3>2
  <2> QED
    BY <2>2, <2>4
<1>3. f = [i \in 0..Len(list) |->
                   IF i = 0 THEN <<>>
                   ELSE IF list[i] \in set THEN Append(f[i - 1], list[i]) ELSE f[i - 1]]
  BY <1>2
<1>4. Only(list, set) = f[Len(list)]
  BY DEF Only
<1> HIDE DEF f
<1>5. Filtered(list, set, Len(list), f)
  <2>1. DOMAIN f = 0..Len(list)
    BY <1>3
  <2>2. \A i \in 0..Len(list) : f[i] = IF i = 0 THEN <<>>
                   ELSE IF list[i] \in set THEN Append(f[i - 1], list[i]) ELSE f[i - 1]
    BY <1>3
  <2>3. 0 \in 0..Len(list) /\ \A i \in 1..Len(list) : i \in 0..Len(list) /\ i # 0
    OBVIOUS
  <2> QED
    BY <2>1, <2>2, <2>3 DEF Filtered
<1> QED
  BY <1>4, <1>5

(* A filtered list has the elements of the list that are in the set.         *)
LEMMA OnlyKeeps ==
  ASSUME NEW S, NEW list \in Seq(S), NEW set
  PROVE  /\ Only(list, set) \in Seq(S \cap set)
         /\ \A i \in 1..Len(list) : list[i] \in set =>
              \E j \in 1..Len(Only(list, set)) : Only(list, set)[j] = list[i]
<1> DEFINE n == Len(list)
<1>0. n \in Nat /\ \A i \in 1..n : list[i] \in S
  OBVIOUS
<1>1. PICK k : Filtered(list, set, n, k) /\ Only(list, set) = k[n]
  BY <1>0, OnlyIs
<1> HIDE DEF n
<1> DEFINE Good(j) == /\ k[j] \in Seq(S \cap set)
                      /\ \A i \in 1..j : list[i] \in set =>
                           \E l \in 1..Len(k[j]) : k[j][l] = list[i]
           T == {j \in 0..n : ~Good(j)}
<1>2. ASSUME T # {} PROVE FALSE
  <2>1. T \subseteq Nat
    BY <1>0
  <2> HIDE DEF T
  <2>2. PICK j \in T : \A l \in T : j <= l
    BY <1>2, <2>1, LeastNumber
  <2> USE DEF T
  <2>3. j \in 0..n /\ ~Good(j)
    BY <2>2
  <2>4. j # 0
    <3>1. ASSUME j = 0 PROVE FALSE
      <4>1. k[0] = <<>>
        BY <1>1 DEF Filtered
      <4>2. Good(0)
        BY <4>1
      <4> QED
        BY <2>3, <3>1, <4>2
    <3> QED
      BY <3>1
  <2>5. j - 1 \in 0..n /\ j \in 1..n /\ j - 1 < j
    BY <1>0, <2>3, <2>4
  <2>6. Good(j - 1)
    BY <1>0, <2>2, <2>5
  <2>7. k[j] = IF list[j] \in set THEN Append(k[j - 1], list[j]) ELSE k[j - 1]
    BY <1>1, <2>5 DEF Filtered
  <2> DEFINE b == k[j - 1]
  <2>8. b \in Seq(S \cap set) /\ \A i \in 1..(j - 1) : list[i] \in set => \E l \in 1..Len(b) : b[l] = list[i]
    BY <2>6
  <2> HIDE DEF b
  <2>9. CASE list[j] \in set
    <3>1. list[j] \in S \cap set /\ k[j] = Append(b, list[j])
      BY <1>0, <2>5, <2>7, <2>9 DEF b
    <3>2. /\ k[j] \in Seq(S \cap set) /\ Len(k[j]) = Len(b) + 1 /\ Len(b) \in Nat
          /\ k[j][Len(b) + 1] = list[j] /\ \A l \in 1..Len(b) : k[j][l] = b[l]
      BY <2>8, <3>1
    <3>3. ASSUME NEW i \in 1..j, list[i] \in set
          PROVE  \E l \in 1..Len(k[j]) : k[j][l] = list[i]
      <4>1. CASE i = j
        BY <3>2, <4>1
      <4>2. CASE i # j
        <5>1. i \in 1..(j - 1)
          BY <2>5, <4>2
        <5>2. PICK l \in 1..Len(b) : b[l] = list[i]
          BY <2>8, <3>3, <5>1
        <5> QED
          BY <3>2, <5>2
      <4> QED
        BY <4>1, <4>2
    <3> QED
      BY <2>3, <3>2, <3>3
  <2>10. CASE list[j] \notin set
    <3>1. k[j] = b
      BY <2>7, <2>10 DEF b
    <3>2. ASSUME NEW i \in 1..j, list[i] \in set
          PROVE  i \in 1..(j - 1)
      BY <2>5, <2>10, <3>2
    <3> QED
      BY <2>3, <2>8, <3>1, <3>2
  <2> QED
    BY <2>9, <2>10
<1>3. Good(n)
  BY <1>0, <1>2
<1> QED
  BY <1>1, <1>3 DEF n

-----------------------------------------------------------------------------
(* Parts and events. *)
LEMMA ListOf ==
  ASSUME NEW S, NEW n \in Nat, NEW f \in [1..n -> S]
  PROVE  f \in Seq(S) /\ Len(f) = n /\ DOMAIN f = 1..n
BY SeqDef

(* What a list is, as a function.                                            *)
LEMMA ListIs ==
  ASSUME NEW S, NEW s \in Seq(S)
  PROVE  /\ Len(s) \in Nat /\ DOMAIN s = 1..Len(s)
         /\ s \in [1..Len(s) -> S] /\ \A i \in 1..Len(s) : s[i] \in S
OBVIOUS

(* No run and no message has the number that stands for none.                *)
LEMMA Ids ==
  /\ NoRun \notin Run /\ Run \subseteq Nat /\ 0 \notin Msg /\ Msg \subseteq Nat
<1>1. Cardinality(Run) \in Nat /\ Cardinality(Msg) \in Nat
  BY ChatAssumption, FS_CardinalityType
<1> QED
  BY <1>1, ChatAssumption DEF NoRun

Words ==
  {"text", "status", "tool_use", "tool_result", "error", "streaming", "running", "pending",
   "completed", "failed", "interrupted", "none", "progress", "final", "user_prompt",
   "absent", "loaded", "stopped"}

Part == [id : Nat, kind : Words, st : Words, text : Seq(Nat), role : Words]

Rising(text, k) ==
  /\ \A j \in 1..Len(text) : text[j] <= k
  /\ \A j \in 1..(Len(text) - 1) : text[j] < text[j + 1]

Patch == [st : Words] \cup [role : Words] \cup [st : Words, text : Seq(Nat)]

(* A text that rises to k rises to every n above it.                         *)
LEMMA RisingBelow ==
  ASSUME NEW t \in Seq(Nat), NEW k \in Nat, NEW n \in Nat, k <= n, Rising(t, k)
  PROVE  Rising(t, n) /\ \A j \in 1..Len(t) : t[j] \in Nat /\ t[j] <= n
<1>1. \A j \in 1..Len(t) : t[j] \in Nat
  OBVIOUS
<1> QED
  BY <1>1 DEF Rising

(* A patch changes the fields it brings and leaves the part a part.          *)
LEMMA PatchedIs ==
  ASSUME NEW part \in Part, NEW patch \in Patch
  PROVE  /\ Patched(part, patch) \in Part
         /\ Patched(part, patch).id = part.id
         /\ Patched(part, patch).text = IF "text" \in DOMAIN patch THEN patch.text ELSE part.text
<1>1. CASE patch \in [st : Words]
  <2>1. Patched(part, patch) = [part EXCEPT !.st = patch.st]
    BY <1>1 DEF Patched, Part
  <2> QED
    BY <1>1, <2>1 DEF Part
<1>2. CASE patch \in [role : Words]
  <2>1. Patched(part, patch) = [part EXCEPT !.role = patch.role]
    BY <1>2 DEF Patched, Part
  <2> QED
    BY <1>2, <2>1 DEF Part
<1>3. CASE patch \in [st : Words, text : Seq(Nat)]
  <2>1. Patched(part, patch) = [part EXCEPT !.st = patch.st, !.text = patch.text]
    BY <1>3 DEF Patched, Part
  <2> QED
    BY <1>3, <2>1 DEF Part
<1> QED
  BY <1>1, <1>2, <1>3 DEF Patch

(* A patch that is a whole part replaces the part.                           *)
LEMMA PatchedPart ==
  ASSUME NEW part \in Part, NEW new \in Part
  PROVE  Patched(part, new) = new
BY DEF Patched, Part

(* An event has the fields of what it tells, and its run and message.        *)
LEMMA EventFields ==
  ASSUME NEW r, NEW m, NEW e, NEW f \in DOMAIN e, f \notin {"run", "msg"}
  PROVE  /\ Event(r, m, e).run = r /\ Event(r, m, e).msg = m
         /\ Event(r, m, e)[f] = e[f]
BY DEF Event

-----------------------------------------------------------------------------
(* The page. *)

Content == {MergeContent(ps) : ps \in Seq(Part)} \cup {<<>>}
Message == [st : Words, run : Run \cup {NoRun}, parts : Seq(Part), content : Content]
DeltaMap == UNION {[D -> Nat] : D \in SUBSET Nat}
Client == [msgs : [Msg -> Message], placeholders : Nat, lastDelta : [Msg -> DeltaMap],
           active : Run \cup {NoRun}, waiting : Run \cup {NoRun},
           pending : BOOLEAN, timer : BOOLEAN, lastSeq : Nat]

(* The last deltas taken, 0 for none. *)
Taken(y) == [id \in Nat |-> IF id \in DOMAIN y THEN y[id] ELSE 0]

(* Parts whose texts rise, no higher than k, and above n only by deltas taken. *)
Good(n, k, y) ==
  {p \in Part : /\ Rising(p.text, k[p.id])
                /\ \A j \in 1..Len(p.text) : p.text[j] <= n[p.id] \/ p.text[j] <= Taken(y)[p.id]}

MessageOK(m, x, y, n, k, A) ==
  /\ x.parts \in Seq(Good(n, k, y))
  /\ \A id \in Nat : Taken(y)[id] <= k[id]
  /\ x.st = "completed" => <<m, x.content>> \in A

PageOK(c, N, M, A) ==
  /\ c \in Client
  /\ \A m \in Msg : MessageOK(m, c.msgs[m], c.lastDelta[m], N[m], M[m], A)

Bounds == [Msg -> [Nat -> Nat]]
AtMost(a, b) == \A i \in Nat : a[i] <= b[i]

(* Of a message of which no delta was taken, none was taken of any part.     *)
LEMMA NoDeltas ==
  /\ <<>> \in DeltaMap
  /\ Taken(<<>>) = [id \in Nat |-> 0]
<1>1. PICK f : f = [i \in {} |-> 0]
  OBVIOUS
<1>2. f \in [{} -> Nat] /\ {} \in SUBSET Nat
  BY <1>1
<1>3. f = <<>>
  <2>1. DOMAIN f = 1..0 /\ Len(<<>>) = 0
    BY <1>1
  <2> QED
    BY <1>1, <2>1
<1> QED
  BY <1>2, <1>3 DEF DeltaMap, Taken

(* The last deltas taken are numbers.                                        *)
LEMMA TakenIn ==
  ASSUME NEW y \in DeltaMap
  PROVE  Taken(y) \in [Nat -> Nat]
<1>1. PICK D \in SUBSET Nat : y \in [D -> Nat]
  BY DEF DeltaMap
<1> QED
  BY <1>1 DEF Taken

(* A patch is typed, and so is a text it brings. *)
PatchOK(patch, k) ==
  patch \in Patch /\ ("text" \in DOMAIN patch => Rising(patch.text, k))

(* Patched parts stay good when the patch brings a good text or none.        *)
LEMMA PatchKeeps ==
  ASSUME NEW n \in [Nat -> Nat], NEW k \in [Nat -> Nat], NEW y, NEW id, NEW patch, AtMost(k, n),
         id \in Nat => PatchOK(patch, k[id]), patch \in Patch,
         NEW ps \in Seq(Good(n, k, y))
  PROVE  PatchParts(ps, id, patch) \in Seq(Good(n, k, y))
<1> DEFINE G == Good(n, k, y)
<1>1. ASSUME NEW p \in G, p.id = id
      PROVE  Patched(p, patch) \in G
  <2>1. p \in Part /\ p.id \in Nat
    BY <1>1 DEF Good, Part
  <2>2. /\ Patched(p, patch) \in Part /\ Patched(p, patch).id = id
        /\ Patched(p, patch).text = IF "text" \in DOMAIN patch THEN patch.text ELSE p.text
    BY <2>1, <1>1, PatchedIs
  <2>3. CASE "text" \in DOMAIN patch
    <3>1. Rising(patch.text, k[id]) /\ k[id] <= n[id] /\ k[id] \in Nat /\ n[id] \in Nat
      BY <1>1, <2>1, <2>3 DEF PatchOK, AtMost
    <3>2. patch.text \in Seq(Nat)
      BY <2>2, <2>3 DEF Part
    <3>3. \A j \in 1..Len(patch.text) : patch.text[j] \in Nat /\ patch.text[j] <= n[id]
      BY <3>1, <3>2, RisingBelow
    <3> QED
      BY <2>2, <2>3, <3>1, <3>3 DEF Good
  <2>4. CASE "text" \notin DOMAIN patch
    BY <1>1, <2>2, <2>4 DEF Good
  <2> QED
    BY <2>3, <2>4
<1> HIDE DEF G
<1>2. ps \in Seq(G)
  BY DEF G
<1>3. DOMAIN ps = 1..Len(ps) /\ Len(ps) \in Nat /\ \A i \in 1..Len(ps) : ps[i] \in G
  BY <1>2, ListIs
<1>4. \A i \in 1..Len(ps) : (IF ps[i].id = id THEN Patched(ps[i], patch) ELSE ps[i]) \in G
  BY <1>1, <1>3
<1>5. PatchParts(ps, id, patch) \in Seq(G)
  <2> DEFINE f == [i \in 1..Len(ps) |-> IF ps[i].id = id THEN Patched(ps[i], patch) ELSE ps[i]]
  <2>1. f \in [1..Len(ps) -> G]
    BY <1>4
  <2>2. PatchParts(ps, id, patch) = f
    BY <1>3 DEF PatchParts
  <2> HIDE DEF f
  <2> QED
    BY <1>3, <2>1, <2>2, ListOf
<1> QED
  BY <1>5 DEF G

(* A change of one message. *)
LEMMA OneMessage ==
  ASSUME NEW N, NEW M, NEW A, NEW c, PageOK(c, N, M, A), NEW m \in Msg,
         NEW x \in Message, NEW y \in DeltaMap, MessageOK(m, x, y, N[m], M[m], A),
         NEW d \in Client, d.msgs = [c.msgs EXCEPT ![m] = x],
         d.lastDelta = [c.lastDelta EXCEPT ![m] = y]
  PROVE  PageOK(d, N, M, A)
<1>1. DOMAIN c.msgs = Msg /\ DOMAIN c.lastDelta = Msg
  BY DEF PageOK, Client
<1>2. ASSUME NEW k \in Msg PROVE MessageOK(k, d.msgs[k], d.lastDelta[k], N[k], M[k], A)
  <2>1. CASE k = m
    <3>1. d.msgs[k] = x /\ d.lastDelta[k] = y
      BY <1>1, <2>1
    <3> QED
      BY <2>1, <3>1
  <2>2. CASE k # m
    <3>1. d.msgs[k] = c.msgs[k] /\ d.lastDelta[k] = c.lastDelta[k]
      BY <1>1, <2>2
    <3> QED
      BY <3>1 DEF PageOK
  <2> QED
    BY <2>1, <2>2
<1> QED
  BY <1>2 DEF PageOK

(* What is known of one message of the page. *)
LEMMA MessageOf ==
  ASSUME NEW N \in Bounds, NEW M \in Bounds, NEW A, NEW c, PageOK(c, N, M, A), NEW m \in Msg
  PROVE  /\ c \in Client /\ c.msgs \in [Msg -> Message] /\ c.lastDelta \in [Msg -> DeltaMap]
         /\ c.msgs[m] \in Message /\ c.lastDelta[m] \in DeltaMap
         /\ c.msgs[m].parts \in Seq(Good(N[m], M[m], c.lastDelta[m]))
         /\ c.msgs[m].parts \in Seq(Part)
         /\ \A id \in Nat : Taken(c.lastDelta[m])[id] <= M[m][id]
         /\ c.msgs[m].st = "completed" => <<m, c.msgs[m].content>> \in A
         /\ N[m] \in [Nat -> Nat] /\ M[m] \in [Nat -> Nat]
         /\ Taken(c.lastDelta[m]) \in [Nat -> Nat]
<1>1. c \in Client /\ MessageOK(m, c.msgs[m], c.lastDelta[m], N[m], M[m], A)
  BY DEF PageOK
<1>2. c.msgs \in [Msg -> Message] /\ c.lastDelta \in [Msg -> DeltaMap]
  BY <1>1 DEF Client
<1>3. c.msgs[m] \in Message /\ c.lastDelta[m] \in DeltaMap
  BY <1>2
<1>4. c.msgs[m].parts \in Seq(Part)
  BY <1>3 DEF Message
<1>5. N[m] \in [Nat -> Nat] /\ M[m] \in [Nat -> Nat]
  BY DEF Bounds
<1> QED
  BY <1>1, <1>2, <1>3, <1>4, <1>5, TakenIn DEF MessageOK

(* A part without a text is good.                                            *)
LEMMA EmptyTextGood ==
  ASSUME NEW n, NEW k, NEW y, NEW p \in Part, p.text = <<>>
  PROVE  p \in Good(n, k, y)
<1>1. Len(p.text) = 0
  OBVIOUS
<1> QED
  BY <1>1 DEF Good, Rising

(* agent.message.started leaves a page within bounds so.                     *)
LEMMA StartedKeeps ==
  ASSUME NEW N \in Bounds, NEW M \in Bounds, NEW A, NEW c, PageOK(c, N, M, A),
         NEW m \in Msg, NEW r \in Run
  PROVE  PageOK(ReduceStarted(c, m, r), N, M, A)
<1> DEFINE old == c.msgs[m]
           y == c.lastDelta[m]
           G == Good(N[m], M[m], y)
           ps == IF old.parts = <<>> THEN <<LocalPending>> ELSE old.parts
           x == [old EXCEPT !.st = "streaming", !.run = r, !.parts = ps]
           d == ReduceStarted(c, m, r)
<1>1. /\ c \in Client /\ old \in Message /\ y \in DeltaMap /\ old.parts \in Seq(G)
      /\ \A id \in Nat : Taken(y)[id] <= M[m][id]
      /\ c.msgs \in [Msg -> Message] /\ c.lastDelta \in [Msg -> DeltaMap]
  BY MessageOf
<1>2. LocalPending \in Part /\ LocalPending.text = <<>>
  <2>1. <<>> \in Seq(Nat)
    OBVIOUS
  <2> QED
    BY <2>1 DEF LocalPending, Part, Words
<1>3. LocalPending \in G
  BY <1>2, EmptyTextGood
<1> HIDE DEF G
<1>4. ps \in Seq(G)
  BY <1>1, <1>3
<1>5. ps \in Seq(Part)
  BY <1>1, <1>2 DEF Message
<1>6. /\ x \in Message /\ x.parts = ps /\ x.st = "streaming"
  <2> HIDE DEF ps, old
  <2> QED
    BY <1>1, <1>5 DEF Message, Words
<1>7. MessageOK(m, x, y, N[m], M[m], A)
  BY <1>1, <1>4, <1>6 DEF MessageOK, G
<1>8. /\ d.msgs = [c.msgs EXCEPT ![m] = x]
      /\ d.lastDelta = c.lastDelta
      /\ d \in Client
  <2>1. d = [c EXCEPT !.msgs = [c.msgs EXCEPT ![m] = x],
               !.placeholders = IF IsKnown(c, m) \/ c.placeholders = 0 THEN c.placeholders ELSE c.placeholders - 1]
    BY DEF ReduceStarted
  <2>2. [c.msgs EXCEPT ![m] = x] \in [Msg -> Message]
    BY <1>1, <1>6
  <2> HIDE DEF d, x
  <2>3. c.placeholders \in Nat
    BY <1>1 DEF Client
  <2>4. (IF IsKnown(c, m) \/ c.placeholders = 0 THEN c.placeholders ELSE c.placeholders - 1) \in Nat
    BY <2>3
  <2> QED
    BY <1>1, <2>1, <2>2, <2>4 DEF Client
<1>9. c.lastDelta = [c.lastDelta EXCEPT ![m] = y]
  BY <1>1
<1> HIDE DEF d, x, y
<1> QED
  BY <1>1, <1>6, <1>7, <1>8, <1>9, OneMessage DEF d

(* So does agent.message.part.started.                                       *)
LEMMA PartStartedKeeps ==
  ASSUME NEW N \in Bounds, NEW M \in Bounds, NEW A, NEW c, PageOK(c, N, M, A),
         NEW m \in Msg, NEW part \in Part, part.text = <<>>
  PROVE  PageOK(ReducePartStarted(c, m, part), N, M, A)
<1> DEFINE old == c.msgs[m]
           y == c.lastDelta[m]
           G == Good(N[m], M[m], y)
           real == Only(old.parts, Range(old.parts) \ {LocalPending})
           ps == IF HasPart(real, part.id) THEN PatchParts(real, part.id, part) ELSE Append(real, part)
           x == [old EXCEPT !.parts = ps]
           d == [c EXCEPT !.msgs[m].parts = ps]
<1>1. /\ c \in Client /\ old \in Message /\ y \in DeltaMap /\ old.parts \in Seq(G)
      /\ \A id \in Nat : Taken(y)[id] <= M[m][id]
      /\ old.st = "completed" => <<m, old.content>> \in A
      /\ c.msgs \in [Msg -> Message] /\ c.lastDelta \in [Msg -> DeltaMap]
  BY MessageOf
<1>2. part \in G /\ G \subseteq Part
  BY EmptyTextGood DEF Good
<1> HIDE DEF G
<1>3. real \in Seq(G)
  <2>1. real \in Seq(G \cap (Range(old.parts) \ {LocalPending}))
    BY <1>1, OnlyKeeps
  <2> QED
    BY <2>1, SeqMonotonic
<1> HIDE DEF real, old, y
<1>4. ps \in Seq(G)
  <2>1. Append(real, part) \in Seq(G)
    BY <1>2, <1>3
  <2>2. PatchParts(real, part.id, part) \in Seq(G)
    <3> DEFINE f == [i \in 1..Len(real) |-> IF real[i].id = part.id THEN Patched(real[i], part) ELSE real[i]]
    <3>1. Len(real) \in Nat /\ DOMAIN real = 1..Len(real) /\ \A i \in 1..Len(real) : real[i] \in G
      BY <1>3, ListIs
    <3>2. \A i \in 1..Len(real) : Patched(real[i], part) = part
      BY <1>2, <3>1, PatchedPart
    <3>3. f \in [1..Len(real) -> G]
      BY <1>2, <3>1, <3>2
    <3>4. PatchParts(real, part.id, part) = f
      BY <3>1 DEF PatchParts
    <3> HIDE DEF f
    <3> QED
      BY <3>1, <3>3, <3>4, ListOf
  <2> QED
    BY <2>1, <2>2
<1>5. ps \in Seq(Part)
  BY <1>2, <1>4, SeqMonotonic
<1> HIDE DEF ps
<1>6. x \in Message /\ x.parts = ps /\ x.st = old.st /\ x.content = old.content
  BY <1>1, <1>5 DEF Message
<1>7. MessageOK(m, x, y, N[m], M[m], A)
  <2> HIDE DEF x
  <2> QED
    BY <1>1, <1>4, <1>6 DEF MessageOK, G
<1>8. d.msgs = [c.msgs EXCEPT ![m] = x] /\ d.lastDelta = c.lastDelta
  BY <1>1 DEF Client, old
<1>9. d \in Client
  <2>1. [c.msgs EXCEPT ![m] = x] \in [Msg -> Message]
    BY <1>1, <1>6
  <2>2. d = [c EXCEPT !.msgs = [c.msgs EXCEPT ![m] = x]]
    BY DEF old
  <2> HIDE DEF d, x
  <2> QED
    BY <1>1, <2>1, <2>2 DEF Client
<1>10. c.lastDelta = [c.lastDelta EXCEPT ![m] = y]
  BY <1>1 DEF y
<1>11. ReducePartStarted(c, m, part) = IF IsKnown(c, m) THEN d ELSE c
  BY DEF ReducePartStarted, d, ps, real, old
<1> HIDE DEF d, x
<1>12. PageOK(d, N, M, A)
  BY <1>1, <1>6, <1>7, <1>8, <1>9, <1>10, OneMessage
<1> QED
  BY <1>11, <1>12

(* Parts that were good stay good when bounds grow and more deltas are       *)
(* taken.                                                                    *)
LEMMA GoodGrows ==
  ASSUME NEW n \in [Nat -> Nat], NEW k \in [Nat -> Nat], NEW y \in DeltaMap, NEW z \in DeltaMap,
         \A id \in Nat : Taken(y)[id] <= Taken(z)[id]
  PROVE  Good(n, k, y) \subseteq Good(n, k, z)
<1> SUFFICES ASSUME NEW p \in Good(n, k, y) PROVE p \in Good(n, k, z)
  OBVIOUS
<1> DEFINE t == p.text
           a == n[p.id]
           b == Taken(y)[p.id]
           e == Taken(z)[p.id]
<1>1. p \in Part /\ p.id \in Nat /\ t \in Seq(Nat)
  BY DEF Good, Part
<1>2. /\ Rising(t, k[p.id])
      /\ \A j \in 1..Len(t) : t[j] <= a \/ t[j] <= b
  BY DEF Good
<1>3. a \in Nat /\ b \in Nat /\ e \in Nat /\ b <= e
  BY <1>1, TakenIn
<1> HIDE DEF t, a, b, e
<1>4. \A j \in 1..Len(t) : t[j] \in Nat
  BY <1>1, ListIs
<1>5. ASSUME NEW j \in 1..Len(t) PROVE t[j] <= a \/ t[j] <= e
  <2> DEFINE v == t[j]
  <2>1. v \in Nat /\ (v <= a \/ v <= b)
    BY <1>2, <1>4
  <2> HIDE DEF v
  <2>2. v <= a \/ v <= e
    BY <1>3, <2>1
  <2> QED
    BY <2>2 DEF v
<1> QED
  BY <1>1, <1>2, <1>5 DEF Good, t, a, e

(* A delta above all that was taken makes the text longer. *)
LEMMA RisingAppend ==
  ASSUME NEW t \in Seq(Nat), NEW k \in Nat, NEW new \in Nat, Rising(t, k), new <= k,
         \A j \in 1..Len(t) : t[j] < new
  PROVE  Append(t, new) \in Seq(Nat) /\ Rising(Append(t, new), k)
<1> DEFINE s == Append(t, new)
<1>1. s \in Seq(Nat) /\ Len(s) = Len(t) + 1 /\ Len(t) \in Nat /\ s[Len(t) + 1] = new
      /\ \A j \in 1..Len(t) : s[j] = t[j]
  OBVIOUS
<1> HIDE DEF s
<1>2. \A j \in 1..Len(s) : s[j] <= k
  <2> TAKE j \in 1..Len(s)
  <2>1. CASE j = Len(t) + 1
    BY <1>1, <2>1
  <2>2. CASE j # Len(t) + 1
    <3>1. j \in 1..Len(t)
      BY <1>1, <2>2
    <3> QED
      BY <1>1, <3>1 DEF Rising
  <2> QED
    BY <2>1, <2>2
<1>3. \A j \in 1..(Len(s) - 1) : s[j] < s[j + 1]
  <2> TAKE j \in 1..(Len(s) - 1)
  <2>1. j \in 1..Len(t) /\ s[j] = t[j]
    BY <1>1
  <2>2. CASE j = Len(t)
    BY <1>1, <2>1, <2>2
  <2>3. CASE j # Len(t)
    <3>1. j + 1 \in 1..Len(t) /\ j \in 1..(Len(t) - 1)
      BY <1>1, <2>1, <2>3
    <3> QED
      BY <1>1, <2>1, <3>1 DEF Rising
  <2> QED
    BY <2>2, <2>3
<1> QED
  BY <1>1, <1>2, <1>3 DEF Rising, s

(* So does a delta: it is taken only above the last one taken of its part.   *)
LEMMA DeltaKeeps ==
  ASSUME NEW N \in Bounds, NEW M \in Bounds, NEW A, NEW c, PageOK(c, N, M, A),
         NEW m \in Msg, NEW id \in Nat, NEW index \in Nat, N[m][id] < index, index <= M[m][id]
  PROVE  PageOK(ReduceDelta(c, m, id, index), N, M, A)
<1> DEFINE old == c.msgs[m]
           y == c.lastDelta[m]
           z == [i \in DOMAIN y \cup {id} |-> IF i = id THEN index ELSE y[i]]
           G == Good(N[m], M[m], z)
           c1 == [c EXCEPT !.lastDelta[m] = z]
           longer == [i \in DOMAIN old.parts |->
                        IF old.parts[i].id = id /\ old.parts[i].kind = "text"
                        THEN [old.parts[i] EXCEPT !.text = Append(@, index)] ELSE old.parts[i]]
           new == [id |-> id, kind |-> "text", st |-> "streaming", text |-> <<index>>, role |-> "none"]
           ps == IF HasPart(old.parts, id) THEN longer ELSE Append(old.parts, new)
           x == [old EXCEPT !.st = "streaming", !.parts = ps]
           d == [c1 EXCEPT !.msgs[m].st = "streaming", !.msgs[m].parts = ps]
<1>1. /\ c \in Client /\ old \in Message /\ y \in DeltaMap /\ old.parts \in Seq(Good(N[m], M[m], y))
      /\ \A i \in Nat : Taken(y)[i] <= M[m][i]
      /\ old.st = "completed" => <<m, old.content>> \in A
      /\ c.msgs \in [Msg -> Message] /\ c.lastDelta \in [Msg -> DeltaMap]
      /\ N[m] \in [Nat -> Nat] /\ M[m] \in [Nat -> Nat] /\ Taken(y) \in [Nat -> Nat]
  BY MessageOf
<1>2. LastDelta(c, m, id) = Taken(y)[id]
  BY DEF LastDelta, Taken
<1>3. CASE index <= Taken(y)[id]
  BY <1>2, <1>3 DEF ReduceDelta
<1>4. CASE ~(index <= Taken(y)[id])
  <2>1. z \in DeltaMap
    <3>1. PICK D \in SUBSET Nat : y \in [D -> Nat]
      BY <1>1 DEF DeltaMap
    <3>2. z \in [D \cup {id} -> Nat] /\ D \cup {id} \in SUBSET Nat
      BY <3>1
    <3> QED
      BY <3>2 DEF DeltaMap
  <2>2. \A i \in Nat : Taken(z)[i] = IF i = id THEN index ELSE Taken(y)[i]
    BY DEF Taken
  <2>3. \A i \in Nat : Taken(z)[i] <= M[m][i] /\ Taken(y)[i] <= Taken(z)[i]
    <3> TAKE i \in Nat
    <3>1. Taken(y)[i] \in Nat /\ M[m][i] \in Nat /\ Taken(y)[i] <= M[m][i]
      BY <1>1
    <3> HIDE DEF y, z
    <3>2. CASE i = id
      BY <1>4, <2>2, <3>1, <3>2
    <3>3. CASE i # id
      BY <2>2, <3>1, <3>3
    <3> QED
      BY <3>2, <3>3
  <2> HIDE DEF z, G
  <2>11. Good(N[m], M[m], y) \subseteq G /\ G \subseteq Part
    <3>1. Good(N[m], M[m], y) \subseteq Good(N[m], M[m], z)
      <4> HIDE DEF y
      <4> QED
        BY <1>1, <2>1, <2>3, GoodGrows
    <3>2. G \subseteq Part
      BY DEF G, Good
    <3> QED
      BY <3>1, <3>2 DEF G
  <2>4. old.parts \in Seq(G)
    BY <1>1, <2>11, SeqMonotonic
  <2>5. c1 \in Client /\ c1.msgs = c.msgs /\ c1.lastDelta = [c.lastDelta EXCEPT ![m] = z]
    BY <1>1, <2>1 DEF Client
  <2>6. MessageOK(m, old, z, N[m], M[m], A)
    BY <1>1, <2>3, <2>4 DEF MessageOK, G
  <2>7. PageOK(c1, N, M, A)
    <3>1. c.msgs = [c.msgs EXCEPT ![m] = old]
      BY <1>1
    <3>2. c1.msgs = [c.msgs EXCEPT ![m] = old]
      BY <2>5, <3>1
    <3>3. old \in Message
      BY <1>1
    <3>4. c1 \in Client /\ c1.lastDelta = [c.lastDelta EXCEPT ![m] = z]
      BY <2>5
    <3> HIDE DEF c1, old, y
    <3> QED
      BY <2>1, <2>6, <3>2, <3>3, <3>4, OneMessage
  <2>8. M[m][id] \in Nat /\ N[m][id] \in Nat
    BY <1>1
  <2>9. ASSUME NEW p \in Good(N[m], M[m], y), p.id = id
        PROVE  [p EXCEPT !.text = Append(@, index)] \in G
    <3> DEFINE q == [p EXCEPT !.text = Append(p.text, index)]
               t == p.text
    <3>1. p \in Part /\ t \in Seq(Nat) /\ Rising(t, M[m][id])
      BY <2>9 DEF Good, Part
    <3>2. \A j \in 1..Len(t) : t[j] \in Nat /\ (t[j] <= N[m][id] \/ t[j] <= Taken(y)[id])
      BY <2>9, <3>1 DEF Good
    <3>3. Taken(y)[id] \in Nat
      BY <1>1
    <3>4. \A j \in 1..Len(t) : t[j] < index
      BY <1>4, <2>8, <3>2, <3>3
    <3> HIDE DEF t
    <3>5. Append(t, index) \in Seq(Nat) /\ Rising(Append(t, index), M[m][id])
      BY <2>8, <3>1, <3>4, RisingAppend
    <3>6. q \in Part /\ q.id = id /\ q.text = Append(t, index)
      BY <2>9, <3>1, <3>5 DEF Part, t
    <3>7. Taken(z)[id] = index
      BY <2>2
    <3>8. Len(Append(t, index)) = Len(t) + 1 /\ Len(t) \in Nat
          /\ \A j \in 1..Len(t) : Append(t, index)[j] = t[j]
          /\ Append(t, index)[Len(t) + 1] = index
      BY <3>1
    <3>9. \A j \in 1..Len(Append(t, index)) : Append(t, index)[j] <= index
      <4> TAKE j \in 1..Len(Append(t, index))
      <4>1. CASE j = Len(t) + 1
        BY <3>8, <4>1
      <4>2. CASE j # Len(t) + 1
        <5>1. j \in 1..Len(t)
          BY <3>8, <4>2
        <5> QED
          BY <3>2, <3>4, <3>8, <5>1
      <4> QED
        BY <4>1, <4>2
    <3> HIDE DEF q
    <3>10. q \in G
      BY <3>5, <3>6, <3>7, <3>9 DEF G, Good
    <3> QED
      BY <3>10 DEF q
  <2>10. new \in Part /\ new.id = id /\ new.text = <<index>> /\ new \in G
    <3>1. <<index>> \in Seq(Nat) /\ Len(<<index>>) = 1 /\ <<index>>[1] = index
      OBVIOUS
    <3>2. new \in Part /\ new.id = id /\ new.text = <<index>>
      BY <3>1 DEF Part, Words
    <3>3. Rising(<<index>>, M[m][id])
      BY <2>8, <3>1 DEF Rising
    <3>4. \A j \in 1..Len(<<index>>) : <<index>>[j] <= Taken(z)[id]
      BY <2>2, <3>1
    <3> HIDE DEF new
    <3> QED
      BY <3>2, <3>3, <3>4 DEF G, Good
  <2> HIDE DEF new
  <2>12. longer \in Seq(G)
    <3>1. Len(old.parts) \in Nat /\ DOMAIN old.parts = 1..Len(old.parts)
          /\ \A i \in 1..Len(old.parts) : old.parts[i] \in Good(N[m], M[m], y)
      BY <1>1, ListIs
    <3>2. \A i \in 1..Len(old.parts) : longer[i] \in G
      BY <2>9, <2>11, <3>1
    <3>3. longer \in [1..Len(old.parts) -> G]
      BY <3>1, <3>2
    <3> HIDE DEF longer
    <3> QED
      BY <3>1, <3>3, ListOf
  <2>13. Append(old.parts, new) \in Seq(G)
    BY <2>4, <2>10
  <2>14. ps \in Seq(G)
    BY <2>12, <2>13
  <2>15. ps \in Seq(Part)
    BY <2>11, <2>14, SeqMonotonic
  <2>16. UpsertTextPartDelta(c1, m, id, index) = IF old.st = "completed" THEN c1 ELSE d
    <3>1. c1.msgs[m] = old
      BY <2>5
    <3> HIDE DEF c1, old
    <3> QED
      BY <3>1 DEF UpsertTextPartDelta, new, longer
  <2> HIDE DEF longer, ps
  <2>17. x \in Message /\ x.parts = ps /\ x.st = "streaming"
    BY <1>1, <2>15 DEF Message, Words
  <2>18. MessageOK(m, x, z, N[m], M[m], A)
    <3> HIDE DEF x
    <3> QED
      BY <2>3, <2>14, <2>17 DEF MessageOK, G
  <2>19. d = [c1 EXCEPT !.msgs = [c.msgs EXCEPT ![m] = x]]
    <3>1. c1.msgs[m] = old
      BY <2>5
    <3> HIDE DEF c1
    <3> QED
      BY <1>1, <2>5, <3>1 DEF Client
  <2>20. d \in Client /\ d.msgs = [c1.msgs EXCEPT ![m] = x] /\ d.lastDelta = [c1.lastDelta EXCEPT ![m] = z]
    <3>1. [c.msgs EXCEPT ![m] = x] \in [Msg -> Message]
      BY <1>1, <2>17
    <3>2. c1.lastDelta = [c1.lastDelta EXCEPT ![m] = z]
      BY <1>1, <2>5
    <3> HIDE DEF d, c1, x
    <3> QED
      BY <2>5, <2>19, <3>1, <3>2 DEF Client
  <2> HIDE DEF d, x, c1
  <2>21. PageOK(d, N, M, A)
    BY <2>1, <2>7, <2>17, <2>18, <2>20, OneMessage
  <2>22. ReduceDelta(c, m, id, index) = UpsertTextPartDelta(c1, m, id, index)
    BY <1>2, <1>4 DEF ReduceDelta, c1, z
  <2> QED
    BY <2>7, <2>16, <2>21, <2>22
<1> QED
  BY <1>3, <1>4

(* So does agent.message.part.updated.                                       *)
LEMMA UpdatedKeeps ==
  ASSUME NEW N \in Bounds, NEW M \in Bounds, NEW A, NEW c, PageOK(c, N, M, A),
         NEW m \in Msg, NEW id, NEW patch \in Patch, AtMost(M[m], N[m]),
         id \in Nat => PatchOK(patch, M[m][id])
  PROVE  PageOK(ReduceUpdated(c, m, id, patch), N, M, A)
<1> DEFINE old == c.msgs[m]
           y == c.lastDelta[m]
           ps == PatchParts(old.parts, id, patch)
           x == [old EXCEPT !.parts = ps]
           d == [c EXCEPT !.msgs[m].parts = ps]
<1>1. /\ c \in Client /\ old \in Message /\ y \in DeltaMap /\ old.parts \in Seq(Good(N[m], M[m], y))
      /\ \A i \in Nat : Taken(y)[i] <= M[m][i]
      /\ old.st = "completed" => <<m, old.content>> \in A
      /\ c.msgs \in [Msg -> Message] /\ c.lastDelta \in [Msg -> DeltaMap]
      /\ N[m] \in [Nat -> Nat] /\ M[m] \in [Nat -> Nat]
  BY MessageOf
<1> HIDE DEF old, y
<1>2. ps \in Seq(Good(N[m], M[m], y))
  BY <1>1, PatchKeeps
<1>3. ps \in Seq(Part)
  <2>1. Good(N[m], M[m], y) \subseteq Part
    BY DEF Good
  <2> QED
    BY <1>2, <2>1, SeqMonotonic
<1> HIDE DEF ps
<1>4. x \in Message /\ x.parts = ps /\ x.st = old.st /\ x.content = old.content
  BY <1>1, <1>3 DEF Message
<1>5. MessageOK(m, x, y, N[m], M[m], A)
  <2> HIDE DEF x
  <2> QED
    BY <1>1, <1>2, <1>4 DEF MessageOK
<1>6. d.msgs = [c.msgs EXCEPT ![m] = x] /\ d.lastDelta = c.lastDelta
  BY <1>1 DEF Client, old
<1>7. d \in Client
  <2>1. [c.msgs EXCEPT ![m] = x] \in [Msg -> Message]
    BY <1>1, <1>4
  <2>2. d = [c EXCEPT !.msgs = [c.msgs EXCEPT ![m] = x]]
    BY DEF old
  <2> HIDE DEF d, x
  <2> QED
    BY <1>1, <2>1, <2>2 DEF Client
<1>8. c.lastDelta = [c.lastDelta EXCEPT ![m] = y]
  BY <1>1 DEF y
<1>9. ReduceUpdated(c, m, id, patch) = d
  BY DEF ReduceUpdated, ps, old
<1> HIDE DEF d, x
<1>10. d.lastDelta = [c.lastDelta EXCEPT ![m] = y]
  BY <1>6, <1>8
<1>11. PageOK(d, N, M, A)
  <2>1. x \in Message /\ y \in DeltaMap /\ d \in Client /\ d.msgs = [c.msgs EXCEPT ![m] = x]
    BY <1>1, <1>4, <1>6, <1>7
  <2> QED
    BY <1>5, <1>10, <2>1, OneMessage
<1> QED
  BY <1>9, <1>11

-----------------------------------------------------------------------------
(* The parts the daemon makes: numbered by place, the text its deltas. *)
ServerParts ==
  {ps \in Seq(Part) : \A i \in 1..Len(ps) :
     ps[i].id = i /\ \A j \in 1..Len(ps[i].text) : ps[i].text[j] = j}

SaidOf(ps) == [i \in Nat |-> IF i \in DOMAIN ps THEN Len(ps[i].text) ELSE 0]

(* How much was said of parts is a number of each part.                      *)
LEMMA SaidIn ==
  ASSUME NEW ps \in Seq(Part)
  PROVE  /\ SaidOf(ps) \in [Nat -> Nat]
         /\ \A i \in 1..Len(ps) : SaidOf(ps)[i] = Len(ps[i].text)
         /\ \A i \in Nat : i \notin 1..Len(ps) => SaidOf(ps)[i] = 0
<1>1. Len(ps) \in Nat /\ DOMAIN ps = 1..Len(ps) /\ \A i \in 1..Len(ps) : ps[i] \in Part
  BY ListIs
<1>2. \A i \in 1..Len(ps) : Len(ps[i].text) \in Nat
  <2> TAKE i \in 1..Len(ps)
  <2>1. ps[i].text \in Seq(Nat)
    BY <1>1 DEF Part
  <2> QED
    BY <2>1, ListIs
<1>3. \A i \in 1..Len(ps) : i \in Nat
  BY <1>1
<1> QED
  BY <1>1, <1>2, <1>3 DEF SaidOf

(* A text that counts 1, 2, 3, ... rises.                                    *)
LEMMA CountsRise ==
  ASSUME NEW t \in Seq(Nat), NEW k \in Nat, Len(t) <= k, \A j \in 1..Len(t) : t[j] = j
  PROVE  Rising(t, k)
<1>1. Len(t) \in Nat
  BY ListIs
<1>2. \A j \in 1..Len(t) : t[j] <= k
  BY <1>1
<1>3. \A j \in 1..(Len(t) - 1) : t[j] < t[j + 1]
  <2> TAKE j \in 1..(Len(t) - 1)
  <2>1. j \in 1..Len(t) /\ j + 1 \in 1..Len(t)
    BY <1>1
  <2>2. t[j] = j /\ t[j + 1] = j + 1
    BY <2>1
  <2> QED
    BY <2>1, <2>2
<1> QED
  BY <1>2, <1>3 DEF Rising

(* Parts the daemon made are good on a page.                                 *)
LEMMA ServerGood ==
  ASSUME NEW n \in [Nat -> Nat], NEW k \in [Nat -> Nat], NEW y,
         NEW ps \in ServerParts, AtMost(SaidOf(ps), k), AtMost(k, n)
  PROVE  ps \in Seq(Good(n, k, y)) /\ ps \in Seq(Part)
<1>1. /\ ps \in Seq(Part)
      /\ \A i \in 1..Len(ps) : ps[i].id = i /\ \A j \in 1..Len(ps[i].text) : ps[i].text[j] = j
  BY DEF ServerParts
<1>2. /\ Len(ps) \in Nat /\ DOMAIN ps = 1..Len(ps) /\ \A i \in 1..Len(ps) : ps[i] \in Part
      /\ ps \in [1..Len(ps) -> Part]
  BY <1>1, ListIs
<1>3. ASSUME NEW i \in 1..Len(ps) PROVE ps[i] \in Good(n, k, y)
  <2> DEFINE t == ps[i].text
  <2>1. i \in Nat /\ ps[i] \in Part /\ ps[i].id = i
    <3>1. i \in Nat
      BY <1>2
    <3>2. ps[i] \in Part /\ ps[i].id = i
      BY <1>1, <1>2
    <3> QED
      BY <3>1, <3>2
  <2>2. t \in Seq(Nat)
    BY <2>1 DEF Part
  <2>3. \A j \in 1..Len(t) : t[j] = j
    BY <1>1
  <2>4. SaidOf(ps)[i] = Len(t)
    BY <1>1, SaidIn
  <2> HIDE DEF t
  <2>5. Len(t) \in Nat /\ k[i] \in Nat /\ n[i] \in Nat /\ Len(t) <= k[i] /\ k[i] <= n[i]
    BY <2>1, <2>2, <2>4, ListIs DEF AtMost
  <2>6. Rising(t, k[i])
    BY <2>2, <2>3, <2>5, CountsRise
  <2>7. \A j \in 1..Len(t) : t[j] <= n[i]
    BY <2>2, <2>5, <2>6, RisingBelow
  <2> QED
    BY <2>1, <2>6, <2>7 DEF Good, t
<1>4. ps \in [1..Len(ps) -> Good(n, k, y)]
  BY <1>2, <1>3
<1> QED
  BY <1>1, <1>2, <1>4, ListOf

(* So does agent.message.completed, with the content that was kept.          *)
LEMMA CompletedKeeps ==
  ASSUME NEW N \in Bounds, NEW M \in Bounds, NEW A, NEW c, PageOK(c, N, M, A),
         NEW m \in Msg, NEW parts_ \in ServerParts, AtMost(SaidOf(parts_), M[m]), AtMost(M[m], N[m]),
         NEW content \in Content, <<m, content>> \in A
  PROVE  PageOK(ReduceCompleted(c, m, parts_, content), N, M, A)
<1> DEFINE old == c.msgs[m]
           y == c.lastDelta[m]
           z == IF IsKnown(c, m) THEN <<>> ELSE y
           ps == NormalizeCompletedParts(parts_)
           x == [old EXCEPT !.st = "completed", !.content = content, !.parts = ps]
           d == [c EXCEPT !.msgs[m] = x, !.lastDelta[m] = z]
<1>1. /\ c \in Client /\ old \in Message /\ y \in DeltaMap
      /\ \A i \in Nat : Taken(y)[i] <= M[m][i]
      /\ c.msgs \in [Msg -> Message] /\ c.lastDelta \in [Msg -> DeltaMap]
      /\ N[m] \in [Nat -> Nat] /\ M[m] \in [Nat -> Nat]
  BY MessageOf
<1>2. z \in DeltaMap /\ \A i \in Nat : Taken(z)[i] <= M[m][i]
  <2>1. <<>> \in DeltaMap /\ \A i \in Nat : Taken(<<>>)[i] = 0 /\ M[m][i] \in Nat
    BY <1>1, NoDeltas
  <2> HIDE DEF y
  <2>2. CASE IsKnown(c, m)
    <3>1. z = <<>>
      BY <2>2
    <3>2. z \in DeltaMap /\ \A i \in Nat : Taken(z)[i] = 0 /\ M[m][i] \in Nat
      BY <2>1, <3>1
    <3> HIDE DEF z
    <3> QED
      BY <3>2
  <2>3. CASE ~IsKnown(c, m)
    BY <1>1, <2>3
  <2> QED
    BY <2>2, <2>3
<1> HIDE DEF z
<1> DEFINE G == Good(N[m], M[m], z)
<1>3. parts_ \in Seq(G)
  BY <1>1, ServerGood
<1>4. \A p \in G : [p EXCEPT !.st = "completed"] \in G
  BY DEF Good, Part, Words
<1>5. G \subseteq Part
  BY DEF Good
<1> HIDE DEF G
<1>6. ps \in Seq(G)
  <2> DEFINE f == [i \in 1..Len(parts_) |->
                     IF IsOpen(parts_[i]) THEN [parts_[i] EXCEPT !.st = "completed"] ELSE parts_[i]]
  <2>1. Len(parts_) \in Nat /\ DOMAIN parts_ = 1..Len(parts_) /\ \A i \in 1..Len(parts_) : parts_[i] \in G
    BY <1>3, ListIs
  <2>2. f \in [1..Len(parts_) -> G]
    BY <1>4, <2>1
  <2>3. ps = f
    BY <2>1 DEF NormalizeCompletedParts
  <2> HIDE DEF f
  <2> QED
    BY <2>1, <2>2, <2>3, ListOf
<1>7. ps \in Seq(Part)
  BY <1>5, <1>6, SeqMonotonic
<1> HIDE DEF ps, old, y
<1>8. x \in Message /\ x.parts = ps /\ x.content = content
  BY <1>1, <1>7 DEF Message, Words
<1>9. MessageOK(m, x, z, N[m], M[m], A)
  <2> HIDE DEF x
  <2> QED
    BY <1>2, <1>6, <1>8 DEF MessageOK, G
<1>10. d.msgs = [c.msgs EXCEPT ![m] = x] /\ d.lastDelta = [c.lastDelta EXCEPT ![m] = z]
  <2> HIDE DEF x
  <2> QED
    BY <1>1 DEF Client
<1>11. d \in Client
  <2>1. [c.msgs EXCEPT ![m] = x] \in [Msg -> Message]
    BY <1>1, <1>8
  <2>2. [c.lastDelta EXCEPT ![m] = z] \in [Msg -> DeltaMap]
    BY <1>1, <1>2
  <2>3. d = [c EXCEPT !.msgs = [c.msgs EXCEPT ![m] = x], !.lastDelta = [c.lastDelta EXCEPT ![m] = z]]
    <3> HIDE DEF x
    <3> QED
      BY <1>1 DEF Client
  <2> HIDE DEF d, x
  <2> QED
    BY <1>1, <2>1, <2>2, <2>3 DEF Client
<1>12. ReduceCompleted(c, m, parts_, content) =
         IF old.st = "completed" /\ old.content = content /\ ~HasOpenParts(old.parts) THEN c ELSE d
  BY DEF ReduceCompleted, ps, old, y, z
<1> HIDE DEF d, x
<1>13. PageOK(d, N, M, A)
  BY <1>2, <1>8, <1>9, <1>10, <1>11, OneMessage
<1> QED
  BY <1>12, <1>13

-----------------------------------------------------------------------------
(* An event of run e.run, made while the texts grew from N to M. *)
EventOK(e, N, M, A) ==
  /\ e.run \in Run
  /\ e.type \in {"message.started", "part.started", "part.delta", "part.updated", "message.completed"}
       => e.msg \in Msg
  /\ e.type = "part.started" => e.part \in Part /\ e.part.text = <<>>
  /\ e.type = "part.delta" => /\ e.id \in Nat /\ e.index \in Nat
                              /\ N[e.msg][e.id] < e.index /\ e.index <= M[e.msg][e.id]
  /\ e.type = "part.updated" => /\ e.patch \in Patch
                                /\ e.id \in Nat => PatchOK(e.patch, M[e.msg][e.id])
  /\ e.type = "message.completed" => /\ e.parts \in ServerParts /\ AtMost(SaidOf(e.parts), M[e.msg])
                                     /\ e.content \in Content /\ <<e.msg, e.content>> \in A

(* What a page does with an event does not depend on fields it leaves alone. *)
LEMMA SamePage ==
  ASSUME NEW N, NEW M, NEW A, NEW c, PageOK(c, N, M, A), NEW d \in Client,
         d.msgs = c.msgs, d.lastDelta = c.lastDelta
  PROVE  PageOK(d, N, M, A)
BY DEF PageOK

(* assistantMessageReducer leaves a page within bounds so.                   *)
LEMMA ReduceKeeps ==
  ASSUME NEW N \in Bounds, NEW M \in Bounds, NEW A, NEW c, PageOK(c, N, M, A),
         NEW e, EventOK(e, N, M, A),
         e.type \in ToLiveAtOnce \/ \A m \in Msg : AtMost(M[m], N[m])
  PROVE  PageOK(Reduce(c, e), N, M, A)
<1>1. CASE e.type = "message.started"
  <2>1. Reduce(c, e) = ReduceStarted(c, e.msg, e.run) /\ e.msg \in Msg /\ e.run \in Run
    BY <1>1 DEF Reduce, EventOK
  <2> QED
    BY <2>1, StartedKeeps
<1>2. CASE e.type = "part.started"
  <2>1. Reduce(c, e) = ReducePartStarted(c, e.msg, e.part) /\ e.msg \in Msg
        /\ e.part \in Part /\ e.part.text = <<>>
    BY <1>2 DEF Reduce, EventOK
  <2> QED
    BY <2>1, PartStartedKeeps
<1>3. CASE e.type = "part.delta"
  <2>1. /\ Reduce(c, e) = ReduceDelta(c, e.msg, e.id, e.index) /\ e.msg \in Msg
        /\ e.id \in Nat /\ e.index \in Nat /\ N[e.msg][e.id] < e.index /\ e.index <= M[e.msg][e.id]
    BY <1>3 DEF Reduce, EventOK
  <2> QED
    BY <2>1, DeltaKeeps
<1>4. CASE e.type = "part.updated"
  <2>1. /\ Reduce(c, e) = ReduceUpdated(c, e.msg, e.id, e.patch) /\ e.msg \in Msg
        /\ e.patch \in Patch /\ (e.id \in Nat => PatchOK(e.patch, M[e.msg][e.id]))
    BY <1>4 DEF Reduce, EventOK
  <2>2. AtMost(M[e.msg], N[e.msg])
    BY <1>4, <2>1 DEF ToLiveAtOnce
  <2> QED
    BY <2>1, <2>2, UpdatedKeeps
<1>5. CASE e.type = "message.completed"
  <2>1. /\ Reduce(c, e) = ReduceCompleted(c, e.msg, e.parts, e.content) /\ e.msg \in Msg
        /\ e.parts \in ServerParts /\ AtMost(SaidOf(e.parts), M[e.msg])
        /\ e.content \in Content /\ <<e.msg, e.content>> \in A
    BY <1>5 DEF Reduce, EventOK
  <2>2. AtMost(M[e.msg], N[e.msg])
    BY <1>5, <2>1 DEF ToLiveAtOnce
  <2> QED
    BY <2>1, <2>2, CompletedKeeps
<1>6. CASE e.type \notin {"message.started", "part.started", "part.delta", "part.updated", "message.completed"}
  BY <1>6 DEF Reduce
<1> QED
  BY <1>1, <1>2, <1>3, <1>4, <1>5, <1>6

(* Binding: the messages stay, but for a cancelled run's that stream. *)
LEMMA BindKeeps ==
  ASSUME NEW N \in Bounds, NEW M \in Bounds, NEW A, NEW c, PageOK(c, N, M, A), NEW e, e.run \in Run
  PROVE  PageOK(Bind(c, e), N, M, A)
<1>1. c \in Client
  BY DEF PageOK
<1> DEFINE b == Bind(c, e)
           stopped == [m \in Msg |-> IF /\ e.outcome = "cancelled" /\ c.msgs[m].st = "streaming"
                                        /\ c.msgs[m].run \in {NoRun, e.run}
                                     THEN [c.msgs[m] EXCEPT !.st = "stopped"] ELSE c.msgs[m]]
<1>2. CASE ~(e.type = "run.ended" /\ c.active = e.run)
  <2>1. b \in Client
    BY <1>1, <1>2 DEF Bind, Client, Awaits, MarkRunActive
  <2>2. b.msgs = c.msgs /\ b.lastDelta = c.lastDelta
    BY <1>1, <1>2 DEF Bind, Client, Awaits, MarkRunActive
  <2> QED
    BY <2>1, <2>2, SamePage
<1>3. CASE e.type = "run.ended" /\ c.active = e.run
  <2>1. b = [c EXCEPT !.active = NoRun, !.waiting = NoRun, !.pending = FALSE, !.timer = FALSE, !.msgs = stopped]
    BY <1>1, <1>3 DEF Bind, FinishActiveRun, Client
  <2>2. c.msgs \in [Msg -> Message] /\ c.lastDelta \in [Msg -> DeltaMap]
    BY <1>1 DEF Client
  <2>3. \A m \in Msg : [c.msgs[m] EXCEPT !.st = "stopped"] \in Message
    BY <2>2 DEF Message, Words
  <2>4. stopped \in [Msg -> Message]
    BY <2>2, <2>3
  <2>5. \A m \in Msg : /\ stopped[m].parts = c.msgs[m].parts
                       /\ stopped[m] # c.msgs[m] => stopped[m].st = "stopped"
    BY <2>2 DEF Message
  <2> HIDE DEF stopped, b
  <2>6. b \in Client /\ b.msgs = stopped /\ b.lastDelta = c.lastDelta
    BY <1>1, <2>1, <2>4 DEF Client
  <2>7. \A m \in Msg : MessageOK(m, stopped[m], c.lastDelta[m], N[m], M[m], A)
    <3> TAKE m \in Msg
    <3>1. MessageOK(m, c.msgs[m], c.lastDelta[m], N[m], M[m], A)
      BY DEF PageOK
    <3>2. CASE stopped[m] = c.msgs[m]
      BY <3>1, <3>2
    <3>3. CASE stopped[m] # c.msgs[m]
      BY <2>5, <3>1, <3>3 DEF MessageOK
    <3> QED
      BY <3>2, <3>3
  <2> QED
    BY <2>6, <2>7 DEF PageOK, b
<1> QED
  BY <1>2, <1>3

(* The message handler leaves a page within bounds so.                       *)
LEMMA ReceiveKeeps ==
  ASSUME NEW N \in Bounds, NEW M \in Bounds, NEW A, NEW c, PageOK(c, N, M, A),
         NEW e, EventOK(e, N, M, A),
         e.type \in ToLiveAtOnce \/ \A m \in Msg : AtMost(M[m], N[m]),
         NEW seq \in Nat
  PROVE  PageOK(Receive(c, e, seq), N, M, A)
<1> DEFINE noted == [c EXCEPT !.lastSeq = IF seq > @ THEN seq ELSE @]
<1>1. noted \in Client /\ noted.msgs = c.msgs /\ noted.lastDelta = c.lastDelta
  BY DEF PageOK, Client
<1>2. Receive(c, e, seq) = IF IsForMe(c, e) THEN Bind(Reduce(noted, e), e) ELSE c
  BY DEF Receive
<1> HIDE DEF noted
<1>3. PageOK(noted, N, M, A)
  BY <1>1, SamePage
<1>4. PageOK(Reduce(noted, e), N, M, A)
  BY <1>3, ReduceKeeps
<1>5. PageOK(Bind(Reduce(noted, e), e), N, M, A)
  BY <1>4, BindKeeps DEF EventOK
<1> QED
  BY <1>2, <1>5

(* The lock of the composer is eased: a page that is locked without a timer, *)
(* or locked and bound to no run, was so before.                             *)
Eased(c, d) ==
  /\ d.pending /\ ~d.timer => /\ c.pending /\ ~c.timer
                              /\ c.active = NoRun \/ d.active = c.active
  /\ d.pending /\ d.active = NoRun => c.pending /\ c.active = NoRun

(* The reducer does not touch the lock of the composer.                      *)
LEMMA ReduceKeepsLock ==
  ASSUME NEW c \in Client, NEW e
  PROVE  /\ Reduce(c, e).active = c.active /\ Reduce(c, e).waiting = c.waiting
         /\ Reduce(c, e).pending = c.pending /\ Reduce(c, e).timer = c.timer
<1>1. DOMAIN c = {"msgs", "placeholders", "lastDelta", "active", "waiting", "pending", "timer", "lastSeq"}
  BY DEF Client
<1>2. CASE e.type = "message.started"
  <2>1. Reduce(c, e) = ReduceStarted(c, e.msg, e.run)
    BY <1>2 DEF Reduce
  <2> QED
    BY <1>1, <2>1 DEF ReduceStarted
<1>3. CASE e.type = "part.started"
  <2>1. Reduce(c, e) = ReducePartStarted(c, e.msg, e.part)
    BY <1>3 DEF Reduce
  <2> QED
    BY <1>1, <2>1 DEF ReducePartStarted
<1>4. CASE e.type = "part.delta"
  <2>1. Reduce(c, e) = ReduceDelta(c, e.msg, e.id, e.index)
    BY <1>4 DEF Reduce
  <2> QED
    BY <1>1, <2>1 DEF ReduceDelta, UpsertTextPartDelta
<1>5. CASE e.type = "part.updated"
  <2>1. Reduce(c, e) = ReduceUpdated(c, e.msg, e.id, e.patch)
    BY <1>5 DEF Reduce
  <2> QED
    BY <1>1, <2>1 DEF ReduceUpdated
<1>6. CASE e.type = "message.completed"
  <2>1. Reduce(c, e) = ReduceCompleted(c, e.msg, e.parts, e.content)
    BY <1>6 DEF Reduce
  <2> QED
    BY <1>1, <2>1 DEF ReduceCompleted
<1>7. CASE e.type \notin {"message.started", "part.started", "part.delta", "part.updated", "message.completed"}
  BY <1>7 DEF Reduce
<1> QED
  BY <1>2, <1>3, <1>4, <1>5, <1>6, <1>7

(* A page that does not change eases its lock.                               *)
LEMMA EasedOnce ==
  ASSUME NEW c PROVE Eased(c, c)
BY DEF Eased

(* Twice eased is eased.                                                     *)
LEMMA EasedTwice ==
  ASSUME NEW c, NEW d, NEW e, Eased(c, d), Eased(d, e)
  PROVE  Eased(c, e)
BY DEF Eased

(* A page that has heard that run r starts is bound; it does not wait for r. *)
Freed(d, r) ==
  /\ d.pending /\ ~d.timer => d.active \notin {NoRun, r}
  /\ d.pending => d.active # NoRun

(* A page that does not wait for r still does not when its lock is eased.    *)
LEMMA FreedStays ==
  ASSUME NEW r, NEW d, NEW e, Freed(d, r), Eased(d, e)
  PROVE  Freed(e, r)
BY DEF Freed, Eased

(* No event locks the composer but a request for an approval.                *)
LEMMA ReceiveLock ==
  ASSUME NEW N \in Bounds, NEW M \in Bounds, NEW A, NEW c, PageOK(c, N, M, A),
         NEW e, EventOK(e, N, M, A),
         e.type \in ToLiveAtOnce \/ \A m \in Msg : AtMost(M[m], N[m]),
         NEW seq \in Nat
  PROVE  LET d == Receive(c, e, seq)
         IN  /\ e.type # "approval.required" => Eased(c, d)
             /\ e.type = "message.started" => Freed(d, e.run)
             /\ e.type = "run.created" /\ d.pending => d.active # NoRun
             /\ d.pending /\ ~d.timer => d.active = e.run \/ Eased(c, d)
             /\ d.pending /\ d.active = NoRun => c.pending /\ c.active = NoRun
<1> DEFINE noted == [c EXCEPT !.lastSeq = IF seq > @ THEN seq ELSE @]
           g == Reduce(noted, e)
           d == Receive(c, e, seq)
<1>1. /\ noted \in Client /\ noted.msgs = c.msgs /\ noted.lastDelta = c.lastDelta
      /\ noted.active = c.active /\ noted.pending = c.pending /\ noted.timer = c.timer
  BY DEF PageOK, Client
<1>2. d = IF IsForMe(c, e) THEN Bind(g, e) ELSE c
  BY DEF Receive
<1> HIDE DEF noted
<1>3. PageOK(noted, N, M, A)
  BY <1>1, SamePage
<1>4. g \in Client
  BY <1>3, ReduceKeeps DEF PageOK
<1>5. g.active = c.active /\ g.pending = c.pending /\ g.timer = c.timer
  BY <1>1, ReduceKeepsLock
<1>6. e.run \in Run /\ e.run # NoRun
  BY Ids DEF EventOK
<1> HIDE DEF g, d
<1>7. CASE ~IsForMe(c, e)
  <2>1. d = c /\ c.active \notin {NoRun, e.run}
    BY <1>2, <1>7 DEF IsForMe
  <2> QED
    BY <2>1, EasedOnce DEF Freed, d
<1>8. CASE IsForMe(c, e)
  <2>1. d = Bind(g, e) /\ c.active \in {NoRun, e.run}
    BY <1>2, <1>8 DEF IsForMe
  <2>2. DOMAIN g = {"msgs", "placeholders", "lastDelta", "active", "waiting", "pending", "timer", "lastSeq"}
    BY <1>4 DEF Client
  <2>3. CASE e.type = "run.created"
    <3>1. d.active = e.run /\ d.pending = c.pending /\ d.timer = c.timer
      BY <1>5, <2>1, <2>2, <2>3 DEF Bind
    <3> QED
      BY <1>6, <2>1, <2>3, <3>1 DEF Eased, d
  <2>4. CASE e.type \in {"run.started", "message.started"}
    <3>1. d.active = e.run /\ d.pending = c.pending /\ d.timer = TRUE
      BY <1>5, <2>1, <2>2, <2>4 DEF Bind, MarkRunActive
    <3> QED
      BY <1>6, <2>1, <2>4, <3>1 DEF Eased, Freed, d
  <2>5. CASE e.type \in {"part.started", "part.delta"}
    <3>1. d.active = c.active /\ d.pending = c.pending /\ d.timer = TRUE
      BY <1>5, <2>1, <2>2, <2>5 DEF Bind
    <3> QED
      BY <1>6, <2>1, <2>5, <3>1 DEF Eased, d
  <2>6. CASE e.type = "approval.required"
    <3>1. d.active = e.run
      BY <1>5, <2>1, <2>2, <2>6 DEF Bind, Awaits
    <3> QED
      BY <1>6, <2>1, <2>6, <3>1 DEF d
  <2>7. CASE e.type = "clarification.requested"
    <3>1. \/ d.active = c.active /\ d.pending = c.pending /\ d.timer = c.timer
          \/ ~d.pending
      BY <1>5, <2>1, <2>2, <2>7 DEF Bind, Awaits
    <3> QED
      BY <1>6, <2>1, <2>7, <3>1 DEF Eased, d
  <2>8. CASE e.type = "run.ended"
    <3>1. \/ d.active = c.active /\ d.pending = c.pending /\ d.timer = c.timer
          \/ ~d.pending
      BY <1>5, <2>1, <2>2, <2>8 DEF Bind, FinishActiveRun
    <3> QED
      BY <1>6, <2>1, <2>8, <3>1 DEF Eased, d
  <2>9. CASE e.type \notin {"run.created", "run.started", "message.started", "part.started", "part.delta",
                            "approval.required", "clarification.requested", "run.ended"}
    <3>1. d = g
      BY <2>1, <2>9 DEF Bind
    <3> QED
      BY <1>5, <2>9, <3>1 DEF Eased, d
  <2> QED
    BY <2>3, <2>4, <2>5, <2>6, <2>7, <2>8, <2>9
<1> QED
  BY <1>7, <1>8

-----------------------------------------------------------------------------
(* Hearing: the page receives events, in whatever order and how often. *)

Received(f, es, i, k) == f[i] = Receive(f[i - 1], es[k][1], es[k][2])

Heard(c, d, es) ==
  \E n, f :
    /\ n \in Nat /\ f[0] = c /\ f[n] = d
    /\ \A i \in 1..n : \E k \in 1..Len(es) : Received(f, es, i, k)
    /\ \A k \in 1..Len(es) : \E i \in 1..n : Received(f, es, i, k)

Steps(c, es, n, f) ==
  DOMAIN f = 0..n /\ f[0] = c /\ \A i \in 1..n : Received(f, es, i, i)

(* A page takes a list of events one after the other.                        *)
LEMMA StepsExist ==
  ASSUME NEW c, NEW es, NEW n \in Nat
  PROVE  \E f : Steps(c, es, n, f)
<1> DEFINE T == {j \in 0..n : ~\E f : Steps(c, es, j, f)}
<1> SUFFICES ASSUME ~\E f : Steps(c, es, n, f) PROVE FALSE
  OBVIOUS
<1>1. T # {} /\ T \subseteq Nat
  <2>1. n \in 0..n
    OBVIOUS
  <2> QED
    BY <2>1
<1> HIDE DEF T
<1>2. PICK j \in T : \A l \in T : j <= l
  BY <1>1, LeastNumber
<1> USE DEF T
<1>3. j \in 0..n /\ ~\E f : Steps(c, es, j, f)
  BY <1>2
<1>4. CASE j = 0
  <2>1. Steps(c, es, 0, [i \in 0..0 |-> c])
    BY DEF Steps
  <2> QED
    BY <1>3, <1>4, <2>1
<1>5. CASE j # 0
  <2>1. j - 1 \in 0..n /\ j - 1 \notin T
    BY <1>2, <1>3, <1>5
  <2>2. PICK k : Steps(c, es, j - 1, k)
    BY <2>1
  <2>3. PICK h : h = [i \in 0..j |-> IF i # j THEN k[i] ELSE Receive(k[j - 1], es[j][1], es[j][2])]
    OBVIOUS
  <2>4. DOMAIN h = 0..j /\ h[0] = c
    BY <1>3, <1>5, <2>2, <2>3 DEF Steps
  <2>5. ASSUME NEW i \in 1..j PROVE Received(h, es, i, i)
    <3>1. i - 1 \in 0..j /\ i - 1 # j /\ i \in 0..j
      BY <1>3
    <3>2. h[i - 1] = k[i - 1]
      BY <2>3, <3>1
    <3>3. CASE i = j
      BY <2>3, <3>1, <3>2, <3>3 DEF Received
    <3>4. CASE i # j
      <4>1. i \in 1..(j - 1)
        BY <1>3, <3>4
      <4> QED
        BY <2>2, <2>3, <3>1, <3>2, <3>4, <4>1 DEF Steps, Received
    <3> QED
      BY <3>3, <3>4
  <2>6. Steps(c, es, j, h)
    BY <2>4, <2>5 DEF Steps
  <2> QED
    BY <1>3, <2>6
<1> QED
  BY <1>4, <1>5

(* Apply is the last of those steps.                                         *)
LEMMA ApplyIs ==
  ASSUME NEW c, NEW es, Len(es) \in Nat
  PROVE  \E f : Steps(c, es, Len(es), f) /\ Apply(c, es) = f[Len(es)]
<1> DEFINE f == CHOOSE f : f = [i \in 0..Len(es) |->
                   IF i = 0 THEN c ELSE Receive(f[i - 1], es[i][1], es[i][2])]
<1>1. PICK k : Steps(c, es, Len(es), k)
  BY StepsExist
<1>2. \E g : g = [i \in 0..Len(es) |-> IF i = 0 THEN c ELSE Receive(g[i - 1], es[i][1], es[i][2])]
  <2>1. PICK g : g = [i \in 0..Len(es) |-> k[i]]
    OBVIOUS
  <2>2. PICK h : h = [i \in 0..Len(es) |-> IF i = 0 THEN c ELSE Receive(g[i - 1], es[i][1], es[i][2])]
    OBVIOUS
  <2>3. ASSUME NEW i \in 0..Len(es) PROVE g[i] = h[i]
    <3>1. CASE i = 0
      BY <1>1, <2>1, <2>2, <3>1 DEF Steps
    <3>2. CASE i # 0
      <4>1. i \in 1..Len(es) /\ i - 1 \in 0..Len(es)
        BY <3>2
      <4>2. k[i] = Receive(k[i - 1], es[i][1], es[i][2])
        BY <1>1, <4>1 DEF Steps, Received
      <4>3. g[i] = k[i] /\ g[i - 1] = k[i - 1]
        BY <2>1, <4>1
      <4> QED
        BY <2>2, <3>2, <4>2, <4>3
    <3> QED
      BY <3>1, <3>2
  <2>4. g = h
    <3>1. DOMAIN g = 0..Len(es) /\ DOMAIN h = 0..Len(es)
      BY <2>1, <2>2
    <3>2. g = [i \in 0..Len(es) |-> g[i]] /\ h = [i \in 0..Len(es) |-> h[i]]
      BY <2>1, <2>2, <3>1
    <3> QED
      BY <2>3, <3>2
  <2> QED
    BY <2>2, <2>4
<1>3. f = [i \in 0..Len(es) |-> IF i = 0 THEN c ELSE Receive(f[i - 1], es[i][1], es[i][2])]
  BY <1>2
<1>4. Apply(c, es) = f[Len(es)]
  BY DEF Apply
<1> HIDE DEF f
<1>5. Steps(c, es, Len(es), f)
  <2>1. DOMAIN f = 0..Len(es)
    BY <1>3
  <2>2. \A i \in 0..Len(es) : f[i] = IF i = 0 THEN c ELSE Receive(f[i - 1], es[i][1], es[i][2])
    BY <1>3
  <2>3. 0 \in 0..Len(es) /\ \A i \in 1..Len(es) : i \in 0..Len(es) /\ i # 0
    OBVIOUS
  <2> QED
    BY <2>1, <2>2, <2>3 DEF Steps, Received
<1> QED
  BY <1>4, <1>5

(* A page that applies a list of events has heard it.                        *)
LEMMA ApplyHeard ==
  ASSUME NEW c, NEW es, Len(es) \in Nat
  PROVE  Heard(c, Apply(c, es), es)
<1>1. PICK f : Steps(c, es, Len(es), f) /\ Apply(c, es) = f[Len(es)]
  BY ApplyIs
<1>2. f[0] = c /\ f[Len(es)] = Apply(c, es) /\ \A i \in 1..Len(es) : Received(f, es, i, i)
  BY <1>1 DEF Steps
<1> QED
  BY <1>2 DEF Heard

(* A broadcast that comes both ways is heard twice. *)
LEMMA TwiceHeard ==
  ASSUME NEW c, NEW es, Len(es) \in Nat
  PROVE  Heard(c, Apply(c, [i \in 1..2 * Len(es) |-> es[(i + 1) \div 2]]), es)
<1> DEFINE n == Len(es)
           two == [i \in 1..2 * n |-> es[(i + 1) \div 2]]
<1>1. Len(two) = 2 * n /\ 2 * n \in Nat
  OBVIOUS
<1>2. \A i \in 1..2 * n : (i + 1) \div 2 \in 1..n /\ two[i] = es[(i + 1) \div 2]
  OBVIOUS
<1>3. \A k \in 1..n : 2 * k \in 1..2 * n /\ two[2 * k] = es[k]
  <2> TAKE k \in 1..n
  <2>1. 2 * k \in 1..2 * n /\ (2 * k + 1) \div 2 = k
    OBVIOUS
  <2> QED
    BY <1>2, <2>1
<1> HIDE DEF two
<1>4. PICK f : Steps(c, two, Len(two), f) /\ Apply(c, two) = f[Len(two)]
  BY <1>1, ApplyIs
<1>5. \A i \in 1..2 * n : Received(f, two, i, i)
  BY <1>1, <1>4 DEF Steps
<1>6. \A i \in 1..2 * n : \E k \in 1..n : Received(f, es, i, k)
  BY <1>2, <1>5 DEF Received
<1>7. \A k \in 1..n : \E i \in 1..2 * n : Received(f, es, i, k)
  <2> TAKE k \in 1..n
  <2>1. 2 * k \in 1..2 * n /\ two[2 * k] = es[k] /\ Received(f, two, 2 * k, 2 * k)
    BY <1>3, <1>5
  <2>2. Received(f, es, 2 * k, k)
    BY <2>1 DEF Received
  <2> QED
    BY <2>1, <2>2
<1>8. f[0] = c /\ f[2 * n] = Apply(c, two)
  BY <1>1, <1>4 DEF Steps
<1> QED
  BY <1>1, <1>6, <1>7, <1>8 DEF Heard, two

(* A page that is connected has heard a broadcast, once or twice.            *)
LEMMA BroadcastHeard ==
  ASSUME NEW es, Len(es) \in Nat, Broadcast(es)
  PROVE  /\ client' = client \/ Heard(client, client', es)
         /\ IsConnected /\ Len(es) > 0 => Heard(client, client', es)
<1>1. ASSUME IsConnected, es # <<>>
      PROVE  Heard(client, client', es)
  <2>1. \/ client' = Apply(client, es)
        \/ client' = Apply(client, [i \in 1..2 * Len(es) |-> es[(i + 1) \div 2]])
    BY <1>1 DEF Broadcast
  <2> QED
    BY <2>1, ApplyHeard, TwiceHeard
<1>2. ASSUME ~(IsConnected /\ es # <<>>)
      PROVE  client' = client
  BY <1>2 DEF Broadcast
<1>3. Len(es) > 0 => es # <<>>
  OBVIOUS
<1> QED
  BY <1>1, <1>2, <1>3

(* The events es are sound, and those that come late bring no text ahead.  *)
Telling(es, N, M, A) ==
  \A k \in 1..Len(es) :
    /\ EventOK(es[k][1], N, M, A) /\ es[k][2] \in Nat
    /\ es[k][1].type \in ToLiveAtOnce \/ \A m \in Msg : AtMost(M[m], N[m])

(* Event by event, a page stays within bounds.                               *)
LEMMA ChainKeeps ==
  ASSUME NEW N \in Bounds, NEW M \in Bounds, NEW A, NEW es, Telling(es, N, M, A),
         NEW n \in Nat, NEW f, PageOK(f[0], N, M, A),
         \A i \in 1..n : \E k \in 1..Len(es) : Received(f, es, i, k)
  PROVE  \A i \in 0..n : PageOK(f[i], N, M, A)
<1> DEFINE T == {i \in 0..n : ~PageOK(f[i], N, M, A)}
<1>1. ASSUME T # {} PROVE FALSE
  <2>1. T \subseteq Nat
    OBVIOUS
  <2> HIDE DEF T
  <2>2. PICK j \in T : \A l \in T : j <= l
    BY <1>1, <2>1, LeastNumber
  <2> USE DEF T
  <2>3. j \in 0..n /\ ~PageOK(f[j], N, M, A) /\ j # 0
    BY <2>2
  <2>4. j - 1 \in 0..n /\ j \in 1..n /\ ~(j <= j - 1)
    BY <2>3
  <2>5. PageOK(f[j - 1], N, M, A)
    BY <2>2, <2>4
  <2>6. PICK k \in 1..Len(es) : f[j] = Receive(f[j - 1], es[k][1], es[k][2])
    BY <2>4 DEF Received
  <2>7. /\ EventOK(es[k][1], N, M, A) /\ es[k][2] \in Nat
        /\ es[k][1].type \in ToLiveAtOnce \/ \A m \in Msg : AtMost(M[m], N[m])
    BY DEF Telling
  <2>8. PageOK(f[j], N, M, A)
    BY <2>5, <2>6, <2>7, ReceiveKeeps
  <2> QED
    BY <2>3, <2>8
<1> QED
  BY <1>1

(* A page that has heard events within bounds is within bounds.              *)
LEMMA HeardKeeps ==
  ASSUME NEW N \in Bounds, NEW M \in Bounds, NEW A, NEW c, PageOK(c, N, M, A), NEW d, NEW es,
         Telling(es, N, M, A), Heard(c, d, es)
  PROVE  PageOK(d, N, M, A)
<1>1. PICK n, f : /\ n \in Nat /\ f[0] = c /\ f[n] = d
                  /\ \A i \in 1..n : \E k \in 1..Len(es) : Received(f, es, i, k)
  BY DEF Heard
<1>2. \A i \in 0..n : PageOK(f[i], N, M, A)
  BY <1>1, ChainKeeps
<1>3. n \in 0..n
  BY <1>1
<1> QED
  BY <1>1, <1>2, <1>3

(* From any point on, the page is eased. *)
LEMMA HeardFrom ==
  ASSUME NEW N \in Bounds, NEW M \in Bounds, NEW A, NEW es, Telling(es, N, M, A),
         \A k \in 1..Len(es) : es[k][1].type # "approval.required",
         NEW n \in Nat, NEW f, PageOK(f[0], N, M, A),
         \A i \in 1..n : \E k \in 1..Len(es) : Received(f, es, i, k),
         NEW s \in 0..n
  PROVE  Eased(f[s], f[n]) /\ \A i \in 0..n : PageOK(f[i], N, M, A)
<1>1. \A i \in 0..n : PageOK(f[i], N, M, A)
  BY ChainKeeps
<1>2. \A i \in s..n : Eased(f[s], f[i])
  <2> DEFINE T == {i \in s..n : ~Eased(f[s], f[i])}
  <2>1. ASSUME T # {} PROVE FALSE
    <3>1. T \subseteq Nat
      OBVIOUS
    <3> HIDE DEF T
    <3>2. PICK j \in T : \A l \in T : j <= l
      BY <2>1, <3>1, LeastNumber
    <3> USE DEF T
    <3>3. j \in s..n /\ ~Eased(f[s], f[j])
      BY <3>2
    <3>4. j # s
      BY <3>3, EasedOnce
    <3>5. j - 1 \in s..n /\ j \in 1..n /\ ~(j <= j - 1) /\ j - 1 \in 0..n
      BY <3>3, <3>4
    <3>6. Eased(f[s], f[j - 1])
      BY <3>2, <3>5
    <3>7. PICK k \in 1..Len(es) : f[j] = Receive(f[j - 1], es[k][1], es[k][2])
      BY <3>5 DEF Received
    <3>8. /\ EventOK(es[k][1], N, M, A) /\ es[k][2] \in Nat
          /\ es[k][1].type \in ToLiveAtOnce \/ \A m \in Msg : AtMost(M[m], N[m])
          /\ es[k][1].type # "approval.required"
      BY DEF Telling
    <3>9. Eased(f[j - 1], f[j])
      BY <1>1, <3>5, <3>7, <3>8, ReceiveLock
    <3> QED
      BY <3>3, <3>6, <3>9, EasedTwice
  <2> QED
    BY <2>1
<1>3. n \in s..n
  OBVIOUS
<1> QED
  BY <1>1, <1>2, <1>3

(* A page that has heard no request for an approval has its lock eased.      *)
LEMMA HeardEases ==
  ASSUME NEW N \in Bounds, NEW M \in Bounds, NEW A, NEW c, PageOK(c, N, M, A), NEW d, NEW es,
         Telling(es, N, M, A), Heard(c, d, es),
         \A k \in 1..Len(es) : es[k][1].type # "approval.required"
  PROVE  /\ Eased(c, d)
         /\ \A k \in 1..Len(es) : es[k][1].type = "message.started" => Freed(d, es[k][1].run)
         /\ \A k \in 1..Len(es) : es[k][1].type = "run.created" /\ d.pending => d.active # NoRun
<1>1. PICK n, f : /\ n \in Nat /\ f[0] = c /\ f[n] = d
                  /\ \A i \in 1..n : \E k \in 1..Len(es) : Received(f, es, i, k)
                  /\ \A k \in 1..Len(es) : \E i \in 1..n : Received(f, es, i, k)
  BY DEF Heard
<1>2. \A s \in 0..n : Eased(f[s], f[n])
  BY <1>1, HeardFrom
<1>3. \A i \in 0..n : PageOK(f[i], N, M, A)
  <2>1. 0 \in 0..n
    BY <1>1
  <2> QED
    BY <1>1, <2>1, HeardFrom
<1>4. Eased(c, d)
  BY <1>1, <1>2
<1>5. ASSUME NEW k \in 1..Len(es)
      PROVE  /\ es[k][1].type = "message.started" => Freed(d, es[k][1].run)
             /\ es[k][1].type = "run.created" /\ d.pending => d.active # NoRun
  <2>1. PICK i \in 1..n : f[i] = Receive(f[i - 1], es[k][1], es[k][2])
    BY <1>1 DEF Received
  <2>2. i - 1 \in 0..n /\ i \in 0..n
    <3>1. n \in Nat
      BY <1>1
    <3> QED
      BY <3>1
  <2>3. /\ EventOK(es[k][1], N, M, A) /\ es[k][2] \in Nat
        /\ es[k][1].type \in ToLiveAtOnce \/ \A m \in Msg : AtMost(M[m], N[m])
    BY DEF Telling
  <2>4. /\ es[k][1].type = "message.started" => Freed(f[i], es[k][1].run)
        /\ es[k][1].type = "run.created" /\ f[i].pending => f[i].active # NoRun
    BY <1>3, <2>1, <2>2, <2>3, ReceiveLock
  <2>5. Eased(f[i], d)
    BY <1>1, <1>2, <2>2
  <2>6. es[k][1].type = "message.started" => Freed(d, es[k][1].run)
    BY <2>4, <2>5, FreedStays
  <2>7. es[k][1].type = "run.created" /\ d.pending => d.active # NoRun
    BY <2>4, <2>5 DEF Eased
  <2> QED
    BY <2>6, <2>7
<1> QED
  BY <1>4, <1>5

-----------------------------------------------------------------------------
(* What the daemon emits. *)
IsList(s) == \E S : s \in Seq(S)

(* What a list is, whatever it lists.                                        *)
LEMMA ListFacts ==
  ASSUME NEW s, IsList(s)
  PROVE  /\ Len(s) \in Nat /\ DOMAIN s = 1..Len(s)
         /\ s \in Seq(Range(s)) /\ Range(s) = {s[i] : i \in 1..Len(s)}
<1>1. PICK S : s \in Seq(S)
  BY DEF IsList
<1>2. Len(s) \in Nat /\ DOMAIN s = 1..Len(s) /\ s \in [1..Len(s) -> S]
  BY <1>1, ListIs
<1>3. Range(s) = {s[i] : i \in 1..Len(s)}
  BY <1>2 DEF Range
<1>4. s \in [1..Len(s) -> Range(s)]
  BY <1>2, <1>3
<1>5. s \in Seq(Range(s))
  BY <1>2, <1>4, ListOf
<1> QED
  BY <1>2, <1>3, <1>5

(* What a joined list lists.                                                 *)
LEMMA ListsJoin ==
  ASSUME NEW s, NEW t, IsList(s), IsList(t)
  PROVE  /\ IsList(s \o t) /\ Len(s \o t) = Len(s) + Len(t)
         /\ \A i \in 1..Len(s) : (s \o t)[i] = s[i]
         /\ \A i \in 1..Len(t) : (s \o t)[Len(s) + i] = t[i]
         /\ \A i \in 1..Len(s \o t) : (\E k \in 1..Len(s) : (s \o t)[i] = s[k])
                                      \/ (\E k \in 1..Len(t) : (s \o t)[i] = t[k])
<1>1. PICK S : s \in Seq(S)
  BY DEF IsList
<1>2. PICK U : t \in Seq(U)
  BY DEF IsList
<1>3. s \in Seq(S \cup U) /\ t \in Seq(S \cup U)
  BY <1>1, <1>2, SeqMonotonic
<1> DEFINE w == s \o t
<1>4. /\ w \in Seq(S \cup U) /\ Len(w) = Len(s) + Len(t) /\ Len(s) \in Nat /\ Len(t) \in Nat
      /\ \A i \in 1..Len(s) : w[i] = s[i]
      /\ \A i \in 1..Len(t) : w[Len(s) + i] = t[i]
  BY <1>3
<1> HIDE DEF w
<1>5. ASSUME NEW i \in 1..Len(w)
      PROVE  (\E k \in 1..Len(s) : w[i] = s[k]) \/ (\E k \in 1..Len(t) : w[i] = t[k])
  <2>1. CASE i <= Len(s)
    <3>1. i \in 1..Len(s)
      BY <1>4, <2>1
    <3> QED
      BY <1>4, <3>1
  <2>2. CASE ~(i <= Len(s))
    <3>1. i - Len(s) \in 1..Len(t) /\ Len(s) + (i - Len(s)) = i
      BY <1>4, <2>2
    <3>2. w[Len(s) + (i - Len(s))] = t[i - Len(s)]
      BY <1>4, <3>1
    <3> QED
      BY <3>1, <3>2
  <2> QED
    BY <2>1, <2>2
<1> QED
  BY <1>4, <1>5 DEF IsList, w

(* A function on 1 .. n is a list.                                           *)
LEMMA ListMade ==
  ASSUME NEW n \in Nat, NEW s, DOMAIN s = 1..n, s = [i \in 1..n |-> s[i]]
  PROVE  IsList(s) /\ Len(s) = n
<1>1. PICK S : S = {s[i] : i \in 1..n}
  OBVIOUS
<1>2. s \in [1..n -> S]
  BY <1>1
<1> QED
  BY <1>2, ListOf DEF IsList

(* A kept event is sound, whatever was said since it was made. *)
LEMMA EventStays ==
  ASSUME NEW N \in Bounds, NEW M \in Bounds, NEW K \in Bounds, NEW A, NEW B, NEW e,
         EventOK(e, N, M, A), e.type # "part.delta", A \subseteq B,
         \A m \in Msg : AtMost(M[m], K[m])
  PROVE  EventOK(e, K, K, B)
<1>1. CASE e.type = "part.updated"
  <2>1. e.msg \in Msg /\ e.patch \in Patch
    BY <1>1 DEF EventOK
  <2>2. ASSUME e.id \in Nat PROVE PatchOK(e.patch, K[e.msg][e.id])
    <3> DEFINE a == M[e.msg][e.id]
               b == K[e.msg][e.id]
               p == e.patch
    <3>1. PatchOK(p, a)
      BY <1>1, <2>2 DEF EventOK
    <3>2. a \in Nat /\ b \in Nat /\ a <= b
      BY <2>1, <2>2 DEF Bounds, AtMost
    <3> HIDE DEF a, b, p
    <3>3. CASE "text" \in DOMAIN p
      <4>1. p.text \in Seq(Nat)
        BY <3>1, <3>3 DEF PatchOK, Patch
      <4>2. Rising(p.text, b)
        BY <3>1, <3>2, <3>3, <4>1, RisingBelow DEF PatchOK
      <4> QED
        BY <3>1, <4>2 DEF PatchOK, b, p
    <3>4. CASE "text" \notin DOMAIN p
      BY <3>1, <3>4 DEF PatchOK, b, p
    <3> QED
      BY <3>3, <3>4
  <2> QED
    BY <1>1, <2>2 DEF EventOK
<1>2. CASE e.type = "message.completed"
  <2>1. e.msg \in Msg /\ e.parts \in ServerParts /\ AtMost(SaidOf(e.parts), M[e.msg])
    BY <1>2 DEF EventOK
  <2>2. AtMost(SaidOf(e.parts), K[e.msg])
    <3>1. SaidOf(e.parts) \in [Nat -> Nat]
      BY <2>1, SaidIn DEF ServerParts
    <3>2. M[e.msg] \in [Nat -> Nat] /\ K[e.msg] \in [Nat -> Nat] /\ AtMost(M[e.msg], K[e.msg])
      BY <2>1 DEF Bounds
    <3> QED
      BY <2>1, <3>1, <3>2 DEF AtMost
  <2> QED
    BY <1>2, <2>2 DEF EventOK
<1>3. CASE e.type \notin {"part.updated", "message.completed"}
  BY <1>3 DEF EventOK
<1> QED
  BY <1>1, <1>2, <1>3

(* What is emitted in one go keeps the page within bounds, and is queued.    *)
LEMMA EmitKeeps ==
  ASSUME NEW N \in Bounds, NEW M \in Bounds, NEW A, PageOK(client, N, M, A),
         NEW es, IsList(es), \A i \in 1..Len(es) : EventOK(es[i], N, M, A), Emit(es), IsList(queue)
  PROVE  /\ PageOK(client', N, M, A)
         /\ IsList(queue')
         /\ \A i \in 1..Len(queue') :
              \/ \E k \in 1..Len(queue) : queue'[i] = queue[k]
              \/ queue'[i].type # "part.delta" /\ \E k \in 1..Len(es) : queue'[i] = es[k]
         /\ (\A i \in 1..Len(es) : es[i].type # "approval.required") =>
              /\ Eased(client, client')
              /\ \A i \in 1..Len(es) : IsConnected /\ es[i].type = "message.started"
                                         => Freed(client', es[i].run)
<1> DEFINE Early == {e \in Range(es) : e.type \in ToLiveAtOnce}
           Written == {e \in Range(es) : e.type # "part.delta"}
           early == Only(es, Early)
           kept == Only(es, Written)
           sent == [i \in DOMAIN early |-> <<early[i], 0>>]
<1>1. Len(es) \in Nat /\ es \in Seq(Range(es)) /\ Range(es) = {es[i] : i \in 1..Len(es)}
  BY ListFacts
<1>a. /\ \A e : e \in Early <=> e \in Range(es) /\ e.type \in ToLiveAtOnce
      /\ \A e : e \in Written <=> e \in Range(es) /\ e.type # "part.delta"
  OBVIOUS
<1>4. queue' = queue \o kept /\ Broadcast(sent)
  BY DEF Emit
<1> HIDE DEF Early, Written
<1>2. /\ early \in Seq(Range(es) \cap Early)
      /\ \A i \in 1..Len(es) : es[i] \in Early => \E j \in 1..Len(early) : early[j] = es[i]
  <2> HIDE DEF early, kept, sent
  <2>1. PICK list, set, S : list = es /\ set = Early /\ S = Range(es)
    OBVIOUS
  <2>2. Only(list, set) = early
    BY <2>1 DEF early
  <2>3. list \in Seq(S)
    BY <1>1, <2>1
  <2>4. /\ Only(list, set) \in Seq(S \cap set)
        /\ \A i \in 1..Len(list) : list[i] \in set =>
             \E j \in 1..Len(Only(list, set)) : Only(list, set)[j] = list[i]
    BY <2>3, OnlyKeeps
  <2> QED
    BY <2>1, <2>2, <2>4
<1>3. kept \in Seq(Range(es) \cap Written)
  BY <1>1, OnlyKeeps
<1> HIDE DEF early, kept
<1>5. /\ Len(early) \in Nat /\ DOMAIN early = 1..Len(early)
      /\ \A i \in 1..Len(early) : early[i] \in Range(es) /\ early[i].type \in ToLiveAtOnce
  <2>1. \A i \in 1..Len(early) : early[i] \in Range(es) \cap Early
    BY <1>2, ListIs
  <2> QED
    BY <1>2, <1>a, <2>1, ListIs
<1>6. /\ IsList(kept) /\ \A i \in 1..Len(kept) : kept[i] \in Range(es) /\ kept[i].type # "part.delta"
  <2>1. \A i \in 1..Len(kept) : kept[i] \in Range(es) \cap Written
    BY <1>3, ListIs
  <2>2. IsList(kept)
    BY <1>3 DEF IsList
  <2> QED
    BY <1>a, <2>1, <2>2
<1>7. Len(sent) = Len(early) /\ \A i \in 1..Len(early) : sent[i][1] = early[i] /\ sent[i][2] = 0
  BY <1>5
<1> HIDE DEF sent
<1>8. Telling(sent, N, M, A)
  <2>1. ASSUME NEW k \in 1..Len(sent)
        PROVE  /\ EventOK(sent[k][1], N, M, A) /\ sent[k][2] \in Nat
               /\ sent[k][1].type \in ToLiveAtOnce
    <3>1. sent[k][1] = early[k] /\ sent[k][2] = 0 /\ early[k] \in Range(es)
          /\ early[k].type \in ToLiveAtOnce
      BY <1>5, <1>7, <2>1
    <3>2. PICK j \in 1..Len(es) : early[k] = es[j]
      BY <1>1, <3>1
    <3>3. EventOK(early[k], N, M, A)
      BY <3>2
    <3> QED
      BY <3>1, <3>3
  <2> QED
    BY <2>1 DEF Telling
<1>9. /\ client' = client \/ Heard(client, client', sent)
      /\ IsConnected /\ Len(sent) > 0 => Heard(client, client', sent)
  BY <1>4, <1>5, <1>7, BroadcastHeard
<1>10. PageOK(client', N, M, A)
  BY <1>8, <1>9, HeardKeeps
<1>11. /\ IsList(queue')
       /\ \A i \in 1..Len(queue') :
            \/ \E k \in 1..Len(queue) : queue'[i] = queue[k]
            \/ queue'[i].type # "part.delta" /\ \E k \in 1..Len(es) : queue'[i] = es[k]
  <2>1. /\ IsList(queue')
        /\ \A i \in 1..Len(queue') :
             \/ \E k \in 1..Len(queue) : queue'[i] = queue[k]
             \/ \E k \in 1..Len(kept) : queue'[i] = kept[k]
    BY <1>4, <1>6, ListsJoin
  <2>2. \A k \in 1..Len(kept) : kept[k].type # "part.delta" /\ \E l \in 1..Len(es) : kept[k] = es[l]
    BY <1>1, <1>6
  <2> QED
    BY <2>1, <2>2
<1>12. ASSUME \A i \in 1..Len(es) : es[i].type # "approval.required"
       PROVE  /\ Eased(client, client')
              /\ \A i \in 1..Len(es) : IsConnected /\ es[i].type = "message.started"
                                         => Freed(client', es[i].run)
  <2>1. \A i \in 1..Len(sent) : sent[i][1].type # "approval.required"
    <3>1. SUFFICES ASSUME NEW k \in 1..Len(sent) PROVE sent[k][1].type # "approval.required"
      OBVIOUS
    <3>2. sent[k][1] = early[k] /\ early[k] \in Range(es)
      BY <1>5, <1>7
    <3>3. PICK j \in 1..Len(es) : early[k] = es[j]
      BY <1>1, <3>2
    <3> QED
      BY <1>12, <3>2, <3>3
  <2>2. ASSUME Heard(client, client', sent)
        PROVE  /\ Eased(client, client')
               /\ \A k \in 1..Len(sent) : sent[k][1].type = "message.started" => Freed(client', sent[k][1].run)
    BY <1>8, <2>1, <2>2, HeardEases
  <2>3. Eased(client, client')
    BY <1>9, <2>2, EasedOnce
  <2>4. ASSUME NEW i \in 1..Len(es), IsConnected, es[i].type = "message.started"
        PROVE  Freed(client', es[i].run)
    <3>1. es[i] \in Early
      BY <1>1, <1>a, <2>4 DEF ToLiveAtOnce
    <3>2. PICK j \in 1..Len(early) : early[j] = es[i]
      BY <1>2, <3>1
    <3>3. j \in 1..Len(sent) /\ sent[j][1] = es[i] /\ Len(sent) > 0
      BY <1>5, <1>7, <3>2
    <3>4. Heard(client, client', sent)
      BY <1>9, <2>4, <3>3
    <3> QED
      BY <2>2, <2>4, <3>3, <3>4
  <2> QED
    BY <2>3, <2>4
<1> QED
  BY <1>10, <1>11, <1>12

-----------------------------------------------------------------------------
(* What one change does: the parts stay the daemon's, texts only grow, and   *)
(* the event tells no more than was said and, of a delta, only what is new.  *)
ChangeEvent(ev, n, k) ==
  /\ "type" \in DOMAIN ev /\ ev.type \in {"part.started", "part.delta", "part.updated"}
  /\ ev.type = "part.started" => /\ "part" \in DOMAIN ev
                                 /\ ev.part \in Part /\ ev.part.text = <<>>
  /\ ev.type = "part.delta" => /\ "id" \in DOMAIN ev /\ "index" \in DOMAIN ev
                               /\ ev.id \in Nat /\ ev.index \in Nat
                               /\ n[ev.id] < ev.index /\ ev.index <= k[ev.id]
  /\ ev.type = "part.updated" => /\ "id" \in DOMAIN ev /\ "patch" \in DOMAIN ev
                                 /\ ev.patch \in Patch
                                 /\ ev.id \in Nat => PatchOK(ev.patch, k[ev.id])

OneChange(ps, ch) ==
  /\ ch.parts \in ServerParts /\ AtMost(SaidOf(ps), SaidOf(ch.parts))
  /\ ChangeEvent(ch.event, SaidOf(ps), SaidOf(ch.parts))

(* What the parts of the daemon are, one by one. *)
LEMMA ServerIs ==
  ASSUME NEW ps \in ServerParts
  PROVE  /\ ps \in Seq(Part) /\ Len(ps) \in Nat /\ DOMAIN ps = 1..Len(ps)
         /\ ps \in [1..Len(ps) -> Part] /\ SaidOf(ps) \in [Nat -> Nat]
         /\ \A i \in 1..Len(ps) :
              /\ i \in Nat /\ ps[i] \in Part /\ ps[i].id = i /\ ps[i].text \in Seq(Nat)
              /\ Len(ps[i].text) \in Nat /\ SaidOf(ps)[i] = Len(ps[i].text)
              /\ \A j \in 1..Len(ps[i].text) : ps[i].text[j] = j
         /\ \A i \in Nat : i \notin 1..Len(ps) => SaidOf(ps)[i] = 0
<1>1. /\ ps \in Seq(Part)
      /\ \A i \in 1..Len(ps) : ps[i].id = i /\ \A j \in 1..Len(ps[i].text) : ps[i].text[j] = j
  BY DEF ServerParts
<1>2. /\ Len(ps) \in Nat /\ DOMAIN ps = 1..Len(ps) /\ \A i \in 1..Len(ps) : ps[i] \in Part
      /\ ps \in [1..Len(ps) -> Part]
  BY <1>1, ListIs
<1>3. \A i \in 1..Len(ps) : ps[i].text \in Seq(Nat) /\ Len(ps[i].text) \in Nat /\ i \in Nat
  <2> TAKE i \in 1..Len(ps)
  <2>1. ps[i].text \in Seq(Nat)
    BY <1>2 DEF Part
  <2> QED
    BY <1>2, <2>1, ListIs
<1>4. /\ SaidOf(ps) \in [Nat -> Nat]
      /\ \A i \in 1..Len(ps) : SaidOf(ps)[i] = Len(ps[i].text)
      /\ \A i \in Nat : i \notin 1..Len(ps) => SaidOf(ps)[i] = 0
  BY <1>1, SaidIn
<1> QED
  BY <1>1, <1>2, <1>3, <1>4

(* The other way round: a list of such parts is the daemon's.                *)
Numbered(p, i) == p.id = i /\ \A j \in 1..Len(p.text) : p.text[j] = j

(* Numbered parts whose texts count their deltas are the daemon's.           *)
LEMMA ServerMade ==
  ASSUME NEW n \in Nat, NEW qs \in [1..n -> Part], \A i \in 1..n : Numbered(qs[i], i)
  PROVE  qs \in ServerParts /\ Len(qs) = n
<1>1. qs \in Seq(Part) /\ Len(qs) = n
  BY ListOf
<1> QED
  BY <1>1 DEF ServerParts, Numbered

(* A part takes the place of another one, and its text has grown.            *)
Outgrows(p, old) ==
  p.id = old.id /\ (\A j \in 1..Len(p.text) : p.text[j] = j) /\ Len(old.text) <= Len(p.text)

(* A part is replaced by one whose text has grown.                           *)
LEMMA PartReplaced ==
  ASSUME NEW ps \in ServerParts, NEW id \in 1..Len(ps), NEW p \in Part, Outgrows(p, ps[id]),
         NEW qs, qs = [ps EXCEPT ![id] = p]
  PROVE  /\ qs \in ServerParts /\ Len(qs) = Len(ps) /\ qs[id] = p
         /\ AtMost(SaidOf(ps), SaidOf(qs)) /\ SaidOf(qs)[id] = Len(p.text)
<1>0. /\ p.id = ps[id].id /\ \A j \in 1..Len(p.text) : p.text[j] = j
      /\ Len(ps[id].text) <= Len(p.text)
  BY DEF Outgrows
<1>1. /\ Len(ps) \in Nat /\ DOMAIN ps = 1..Len(ps)
      /\ \A i \in 1..Len(ps) :
           /\ i \in Nat /\ ps[i] \in Part /\ ps[i].id = i
           /\ Len(ps[i].text) \in Nat /\ SaidOf(ps)[i] = Len(ps[i].text)
           /\ \A j \in 1..Len(ps[i].text) : ps[i].text[j] = j
      /\ \A i \in Nat : i \notin 1..Len(ps) => SaidOf(ps)[i] = 0
  BY ServerIs
<1>2. DOMAIN qs = 1..Len(ps) /\ \A i \in 1..Len(ps) : qs[i] = IF i = id THEN p ELSE ps[i]
  BY <1>1
<1>3. qs = [i \in 1..Len(ps) |-> qs[i]]
  BY <1>1
<1>4. qs \in ServerParts /\ Len(qs) = Len(ps)
  <2>1. \A i \in 1..Len(ps) : /\ qs[i] \in Part /\ qs[i].id = i
                              /\ \A j \in 1..Len(qs[i].text) : qs[i].text[j] = j
    BY <1>0, <1>1, <1>2
  <2>2. PICK n \in Nat : n = Len(ps)
    BY <1>1
  <2>3. qs \in [1..n -> Part] /\ \A i \in 1..n : Numbered(qs[i], i)
    BY <1>2, <1>3, <2>1, <2>2 DEF Numbered
  <2>4. qs \in ServerParts /\ Len(qs) = n
    BY <2>3, ServerMade
  <2> QED
    BY <2>2, <2>4
<1>5. /\ \A i \in 1..Len(ps) : SaidOf(qs)[i] = Len(qs[i].text)
      /\ \A i \in Nat : i \notin 1..Len(ps) => SaidOf(qs)[i] = 0
  <2>1. /\ \A i \in 1..Len(qs) : SaidOf(qs)[i] = Len(qs[i].text)
        /\ \A i \in Nat : i \notin 1..Len(qs) => SaidOf(qs)[i] = 0
    BY <1>4, ServerIs
  <2> QED
    BY <1>4, <2>1
<1>6. AtMost(SaidOf(ps), SaidOf(qs))
  <2>1. ASSUME NEW i \in Nat PROVE SaidOf(ps)[i] <= SaidOf(qs)[i]
    <3>1. CASE i = id
      BY <1>0, <1>1, <1>2, <1>5, <3>1
    <3>2. CASE i # id /\ i \in 1..Len(ps)
      <4>1. /\ SaidOf(ps)[i] = Len(ps[i].text) /\ SaidOf(qs)[i] = Len(qs[i].text)
            /\ qs[i] = ps[i] /\ Len(ps[i].text) \in Nat
        BY <1>1, <1>2, <1>5, <3>2
      <4> QED
        BY <4>1
    <3>3. CASE i \notin 1..Len(ps)
      <4>1. SaidOf(ps)[i] = 0 /\ SaidOf(qs)[i] = 0
        BY <1>1, <1>5, <3>3
      <4> QED
        BY <4>1
    <3> QED
      BY <3>1, <3>2, <3>3
  <2> QED
    BY <2>1 DEF AtMost
<1> QED
  BY <1>2, <1>4, <1>5, <1>6

(* A part is added at the end, and says nothing yet.                         *)
LEMMA StartPartChanges ==
  ASSUME NEW ps \in ServerParts,
         NEW k \in {"text", "status", "tool_use", "tool_result", "error"}, NEW role \in Words
  PROVE  /\ OneChange(ps, StartPart(ps, k, role))
         /\ Len(StartPart(ps, k, role).parts) = Len(ps) + 1
<1>1. /\ Len(ps) \in Nat /\ DOMAIN ps = 1..Len(ps) /\ ps \in Seq(Part)
      /\ \A i \in 1..Len(ps) :
           /\ i \in Nat /\ ps[i] \in Part /\ ps[i].id = i
           /\ Len(ps[i].text) \in Nat /\ SaidOf(ps)[i] = Len(ps[i].text)
           /\ \A j \in 1..Len(ps[i].text) : ps[i].text[j] = j
      /\ \A i \in Nat : i \notin 1..Len(ps) => SaidOf(ps)[i] = 0
  BY ServerIs
<1> DEFINE p == NewPart(ps, k, role)
           qs == Append(ps, p)
           ev == [type |-> "part.started", part |-> p]
<1>2. p \in Part /\ p.text = <<>> /\ p.id = Len(ps) + 1
  <2>1. FirstStatus[k] \in Words
    BY DEF FirstStatus, Words
  <2>2. k \in Words /\ <<>> \in Seq(Nat)
    BY DEF Words
  <2> QED
    BY <1>1, <2>1, <2>2 DEF NewPart, Part
<1> HIDE DEF p
<1>3. /\ Len(qs) = Len(ps) + 1 /\ qs \in Seq(Part) /\ qs[Len(ps) + 1] = p
      /\ \A i \in 1..Len(ps) : qs[i] = ps[i]
  BY <1>1, <1>2
<1> HIDE DEF qs
<1>4. qs \in ServerParts
  <2>1. ASSUME NEW i \in 1..Len(qs)
        PROVE  qs[i].id = i /\ \A j \in 1..Len(qs[i].text) : qs[i].text[j] = j
    <3>1. CASE i \in 1..Len(ps)
      BY <1>1, <1>3, <3>1
    <3>2. CASE i = Len(ps) + 1
      BY <1>2, <1>3, <3>2
    <3> QED
      BY <1>1, <1>3, <3>1, <3>2
  <2> QED
    BY <1>3, <2>1 DEF ServerParts
<1>5. /\ \A i \in 1..Len(qs) : SaidOf(qs)[i] = Len(qs[i].text) /\ Len(qs[i].text) \in Nat
      /\ \A i \in Nat : i \notin 1..Len(qs) => SaidOf(qs)[i] = 0
  BY <1>4, ServerIs
<1>6. AtMost(SaidOf(ps), SaidOf(qs))
  <2>1. ASSUME NEW i \in Nat PROVE SaidOf(ps)[i] <= SaidOf(qs)[i]
    <3>1. CASE i \in 1..Len(ps)
      BY <1>1, <1>3, <1>5, <3>1
    <3>2. CASE i = Len(ps) + 1
      <4>1. SaidOf(ps)[i] = 0 /\ i \in 1..Len(qs)
        BY <1>1, <1>3, <3>2
      <4> QED
        BY <1>5, <4>1
    <3>3. CASE i \notin 1..(Len(ps) + 1)
      BY <1>1, <1>3, <1>5, <3>3
    <3> QED
      BY <1>1, <3>1, <3>2, <3>3
  <2> QED
    BY <2>1 DEF AtMost
<1>7. ChangeEvent(ev, SaidOf(ps), SaidOf(qs))
  BY <1>2 DEF ChangeEvent
<1>8. StartPart(ps, k, role) = [parts |-> qs, event |-> ev]
  BY DEF StartPart, Change, p, qs
<1> QED
  BY <1>3, <1>4, <1>6, <1>7, <1>8 DEF OneChange

(* The next delta of a text.                                                 *)
LEMMA AppendTextChanges ==
  ASSUME NEW ps \in ServerParts, NEW id \in 1..Len(ps)
  PROVE  OneChange(ps, AppendText(ps, id)) /\ Len(AppendText(ps, id).parts) = Len(ps)
<1>1. /\ Len(ps) \in Nat /\ DOMAIN ps = 1..Len(ps)
      /\ id \in Nat /\ ps[id] \in Part /\ ps[id].id = id /\ ps[id].text \in Seq(Nat)
      /\ Len(ps[id].text) \in Nat /\ SaidOf(ps)[id] = Len(ps[id].text)
      /\ \A j \in 1..Len(ps[id].text) : ps[id].text[j] = j
  BY ServerIs
<1> DEFINE t == ps[id].text
           next == Len(t) + 1
           p == [ps[id] EXCEPT !.text = Append(t, next)]
           qs == [ps EXCEPT ![id] = p]
           ev == [type |-> "part.delta", id |-> id, index |-> next]
<1>2. Append(t, next) \in Seq(Nat) /\ Len(Append(t, next)) = next
      /\ \A j \in 1..next : Append(t, next)[j] = j
  <2>1. t \in Seq(Nat) /\ next \in Nat /\ Len(t) \in Nat /\ \A j \in 1..Len(t) : t[j] = j
    BY <1>1
  <2> HIDE DEF t
  <2> QED
    BY <2>1
<1>3. p \in Part /\ p.id = id /\ p.text = Append(t, next)
  <2>1. PICK w \in Seq(Nat) : w = Append(t, next)
    BY <1>2
  <2>2. [ps[id] EXCEPT !.text = w] \in Part /\ [ps[id] EXCEPT !.text = w].id = id
        /\ [ps[id] EXCEPT !.text = w].text = w
    BY <1>1, <2>1 DEF Part
  <2> QED
    BY <2>1, <2>2
<1>4. Len(p.text) = next /\ next \in Nat /\ Len(ps[id].text) < next /\ \A j \in 1..Len(p.text) : p.text[j] = j
  BY <1>1, <1>2, <1>3
<1> HIDE DEF p
<1>5. /\ qs \in ServerParts /\ Len(qs) = Len(ps)
      /\ AtMost(SaidOf(ps), SaidOf(qs)) /\ SaidOf(qs)[id] = Len(p.text)
  <2>1. Outgrows(p, ps[id])
    BY <1>1, <1>3, <1>4 DEF Outgrows
  <2> QED
    BY <1>3, <1>4, <2>1, PartReplaced
<1>6. AppendText(ps, id) = [parts |-> qs, event |-> ev]
  <2>1. [ps EXCEPT ![id].text = Append(@, next)] = [ps EXCEPT ![id] = [ps[id] EXCEPT !.text = Append(ps[id].text, next)]]
    BY <1>1
  <2> QED
    BY <2>1 DEF AppendText, Change, p
<1> HIDE DEF qs
<1>7. ChangeEvent(ev, SaidOf(ps), SaidOf(qs))
  <2>1. SaidOf(ps)[id] < next /\ next <= SaidOf(qs)[id]
    BY <1>1, <1>4, <1>5
  <2> HIDE DEF next
  <2> QED
    BY <1>1, <1>4, <2>1 DEF ChangeEvent, next
<1> QED
  BY <1>5, <1>6, <1>7 DEF OneChange

(* A field of a part that is not its text.                                   *)
LEMMA FieldChanges ==
  ASSUME NEW ps \in ServerParts, NEW id \in 1..Len(ps), NEW w \in Words
  PROVE  /\ OneChange(ps, CompleteTextPart(ps, id))
         /\ Len(CompleteTextPart(ps, id).parts) = Len(ps)
         /\ OneChange(ps, UpdateTextPartRole(ps, id, w))
         /\ OneChange(ps, UpdateStatus(ps, id, w))
         /\ Len(UpdateStatus(ps, id, w).parts) = Len(ps)
<1>1. /\ Len(ps) \in Nat /\ DOMAIN ps = 1..Len(ps)
      /\ id \in Nat /\ ps[id] \in Part /\ ps[id].id = id /\ ps[id].text \in Seq(Nat)
      /\ Len(ps[id].text) \in Nat /\ SaidOf(ps)[id] = Len(ps[id].text)
      /\ \A j \in 1..Len(ps[id].text) : ps[id].text[j] = j
  BY ServerIs
<1>2. ASSUME NEW v \in Words
      PROVE  [ps EXCEPT ![id].st = v] \in ServerParts /\ Len([ps EXCEPT ![id].st = v]) = Len(ps)
             /\ AtMost(SaidOf(ps), SaidOf([ps EXCEPT ![id].st = v]))
             /\ SaidOf([ps EXCEPT ![id].st = v])[id] = Len(ps[id].text)
  <2>1. PICK p : p = [ps[id] EXCEPT !.st = v]
    OBVIOUS
  <2>2. p \in Part /\ p.id = id /\ p.text = ps[id].text
    BY <1>1, <1>2, <2>1 DEF Part
  <2>3. PICK qs : qs = [ps EXCEPT ![id] = p]
    OBVIOUS
  <2>4. qs = [ps EXCEPT ![id].st = v]
    BY <1>1, <2>1, <2>3
  <2>5. Outgrows(p, ps[id])
    BY <1>1, <2>2 DEF Outgrows
  <2> DEFINE rs == [ps EXCEPT ![id] = p]
  <2>6. /\ rs \in ServerParts /\ Len(rs) = Len(ps)
        /\ AtMost(SaidOf(ps), SaidOf(rs)) /\ SaidOf(rs)[id] = Len(p.text)
    BY <2>2, <2>5, PartReplaced
  <2>7. rs = qs
    BY <2>3
  <2> HIDE DEF rs
  <2> QED
    BY <2>2, <2>4, <2>6, <2>7
<1>3. /\ [ps EXCEPT ![id].role = w] \in ServerParts
      /\ AtMost(SaidOf(ps), SaidOf([ps EXCEPT ![id].role = w]))
  <2>1. PICK p : p = [ps[id] EXCEPT !.role = w]
    OBVIOUS
  <2>2. p \in Part /\ p.id = id /\ p.text = ps[id].text
    BY <1>1, <2>1 DEF Part
  <2>3. PICK qs : qs = [ps EXCEPT ![id] = p]
    OBVIOUS
  <2>4. qs = [ps EXCEPT ![id].role = w]
    BY <1>1, <2>1, <2>3
  <2>5. Outgrows(p, ps[id])
    BY <1>1, <2>2 DEF Outgrows
  <2> DEFINE rs == [ps EXCEPT ![id] = p]
  <2>6. /\ rs \in ServerParts /\ Len(rs) = Len(ps)
        /\ AtMost(SaidOf(ps), SaidOf(rs)) /\ SaidOf(rs)[id] = Len(p.text)
    BY <2>2, <2>5, PartReplaced
  <2>7. rs = qs
    BY <2>3
  <2> HIDE DEF rs
  <2> QED
    BY <2>2, <2>4, <2>6, <2>7
<1>4. "completed" \in Words
  BY DEF Words
<1>5. /\ OneChange(ps, CompleteTextPart(ps, id))
      /\ Len(CompleteTextPart(ps, id).parts) = Len(ps)
  <2> DEFINE qs == [ps EXCEPT ![id].st = "completed"]
             t == ps[id].text
             patch == [st |-> "completed", text |-> t]
             ev == [type |-> "part.updated", id |-> id, patch |-> patch]
  <2>1. /\ qs \in ServerParts /\ Len(qs) = Len(ps) /\ AtMost(SaidOf(ps), SaidOf(qs))
        /\ SaidOf(qs)[id] = Len(t)
    BY <1>2, <1>4
  <2>2. CompleteTextPart(ps, id) = [parts |-> qs, event |-> ev]
    BY DEF CompleteTextPart, Change
  <2> HIDE DEF qs
  <2>3. t \in Seq(Nat) /\ Len(t) \in Nat /\ \A j \in 1..Len(t) : t[j] = j
    BY <1>1
  <2> HIDE DEF t
  <2>4. PatchOK(patch, SaidOf(qs)[id])
    <3>1. Rising(t, Len(t))
      <4>1. Len(t) <= Len(t)
        BY <2>3
      <4> QED
        BY <2>3, <4>1, CountsRise
    <3>2. patch \in Patch
      BY <1>4, <2>3 DEF Patch
    <3> QED
      BY <2>1, <3>1, <3>2 DEF PatchOK
  <2>5. patch \in Patch
    BY <2>4 DEF PatchOK
  <2> HIDE DEF patch
  <2>6. ChangeEvent(ev, SaidOf(ps), SaidOf(qs))
    BY <2>4, <2>5 DEF ChangeEvent
  <2> QED
    BY <2>1, <2>2, <2>6 DEF OneChange
<1>6. OneChange(ps, UpdateTextPartRole(ps, id, w))
  <2> DEFINE qs == [ps EXCEPT ![id].role = w]
             ev == [type |-> "part.updated", id |-> id, patch |-> [role |-> w]]
  <2>1. UpdateTextPartRole(ps, id, w) = [parts |-> qs, event |-> ev]
    BY DEF UpdateTextPartRole, Change
  <2>2. qs \in ServerParts /\ AtMost(SaidOf(ps), SaidOf(qs))
    BY <1>3
  <2> HIDE DEF qs
  <2>3. ChangeEvent(ev, SaidOf(ps), SaidOf(qs))
    BY DEF ChangeEvent, Patch, PatchOK
  <2> QED
    BY <2>1, <2>2, <2>3 DEF OneChange
<1>7. /\ OneChange(ps, UpdateStatus(ps, id, w))
      /\ Len(UpdateStatus(ps, id, w).parts) = Len(ps)
  <2> DEFINE qs == [ps EXCEPT ![id].st = w]
             ev == [type |-> "part.updated", id |-> id, patch |-> [st |-> w]]
  <2>1. UpdateStatus(ps, id, w) = [parts |-> qs, event |-> ev]
    BY DEF UpdateStatus, Change
  <2>2. qs \in ServerParts /\ Len(qs) = Len(ps) /\ AtMost(SaidOf(ps), SaidOf(qs))
    BY <1>2
  <2> HIDE DEF qs
  <2>3. ChangeEvent(ev, SaidOf(ps), SaidOf(qs))
    BY DEF ChangeEvent, Patch, PatchOK
  <2> QED
    BY <2>1, <2>2, <2>3 DEF OneChange
<1> QED
  BY <1>5, <1>6, <1>7

(* Any word at any id: without such a part nothing changes but the event.    *)
LEMMA StatusChanges ==
  ASSUME NEW ps \in ServerParts, NEW id, NEW w \in Words
  PROVE  OneChange(ps, UpdateStatus(ps, id, w))
<1>1. CASE id \in 1..Len(ps)
  BY <1>1, FieldChanges
<1>2. CASE id \notin 1..Len(ps)
  <2> DEFINE qs == [ps EXCEPT ![id].st = w]
             ev == [type |-> "part.updated", id |-> id, patch |-> [st |-> w]]
  <2>1. UpdateStatus(ps, id, w) = [parts |-> qs, event |-> ev]
    BY DEF UpdateStatus, Change
  <2>2. qs = ps
    <3>1. DOMAIN ps = 1..Len(ps) /\ ps \in [1..Len(ps) -> Part]
      BY ServerIs
    <3> QED
      BY <1>2, <3>1
  <2> HIDE DEF qs
  <2>3. ChangeEvent(ev, SaidOf(ps), SaidOf(qs))
    BY DEF ChangeEvent, Patch, PatchOK
  <2>4. SaidOf(ps) \in [Nat -> Nat]
    BY ServerIs
  <2>5. AtMost(SaidOf(ps), SaidOf(qs))
    BY <2>2, <2>4 DEF AtMost
  <2> QED
    BY <2>1, <2>2, <2>3, <2>5 DEF OneChange
<1> QED
  BY <1>1, <1>2

-----------------------------------------------------------------------------
(* Several changes, one after the other.                                     *)
Changed(ps, chs) ==
  /\ IsList(chs) /\ Len(chs) # 0
  /\ Last(chs).parts \in ServerParts /\ AtMost(SaidOf(ps), SaidOf(Last(chs).parts))
  /\ \A i \in 1..Len(chs) : ChangeEvent(chs[i].event, SaidOf(ps), SaidOf(Last(chs).parts))

(* What an event tells stays true when it is seen in a longer run of changes.*)
LEMMA EventWithin ==
  ASSUME NEW n \in [Nat -> Nat], NEW k \in [Nat -> Nat], NEW m \in [Nat -> Nat],
         NEW l \in [Nat -> Nat], AtMost(n, k), AtMost(m, l), NEW ev, ChangeEvent(ev, k, m)
  PROVE  ChangeEvent(ev, n, l)
<1>1. CASE ev.type = "part.delta"
  <2>1. /\ ev.id \in Nat /\ ev.index \in Nat /\ k[ev.id] < ev.index /\ ev.index <= m[ev.id]
    BY <1>1 DEF ChangeEvent
  <2>2. n[ev.id] <= k[ev.id] /\ m[ev.id] <= l[ev.id]
    BY <2>1 DEF AtMost
  <2>3. n[ev.id] \in Nat /\ k[ev.id] \in Nat /\ m[ev.id] \in Nat /\ l[ev.id] \in Nat
    BY <2>1
  <2>4. n[ev.id] < ev.index /\ ev.index <= l[ev.id]
    BY <2>1, <2>2, <2>3
  <2> QED
    BY <1>1, <2>4 DEF ChangeEvent
<1>2. CASE ev.type = "part.updated"
  <2>1. ASSUME ev.id \in Nat PROVE PatchOK(ev.patch, l[ev.id])
    <3>1. PatchOK(ev.patch, m[ev.id])
      BY <1>2, <2>1 DEF ChangeEvent
    <3>2. PICK p, a, b : p = ev.patch /\ a = m[ev.id] /\ b = l[ev.id]
      OBVIOUS
    <3>3. a \in Nat /\ b \in Nat /\ a <= b
      BY <2>1, <3>2 DEF AtMost
    <3>4. CASE "text" \in DOMAIN p
      <4>1. p.text \in Seq(Nat) /\ Rising(p.text, a)
        BY <3>1, <3>2, <3>4 DEF PatchOK, Patch
      <4>2. Rising(p.text, b)
        BY <3>3, <4>1, RisingBelow
      <4> QED
        BY <3>1, <3>2, <4>2 DEF PatchOK
    <3>5. CASE "text" \notin DOMAIN p
      BY <3>1, <3>2, <3>5 DEF PatchOK
    <3> QED
      BY <3>4, <3>5
  <2> QED
    BY <1>2, <2>1 DEF ChangeEvent
<1>3. CASE ev.type = "part.started"
  BY <1>3 DEF ChangeEvent
<1> QED
  BY <1>1, <1>2, <1>3 DEF ChangeEvent

(* AtMost is transitive ...                                                  *)
LEMMA AtMostTwice ==
  ASSUME NEW n \in [Nat -> Nat], NEW k \in [Nat -> Nat], NEW m \in [Nat -> Nat],
         AtMost(n, k), AtMost(k, m)
  PROVE  AtMost(n, m)
<1>1. ASSUME NEW i \in Nat PROVE n[i] <= m[i]
  <2>1. n[i] <= k[i] /\ k[i] <= m[i] /\ n[i] \in Nat /\ k[i] \in Nat /\ m[i] \in Nat
    BY DEF AtMost
  <2> QED
    BY <2>1
<1> QED
  BY <1>1 DEF AtMost

(* ... and reflexive.                                                        *)
LEMMA AtMostSame ==
  ASSUME NEW n \in [Nat -> Nat]
  PROVE  AtMost(n, n)
BY DEF AtMost

(* Last is the element at the end.                                           *)
LEMMA LastOf ==
  ASSUME NEW s, IsList(s), Len(s) # 0
  PROVE  /\ Last(s) = s[Len(s)] /\ Len(s) \in 1..Len(s)
<1>1. Len(s) \in Nat
  BY ListFacts
<1> QED
  BY <1>1 DEF Last

(* One change is a list of changes ...                                       *)
LEMMA ChangedOnce ==
  ASSUME NEW ps, NEW a, OneChange(ps, a)
  PROVE  Changed(ps, <<a>>) /\ Last(<<a>>) = a
<1>1. <<a>> \in Seq({a}) /\ Len(<<a>>) = 1 /\ <<a>>[1] = a
  OBVIOUS
<1>2. Last(<<a>>) = a
  BY <1>1 DEF Last
<1>3. \A i \in 1..Len(<<a>>) : <<a>>[i] = a
  BY <1>1
<1>4. IsList(<<a>>)
  BY <1>1 DEF IsList
<1> HIDE <1>1
<1> QED
  BY <1>1, <1>2, <1>3, <1>4 DEF Changed, OneChange

(* List w is s, then t. *)
Joined(w, s, t) ==
  /\ IsList(w) /\ Len(w) = Len(s) + Len(t)
  /\ \A i \in 1..Len(t) : w[Len(s) + i] = t[i]
  /\ \A i \in 1..Len(w) : (\E k \in 1..Len(s) : w[i] = s[k]) \/ (\E k \in 1..Len(t) : w[i] = t[k])

(* ... lists of changes can be joined ...                                    *)
LEMMA ChangedJoin ==
  ASSUME NEW ps \in ServerParts, NEW s, NEW t, Changed(ps, s), Changed(Last(s).parts, t),
         NEW w, Joined(w, s, t)
  PROVE  Changed(ps, w) /\ Last(w) = Last(t)
<1> DEFINE qs == Last(s).parts
           rs == Last(t).parts
<1>1. /\ IsList(s) /\ IsList(t) /\ Len(s) # 0 /\ Len(t) # 0 /\ qs \in ServerParts /\ rs \in ServerParts
      /\ AtMost(SaidOf(ps), SaidOf(qs)) /\ AtMost(SaidOf(qs), SaidOf(rs))
      /\ \A i \in 1..Len(s) : ChangeEvent(s[i].event, SaidOf(ps), SaidOf(qs))
      /\ \A i \in 1..Len(t) : ChangeEvent(t[i].event, SaidOf(qs), SaidOf(rs))
  BY DEF Changed
<1>2. /\ IsList(w) /\ Len(w) = Len(s) + Len(t)
      /\ \A i \in 1..Len(t) : w[Len(s) + i] = t[i]
      /\ \A i \in 1..Len(w) : (\E k \in 1..Len(s) : w[i] = s[k]) \/ (\E k \in 1..Len(t) : w[i] = t[k])
  BY DEF Joined
<1>3. Len(s) \in Nat /\ Len(t) \in Nat
  BY <1>1, ListFacts
<1>4. Len(w) # 0
  BY <1>1, <1>2, <1>3
<1>5. Last(w) = Last(t)
  <2>1. Last(w) = w[Len(w)] /\ Last(t) = t[Len(t)] /\ Len(t) \in 1..Len(t)
    BY <1>1, <1>2, <1>4, LastOf
  <2> QED
    BY <1>2, <2>1
<1>6. SaidOf(ps) \in [Nat -> Nat] /\ SaidOf(qs) \in [Nat -> Nat] /\ SaidOf(rs) \in [Nat -> Nat]
  BY <1>1, ServerIs
<1> HIDE DEF qs, rs
<1>7. AtMost(SaidOf(ps), SaidOf(rs)) /\ AtMost(SaidOf(ps), SaidOf(ps)) /\ AtMost(SaidOf(rs), SaidOf(rs))
  BY <1>1, <1>6, AtMostTwice, AtMostSame
<1>8. ASSUME NEW i \in 1..Len(w) PROVE ChangeEvent(w[i].event, SaidOf(ps), SaidOf(rs))
  <2>1. ASSUME NEW k \in 1..Len(s), w[i] = s[k] PROVE ChangeEvent(w[i].event, SaidOf(ps), SaidOf(rs))
    <3>1. ChangeEvent(w[i].event, SaidOf(ps), SaidOf(qs))
      BY <1>1, <2>1
    <3> QED
      BY <1>1, <1>6, <1>7, <3>1, EventWithin
  <2>2. ASSUME NEW k \in 1..Len(t), w[i] = t[k] PROVE ChangeEvent(w[i].event, SaidOf(ps), SaidOf(rs))
    <3>1. ChangeEvent(w[i].event, SaidOf(qs), SaidOf(rs))
      BY <1>1, <2>2
    <3> QED
      BY <1>1, <1>6, <1>7, <3>1, EventWithin
  <2> QED
    BY <1>2, <2>1, <2>2
<1>9. Last(w).parts = rs
  BY <1>5 DEF rs
<1>10. Changed(ps, w)
  BY <1>1, <1>2, <1>4, <1>7, <1>8, <1>9 DEF Changed
<1> QED
  BY <1>5, <1>10

(* ... so can two changes ...                                                *)
LEMMA ChangedTwice ==
  ASSUME NEW ps \in ServerParts, NEW a, NEW b, OneChange(ps, a), OneChange(a.parts, b)
  PROVE  Changed(ps, <<a, b>>) /\ Last(<<a, b>>) = b
<1>1. Changed(ps, <<a>>) /\ Last(<<a>>) = a /\ Changed(a.parts, <<b>>) /\ Last(<<b>>) = b
  BY ChangedOnce
<1>2. PICK s, t, w : s = <<a>> /\ t = <<b>> /\ w = <<a, b>>
  OBVIOUS
<1>3. Joined(w, s, t)
  <2>1. w \in Seq({a, b}) /\ Len(w) = 2 /\ w[1] = a /\ w[2] = b
    BY <1>2
  <2>2. Len(s) = 1 /\ Len(t) = 1 /\ s[1] = a /\ t[1] = b
    BY <1>2
  <2>3. 1..2 = {1, 2} /\ 1..1 = {1} /\ 1 + 1 = 2
    OBVIOUS
  <2> QED
    BY <2>1, <2>2, <2>3 DEF Joined, IsList
<1>4. Changed(ps, w) /\ Last(w) = Last(t)
  BY <1>1, <1>2, <1>3, ChangedJoin
<1> QED
  BY <1>1, <1>2, <1>4

(* ... and three.                                                            *)
LEMMA ChangedThrice ==
  ASSUME NEW ps \in ServerParts, NEW a, NEW b, NEW c, OneChange(ps, a), OneChange(a.parts, b),
         OneChange(b.parts, c)
  PROVE  Changed(ps, <<a, b, c>>) /\ Last(<<a, b, c>>) = c
<1>1. Changed(ps, <<a, b>>) /\ Last(<<a, b>>) = b /\ Changed(b.parts, <<c>>) /\ Last(<<c>>) = c
  BY ChangedOnce, ChangedTwice
<1>2. PICK s, t, w : s = <<a, b>> /\ t = <<c>> /\ w = <<a, b, c>>
  OBVIOUS
<1>3. Joined(w, s, t)
  <2>1. w \in Seq({a, b, c}) /\ Len(w) = 3 /\ w[1] = a /\ w[2] = b /\ w[3] = c
    BY <1>2
  <2>2. Len(s) = 2 /\ Len(t) = 1 /\ s[1] = a /\ s[2] = b /\ t[1] = c
    BY <1>2
  <2>3. 1..3 = {1, 2, 3} /\ 1..2 = {1, 2} /\ 1..1 = {1} /\ 2 + 1 = 3
    OBVIOUS
  <2> QED
    BY <2>1, <2>2, <2>3 DEF Joined, IsList
<1>4. Changed(ps, w) /\ Last(w) = Last(t)
  BY <1>1, <1>2, <1>3, ChangedJoin
<1> QED
  BY <1>1, <1>2, <1>4

(* A text that is said in one go.                                            *)
LEMMA SayChanges ==
  ASSUME NEW ps \in ServerParts, NEW role \in Words
  PROVE  Changed(ps, Say(ps, role))
<1> DEFINE a == StartPart(ps, "text", role)
           b == AppendText(a.parts, Len(a.parts))
           d == CompleteTextPart(b.parts, Len(a.parts))
<1>0. Len(ps) \in Nat
  BY ServerIs
<1>1. OneChange(ps, a) /\ Len(a.parts) = Len(ps) + 1
  BY StartPartChanges
<1> HIDE DEF a
<1>2. a.parts \in ServerParts /\ Len(a.parts) \in 1..Len(a.parts)
  BY <1>0, <1>1 DEF OneChange
<1>3. OneChange(a.parts, b) /\ Len(b.parts) = Len(a.parts)
  BY <1>2, AppendTextChanges
<1> HIDE DEF b
<1>4. b.parts \in ServerParts /\ Len(a.parts) \in 1..Len(b.parts)
  BY <1>2, <1>3 DEF OneChange
<1>5. OneChange(b.parts, d)
  <2>1. PICK w : w \in Words
    BY DEF Words
  <2> QED
    BY <1>4, <2>1, FieldChanges
<1> HIDE DEF d
<1>6. Say(ps, role) = <<a, b, d>>
  BY DEF Say, a, b, d
<1> QED
  BY <1>1, <1>3, <1>5, <1>6, ChangedThrice

(* Closing what is open changes no text.                                     *)
LEMMA ClosedParts ==
  ASSUME NEW ps \in ServerParts, NEW how
  PROVE  /\ CompleteOpenParts(ps, how) \in ServerParts
         /\ SaidOf(CompleteOpenParts(ps, how)) = SaidOf(ps)
<1> DEFINE qs == CompleteOpenParts(ps, how)
<1>1. /\ Len(ps) \in Nat /\ DOMAIN ps = 1..Len(ps)
      /\ \A i \in 1..Len(ps) :
           /\ i \in Nat /\ ps[i] \in Part /\ ps[i].id = i
           /\ \A j \in 1..Len(ps[i].text) : ps[i].text[j] = j
  BY ServerIs
<1>2. DOMAIN qs = 1..Len(ps) /\ qs = [i \in 1..Len(ps) |-> qs[i]]
  BY <1>1 DEF CompleteOpenParts
<1>3. ASSUME NEW i \in 1..Len(ps)
      PROVE  qs[i] \in Part /\ qs[i].id = i /\ qs[i].text = ps[i].text
  <2>1. qs[i] = ps[i] \/ \E w \in Words : qs[i] = [ps[i] EXCEPT !.st = w]
    <3>1. CASE ~IsOpen(ps[i])
      BY <1>1, <3>1 DEF CompleteOpenParts
    <3>2. CASE IsOpen(ps[i])
      <4> DEFINE w == CASE ps[i].kind = "status" -> IF how = "completed" THEN "completed" ELSE "failed"
                        [] ps[i].kind = "tool_use" -> "interrupted"
                        [] OTHER -> "completed"
      <4>1. w \in Words
        BY DEF Words
      <4>2. qs[i] = [ps[i] EXCEPT !.st = w]
        BY <1>1, <3>2 DEF CompleteOpenParts
      <4> HIDE DEF w
      <4> QED
        BY <4>1, <4>2
    <3> QED
      BY <3>1, <3>2
  <2>2. ps[i] \in Part /\ ps[i].id = i
    BY <1>1
  <2> QED
    BY <2>1, <2>2 DEF Part
<1> HIDE DEF qs
<1>4. qs \in ServerParts /\ Len(qs) = Len(ps)
  <2>1. PICK n \in Nat : n = Len(ps)
    BY <1>1
  <2>2. qs \in [1..n -> Part] /\ \A i \in 1..n : Numbered(qs[i], i)
    BY <1>1, <1>2, <1>3, <2>1 DEF Numbered
  <2> QED
    BY <2>1, <2>2, ServerMade
<1>5. SaidOf(qs) = SaidOf(ps)
  BY <1>1, <1>2, <1>3 DEF SaidOf
<1> QED
  BY <1>4, <1>5 DEF qs

-----------------------------------------------------------------------------
(* Events that may be emitted while the texts grow from N to M.              *)
Sound(es, N, M, A) ==
  IsList(es) /\ \A i \in 1..Len(es) : EventOK(es[i], N, M, A) /\ es[i].type # "approval.required"

(* Joined lists of sound events are sound.                                   *)
LEMMA SoundJoin ==
  ASSUME NEW N, NEW M, NEW A, NEW s, NEW t, Sound(s, N, M, A), Sound(t, N, M, A)
  PROVE  Sound(s \o t, N, M, A)
<1>1. IsList(s) /\ IsList(t)
  BY DEF Sound
<1> DEFINE w == s \o t
<1>2. /\ IsList(w)
      /\ \A i \in 1..Len(w) : (\E k \in 1..Len(s) : w[i] = s[k]) \/ (\E k \in 1..Len(t) : w[i] = t[k])
  BY <1>1, ListsJoin
<1> HIDE DEF w
<1>3. ASSUME NEW i \in 1..Len(w) PROVE EventOK(w[i], N, M, A) /\ w[i].type # "approval.required"
  <2>1. ASSUME NEW k \in 1..Len(s), w[i] = s[k]
        PROVE  EventOK(w[i], N, M, A) /\ w[i].type # "approval.required"
    BY <2>1 DEF Sound
  <2>2. ASSUME NEW k \in 1..Len(t), w[i] = t[k]
        PROVE  EventOK(w[i], N, M, A) /\ w[i].type # "approval.required"
    BY <2>2 DEF Sound
  <2> QED
    BY <1>2, <2>1, <2>2
<1>4. Sound(w, N, M, A)
  BY <1>2, <1>3 DEF Sound
<1> QED
  BY <1>4 DEF w

(* One sound event is a sound list ...                                       *)
LEMMA SoundOnce ==
  ASSUME NEW N, NEW M, NEW A, NEW e, EventOK(e, N, M, A), e.type # "approval.required"
  PROVE  Sound(<<e>>, N, M, A)
<1>1. <<e>> \in Seq({e}) /\ Len(<<e>>) = 1 /\ <<e>>[1] = e
  OBVIOUS
<1>2. \A i \in 1..Len(<<e>>) : <<e>>[i] = e
  BY <1>1
<1> QED
  BY <1>1, <1>2 DEF Sound, IsList

(* ... and so are three.                                                     *)
LEMMA SoundThrice ==
  ASSUME NEW N, NEW M, NEW A, NEW e, NEW f, NEW g,
         EventOK(e, N, M, A), EventOK(f, N, M, A), EventOK(g, N, M, A),
         e.type # "approval.required", f.type # "approval.required", g.type # "approval.required"
  PROVE  Sound(<<e, f, g>>, N, M, A)
<1>1. PICK w : w = <<e, f, g>>
  OBVIOUS
<1>2. w \in Seq({e, f, g}) /\ Len(w) = 3 /\ w[1] = e /\ w[2] = f /\ w[3] = g
  BY <1>1
<1>3. \A i \in 1..Len(w) : w[i] \in {e, f, g}
  BY <1>2
<1> HIDE <1>1
<1>4. Sound(w, N, M, A)
  BY <1>2, <1>3 DEF Sound, IsList
<1> QED
  BY <1>1, <1>4

(* The events of one run's changes of one message.                           *)
EventsOf(r, m, chs) == [i \in DOMAIN chs |-> Event(r, m, chs[i].event)]

(* The events of changes tell what the changes said.                         *)
LEMMA ChangesTell ==
  ASSUME NEW N, NEW M, NEW A, NEW ps, NEW chs, Changed(ps, chs),
         NEW r \in Run, NEW m \in Msg, N[m] = SaidOf(ps), M[m] = SaidOf(Last(chs).parts)
  PROVE  Sound(EventsOf(r, m, chs), N, M, A)
<1> DEFINE es == EventsOf(r, m, chs)
<1>1. Len(chs) \in Nat /\ DOMAIN chs = 1..Len(chs)
  BY ListFacts DEF Changed
<1>2. DOMAIN es = 1..Len(chs) /\ \A i \in 1..Len(chs) : es[i] = Event(r, m, chs[i].event)
  BY <1>1 DEF EventsOf
<1>3. es = [i \in 1..Len(chs) |-> es[i]]
  BY <1>1 DEF EventsOf
<1> HIDE DEF es
<1>4. IsList(es) /\ Len(es) = Len(chs)
  BY <1>1, <1>2, <1>3, ListMade
<1>5. ASSUME NEW i \in 1..Len(chs)
      PROVE  EventOK(es[i], N, M, A) /\ es[i].type # "approval.required"
  <2>1. PICK ev : ev = chs[i].event
    OBVIOUS
  <2>2. ChangeEvent(ev, N[m], M[m])
    BY <2>1 DEF Changed
  <2>3. es[i] = Event(r, m, ev)
    BY <1>2, <2>1
  <2>4. /\ es[i].run = r /\ es[i].msg = m
        /\ \A f \in DOMAIN ev : f \notin {"run", "msg"} => es[i][f] = ev[f]
    BY <2>3, EventFields DEF Event
  <2>5. es[i].type = ev.type /\ ev.type \in {"part.started", "part.delta", "part.updated"}
    BY <2>2, <2>4 DEF ChangeEvent
  <2>6. CASE ev.type = "part.started"
    <3>1. es[i].part = ev.part /\ ev.part \in Part /\ ev.part.text = <<>>
      BY <2>2, <2>4, <2>6 DEF ChangeEvent
    <3> QED
      BY <2>4, <2>5, <2>6, <3>1 DEF EventOK
  <2>7. CASE ev.type = "part.delta"
    <3>1. /\ es[i].id = ev.id /\ es[i].index = ev.index /\ ev.id \in Nat /\ ev.index \in Nat
          /\ N[m][ev.id] < ev.index /\ ev.index <= M[m][ev.id]
      BY <2>2, <2>4, <2>7 DEF ChangeEvent
    <3> QED
      BY <2>4, <2>5, <2>7, <3>1 DEF EventOK
  <2>8. CASE ev.type = "part.updated"
    <3>1. /\ es[i].id = ev.id /\ es[i].patch = ev.patch /\ ev.patch \in Patch
          /\ ev.id \in Nat => PatchOK(ev.patch, M[m][ev.id])
      BY <2>2, <2>4, <2>8 DEF ChangeEvent
    <3> QED
      BY <2>4, <2>5, <2>8, <3>1 DEF EventOK
  <2> QED
    BY <2>5, <2>6, <2>7, <2>8
<1>6. Sound(es, N, M, A)
  BY <1>4, <1>5 DEF Sound
<1> QED
  BY <1>6 DEF es

(* Events about the run or the message as a whole. *)
LEMMA RunEventTells ==
  ASSUME NEW N, NEW M, NEW A, NEW r \in Run, NEW type,
         type \in {"run.created", "run.started", "approval.required", "clarification.requested"}
  PROVE  EventOK(RunEvent(r, type), N, M, A) /\ RunEvent(r, type).type = type
         /\ RunEvent(r, type).run = r
<1>1. RunEvent(r, type).type = type /\ RunEvent(r, type).run = r
  BY DEF RunEvent, Event
<1> HIDE DEF RunEvent
<1> QED
  BY <1>1 DEF EventOK

(* The event that a message starts tells nothing of its parts.               *)
LEMMA StartedTells ==
  ASSUME NEW N, NEW M, NEW A, NEW r \in Run, NEW m \in Msg,
         NEW e, e = Event(r, m, [type |-> "message.started"])
  PROVE  EventOK(e, N, M, A) /\ e.type = "message.started" /\ e.run = r
<1>1. e.type = "message.started" /\ e.run = r /\ e.msg = m
  BY DEF Event
<1> QED
  BY <1>1 DEF EventOK

(* The event that a message is complete tells what is kept of it.            *)
LEMMA CompletedTells ==
  ASSUME NEW N, NEW M, NEW A, NEW r \in Run, NEW m \in Msg, NEW ps \in ServerParts,
         AtMost(SaidOf(ps), M[m]), <<m, MergeContent(ps)>> \in A,
         NEW e, e = Event(r, m, Completed(ps))
  PROVE  EventOK(e, N, M, A) /\ e.type = "message.completed"
<1>1. /\ e.type = "message.completed" /\ e.run = r /\ e.msg = m
      /\ e.parts = ps /\ e.content = MergeContent(ps)
  BY DEF Event, Completed
<1>2. MergeContent(ps) \in Content
  BY ServerIs DEF Content
<1> QED
  BY <1>1, <1>2 DEF EventOK

-----------------------------------------------------------------------------
(* Events that were written, or wait to be, stay sound.                      *)
Stored(es, N, A) ==
  IsList(es) /\ \A i \in 1..Len(es) : EventOK(es[i], N, N, A) /\ es[i].type # "part.delta"

Quiet(es) == \A i \in 1..Len(es) : es[i].type # "approval.required"

(* Events that are stored stay within bounds that grow.                      *)
LEMMA StoredGrows ==
  ASSUME NEW N \in Bounds, NEW M \in Bounds, NEW A, NEW B, A \subseteq B,
         \A m \in Msg : AtMost(N[m], M[m]), NEW es, Stored(es, N, A)
  PROVE  Stored(es, M, B)
<1>1. ASSUME NEW i \in 1..Len(es) PROVE EventOK(es[i], M, M, B)
  <2>1. PICK e : e = es[i]
    OBVIOUS
  <2>2. EventOK(e, N, N, A) /\ e.type # "part.delta"
    BY <2>1 DEF Stored
  <2>3. EventOK(e, M, M, B)
    BY <2>2, EventStays
  <2> QED
    BY <2>1, <2>3
<1> QED
  BY <1>1 DEF Stored

(* A page stays within bounds that grow.                                     *)
LEMMA PageGrows ==
  ASSUME NEW N \in Bounds, NEW K \in Bounds, NEW M \in Bounds, NEW L \in Bounds, NEW A, NEW B, A \subseteq B,
         \A m \in Msg : AtMost(N[m], K[m]) /\ AtMost(M[m], L[m]), NEW c, PageOK(c, N, M, A)
  PROVE  PageOK(c, K, L, B)
<1>1. ASSUME NEW m \in Msg PROVE MessageOK(m, c.msgs[m], c.lastDelta[m], K[m], L[m], B)
  <2> DEFINE x == c.msgs[m]
             y == c.lastDelta[m]
             ps == x.parts
  <2>1. /\ ps \in Seq(Good(N[m], M[m], y)) /\ \A id \in Nat : Taken(y)[id] <= M[m][id]
        /\ x.st = "completed" => <<m, x.content>> \in A
        /\ Taken(y) \in [Nat -> Nat]
    BY MessageOf
  <2>2. \A id \in Nat : /\ N[m][id] \in Nat /\ K[m][id] \in Nat /\ M[m][id] \in Nat /\ L[m][id] \in Nat
                        /\ N[m][id] <= K[m][id] /\ M[m][id] <= L[m][id]
    BY DEF Bounds, AtMost
  <2>3. \A id \in Nat : Taken(y)[id] <= L[m][id]
    <3> TAKE id \in Nat
    <3>1. PICK a, b, d : a = Taken(y)[id] /\ b = M[m][id] /\ d = L[m][id]
      OBVIOUS
    <3>2. a \in Nat /\ b \in Nat /\ d \in Nat /\ a <= b /\ b <= d
      BY <2>1, <2>2, <3>1
    <3> QED
      BY <3>1, <3>2
  <2> HIDE DEF x, y, ps
  <2>4. ASSUME NEW p \in Good(N[m], M[m], y) PROVE p \in Good(K[m], L[m], y)
    <3>1. /\ p \in Part /\ Rising(p.text, M[m][p.id])
          /\ \A j \in 1..Len(p.text) : p.text[j] <= N[m][p.id] \/ p.text[j] <= Taken(y)[p.id]
      BY <2>4 DEF Good
    <3>2. p.id \in Nat /\ p.text \in Seq(Nat)
      BY <3>1 DEF Part
    <3>3. PICK t, a, b, d, f : /\ t = p.text /\ a = N[m][p.id] /\ b = K[m][p.id]
                               /\ d = M[m][p.id] /\ f = L[m][p.id]
      OBVIOUS
    <3>4. a \in Nat /\ b \in Nat /\ d \in Nat /\ f \in Nat /\ a <= b /\ d <= f /\ t \in Seq(Nat)
      BY <2>2, <3>2, <3>3
    <3>5. Rising(t, f) /\ \A j \in 1..Len(t) : t[j] \in Nat
      BY <3>1, <3>3, <3>4, RisingBelow
    <3>6. ASSUME NEW j \in 1..Len(t) PROVE t[j] <= b \/ t[j] <= Taken(y)[p.id]
      <4>1. t[j] <= a \/ t[j] <= Taken(y)[p.id]
        BY <3>1, <3>3
      <4>2. PICK v \in Nat : v = t[j]
        BY <3>5
      <4>3. v <= a => v <= b
        BY <3>4
      <4> QED
        BY <4>1, <4>2, <4>3
    <3> QED
      BY <3>1, <3>3, <3>5, <3>6 DEF Good
  <2>5. ps \in Seq(Good(K[m], L[m], y))
    BY <2>1, <2>4, SeqMonotonic
  <2> QED
    BY <2>1, <2>3, <2>5 DEF MessageOK, x, y, ps
<1> QED
  BY <1>1 DEF PageOK

(* Bounds are no higher than themselves.                                     *)
LEMMA Reflexive ==
  ASSUME NEW N \in Bounds
  PROVE  \A m \in Msg : N[m] \in [Nat -> Nat] /\ AtMost(N[m], N[m])
BY DEF Bounds, AtMost

(* What an emission does to the page and to the queue.                       *)
LEMMA EmitStep ==
  ASSUME NEW N \in Bounds, NEW M \in Bounds, NEW A, NEW B, A \subseteq B,
         \A m \in Msg : AtMost(N[m], M[m]), PageOK(client, N, N, A),
         Stored(queue, N, A), Quiet(queue), NEW es, Sound(es, N, M, B), Emit(es)
  PROVE  /\ PageOK(client', M, M, B) /\ Stored(queue', M, B) /\ Quiet(queue')
         /\ Eased(client, client')
         /\ \A i \in 1..Len(es) : IsConnected /\ es[i].type = "message.started"
                                    => Freed(client', es[i].run)
<1>1. \A m \in Msg : AtMost(N[m], N[m]) /\ AtMost(M[m], M[m])
  BY Reflexive
<1>2. PageOK(client, N, M, B)
  BY <1>1, PageGrows
<1>3. /\ IsList(es) /\ IsList(queue) /\ \A i \in 1..Len(es) : EventOK(es[i], N, M, B)
      /\ \A i \in 1..Len(es) : es[i].type # "approval.required"
  BY DEF Sound, Stored
<1>4. /\ PageOK(client', N, M, B) /\ IsList(queue')
      /\ \A i \in 1..Len(queue') :
           \/ \E k \in 1..Len(queue) : queue'[i] = queue[k]
           \/ queue'[i].type # "part.delta" /\ \E k \in 1..Len(es) : queue'[i] = es[k]
      /\ Eased(client, client')
      /\ \A i \in 1..Len(es) : IsConnected /\ es[i].type = "message.started"
                                 => Freed(client', es[i].run)
  BY <1>2, <1>3, EmitKeeps
<1>5. PageOK(client', M, M, B)
  <2>1. PICK d : d = client'
    OBVIOUS
  <2>2. PageOK(d, M, M, B)
    BY <1>1, <1>4, <2>1, PageGrows
  <2> QED
    BY <2>1, <2>2
<1>6. Stored(queue, M, B)
  BY StoredGrows
<1>7. ASSUME NEW i \in 1..Len(queue')
      PROVE  /\ EventOK(queue'[i], M, M, B) /\ queue'[i].type # "part.delta"
             /\ queue'[i].type # "approval.required"
  <2>1. ASSUME NEW k \in 1..Len(queue), queue'[i] = queue[k]
        PROVE  /\ EventOK(queue'[i], M, M, B) /\ queue'[i].type # "part.delta"
               /\ queue'[i].type # "approval.required"
    BY <1>6, <2>1 DEF Stored, Quiet
  <2>2. ASSUME NEW k \in 1..Len(es), queue'[i] = es[k], queue'[i].type # "part.delta"
        PROVE  /\ EventOK(queue'[i], M, M, B) /\ queue'[i].type # "part.delta"
               /\ queue'[i].type # "approval.required"
    <3>1. PICK e : e = es[k]
      OBVIOUS
    <3>2. EventOK(e, N, M, B) /\ e.type # "part.delta" /\ e.type # "approval.required"
      BY <1>3, <2>2, <3>1
    <3>3. EventOK(e, M, M, B)
      BY <1>1, <3>2, EventStays
    <3> QED
      BY <2>2, <3>1, <3>2, <3>3
  <2> QED
    BY <1>4, <2>1, <2>2
<1>8. Stored(queue', M, B) /\ Quiet(queue')
  BY <1>4, <1>7 DEF Stored, Quiet
<1> QED
  BY <1>4, <1>5, <1>8

-----------------------------------------------------------------------------
(* The page has heard that run r waits: it waits for r, or as it did before. *)
Asking(c, d, r) ==
  /\ d.pending /\ ~d.timer => d.active = r \/ Eased(c, d)
  /\ d.pending /\ d.active = NoRun => c.pending /\ c.active = NoRun

(* Hearing twice of a run that waits is hearing of it.                       *)
LEMMA AskingTwice ==
  ASSUME NEW r \in Run, NEW a, NEW b, NEW c, Asking(a, b, r), Asking(b, c, r)
  PROVE  Asking(a, c, r)
<1>1. r # NoRun
  BY Ids
<1>2. ASSUME c.pending, ~c.timer, c.active # r PROVE Eased(a, c)
  <2>1. Eased(b, c)
    BY <1>2 DEF Asking
  <2>2. b.pending /\ ~b.timer /\ (b.active = NoRun \/ c.active = b.active)
    BY <1>2, <2>1 DEF Eased
  <2>3. b.active # r
    BY <1>1, <1>2, <2>2
  <2>4. Eased(a, b)
    BY <2>2, <2>3 DEF Asking
  <2> QED
    BY <2>1, <2>4, EasedTwice
<1> QED
  BY <1>2 DEF Asking

(* A page that hears only events of one run waits for that run at most.      *)
LEMMA HeardAsks ==
  ASSUME NEW N \in Bounds, NEW M \in Bounds, NEW A, NEW c, PageOK(c, N, M, A), NEW d, NEW es,
         Telling(es, N, M, A), Heard(c, d, es), NEW r \in Run,
         \A k \in 1..Len(es) : es[k][1].run = r
  PROVE  Asking(c, d, r)
<1>1. PICK n, f : /\ n \in Nat /\ f[0] = c /\ f[n] = d
                  /\ \A i \in 1..n : \E k \in 1..Len(es) : Received(f, es, i, k)
  BY DEF Heard
<1>2. \A i \in 0..n : PageOK(f[i], N, M, A)
  BY <1>1, ChainKeeps
<1>3. \A i \in 0..n : Asking(c, f[i], r)
  <2> DEFINE T == {i \in 0..n : ~Asking(c, f[i], r)}
  <2>1. ASSUME T # {} PROVE FALSE
    <3>1. T \subseteq Nat
      OBVIOUS
    <3> HIDE DEF T
    <3>2. PICK j \in T : \A l \in T : j <= l
      BY <2>1, <3>1, LeastNumber
    <3> USE DEF T
    <3>3. j \in 0..n /\ ~Asking(c, f[j], r)
      BY <3>2
    <3>4. j # 0
      BY <1>1, <3>3, EasedOnce DEF Asking
    <3>5. j - 1 \in 0..n /\ j \in 1..n /\ ~(j <= j - 1)
      BY <1>1, <3>3, <3>4
    <3>6. Asking(c, f[j - 1], r)
      BY <3>2, <3>5
    <3>7. PICK k \in 1..Len(es) : f[j] = Receive(f[j - 1], es[k][1], es[k][2])
      BY <1>1, <3>5 DEF Received
    <3>8. /\ EventOK(es[k][1], N, M, A) /\ es[k][2] \in Nat /\ es[k][1].run = r
          /\ es[k][1].type \in ToLiveAtOnce \/ \A m \in Msg : AtMost(M[m], N[m])
      BY DEF Telling
    <3>9. Asking(f[j - 1], f[j], r)
      BY <1>2, <3>5, <3>7, <3>8, ReceiveLock DEF Asking
    <3> QED
      BY <3>3, <3>6, <3>9, AskingTwice
  <2> QED
    BY <2>1
<1>4. n \in 0..n
  BY <1>1
<1> QED
  BY <1>1, <1>3, <1>4

(* What a broadcast does to the page.                                        *)
LEMMA BroadcastStep ==
  ASSUME NEW N \in Bounds, NEW A, NEW B, A \subseteq B, PageOK(client, N, N, A),
         NEW es, Len(es) \in Nat, Broadcast(es),
         \A k \in 1..Len(es) : EventOK(es[k][1], N, N, B) /\ es[k][2] \in Nat
  PROVE  /\ PageOK(client', N, N, B)
         /\ (\A k \in 1..Len(es) : es[k][1].type # "approval.required") =>
              /\ Eased(client, client')
              /\ \A k \in 1..Len(es) : IsConnected /\ es[k][1].type = "run.created"
                                         => (client'.pending => client'.active # NoRun)
         /\ \A r \in Run : (\A k \in 1..Len(es) : es[k][1].run = r) => Asking(client, client', r)
<1>1. \A m \in Msg : AtMost(N[m], N[m])
  BY Reflexive
<1>2. PageOK(client, N, N, B)
  BY <1>1, PageGrows
<1>3. Telling(es, N, N, B)
  BY <1>1 DEF Telling
<1>4. /\ client' = client \/ Heard(client, client', es)
      /\ IsConnected /\ Len(es) > 0 => Heard(client, client', es)
  BY BroadcastHeard
<1>5. PageOK(client', N, N, B)
  BY <1>2, <1>3, <1>4, HeardKeeps
<1>6. ASSUME \A k \in 1..Len(es) : es[k][1].type # "approval.required"
      PROVE  /\ Eased(client, client')
             /\ \A k \in 1..Len(es) : IsConnected /\ es[k][1].type = "run.created"
                                        => (client'.pending => client'.active # NoRun)
  <2>1. ASSUME Heard(client, client', es)
        PROVE  /\ Eased(client, client')
               /\ \A k \in 1..Len(es) : es[k][1].type = "run.created" /\ client'.pending
                                          => client'.active # NoRun
    BY <1>2, <1>3, <1>6, <2>1, HeardEases
  <2>2. Eased(client, client')
    BY <1>4, <2>1, EasedOnce
  <2>3. ASSUME NEW k \in 1..Len(es), IsConnected, es[k][1].type = "run.created", client'.pending
        PROVE  client'.active # NoRun
    <3>1. Len(es) > 0
      OBVIOUS
    <3> QED
      BY <1>4, <2>1, <2>3, <3>1
  <2> QED
    BY <2>2, <2>3
<1>7. ASSUME NEW r \in Run, \A k \in 1..Len(es) : es[k][1].run = r
      PROVE  Asking(client, client', r)
  <2>1. ASSUME Heard(client, client', es) PROVE Asking(client, client', r)
    BY <1>2, <1>3, <1>7, <2>1, HeardAsks
  <2>2. ASSUME client' = client PROVE Asking(client, client', r)
    BY <2>2, EasedOnce DEF Asking
  <2> QED
    BY <1>4, <2>1, <2>2
<1> QED
  BY <1>5, <1>6, <1>7

-----------------------------------------------------------------------------
Phases == {"none", "accepted", "streaming", "asks_approval", "asks_user", "approval", "user",
           "failing", "closing", "ended"}
Over == {"closing", "ended"}

(* How much of each part was said, and the content of the messages of runs   *)
(* that are closed, as their rows keep it.                                   *)
Said == [m \in Msg |-> SaidOf(parts[m])]
Kept == {<<m, MergeContent(rows[m])>> :
           m \in {k \in DOMAIN rows : owner[k] \in Run /\ phase[owner[k]] \in Over}}

ServerInv ==
  /\ phase \in [Run -> Phases] /\ owner \in [Msg -> Run \cup {NoRun}]
  /\ current \in [Run -> Nat] /\ parts \in [Msg -> ServerParts] /\ faults \in [Faults -> Nat]
  /\ \A m \in Msg : owner[m] = NoRun => parts[m] = <<>>
  /\ \A r \in Run : phase[r] \notin {"none", "accepted"}
                      => current[r] \in Msg /\ owner[current[r]] = r

RowsOK(rs, M) ==
  /\ DOMAIN rs \subseteq Msg
  /\ \A m \in DOMAIN rs : rs[m] \in ServerParts /\ AtMost(SaidOf(rs[m]), M[m])

ReplayOK(es, N, A) ==
  /\ Len(es) \in Nat
  /\ \A i \in 1..Len(es) : /\ EventOK(es[i][1], N, N, A) /\ es[i][1].type # "part.delta"
                           /\ es[i][2] \in Nat

EventsInv ==
  /\ Stored(queue, Said, Kept) /\ Quiet(queue)
  /\ Stored(late, Said, Kept) /\ Quiet(late)
  /\ Stored(log, Said, Kept)
  /\ ReplayOK(conn.replay, Said, Kept)

WireInv ==
  /\ DOMAIN conn = {"st", "from", "replay"} /\ conn.from \in Nat
  /\ command.kind = "resume" => command.run \in Run
  /\ DOMAIN fetched = {"rows", "active"}
  /\ fetched.rows.st = "here" => RowsOK(fetched.rows.answer, Said)
  /\ fetched.active.st = "here" => fetched.active.answer.run \in Run \cup {NoRun}

PageInv == PageOK(client, Said, Said, Kept)

(* The socket was never lost and the page never reloaded. *)
Steady == \A k \in Faults \cap {"drop", "reload"} : faults[k] = 0

LockInv ==
  Steady =>
    /\ conn.st = "on" /\ fetched = NothingFetched
    /\ client.pending /\ ~client.timer => client.active \in Run /\ phase[client.active] = "approval"
    /\ client.pending /\ client.active = NoRun => command.kind \in {"send", "resume"}

ChatInv == ServerInv /\ RowsOK(rows, Said) /\ EventsInv /\ WireInv /\ PageInv /\ LockInv

-----------------------------------------------------------------------------

(* What was said bounds what may be shown ...                                *)
LEMMA SaidBounds ==
  ASSUME NEW ps \in [Msg -> ServerParts], NEW N, N = [m \in Msg |-> SaidOf(ps[m])]
  PROVE  N \in Bounds /\ \A m \in Msg : N[m] = SaidOf(ps[m]) /\ N[m] \in [Nat -> Nat]
<1>1. \A m \in Msg : SaidOf(ps[m]) \in [Nat -> Nat]
  BY ServerIs
<1> QED
  BY <1>1 DEF Bounds

(* ... in this state ...                                                     *)
LEMMA SaidNow ==
  ASSUME ServerInv
  PROVE  Said \in Bounds /\ \A m \in Msg : Said[m] = SaidOf(parts[m]) /\ Said[m] \in [Nat -> Nat]
BY SaidBounds DEF ServerInv, Said

(* ... and in the next one.                                                  *)
LEMMA SaidNext ==
  ASSUME parts' \in [Msg -> ServerParts]
  PROVE  Said' \in Bounds /\ \A m \in Msg : Said'[m] = SaidOf(parts'[m]) /\ Said'[m] \in [Nat -> Nat]
<1>1. PICK ps : ps = parts'
  OBVIOUS
<1>2. Said' = [m \in Msg |-> SaidOf(ps[m])]
  BY <1>1 DEF Said
<1>3. /\ Said' \in Bounds /\ \A m \in Msg : Said'[m] = SaidOf(ps[m]) /\ Said'[m] \in [Nat -> Nat]
  <2>1. PICK N : N = Said'
    OBVIOUS
  <2>2. /\ N \in Bounds /\ \A m \in Msg : N[m] = SaidOf(ps[m]) /\ N[m] \in [Nat -> Nat]
    BY <1>1, <1>2, <2>1, SaidBounds
  <2> QED
    BY <2>1, <2>2
<1> QED
  BY <1>1, <1>3

(* Texts only grow where the parts of one message change.                    *)
LEMMA PartsStep ==
  ASSUME ServerInv, NEW m \in Msg, NEW qs \in ServerParts, AtMost(SaidOf(parts[m]), SaidOf(qs)),
         parts' = [parts EXCEPT ![m] = qs]
  PROVE  /\ parts' \in [Msg -> ServerParts] /\ Said' \in Bounds
         /\ \A k \in Msg : AtMost(Said[k], Said'[k])
         /\ Said[m] = SaidOf(parts[m]) /\ Said'[m] = SaidOf(qs)
         /\ \A k \in Msg : k # m => parts'[k] = parts[k]
<1>1. parts \in [Msg -> ServerParts]
  BY DEF ServerInv
<1>2. /\ parts' \in [Msg -> ServerParts] /\ parts'[m] = qs
      /\ \A k \in Msg : k # m => parts'[k] = parts[k]
  BY <1>1
<1>3. \A k \in Msg : Said[k] = SaidOf(parts[k]) /\ Said[k] \in [Nat -> Nat]
  BY SaidNow
<1>4. Said' \in Bounds /\ \A k \in Msg : Said'[k] = SaidOf(parts'[k])
  BY <1>2, SaidNext
<1>5. ASSUME NEW k \in Msg PROVE AtMost(Said[k], Said'[k])
  <2>1. CASE k = m
    BY <1>2, <1>3, <1>4, <2>1
  <2>2. CASE k # m
    <3>1. Said'[k] = Said[k] /\ Said[k] \in [Nat -> Nat]
      BY <1>2, <1>3, <1>4, <2>2
    <3> QED
      BY <3>1, AtMostSame
  <2> QED
    BY <2>1, <2>2
<1> QED
  BY <1>2, <1>3, <1>4, <1>5

(* Parts that do not change say nothing new.                                 *)
LEMMA NothingSaid ==
  ASSUME ServerInv, parts' = parts
  PROVE  /\ Said' = Said /\ Said' \in Bounds /\ Said \in Bounds
         /\ \A m \in Msg : AtMost(Said[m], Said'[m])
<1>1. Said' = Said
  BY DEF Said
<1>2. Said \in Bounds /\ \A m \in Msg : Said[m] \in [Nat -> Nat]
  BY SaidNow
<1> QED
  BY <1>1, <1>2, AtMostSame

(* What the rows hold was said.                                              *)
LEMMA RowsStep ==
  ASSUME ServerInv, parts' \in [Msg -> ServerParts], \A k \in Msg : AtMost(Said[k], Said'[k]),
         NEW rs, RowsOK(rs, Said)
  PROVE  RowsOK(rs, Said')
<1>1. ASSUME NEW m \in DOMAIN rs PROVE AtMost(SaidOf(rs[m]), Said'[m])
  <2>1. m \in Msg /\ rs[m] \in ServerParts /\ AtMost(SaidOf(rs[m]), Said[m])
    BY DEF RowsOK
  <2>2. Said[m] \in [Nat -> Nat] /\ Said'[m] \in [Nat -> Nat] /\ SaidOf(rs[m]) \in [Nat -> Nat]
    BY <2>1, SaidNow, SaidNext, ServerIs
  <2>3. PICK a, b, d : a = SaidOf(rs[m]) /\ b = Said[m] /\ d = Said'[m]
    OBVIOUS
  <2>4. AtMost(a, d)
    BY <2>1, <2>2, <2>3, AtMostTwice
  <2> QED
    BY <2>3, <2>4
<1> QED
  BY <1>1 DEF RowsOK

(* What is saved was said.                                                   *)
LEMMA SavedStep ==
  ASSUME ServerInv, parts' \in [Msg -> ServerParts], \A k \in Msg : AtMost(Said[k], Said'[k]),
         RowsOK(rows, Said), NEW m \in Msg, NEW ps \in ServerParts, AtMost(SaidOf(ps), Said'[m])
  PROVE  RowsOK(Saved(m, ps), Said')
<1>1. RowsOK(rows, Said')
  BY RowsStep
<1>2. /\ DOMAIN Saved(m, ps) = DOMAIN rows \cup {m}
      /\ \A k \in DOMAIN rows \cup {m} : Saved(m, ps)[k] = IF k = m THEN ps ELSE rows[k]
  BY DEF Saved
<1> QED
  BY <1>1, <1>2 DEF RowsOK

(* The message that is closed does not change any more.                      *)
LEMMA KeptStep ==
  ASSUME ServerInv, DOMAIN rows \subseteq Msg, NEW r \in Run, NEW p, phase' = [phase EXCEPT ![r] = p],
         phase[r] \notin Over \/ p \in Over,
         owner' = owner \/ \E n \in Msg : owner[n] = NoRun /\ owner' = [owner EXCEPT ![n] = r],
         rows' = rows \/ \E m, ps : /\ m \in Msg /\ owner[m] = r /\ phase[r] \notin Over
                                     /\ rows' = Saved(m, ps)
  PROVE  Kept \subseteq Kept'
<1>1. ASSUME NEW k \in DOMAIN rows, owner[k] \in Run, phase[owner[k]] \in Over, k \in Msg
      PROVE  k \in DOMAIN rows' /\ rows'[k] = rows[k] /\ owner'[k] = owner[k]
             /\ phase'[owner[k]] \in Over
  <2>1. owner'[k] = owner[k]
    <3>1. NoRun \notin Run
      BY Ids
    <3> QED
      BY <1>1, <3>1 DEF ServerInv
  <2>2. phase'[owner[k]] \in Over
    BY <1>1 DEF ServerInv
  <2>3. k \in DOMAIN rows' /\ rows'[k] = rows[k]
    <3>1. ASSUME NEW m \in Msg, NEW ps, owner[m] = r, phase[r] \notin Over, rows' = Saved(m, ps)
          PROVE  k \in DOMAIN rows' /\ rows'[k] = rows[k]
      <4>1. k # m
        BY <1>1, <3>1
      <4> QED
        BY <3>1, <4>1 DEF Saved
    <3> QED
      BY <3>1
  <2> QED
    BY <2>1, <2>2, <2>3
<1>2. ASSUME NEW x \in Kept PROVE x \in Kept'
  <2>1. PICK k \in DOMAIN rows : /\ owner[k] \in Run /\ phase[owner[k]] \in Over
                                 /\ x = <<k, MergeContent(rows[k])>>
    BY <1>2 DEF Kept
  <2>2. /\ k \in DOMAIN rows' /\ rows'[k] = rows[k] /\ owner'[k] \in Run
        /\ phase'[owner'[k]] \in Over
    BY <1>1, <2>1
  <2> QED
    BY <2>1, <2>2 DEF Kept
<1> QED
  BY <1>2

-----------------------------------------------------------------------------
(* A run takes a step, in its message or in a new one.                       *)
LEMMA ServerStep ==
  ASSUME ServerInv, NEW r \in Run, NEW p \in Phases, phase' = [phase EXCEPT ![r] = p],
         parts' \in [Msg -> ServerParts], faults' \in [Faults -> Nat],
         \/ /\ owner' = owner /\ current' = current
            /\ p \in {"none", "accepted"} \/ phase[r] \notin {"none", "accepted"}
            /\ \A k \in Msg : owner[k] = NoRun => parts'[k] = parts[k]
         \/ \E n \in Msg : /\ owner[n] = NoRun /\ owner' = [owner EXCEPT ![n] = r]
                           /\ current' = [current EXCEPT ![r] = n]
                           /\ \A k \in Msg : owner[k] = NoRun /\ k # n => parts'[k] = parts[k]
  PROVE  ServerInv'
<1>1. /\ phase \in [Run -> Phases] /\ owner \in [Msg -> Run \cup {NoRun}]
      /\ current \in [Run -> Nat] /\ parts \in [Msg -> ServerParts]
      /\ \A m \in Msg : owner[m] = NoRun => parts[m] = <<>>
      /\ \A q \in Run : phase[q] \notin {"none", "accepted"} => current[q] \in Msg /\ owner[current[q]] = q
  BY DEF ServerInv
<1>2. NoRun \notin Run /\ Msg \subseteq Nat
  BY Ids
<1>3. phase' \in [Run -> Phases] /\ phase'[r] = p /\ \A q \in Run : q # r => phase'[q] = phase[q]
  BY <1>1
<1>4. CASE /\ owner' = owner /\ current' = current
           /\ p \in {"none", "accepted"} \/ phase[r] \notin {"none", "accepted"}
           /\ \A k \in Msg : owner[k] = NoRun => parts'[k] = parts[k]
  BY <1>1, <1>3, <1>4 DEF ServerInv
<1>5. ASSUME NEW n \in Msg, owner[n] = NoRun, owner' = [owner EXCEPT ![n] = r],
             current' = [current EXCEPT ![r] = n],
             \A k \in Msg : owner[k] = NoRun /\ k # n => parts'[k] = parts[k]
      PROVE  ServerInv'
  <2>1. /\ owner' \in [Msg -> Run \cup {NoRun}] /\ current' \in [Run -> Nat]
        /\ owner'[n] = r /\ current'[r] = n
        /\ \A k \in Msg : k # n => owner'[k] = owner[k]
        /\ \A q \in Run : q # r => current'[q] = current[q]
    BY <1>1, <1>2, <1>5
  <2>2. ASSUME NEW q \in Run, phase'[q] \notin {"none", "accepted"}
        PROVE  current'[q] \in Msg /\ owner'[current'[q]] = q
    <3>1. CASE q = r
      BY <2>1, <3>1
    <3>2. CASE q # r
      <4>1. current[q] \in Msg /\ owner[current[q]] = q
        BY <1>1, <1>3, <2>2, <3>2
      <4>2. current[q] # n
        BY <1>2, <1>5, <4>1
      <4> QED
        BY <2>1, <3>2, <4>1, <4>2
    <3> QED
      BY <3>1, <3>2
  <2>3. \A m \in Msg : owner'[m] = NoRun => parts'[m] = <<>>
    BY <1>1, <1>2, <1>5, <2>1
  <2> QED
    BY <1>3, <2>1, <2>2, <2>3 DEF ServerInv
<1> QED
  BY <1>4, <1>5

(* A fault is counted.                                                       *)
LEMMA FaultCounts ==
  ASSUME ServerInv, NEW kind, Fault(kind)
  PROVE  /\ faults' \in [Faults -> Nat]
         /\ Steady' => Steady
         /\ kind \in {"drop", "reload"} => ~Steady'
<1>1. kind \in Faults /\ faults' = [faults EXCEPT ![kind] = faults[kind] + 1] /\ faults \in [Faults -> Nat]
  BY DEF Fault, ServerInv
<1>2. faults' \in [Faults -> Nat] /\ faults'[kind] # 0 /\ \A k \in Faults : k # kind => faults'[k] = faults[k]
  BY <1>1
<1> QED
  BY <1>1, <1>2 DEF Steady

(* The composer stays unlocked as long as the page is eased, unless a run    *)
(* that was waited for goes on.                                              *)
LEMMA LockStep ==
  ASSUME LockInv, Steady' => Steady, conn' = conn, fetched' = fetched, Eased(client, client'),
         \A q \in Run : phase[q] = "approval" /\ phase'[q] # "approval"
                          => (Steady => (client'.pending /\ ~client'.timer => client'.active # q)),
         command' = command \/ (Steady => (client'.pending => client'.active # NoRun))
  PROVE  LockInv'
<1> SUFFICES ASSUME Steady' 
    PROVE  /\ conn'.st = "on" /\ fetched' = NothingFetched
           /\ client'.pending /\ ~client'.timer => client'.active \in Run /\ phase'[client'.active] = "approval"
           /\ client'.pending /\ client'.active = NoRun => command'.kind \in {"send", "resume"}
  BY DEF LockInv, NothingFetched, NoAnswer
<1>1. Steady
  OBVIOUS
<1>2. /\ conn.st = "on" /\ fetched = NothingFetched
      /\ client.pending /\ ~client.timer => client.active \in Run /\ phase[client.active] = "approval"
      /\ client.pending /\ client.active = NoRun => command.kind \in {"send", "resume"}
  BY <1>1 DEF LockInv
<1>3. ASSUME client'.pending, ~client'.timer
      PROVE  client'.active \in Run /\ phase'[client'.active] = "approval"
  <2>1. client.pending /\ ~client.timer /\ (client.active = NoRun \/ client'.active = client.active)
    BY <1>3 DEF Eased
  <2>2. client.active \in Run /\ phase[client.active] = "approval" /\ client'.active = client.active
    BY <1>2, <2>1, Ids
  <2> QED
    BY <1>1, <1>3, <2>2
<1>4. ASSUME client'.pending, client'.active = NoRun PROVE command'.kind \in {"send", "resume"}
  <2>1. client.pending /\ client.active = NoRun
    BY <1>4 DEF Eased
  <2>2. command' = command
    BY <1>1, <1>4
  <2> QED
    BY <1>2, <2>1, <2>2
<1> QED
  BY <1>2, <1>3, <1>4

(* The daemon changes messages and emits.                                    *)
LEMMA DaemonStep ==
  ASSUME ChatInv, ServerInv', RowsOK(rows', Said'), \A m \in Msg : AtMost(Said[m], Said'[m]),
         Kept \subseteq Kept', NEW es, Sound(es, Said, Said', Kept'), Emit(es),
         UNCHANGED <<log, late, conn, fetched>>, Steady' => Steady,
         \/ command' = command
         \/ /\ command' = NoCommand /\ IsConnected
            /\ \E i \in 1..Len(es) : es[i].type = "message.started",
         \A q \in Run : phase[q] = "approval" /\ phase'[q] # "approval"
           => \E i \in 1..Len(es) : es[i].type = "message.started" /\ es[i].run = q
  PROVE  ChatInv'
<1>1. Said \in Bounds /\ Said' \in Bounds
  <2>1. Said \in Bounds
    BY SaidNow DEF ChatInv
  <2>2. parts' \in [Msg -> ServerParts]
    BY DEF ServerInv
  <2>3. Said' \in Bounds
    BY <2>2, SaidNext
  <2> QED
    BY <2>1, <2>3
<1>2. PICK N, M, A, B : N = Said /\ M = Said' /\ A = Kept /\ B = Kept'
  OBVIOUS
<1>3. /\ N \in Bounds /\ M \in Bounds /\ A \subseteq B /\ \A m \in Msg : AtMost(N[m], M[m])
      /\ Sound(es, N, M, B) /\ PageOK(client, N, N, A)
      /\ Stored(queue, N, A) /\ Quiet(queue) /\ Stored(late, N, A) /\ Quiet(late) /\ Stored(log, N, A)
      /\ ReplayOK(conn.replay, N, A)
  BY <1>1, <1>2 DEF ChatInv, PageInv, EventsInv
<1>4. /\ PageOK(client', M, M, B) /\ Stored(queue', M, B) /\ Quiet(queue') /\ Eased(client, client')
      /\ \A i \in 1..Len(es) : IsConnected /\ es[i].type = "message.started" => Freed(client', es[i].run)
  BY <1>3, EmitStep
<1>5. Stored(late, M, B) /\ Stored(log, M, B)
  BY <1>3, StoredGrows
<1>6. ReplayOK(conn.replay, M, B)
  <2>1. ASSUME NEW i \in 1..Len(conn.replay) PROVE EventOK(conn.replay[i][1], M, M, B)
    <3>1. PICK e : e = conn.replay[i][1]
      OBVIOUS
    <3>2. EventOK(e, N, N, A) /\ e.type # "part.delta"
      BY <1>3, <3>1 DEF ReplayOK
    <3>3. EventOK(e, M, M, B)
      BY <1>3, <3>2, EventStays
    <3> QED
      BY <3>1, <3>3
  <2> QED
    BY <1>3, <2>1 DEF ReplayOK
<1>7. EventsInv'
  <2>1. late' = late /\ log' = log /\ conn' = conn
    OBVIOUS
  <2>2. Stored(queue', Said', Kept') /\ Quiet(queue')
    BY <1>2, <1>4
  <2>3. Stored(late', Said', Kept') /\ Quiet(late')
    BY <1>2, <1>3, <1>5, <2>1
  <2>4. Stored(log', Said', Kept') /\ ReplayOK(conn'.replay, Said', Kept')
    BY <1>2, <1>5, <1>6, <2>1
  <2> QED
    BY <2>2, <2>3, <2>4 DEF EventsInv
<1>8. PageInv'
  BY <1>2, <1>4 DEF PageInv
<1>9. WireInv'
  <2>1. fetched.rows.st = "here" => RowsOK(fetched.rows.answer, Said')
    <3>1. parts' \in [Msg -> ServerParts]
      BY DEF ServerInv
    <3>2. ASSUME fetched.rows.st = "here" PROVE RowsOK(fetched.rows.answer, Said')
      <4>1. PICK rs : rs = fetched.rows.answer
        OBVIOUS
      <4>2. RowsOK(rs, Said)
        BY <3>2, <4>1 DEF ChatInv, WireInv
      <4>3. RowsOK(rs, Said')
        BY <3>1, <4>2, RowsStep DEF ChatInv
      <4> QED
        BY <4>1, <4>3
    <3> QED
      BY <3>2
  <2>2. command'.kind = "resume" => command'.run \in Run
    BY DEF ChatInv, WireInv, NoCommand
  <2> QED
    BY <2>1, <2>2 DEF ChatInv, WireInv
<1>10. LockInv'
  <2>1. ASSUME Steady PROVE IsConnected
    BY <2>1 DEF ChatInv, LockInv, IsConnected
  <2>2. ASSUME NEW q \in Run, phase[q] = "approval", phase'[q] # "approval", Steady,
               client'.pending, ~client'.timer
        PROVE  client'.active # q
    <3>1. PICK i \in 1..Len(es) : es[i].type = "message.started" /\ es[i].run = q
      BY <2>2
    <3>2. Freed(client', q)
      BY <1>4, <2>1, <2>2, <3>1
    <3> QED
      BY <2>2, <3>2 DEF Freed
  <2>3. ASSUME command' # command, client'.pending PROVE client'.active # NoRun
    <3>1. PICK i \in 1..Len(es) : es[i].type = "message.started"
      BY <2>3
    <3>2. Freed(client', es[i].run)
      BY <1>4, <2>3, <3>1
    <3> QED
      BY <2>3, <3>2 DEF Freed
  <2> QED
    BY <1>4, <2>2, <2>3, LockStep DEF ChatInv
<1> QED
  BY <1>7, <1>8, <1>9, <1>10 DEF ChatInv

-----------------------------------------------------------------------------
(* Stored events may tell of more that is kept ...                           *)
LEMMA StoredSame ==
  ASSUME NEW N \in Bounds, NEW A, NEW B, A \subseteq B, NEW es, Stored(es, N, A)
  PROVE  Stored(es, N, B)
<1>1. \A m \in Msg : AtMost(N[m], N[m])
  BY Reflexive
<1> QED
  BY <1>1, StoredGrows

(* ... may lose the first of them ...                                        *)
LEMMA StoredHead ==
  ASSUME NEW N, NEW A, NEW es, Stored(es, N, A), Quiet(es), es # <<>>
  PROVE  /\ Stored(Tail(es), N, A) /\ Quiet(Tail(es))
         /\ EventOK(Head(es), N, N, A) /\ Head(es).type # "part.delta"
         /\ Head(es).type # "approval.required"
<1>1. PICK S : es \in Seq(S)
  BY DEF Stored, IsList
<1>2. /\ Len(es) \in Nat /\ 1 \in 1..Len(es) /\ Head(es) = es[1]
      /\ Tail(es) \in Seq(S) /\ Len(Tail(es)) = Len(es) - 1
      /\ \A i \in 1..(Len(es) - 1) : Tail(es)[i] = es[i + 1]
  BY <1>1
<1>3. ASSUME NEW i \in 1..Len(Tail(es))
      PROVE  /\ EventOK(Tail(es)[i], N, N, A) /\ Tail(es)[i].type # "part.delta"
             /\ Tail(es)[i].type # "approval.required"
  <2>1. i + 1 \in 1..Len(es) /\ Tail(es)[i] = es[i + 1]
    BY <1>2
  <2> QED
    BY <2>1 DEF Stored, Quiet
<1>4. EventOK(es[1], N, N, A) /\ es[1].type # "part.delta" /\ es[1].type # "approval.required"
  BY <1>2 DEF Stored, Quiet
<1> QED
  BY <1>2, <1>3, <1>4 DEF Stored, Quiet, IsList

(* ... may get one more ...                                                  *)
LEMMA StoredAppend ==
  ASSUME NEW N, NEW A, NEW es, Stored(es, N, A), NEW e, EventOK(e, N, N, A), e.type # "part.delta"
  PROVE  /\ Stored(Append(es, e), N, A)
         /\ Quiet(es) /\ e.type # "approval.required" => Quiet(Append(es, e))
<1>1. PICK S : es \in Seq(S)
  BY DEF Stored, IsList
<1>2. es \in Seq(S \cup {e})
  BY <1>1, SeqMonotonic
<1>3. /\ Len(es) \in Nat /\ Append(es, e) \in Seq(S \cup {e}) /\ Len(Append(es, e)) = Len(es) + 1
      /\ Append(es, e)[Len(es) + 1] = e /\ \A i \in 1..Len(es) : Append(es, e)[i] = es[i]
  BY <1>2
<1> DEFINE w == Append(es, e)
<1> HIDE DEF w
<1>4. \A i \in 1..Len(w) : i \in 1..Len(es) \/ i = Len(es) + 1
  BY <1>3 DEF w
<1>5. /\ w[Len(es) + 1] = e /\ \A i \in 1..Len(es) : w[i] = es[i]
      /\ w \in Seq(S \cup {e})
  BY <1>3 DEF w
<1>6. \A i \in 1..Len(w) : EventOK(w[i], N, N, A) /\ w[i].type # "part.delta"
  BY <1>4, <1>5 DEF Stored
<1>7. Quiet(es) /\ e.type # "approval.required" => Quiet(w)
  BY <1>4, <1>5 DEF Quiet
<1>8. Stored(w, N, A)
  BY <1>5, <1>6 DEF Stored, IsList
<1> QED
  BY <1>7, <1>8 DEF w

(* ... may be joined ...                                                     *)
LEMMA StoredJoin ==
  ASSUME NEW N, NEW A, NEW s, NEW t, Stored(s, N, A), Stored(t, N, A)
  PROVE  Stored(s \o t, N, A)
<1>1. IsList(s) /\ IsList(t)
  BY DEF Stored
<1> DEFINE w == s \o t
<1>2. /\ IsList(w)
      /\ \A i \in 1..Len(w) : (\E k \in 1..Len(s) : w[i] = s[k]) \/ (\E k \in 1..Len(t) : w[i] = t[k])
  BY <1>1, ListsJoin
<1> HIDE DEF w
<1>3. ASSUME NEW i \in 1..Len(w) PROVE EventOK(w[i], N, N, A) /\ w[i].type # "part.delta"
  <2>1. ASSUME NEW k \in 1..Len(s), w[i] = s[k]
        PROVE  EventOK(w[i], N, N, A) /\ w[i].type # "part.delta"
    BY <2>1 DEF Stored
  <2>2. ASSUME NEW k \in 1..Len(t), w[i] = t[k]
        PROVE  EventOK(w[i], N, N, A) /\ w[i].type # "part.delta"
    BY <2>2 DEF Stored
  <2> QED
    BY <1>2, <2>1, <2>2
<1>4. Stored(w, N, A)
  BY <1>2, <1>3 DEF Stored
<1> QED
  BY <1>4 DEF w

(* ... and may be none.                                                      *)
LEMMA StoredNone ==
  ASSUME NEW N, NEW A
  PROVE  Stored(<<>>, N, A) /\ Quiet(<<>>)
<1>1. <<>> \in Seq({}) /\ Len(<<>>) = 0
  OBVIOUS
<1> QED
  BY <1>1 DEF Stored, Quiet, IsList

(* The daemon tells what is written, and says nothing new.                   *)
LEMMA ToldStep ==
  ASSUME ChatInv, ServerInv', parts' = parts, rows' = rows, Kept \subseteq Kept',
         NEW es, Len(es) \in Nat, Broadcast(es),
         \A k \in 1..Len(es) : EventOK(es[k][1], Said, Said, Kept') /\ es[k][2] \in Nat,
         Stored(queue', Said, Kept'), Quiet(queue'), Stored(late', Said, Kept'), Quiet(late'),
         Stored(log', Said, Kept'), UNCHANGED <<conn, fetched>>, command' \in {command, NoCommand}
  PROVE  /\ RowsOK(rows', Said') /\ EventsInv' /\ WireInv' /\ PageInv'
         /\ (\A k \in 1..Len(es) : es[k][1].type # "approval.required") =>
              /\ Eased(client, client')
              /\ \A k \in 1..Len(es) : IsConnected /\ es[k][1].type = "run.created"
                                         => (client'.pending => client'.active # NoRun)
         /\ \A r \in Run : (\A k \in 1..Len(es) : es[k][1].run = r) => Asking(client, client', r)
<1>1. Said' = Said /\ Said \in Bounds
  BY NothingSaid DEF ChatInv
<1>2. PICK N, A, B : N = Said /\ A = Kept /\ B = Kept'
  OBVIOUS
<1>3. /\ N \in Bounds /\ A \subseteq B /\ PageOK(client, N, N, A)
      /\ \A k \in 1..Len(es) : EventOK(es[k][1], N, N, B) /\ es[k][2] \in Nat
      /\ ReplayOK(conn.replay, N, A)
  BY <1>1, <1>2 DEF ChatInv, PageInv, EventsInv
<1>4. /\ PageOK(client', N, N, B)
      /\ (\A k \in 1..Len(es) : es[k][1].type # "approval.required") =>
              /\ Eased(client, client')
              /\ \A k \in 1..Len(es) : IsConnected /\ es[k][1].type = "run.created"
                                         => (client'.pending => client'.active # NoRun)
      /\ \A r \in Run : (\A k \in 1..Len(es) : es[k][1].run = r) => Asking(client, client', r)
  BY <1>3, BroadcastStep
<1>5. ReplayOK(conn.replay, N, B)
  <2>1. \A m \in Msg : AtMost(N[m], N[m])
    BY <1>3, Reflexive
  <2>2. ASSUME NEW i \in 1..Len(conn.replay) PROVE EventOK(conn.replay[i][1], N, N, B)
    <3>1. PICK e : e = conn.replay[i][1]
      OBVIOUS
    <3>2. EventOK(e, N, N, A) /\ e.type # "part.delta"
      BY <1>3, <3>1 DEF ReplayOK
    <3>3. EventOK(e, N, N, B)
      BY <1>3, <2>1, <3>2, EventStays
    <3> QED
      BY <3>1, <3>3
  <2> QED
    BY <1>3, <2>2 DEF ReplayOK
<1>6. EventsInv'
  <2>1. conn' = conn
    OBVIOUS
  <2>2. ReplayOK(conn'.replay, Said', Kept')
    BY <1>1, <1>2, <1>5, <2>1
  <2>3. Stored(queue', Said', Kept') /\ Stored(late', Said', Kept') /\ Stored(log', Said', Kept')
    BY <1>1
  <2> QED
    BY <2>2, <2>3 DEF EventsInv
<1>7. PageInv'
  BY <1>1, <1>2, <1>4 DEF PageInv
<1>8. WireInv'
  BY <1>1 DEF ChatInv, WireInv, NoCommand
<1>9. RowsOK(rows', Said')
  BY <1>1 DEF ChatInv
<1> QED
  BY <1>4, <1>6, <1>7, <1>8, <1>9

(* The page acts, and the daemon does not.                                   *)
LEMMA PageStep ==
  ASSUME ChatInv, UNCHANGED server, faults' \in [Faults -> Nat], UNCHANGED <<queue, log, late>>,
         ReplayOK(conn'.replay, Said, Kept)
  PROVE  ServerInv' /\ RowsOK(rows', Said') /\ EventsInv' /\ Said' = Said /\ Kept' = Kept
         /\ \A q \in Run : phase'[q] = phase[q]
<1>1. Said' = Said /\ Kept' = Kept
  BY DEF Said, Kept, server
<1>2. phase' = phase /\ parts' = parts /\ rows' = rows /\ owner' = owner /\ current' = current
      /\ queue' = queue /\ log' = log /\ late' = late
  BY DEF server
<1>3. ServerInv'
  BY <1>2 DEF ChatInv, ServerInv
<1>4. RowsOK(rows', Said')
  BY <1>1, <1>2 DEF ChatInv
<1>5. EventsInv'
  BY <1>1, <1>2 DEF ChatInv, EventsInv
<1> QED
  BY <1>1, <1>2, <1>3, <1>4, <1>5

-----------------------------------------------------------------------------
(* What the invariant says of the daemon's lists.                            *)
LEMMA ListsNow ==
  ASSUME ChatInv
  PROVE  /\ Said \in Bounds /\ Stored(queue, Said, Kept) /\ Quiet(queue)
         /\ Stored(late, Said, Kept) /\ Quiet(late) /\ Stored(log, Said, Kept)
         /\ ReplayOK(conn.replay, Said, Kept) /\ Len(log) \in Nat
<1>1. Said \in Bounds
  BY SaidNow DEF ChatInv
<1>2. IsList(log)
  BY DEF ChatInv, EventsInv, Stored
<1> QED
  BY <1>1, <1>2, ListFacts DEF ChatInv, EventsInv

(* One event that was just written is told.                                  *)
LEMMA OneTold ==
  ASSUME NEW N, NEW A, NEW e, EventOK(e, N, N, A), NEW seq \in Nat,
         NEW es, es = <<<<e, seq>>>>
  PROVE  /\ Len(es) \in Nat /\ es[1][1] = e /\ 1 \in 1..Len(es)
         /\ \A k \in 1..Len(es) : EventOK(es[k][1], N, N, A) /\ es[k][2] \in Nat /\ es[k][1] = e
<1>1. PICK t : t = <<e, seq>>
  OBVIOUS
<1>2. t[1] = e /\ t[2] = seq
  BY <1>1
<1>3. es = <<t>>
  BY <1>1
<1>4. Len(es) = 1 /\ es[1] = t
  BY <1>3
<1>5. \A k \in 1..Len(es) : es[k] = t
  BY <1>4
<1> QED
  BY <1>2, <1>4, <1>5

(* A broadcast of nothing leaves the page alone.                             *)
LEMMA NoneTold ==
  ASSUME client' = client
  PROVE  Broadcast(<<>>) /\ Len(<<>>) = 0
BY DEF Broadcast

(* The queue writes its first event and tells it.                            *)
LEMMA PersistKeeps ==
  ASSUME ChatInv, Persist
  PROVE  ChatInv'
<1> DEFINE e == Head(queue)
<1>1. /\ queue # <<>> /\ log' = Append(log, e) /\ queue' = Tail(queue)
      /\ UNCHANGED <<late, conn, command, fetched, faults>> /\ UNCHANGED server
      /\ client' = client \/ Broadcast(<<<<e, Len(log) + 1>>>>)
  BY DEF Persist
<1>2. /\ Said' = Said /\ Kept' = Kept /\ parts' = parts /\ rows' = rows /\ phase' = phase
      /\ faults' = faults
  BY <1>1 DEF server, Said, Kept
<1>3. ServerInv'
  BY <1>1 DEF server, ChatInv, ServerInv
<1>4. /\ Stored(Tail(queue), Said, Kept) /\ Quiet(Tail(queue))
      /\ EventOK(e, Said, Said, Kept) /\ e.type # "part.delta" /\ e.type # "approval.required"
  BY <1>1, ListsNow, StoredHead
<1> HIDE DEF e
<1>5. Stored(Append(log, e), Said, Kept)
  BY <1>4, ListsNow, StoredAppend
<1>6. PICK es : /\ Len(es) \in Nat /\ Broadcast(es)
                /\ \A k \in 1..Len(es) : EventOK(es[k][1], Said, Said, Kept) /\ es[k][2] \in Nat /\ es[k][1] = e
  <2>1. CASE client' = client
    <3>1. PICK es : es = <<>>
      OBVIOUS
    <3>2. Broadcast(es) /\ Len(es) = 0
      BY <2>1, <3>1, NoneTold
    <3> QED
      BY <3>2
  <2>2. CASE Broadcast(<<<<e, Len(log) + 1>>>>)
    <3>1. PICK es, seq : es = <<<<e, Len(log) + 1>>>> /\ seq = Len(log) + 1
      OBVIOUS
    <3>2. seq \in Nat
      BY <3>1, ListsNow
    <3>3. PICK N, A : N = Said /\ A = Kept
      OBVIOUS
    <3>4. /\ Len(es) \in Nat
          /\ \A k \in 1..Len(es) : EventOK(es[k][1], N, N, A) /\ es[k][2] \in Nat /\ es[k][1] = e
      BY <1>4, <3>1, <3>2, <3>3, OneTold
    <3> QED
      BY <2>2, <3>1, <3>3, <3>4
  <2> QED
    BY <1>1, <2>1, <2>2
<1>7. /\ Stored(queue', Said, Kept') /\ Quiet(queue') /\ Stored(late', Said, Kept') /\ Quiet(late')
      /\ Stored(log', Said, Kept')
  BY <1>1, <1>2, <1>4, <1>5, ListsNow
<1>8. \A k \in 1..Len(es) : EventOK(es[k][1], Said, Said, Kept') /\ es[k][2] \in Nat
  BY <1>2, <1>6
<1>9. /\ RowsOK(rows', Said') /\ EventsInv' /\ WireInv' /\ PageInv' /\ Eased(client, client')
  <2>1. \A k \in 1..Len(es) : es[k][1].type # "approval.required"
    BY <1>4, <1>6
  <2>2. UNCHANGED <<conn, fetched>> /\ command' \in {command, NoCommand} /\ Kept \subseteq Kept'
    BY <1>1, <1>2
  <2> QED
    BY <1>2, <1>3, <1>6, <1>7, <1>8, <2>1, <2>2, ToldStep
<1>10. LockInv'
  BY <1>1, <1>2, <1>9, LockStep DEF ChatInv, Steady
<1> QED
  BY <1>3, <1>9, <1>10 DEF ChatInv

(* An event that cannot be written waits for the flush.                      *)
LEMMA PersistFailsKeeps ==
  ASSUME ChatInv, PersistFails
  PROVE  ChatInv'
<1> DEFINE e == Head(queue)
<1>1. /\ queue # <<>> /\ Fault("late") /\ late' = Append(late, e) /\ queue' = Tail(queue)
      /\ UNCHANGED <<log, client, conn, command, fetched>> /\ UNCHANGED server
  BY DEF PersistFails
<1>2. /\ Said' = Said /\ Kept' = Kept /\ parts' = parts /\ rows' = rows /\ phase' = phase
  BY <1>1 DEF server, Said, Kept
<1>3. faults' \in [Faults -> Nat] /\ (Steady' => Steady)
  BY <1>1, FaultCounts DEF ChatInv
<1>4. ServerInv'
  <2>1. phase' = phase /\ owner' = owner /\ current' = current /\ parts' = parts
    BY <1>1 DEF server
  <2>2. ServerInv
    BY DEF ChatInv
  <2> QED
    BY <1>3, <2>1, <2>2 DEF ServerInv
<1>5. /\ Stored(Tail(queue), Said, Kept) /\ Quiet(Tail(queue))
      /\ EventOK(e, Said, Said, Kept) /\ e.type # "part.delta" /\ e.type # "approval.required"
  BY <1>1, ListsNow, StoredHead
<1> HIDE DEF e
<1>6. Stored(Append(late, e), Said, Kept) /\ Quiet(Append(late, e))
  BY <1>5, ListsNow, StoredAppend
<1>7. EventsInv'
  BY <1>1, <1>2, <1>5, <1>6, ListsNow DEF EventsInv
<1>8. RowsOK(rows', Said') /\ PageInv' /\ WireInv'
  BY <1>1, <1>2 DEF ChatInv, PageInv, WireInv
<1>9. LockInv'
  <2>1. Eased(client, client')
    BY <1>1, EasedOnce
  <2>2. LockInv /\ conn' = conn /\ fetched' = fetched /\ command' = command
    BY <1>1 DEF ChatInv
  <2>3. \A q \in Run : phase[q] = "approval" => phase'[q] = "approval"
    BY <1>2
  <2> QED
    BY <1>3, <2>1, <2>2, <2>3, LockStep
<1> QED
  BY <1>4, <1>7, <1>8, <1>9 DEF ChatInv

(* The flush writes and tells what waited.                                   *)
LEMMA FlushKeeps ==
  ASSUME ChatInv, Flush
  PROVE  ChatInv'
<1>1. /\ log' = log \o late /\ late' = <<>>
      /\ Broadcast([i \in DOMAIN late |-> <<late[i], Len(log) + i>>])
      /\ UNCHANGED <<queue, conn, command, fetched, faults>> /\ UNCHANGED server
  BY DEF Flush
<1>2. /\ Said' = Said /\ Kept' = Kept /\ parts' = parts /\ rows' = rows /\ phase' = phase
      /\ faults' = faults
  BY <1>1 DEF server, Said, Kept
<1>3. ServerInv'
  BY <1>1 DEF server, ChatInv, ServerInv
<1>4. /\ Stored(log, Said, Kept) /\ Stored(late, Said, Kept) /\ Quiet(late) /\ Len(log) \in Nat
      /\ Stored(queue, Said, Kept) /\ Quiet(queue)
  BY ListsNow
<1>5. Stored(log \o late, Said, Kept)
  BY <1>4, StoredJoin
<1>6. Len(late) \in Nat /\ DOMAIN late = 1..Len(late)
  BY <1>4, ListFacts DEF Stored
<1>7. PICK es : es = [i \in DOMAIN late |-> <<late[i], Len(log) + i>>]
  OBVIOUS
<1>8. /\ DOMAIN es = 1..Len(late) /\ \A k \in 1..Len(late) : es[k][1] = late[k] /\ es[k][2] = Len(log) + k
  BY <1>6, <1>7
<1>9. Len(es) = Len(late)
  BY <1>6, <1>8
<1>10. \A k \in 1..Len(es) : /\ EventOK(es[k][1], Said, Said, Kept') /\ es[k][2] \in Nat
                             /\ es[k][1].type # "approval.required"
  BY <1>2, <1>4, <1>8, <1>9 DEF Stored, Quiet
<1>11. /\ Stored(queue', Said, Kept') /\ Quiet(queue') /\ Stored(late', Said, Kept') /\ Quiet(late')
       /\ Stored(log', Said, Kept')
  BY <1>1, <1>2, <1>4, <1>5, StoredNone
<1>12. /\ RowsOK(rows', Said') /\ EventsInv' /\ WireInv' /\ PageInv' /\ Eased(client, client')
  <2>1. /\ Len(es) \in Nat /\ Broadcast(es) /\ UNCHANGED <<conn, fetched>>
        /\ command' \in {command, NoCommand} /\ Kept \subseteq Kept'
    BY <1>1, <1>2, <1>6, <1>7, <1>9
  <2> QED
    BY <1>2, <1>3, <1>10, <1>11, <2>1, ToldStep
<1>13. LockInv'
  BY <1>1, <1>2, <1>12, LockStep DEF ChatInv, Steady
<1> QED
  BY <1>3, <1>12, <1>13 DEF ChatInv

(* A run's event is written at once and told.                                *)
LEMMA RunTold ==
  ASSUME ChatInv, ServerInv', NEW r \in Run, NEW type,
         type \in {"run.created", "approval.required"},
         parts' = parts, rows' = rows, Kept \subseteq Kept',
         log' = Append(log, RunEvent(r, type)),
         Broadcast(<<<<RunEvent(r, type), Len(log) + 1>>>>),
         UNCHANGED <<queue, late, conn, fetched>>, command' \in {command, NoCommand}
  PROVE  /\ RowsOK(rows', Said') /\ EventsInv' /\ WireInv' /\ PageInv'
         /\ type = "run.created" => /\ Eased(client, client')
                                    /\ IsConnected /\ client'.pending => client'.active # NoRun
         /\ Asking(client, client', r)
<1>1. PICK e, seq, es : /\ e = RunEvent(r, type) /\ seq = Len(log) + 1
                        /\ es = <<<<RunEvent(r, type), Len(log) + 1>>>>
  OBVIOUS
<1>2. EventOK(e, Said, Said, Kept') /\ e.type = type /\ e.run = r
  BY <1>1, RunEventTells
<1>3. seq \in Nat /\ es = <<<<e, seq>>>>
  BY <1>1, ListsNow
<1>4. /\ Len(es) \in Nat /\ es[1][1] = e /\ 1 \in 1..Len(es)
      /\ \A k \in 1..Len(es) : EventOK(es[k][1], Said, Said, Kept') /\ es[k][2] \in Nat /\ es[k][1] = e
  BY <1>2, <1>3, OneTold
<1>5. /\ Stored(queue, Said, Kept') /\ Quiet(queue) /\ Stored(late, Said, Kept') /\ Quiet(late)
      /\ Stored(log, Said, Kept')
  <2>1. PICK N, A, B : N = Said /\ A = Kept /\ B = Kept'
    OBVIOUS
  <2>2. /\ N \in Bounds /\ A \subseteq B /\ Stored(queue, N, A) /\ Stored(late, N, A) /\ Stored(log, N, A)
        /\ Quiet(queue) /\ Quiet(late)
    BY <2>1, ListsNow
  <2>3. Stored(queue, N, B) /\ Stored(late, N, B) /\ Stored(log, N, B)
    BY <2>2, StoredSame
  <2> QED
    BY <2>1, <2>2, <2>3
<1>6. Stored(log', Said, Kept')
  <2>1. e.type # "part.delta"
    BY <1>2
  <2>2. log' = Append(log, e)
    BY <1>1
  <2> QED
    BY <1>2, <1>5, <2>1, <2>2, StoredAppend
<1>7. /\ Stored(queue', Said, Kept') /\ Quiet(queue') /\ Stored(late', Said, Kept') /\ Quiet(late')
  BY <1>5
<1>8. Broadcast(es) /\ \A k \in 1..Len(es) : EventOK(es[k][1], Said, Said, Kept') /\ es[k][2] \in Nat
  BY <1>1, <1>4
<1>9. /\ RowsOK(rows', Said') /\ EventsInv' /\ WireInv' /\ PageInv'
      /\ (\A k \in 1..Len(es) : es[k][1].type # "approval.required") =>
              /\ Eased(client, client')
              /\ \A k \in 1..Len(es) : IsConnected /\ es[k][1].type = "run.created"
                                         => (client'.pending => client'.active # NoRun)
      /\ \A q \in Run : (\A k \in 1..Len(es) : es[k][1].run = q) => Asking(client, client', q)
  <2>1. Len(es) \in Nat
    BY <1>4
  <2> QED
    BY <1>6, <1>7, <1>8, <2>1, ToldStep
<1>10. Asking(client, client', r)
  BY <1>2, <1>4, <1>9
<1>11. ASSUME type = "run.created"
       PROVE  /\ Eased(client, client')
              /\ IsConnected /\ client'.pending => client'.active # NoRun
  BY <1>2, <1>4, <1>9, <1>11
<1> QED
  BY <1>9, <1>10, <1>11

-----------------------------------------------------------------------------
(* chat.send is accepted: the page hears of its run.                         *)
LEMMA AcceptSendKeeps ==
  ASSUME ChatInv, AcceptSend
  PROVE  ChatInv'
<1>1. PICK r \in Run : /\ phase[r] = "none" /\ phase' = [phase EXCEPT ![r] = "accepted"]
                       /\ log' = Append(log, RunEvent(r, "run.created"))
                       /\ Broadcast(<<<<RunEvent(r, "run.created"), Len(log) + 1>>>>)
  BY DEF AcceptSend
<1>2. /\ UNCHANGED <<outcome, current, aborted, owner, parts, rows, queue, late, conn, fetched, faults>>
      /\ IsConnected /\ command' = NoCommand
  BY DEF AcceptSend
<1>3. ServerInv /\ phase \in [Run -> Phases] /\ DOMAIN rows \subseteq Msg
  BY DEF ChatInv, ServerInv, RowsOK
<1>4. ServerInv'
  <2>1. "accepted" \in Phases /\ parts' \in [Msg -> ServerParts] /\ faults' \in [Faults -> Nat]
    BY <1>2, <1>3 DEF Phases, ServerInv
  <2> QED
    BY <1>1, <1>2, <1>3, <2>1, ServerStep
<1>5. Kept \subseteq Kept'
  BY <1>1, <1>2, <1>3, KeptStep DEF Over
<1>6. /\ RowsOK(rows', Said') /\ EventsInv' /\ WireInv' /\ PageInv'
      /\ Eased(client, client')
      /\ client'.pending => client'.active # NoRun
  BY <1>1, <1>2, <1>4, <1>5, RunTold
<1>7. LockInv'
  <2>1. \A q \in Run : phase[q] = "approval" => phase'[q] = "approval"
    BY <1>1, <1>3
  <2>2. Steady' => Steady
    BY <1>2 DEF Steady
  <2> QED
    BY <1>2, <1>6, <2>1, <2>2, LockStep DEF ChatInv
<1> QED
  BY <1>4, <1>6, <1>7 DEF ChatInv

(* A run waits for an approval: only here the composer stays locked.         *)
LEMMA AskApprovalKeeps ==
  ASSUME ChatInv, NEW r \in Run, AskApproval(r)
  PROVE  ChatInv'
<1>1. /\ phase[r] = "asks_approval" /\ phase' = [phase EXCEPT ![r] = "approval"]
      /\ log' = Append(log, RunEvent(r, "approval.required"))
      /\ Broadcast(<<<<RunEvent(r, "approval.required"), Len(log) + 1>>>>)
      /\ UNCHANGED <<outcome, current, aborted, owner, parts, rows, queue, late, conn, command,
                     fetched, faults>>
  BY DEF AskApproval
<1>2. ServerInv /\ phase \in [Run -> Phases] /\ DOMAIN rows \subseteq Msg
  BY DEF ChatInv, ServerInv, RowsOK
<1>3. ServerInv'
  <2>1. "approval" \in Phases /\ parts' \in [Msg -> ServerParts] /\ faults' \in [Faults -> Nat]
    BY <1>1, <1>2 DEF Phases, ServerInv
  <2> QED
    BY <1>1, <1>2, <2>1, ServerStep
<1>4. Kept \subseteq Kept'
  BY <1>1, <1>2, KeptStep DEF Over
<1>5. /\ RowsOK(rows', Said') /\ EventsInv' /\ WireInv' /\ PageInv' /\ Asking(client, client', r)
  BY <1>1, <1>3, <1>4, RunTold
<1>6. LockInv'
  <2> SUFFICES ASSUME Steady'
      PROVE  /\ conn'.st = "on" /\ fetched' = NothingFetched
             /\ client'.pending /\ ~client'.timer => client'.active \in Run /\ phase'[client'.active] = "approval"
             /\ client'.pending /\ client'.active = NoRun => command'.kind \in {"send", "resume"}
    BY DEF LockInv, NothingFetched, NoAnswer
  <2>1. Steady
    BY <1>1 DEF Steady
  <2>2. /\ conn.st = "on" /\ fetched = NothingFetched
        /\ client.pending /\ ~client.timer => client.active \in Run /\ phase[client.active] = "approval"
        /\ client.pending /\ client.active = NoRun => command.kind \in {"send", "resume"}
    BY <2>1 DEF ChatInv, LockInv
  <2>3. phase'[r] = "approval" /\ \A q \in Run : phase[q] = "approval" => phase'[q] = "approval"
    BY <1>1, <1>2
  <2>4. ASSUME client'.pending, ~client'.timer
        PROVE  client'.active \in Run /\ phase'[client'.active] = "approval"
    <3>1. CASE client'.active = r
      BY <2>3, <3>1
    <3>2. CASE Eased(client, client')
      <4>1. client.pending /\ ~client.timer /\ (client.active = NoRun \/ client'.active = client.active)
        BY <2>4, <3>2 DEF Eased
      <4>2. client.active \in Run /\ phase[client.active] = "approval" /\ client'.active = client.active
        BY <2>2, <4>1, Ids
      <4> QED
        BY <2>3, <4>2
    <3> QED
      BY <1>5, <2>4, <3>1, <3>2 DEF Asking
  <2>5. client'.pending /\ client'.active = NoRun => command'.kind \in {"send", "resume"}
    BY <1>1, <1>5, <2>2 DEF Asking
  <2> QED
    BY <1>1, <2>2, <2>4, <2>5
<1> QED
  BY <1>3, <1>5, <1>6 DEF ChatInv

(* chat.stop sets a signal.                                                  *)
LEMMA AcceptStopKeeps ==
  ASSUME ChatInv, AcceptStop
  PROVE  ChatInv'
<1>1. /\ command.kind = "stop" /\ command' = NoCommand
      /\ UNCHANGED <<phase, outcome, current, owner, parts, rows, queue, log, late, client,
                     conn, fetched, faults>>
  BY DEF AcceptStop
<1>2. Said' = Said /\ Kept' = Kept
  BY <1>1 DEF Said, Kept
<1>3. ServerInv'
  BY <1>1 DEF ChatInv, ServerInv
<1>4. RowsOK(rows', Said') /\ PageInv'
  BY <1>1, <1>2 DEF ChatInv, PageInv
<1>5. EventsInv'
  BY <1>1, <1>2 DEF ChatInv, EventsInv
<1>6. WireInv'
  BY <1>1, <1>2 DEF ChatInv, WireInv, NoCommand
<1>7. LockInv'
  <2>1. Eased(client, client')
    BY <1>1, EasedOnce
  <2>2. Steady => (client'.pending => client'.active # NoRun)
    BY <1>1 DEF ChatInv, LockInv
  <2>3. /\ Steady' => Steady
        /\ \A q \in Run : phase[q] = "approval" => phase'[q] = "approval"
    BY <1>1 DEF Steady
  <2> QED
    BY <1>1, <2>1, <2>2, <2>3, LockStep DEF ChatInv
<1> QED
  BY <1>3, <1>4, <1>5, <1>6, <1>7 DEF ChatInv

-----------------------------------------------------------------------------
(* The run goes on in its message, which changes as the events tell.         *)
LEMMA Streamed ==
  ASSUME ChatInv, NEW r \in Run, phase[r] \notin {"none", "accepted", "approval"} \cup Over,
         NEW p \in Phases, p \notin {"none", "accepted"}, phase' = [phase EXCEPT ![r] = p],
         NEW m, m = current[r], NEW chs, Changed(parts[m], chs),
         parts' = [parts EXCEPT ![m] = Last(chs).parts], owner' = owner, current' = current,
         rows' = rows \/ rows' = Saved(m, Last(chs).parts),
         Emit(EventsOf(r, m, chs)),
         UNCHANGED <<faults, log, late, conn, fetched, command>>
  PROVE  ChatInv'
<1>1. /\ ServerInv /\ phase \in [Run -> Phases] /\ DOMAIN rows \subseteq Msg
      /\ m \in Msg /\ owner[m] = r /\ NoRun \notin Run
  BY Ids DEF ChatInv, ServerInv, RowsOK
<1>2. PICK qs \in ServerParts : qs = Last(chs).parts /\ AtMost(SaidOf(parts[m]), SaidOf(qs))
  BY DEF Changed
<1>3. /\ parts' \in [Msg -> ServerParts] /\ Said' \in Bounds
      /\ \A k \in Msg : AtMost(Said[k], Said'[k])
      /\ Said[m] = SaidOf(parts[m]) /\ Said'[m] = SaidOf(qs)
      /\ \A k \in Msg : k # m => parts'[k] = parts[k]
  BY <1>1, <1>2, PartsStep
<1>4. ServerInv'
  <2>1. faults' \in [Faults -> Nat]
    BY <1>1 DEF ServerInv
  <2>2. \A k \in Msg : owner[k] = NoRun => parts'[k] = parts[k]
    BY <1>1, <1>3
  <2> QED
    BY <1>1, <1>3, <2>1, <2>2, ServerStep
<1>5. Kept \subseteq Kept'
  BY <1>1, KeptStep
<1>6. RowsOK(rows', Said')
  <2>1. RowsOK(rows, Said)
    BY DEF ChatInv
  <2>2. CASE rows' = rows
    <3>1. PICK rs : rs = rows
      OBVIOUS
    <3>2. RowsOK(rs, Said')
      BY <1>1, <1>3, <2>1, <3>1, RowsStep
    <3> QED
      BY <2>2, <3>1, <3>2
  <2>3. CASE rows' = Saved(m, Last(chs).parts)
    <3>1. AtMost(SaidOf(qs), Said'[m])
      <4>1. SaidOf(qs) \in [Nat -> Nat]
        BY ServerIs
      <4> QED
        BY <1>3, <4>1, AtMostSame
    <3> QED
      BY <1>1, <1>2, <1>3, <2>1, <2>3, <3>1, SavedStep
  <2> QED
    BY <2>2, <2>3
<1>7. PICK es : es = EventsOf(r, m, chs)
  OBVIOUS
<1>8. Sound(es, Said, Said', Kept')
  <2>1. PICK N, M, A, ps : N = Said /\ M = Said' /\ A = Kept' /\ ps = parts[m]
    OBVIOUS
  <2>2. N[m] = SaidOf(ps) /\ M[m] = SaidOf(Last(chs).parts) /\ Changed(ps, chs)
    BY <1>2, <1>3, <2>1
  <2>3. Sound(EventsOf(r, m, chs), N, M, A)
    BY <1>1, <2>2, ChangesTell
  <2> QED
    BY <1>7, <2>1, <2>3
<1>9. \A q \in Run : phase[q] = "approval" => phase'[q] = "approval"
  BY <1>1
<1>10. Steady' => Steady
  BY DEF Steady
<1> QED
  BY <1>3, <1>4, <1>5, <1>6, <1>7, <1>8, <1>9, <1>10, DaemonStep

-----------------------------------------------------------------------------
(* A run's message is one of the daemon's. *)
LEMMA CurrentParts ==
  ASSUME ChatInv, NEW r \in Run, phase[r] \notin {"none", "accepted"}
  PROVE  /\ parts[current[r]] \in ServerParts /\ current[r] \in Msg /\ owner[current[r]] = r
         /\ DOMAIN parts[current[r]] = 1..Len(parts[current[r]]) /\ Len(parts[current[r]]) \in Nat
<1>1. current[r] \in Msg /\ owner[current[r]] = r /\ parts \in [Msg -> ServerParts]
  BY DEF ChatInv, ServerInv
<1>2. parts[current[r]] \in ServerParts
  BY <1>1
<1> QED
  BY <1>1, <1>2, ServerIs

(* What a run may do to its message while it streams.                        *)
LEMMA StreamChanges ==
  ASSUME ChatInv, NEW r \in Run, StreamStep(r)
  PROVE  \E chs : Changed(parts[current[r]], chs) /\ Stream(r, current[r], chs)
<1> DEFINE m == current[r]
           ps == parts[m]
<1>1. phase[r] = "streaming"
  BY DEF StreamStep
<1>2. ps \in ServerParts /\ DOMAIN ps = 1..Len(ps) /\ Len(ps) \in Nat
  BY <1>1, CurrentParts
<1>3. PICK a, b : a = StartPart(ps, "text", "progress") /\ b = StartPart(ps, "tool_use", "none")
  OBVIOUS
<1>4. "completed" \in Words /\ "failed" \in Words /\ "running" \in Words /\ "progress" \in Words
      /\ "none" \in Words
  BY DEF Words
<1>5. \/ Stream(r, m, <<UpdateStatus(ps, 1, "completed")>>)
      \/ Stream(r, m, <<a, AppendText(a.parts, Len(a.parts))>>)
      \/ \E i \in OpenText(ps) : Stream(r, m, <<AppendText(ps, i)>>)
      \/ \E i \in OpenText(ps) : Stream(r, m, <<CompleteTextPart(ps, i)>>)
      \/ Stream(r, m, <<b, UpdateStatus(b.parts, Len(b.parts), "running")>>)
      \/ \E i \in OpenTool(ps), st \in {"completed", "failed"} :
           Stream(r, m, <<UpdateStatus(ps, i, st),
                          StartPart(UpdateStatus(ps, i, st).parts, "tool_result", "none")>>)
  BY <1>3 DEF StreamStep
<1> HIDE DEF ps, m
<1>6. /\ OneChange(ps, a) /\ Len(a.parts) = Len(ps) + 1 /\ OneChange(ps, b)
      /\ a.parts \in ServerParts /\ b.parts \in ServerParts
  BY <1>2, <1>3, <1>4, StartPartChanges DEF OneChange
<1>7. \A i \in OpenText(ps) : i \in 1..Len(ps)
  BY <1>2 DEF OpenText
<1>8. CASE Stream(r, m, <<UpdateStatus(ps, 1, "completed")>>)
  <2>1. OneChange(ps, UpdateStatus(ps, 1, "completed"))
    BY <1>2, <1>4, StatusChanges
  <2>2. Changed(ps, <<UpdateStatus(ps, 1, "completed")>>)
    BY <2>1, ChangedOnce
  <2> QED
    BY <1>8, <2>2 DEF ps, m
<1>9. CASE Stream(r, m, <<a, AppendText(a.parts, Len(a.parts))>>)
  <2>1. Len(a.parts) \in 1..Len(a.parts)
    BY <1>2, <1>6
  <2>2. OneChange(a.parts, AppendText(a.parts, Len(a.parts)))
    BY <1>6, <2>1, AppendTextChanges
  <2>3. Changed(ps, <<a, AppendText(a.parts, Len(a.parts))>>)
    BY <1>2, <1>6, <2>2, ChangedTwice
  <2> QED
    BY <1>9, <2>3 DEF ps, m
<1>10. ASSUME NEW i \in OpenText(ps), Stream(r, m, <<AppendText(ps, i)>>)
       PROVE  \E chs : Changed(ps, chs) /\ Stream(r, m, chs)
  <2>1. OneChange(ps, AppendText(ps, i))
    BY <1>2, <1>7, AppendTextChanges
  <2>2. Changed(ps, <<AppendText(ps, i)>>)
    BY <2>1, ChangedOnce
  <2> QED
    BY <1>10, <2>2
<1>11. ASSUME NEW i \in OpenText(ps), Stream(r, m, <<CompleteTextPart(ps, i)>>)
       PROVE  \E chs : Changed(ps, chs) /\ Stream(r, m, chs)
  <2>1. OneChange(ps, CompleteTextPart(ps, i))
    BY <1>2, <1>4, <1>7, FieldChanges
  <2>2. Changed(ps, <<CompleteTextPart(ps, i)>>)
    BY <2>1, ChangedOnce
  <2> QED
    BY <1>11, <2>2
<1>12. CASE Stream(r, m, <<b, UpdateStatus(b.parts, Len(b.parts), "running")>>)
  <2>1. OneChange(b.parts, UpdateStatus(b.parts, Len(b.parts), "running"))
    BY <1>4, <1>6, StatusChanges
  <2>2. Changed(ps, <<b, UpdateStatus(b.parts, Len(b.parts), "running")>>)
    BY <1>2, <1>6, <2>1, ChangedTwice
  <2> QED
    BY <1>12, <2>2 DEF ps, m
<1>13. ASSUME NEW i \in OpenTool(ps), NEW st \in {"completed", "failed"},
              Stream(r, m, <<UpdateStatus(ps, i, st),
                             StartPart(UpdateStatus(ps, i, st).parts, "tool_result", "none")>>)
       PROVE  \E chs : Changed(ps, chs) /\ Stream(r, m, chs)
  <2>1. PICK u, v : u = UpdateStatus(ps, i, st) /\ v = StartPart(u.parts, "tool_result", "none")
    OBVIOUS
  <2>2. OneChange(ps, u) /\ u.parts \in ServerParts
    BY <1>2, <1>4, <2>1, StatusChanges DEF OneChange
  <2>3. OneChange(u.parts, v)
    BY <1>4, <2>1, <2>2, StartPartChanges
  <2>4. Changed(ps, <<u, v>>)
    BY <1>2, <2>2, <2>3, ChangedTwice
  <2> QED
    BY <1>13, <2>1, <2>4
<1>14. \E chs : Changed(ps, chs) /\ Stream(r, m, chs)
  BY <1>5, <1>8, <1>9, <1>10, <1>11, <1>12, <1>13 DEF ps, m
<1> QED
  BY <1>14 DEF ps, m

(* A run changes its message.                                                *)
LEMMA StreamStepKeeps ==
  ASSUME ChatInv, NEW r \in Run, StreamStep(r)
  PROVE  ChatInv'
<1>1. PICK m, chs : m = current[r] /\ Changed(parts[m], chs) /\ Stream(r, m, chs)
  BY StreamChanges
<1>2. /\ phase[r] = "streaming"
      /\ UNCHANGED <<phase, outcome, current, aborted, owner, rows, log, late, conn, command,
                     fetched, faults>>
  BY DEF StreamStep
<1>3. parts' = [parts EXCEPT ![m] = Last(chs).parts] /\ Emit(EventsOf(r, m, chs))
  BY <1>1 DEF Stream, EventsOf
<1>4. phase' = [phase EXCEPT ![r] = "streaming"] /\ "streaming" \in Phases
  BY <1>2 DEF ChatInv, ServerInv, Phases
<1>5. phase[r] \notin {"none", "accepted", "approval"} \cup Over
  BY <1>2 DEF Over
<1> QED
  BY <1>1, <1>2, <1>3, <1>4, <1>5, Streamed

(* A run says that it must wait, and saves what it said ...                  *)
LEMMA SuspendKeeps ==
  ASSUME ChatInv, NEW r \in Run, NEW kind, NEW chs, Changed(parts[current[r]], chs),
         Suspend(r, kind, chs)
  PROVE  ChatInv'
<1>1. PICK m, p : m = current[r] /\ p = IF kind = "user" THEN "asks_user" ELSE "asks_approval"
  OBVIOUS
<1>2. /\ phase[r] = "streaming" /\ Stream(r, m, chs) /\ rows' = Saved(m, Last(chs).parts)
      /\ phase' = [phase EXCEPT ![r] = p]
      /\ UNCHANGED <<outcome, current, aborted, owner, log, late, conn, command, fetched, faults>>
  BY <1>1 DEF Suspend
<1>3. parts' = [parts EXCEPT ![m] = Last(chs).parts] /\ Emit(EventsOf(r, m, chs))
  BY <1>2 DEF Stream, EventsOf
<1>4. p \in Phases /\ p \notin {"none", "accepted"}
  BY <1>1 DEF Phases
<1>5. phase[r] \notin {"none", "accepted", "approval"} \cup Over
  BY <1>2 DEF Over
<1> QED
  BY <1>1, <1>2, <1>3, <1>4, <1>5, Streamed

(* ... for an approval ...                                                   *)
LEMMA SuspendForApprovalKeeps ==
  ASSUME ChatInv, NEW r \in Run, SuspendForApproval(r)
  PROVE  ChatInv'
<1>1. PICK ps, said, status, use :
        /\ ps = parts[current[r]] /\ said = Say(ps, "progress")
        /\ status = StartPart(Last(said).parts, "status", "none")
        /\ use = StartPart(status.parts, "tool_use", "none")
  OBVIOUS
<1>2. Suspend(r, "approval", said \o <<status, use>>)
  BY <1>1 DEF SuspendForApproval
<1>3. phase[r] = "streaming"
  BY <1>2 DEF Suspend
<1>4. ps \in ServerParts /\ "progress" \in Words /\ "none" \in Words
  BY <1>1, <1>3, CurrentParts DEF Words
<1>5. Changed(ps, said) /\ Last(said).parts \in ServerParts
  BY <1>1, <1>4, SayChanges DEF Changed
<1>6. OneChange(Last(said).parts, status) /\ status.parts \in ServerParts
  BY <1>1, <1>4, <1>5, StartPartChanges DEF OneChange
<1>7. OneChange(status.parts, use)
  BY <1>1, <1>4, <1>6, StartPartChanges
<1>8. Changed(Last(said).parts, <<status, use>>)
  BY <1>5, <1>6, <1>7, ChangedTwice
<1>9. PICK t, w : t = <<status, use>> /\ w = said \o t
  OBVIOUS
<1>10. Joined(w, said, t)
  <2>1. IsList(said) /\ IsList(t)
    BY <1>5, <1>8, <1>9 DEF Changed
  <2> QED
    BY <1>9, <2>1, ListsJoin DEF Joined
<1>11. Changed(ps, w)
  BY <1>4, <1>5, <1>8, <1>9, <1>10, ChangedJoin
<1> QED
  BY <1>1, <1>2, <1>9, <1>11, SuspendKeeps

(* ... or for the user.                                                      *)
LEMMA SuspendForUserKeeps ==
  ASSUME ChatInv, NEW r \in Run, SuspendForUser(r)
  PROVE  ChatInv'
<1>1. PICK ps, said, status :
        /\ ps = parts[current[r]] /\ said = Say(ps, "user_prompt")
        /\ status = StartPart(Last(said).parts, "status", "none")
  OBVIOUS
<1>2. Suspend(r, "user", said \o <<status>>)
  BY <1>1 DEF SuspendForUser
<1>3. phase[r] = "streaming"
  BY <1>2 DEF Suspend
<1>4. ps \in ServerParts /\ "user_prompt" \in Words /\ "none" \in Words
  BY <1>1, <1>3, CurrentParts DEF Words
<1>5. Changed(ps, said) /\ Last(said).parts \in ServerParts
  BY <1>1, <1>4, SayChanges DEF Changed
<1>6. OneChange(Last(said).parts, status)
  BY <1>1, <1>4, <1>5, StartPartChanges
<1>8. Changed(Last(said).parts, <<status>>)
  BY <1>6, ChangedOnce
<1>9. PICK t, w : t = <<status>> /\ w = said \o t
  OBVIOUS
<1>10. Joined(w, said, t)
  <2>1. IsList(said) /\ IsList(t)
    BY <1>5, <1>8, <1>9 DEF Changed
  <2> QED
    BY <1>9, <2>1, ListsJoin DEF Joined
<1>11. Changed(ps, w)
  BY <1>4, <1>5, <1>8, <1>9, <1>10, ChangedJoin
<1> QED
  BY <1>1, <1>2, <1>9, <1>11, SuspendKeeps

-----------------------------------------------------------------------------
(* A run that waits for an approval still does when another run moves.       *)
LEMMA EasedApproval ==
  ASSUME ChatInv, NEW r \in Run, NEW p, phase' = [phase EXCEPT ![r] = p], phase[r] # "approval"
  PROVE  \A q \in Run : phase[q] = "approval" => phase'[q] = "approval"
BY DEF ChatInv, ServerInv

(* The run goes on, and says so by one event. *)
LEMMA RunEmits ==
  ASSUME ChatInv, NEW r \in Run, phase[r] \notin {"none", "accepted", "approval"},
         NEW p \in Phases, p \notin {"none", "accepted"}, phase' = [phase EXCEPT ![r] = p],
         phase[r] \notin Over \/ p \in Over,
         UNCHANGED <<parts, owner, current, rows, faults, log, late, conn, fetched, command>>,
         NEW e, EventOK(e, Said, Said', Kept'), e.type # "approval.required", Emit(<<e>>)
  PROVE  ChatInv'
<1>1. /\ ServerInv /\ DOMAIN rows \subseteq Msg /\ RowsOK(rows, Said)
      /\ parts' \in [Msg -> ServerParts] /\ faults' \in [Faults -> Nat]
  BY DEF ChatInv, ServerInv, RowsOK
<1>2. ServerInv'
  BY <1>1, ServerStep
<1>3. Kept \subseteq Kept'
  BY <1>1, KeptStep
<1>4. Said' = Said /\ \A m \in Msg : AtMost(Said[m], Said'[m])
  BY <1>1, NothingSaid
<1>5. PICK es : es = <<e>>
  OBVIOUS
<1>6. Sound(es, Said, Said', Kept')
  BY <1>5, SoundOnce
<1>7. Steady' => Steady
  BY DEF Steady
<1>8. RowsOK(rows', Said')
  BY <1>1, <1>4
<1> QED
  BY <1>2, <1>3, <1>4, <1>5, <1>6, <1>7, <1>8, EasedApproval, DaemonStep

(* The question to the user is emitted.                                      *)
LEMMA AskUserKeeps ==
  ASSUME ChatInv, NEW r \in Run, AskUser(r)
  PROVE  ChatInv'
<1>1. PICK e : e = RunEvent(r, "clarification.requested")
  OBVIOUS
<1>2. /\ phase[r] = "asks_user" /\ phase' = [phase EXCEPT ![r] = "user"] /\ Emit(<<e>>)
      /\ UNCHANGED <<outcome, current, aborted, owner, parts, rows, log, late, conn, command,
                     fetched, faults>>
  BY <1>1 DEF AskUser
<1>3. EventOK(e, Said, Said', Kept') /\ e.type # "approval.required"
  BY <1>1, RunEventTells
<1>4. phase[r] \notin Over /\ "user" \in Phases
  BY <1>2 DEF Over, Phases
<1> QED
  BY <1>2, <1>3, <1>4, RunEmits

(* The end of a run is emitted.                                              *)
LEMMA EndRunKeeps ==
  ASSUME ChatInv, NEW r \in Run, EndRun(r)
  PROVE  ChatInv'
<1>1. PICK e : e = Event(r, 0, [type |-> "run.ended", outcome |-> outcome[r]])
  OBVIOUS
<1>2. /\ phase[r] = "closing" /\ phase' = [phase EXCEPT ![r] = "ended"] /\ Emit(<<e>>)
      /\ UNCHANGED <<outcome, current, aborted, owner, parts, rows, log, late, conn, command,
                     fetched, faults>>
  BY <1>1 DEF EndRun
<1>3. e.run = r /\ e.type = "run.ended"
  BY <1>1 DEF Event
<1>4. EventOK(e, Said, Said', Kept') /\ e.type # "approval.required"
  BY <1>3 DEF EventOK
<1>5. "ended" \in Over /\ "ended" \in Phases
  BY DEF Over, Phases
<1> QED
  BY <1>2, <1>4, <1>5, RunEmits

(* The event of a single change.                                             *)
LEMMA OneTells ==
  ASSUME NEW N, NEW M, NEW A, NEW ps, NEW ch, OneChange(ps, ch), NEW r \in Run, NEW m \in Msg,
         N[m] = SaidOf(ps), M[m] = SaidOf(ch.parts)
  PROVE  /\ EventOK(Event(r, m, ch.event), N, M, A)
         /\ Event(r, m, ch.event).type # "approval.required"
<1>1. PICK chs : chs = <<ch>>
  OBVIOUS
<1>2. Changed(ps, chs) /\ Last(chs) = ch
  BY <1>1, ChangedOnce
<1>3. Sound(EventsOf(r, m, chs), N, M, A)
  BY <1>2, ChangesTell
<1>4. DOMAIN chs = {1} /\ chs[1] = ch
  BY <1>1
<1>5. DOMAIN EventsOf(r, m, chs) = {1} /\ EventsOf(r, m, chs)[1] = Event(r, m, ch.event)
  BY <1>4 DEF EventsOf
<1>6. 1 \in 1..Len(EventsOf(r, m, chs))
  <2>1. IsList(EventsOf(r, m, chs))
    BY <1>3 DEF Sound
  <2>2. DOMAIN EventsOf(r, m, chs) = 1..Len(EventsOf(r, m, chs))
    BY <2>1, ListFacts
  <2> QED
    BY <1>5, <2>2
<1> QED
  BY <1>3, <1>5, <1>6 DEF Sound

(* A run starts or goes on: it streams, a message starts, a part changes.    *)
LEMMA RunStarts ==
  ASSUME ChatInv, ServerInv', Kept \subseteq Kept', RowsOK(rows', Said'),
         NEW r \in Run, phase' = [phase EXCEPT ![r] = "streaming"],
         NEW m \in Msg, NEW n \in Msg, NEW ch, OneChange(parts[m], ch),
         parts' = [parts EXCEPT ![m] = ch.parts],
         NEW es, NEW e, NEW f, e = Event(r, n, [type |-> "message.started"]),
         f = Event(r, m, ch.event),
         \/ es = <<e, f, RunEvent(r, "run.started")>>
         \/ es = <<f, e, RunEvent(r, "run.started")>>,
         Emit(es), UNCHANGED <<faults, log, late, conn, fetched>>,
         command' = command \/ (command' = NoCommand /\ IsConnected)
  PROVE  ChatInv'
<1>1. PICK qs \in ServerParts : qs = ch.parts /\ AtMost(SaidOf(parts[m]), SaidOf(qs))
  BY DEF OneChange
<1>2. ServerInv
  BY DEF ChatInv
<1>3. /\ \A k \in Msg : AtMost(Said[k], Said'[k])
      /\ Said[m] = SaidOf(parts[m]) /\ Said'[m] = SaidOf(qs)
  BY <1>1, <1>2, PartsStep
<1>4. PICK g : g = RunEvent(r, "run.started")
  OBVIOUS
<1>5. PICK N, M, A, ps : N = Said /\ M = Said' /\ A = Kept' /\ ps = parts[m]
  OBVIOUS
<1>6. EventOK(f, N, M, A) /\ f.type # "approval.required"
  <2>1. OneChange(ps, ch) /\ N[m] = SaidOf(ps) /\ M[m] = SaidOf(ch.parts)
    BY <1>1, <1>3, <1>5
  <2> QED
    BY <2>1, OneTells
<1>7. EventOK(e, N, M, A) /\ e.type = "message.started" /\ e.run = r
  BY StartedTells
<1>8. EventOK(g, N, M, A) /\ g.type = "run.started"
  BY <1>4, RunEventTells
<1>9. Sound(es, N, M, A)
  <2>1. es = <<e, f, g>> \/ es = <<f, e, g>>
    BY <1>4
  <2>2. Sound(<<e, f, g>>, N, M, A) /\ Sound(<<f, e, g>>, N, M, A)
    BY <1>6, <1>7, <1>8, SoundThrice
  <2> QED
    BY <2>1, <2>2
<1>10. \E i \in 1..Len(es) : es[i].type = "message.started" /\ es[i].run = r
  <2>1. CASE es = <<e, f, g>>
    <3>1. Len(es) = 3 /\ es[1] = e
      BY <2>1
    <3>2. 1 \in 1..Len(es)
      BY <3>1
    <3> QED
      BY <1>7, <3>1, <3>2
  <2>2. CASE es = <<f, e, g>>
    <3>1. Len(es) = 3 /\ es[2] = e
      BY <2>2
    <3>2. 2 \in 1..Len(es)
      BY <3>1
    <3> QED
      BY <1>7, <3>1, <3>2
  <2> QED
    BY <1>4, <2>1, <2>2
<1>11. \A q \in Run : phase[q] = "approval" /\ phase'[q] # "approval" => q = r
  BY <1>2 DEF ServerInv
<1>12. Steady' => Steady
  BY DEF Steady
<1> QED
  BY <1>3, <1>5, <1>9, <1>10, <1>11, <1>12, DaemonStep

(* A run starts its first message.                                           *)
LEMMA StartRunKeeps ==
  ASSUME ChatInv, NEW r \in Run, StartRun(r)
  PROVE  ChatInv'
<1>1. PICK first : first = StartPart(<<>>, "status", "none")
  OBVIOUS
<1>2. PICK m \in FreeMsg :
        /\ owner' = [owner EXCEPT ![m] = r] /\ current' = [current EXCEPT ![r] = m]
        /\ parts' = [parts EXCEPT ![m] = first.parts]
        /\ Emit(<<Event(r, m, [type |-> "message.started"]), Event(r, m, first.event),
                  RunEvent(r, "run.started")>>)
  BY <1>1 DEF StartRun
<1>3. /\ phase[r] = "accepted" /\ phase' = [phase EXCEPT ![r] = "streaming"]
      /\ UNCHANGED <<outcome, aborted, rows, log, late, conn, command, fetched, faults>>
  BY DEF StartRun
<1>4. /\ ServerInv /\ RowsOK(rows, Said) /\ DOMAIN rows \subseteq Msg
      /\ m \in Msg /\ owner[m] = NoRun /\ parts[m] = <<>> /\ parts[m] \in ServerParts
      /\ faults' \in [Faults -> Nat]
  BY <1>2, <1>3 DEF ChatInv, ServerInv, RowsOK, FreeMsg
<1>5. OneChange(parts[m], first)
  <2>1. "none" \in Words
    BY DEF Words
  <2> QED
    BY <1>1, <1>4, <2>1, StartPartChanges
<1>6. PICK qs \in ServerParts : qs = first.parts /\ AtMost(SaidOf(parts[m]), SaidOf(qs))
  BY <1>5 DEF OneChange
<1>7. /\ parts' \in [Msg -> ServerParts] /\ \A k \in Msg : AtMost(Said[k], Said'[k])
      /\ \A k \in Msg : k # m => parts'[k] = parts[k]
  BY <1>2, <1>4, <1>6, PartsStep
<1>8. ServerInv'
  <2>1. "streaming" \in Phases
    BY DEF Phases
  <2> QED
    BY <1>2, <1>3, <1>4, <1>7, <2>1, ServerStep
<1>9. Kept \subseteq Kept'
  BY <1>2, <1>3, <1>4, KeptStep DEF Over
<1>10. RowsOK(rows', Said')
  <2>1. PICK rs : rs = rows
    OBVIOUS
  <2>2. RowsOK(rs, Said')
    BY <1>4, <1>7, <2>1, RowsStep
  <2> QED
    BY <1>3, <2>1, <2>2
<1>11. PICK es, e, f : /\ e = Event(r, m, [type |-> "message.started"])
                       /\ f = Event(r, m, first.event)
                       /\ es = <<e, f, RunEvent(r, "run.started")>>
  OBVIOUS
<1>12. Emit(es)
  BY <1>2, <1>11
<1> QED
  BY <1>2, <1>3, <1>4, <1>5, <1>8, <1>9, <1>10, <1>11, <1>12, RunStarts

(* An approved run goes on in its message.                                   *)
LEMMA ApproveKeeps ==
  ASSUME ChatInv, NEW r \in Run, Approve(r)
  PROVE  ChatInv'
<1>1. PICK m, i, done : /\ m = current[r] /\ i = CHOOSE j \in WaitingDone(parts[m]) : TRUE
                        /\ done = UpdateStatus(parts[m], i, "completed")
  OBVIOUS
<1>2. /\ phase[r] = "approval" /\ phase' = [phase EXCEPT ![r] = "streaming"]
      /\ parts' = [parts EXCEPT ![m] = done.parts]
      /\ Emit(<<Event(r, m, [type |-> "message.started"]), Event(r, m, done.event),
                RunEvent(r, "run.started")>>)
      /\ UNCHANGED <<outcome, current, aborted, owner, rows, log, late, conn, command, fetched, faults>>
  BY <1>1 DEF Approve
<1>3. parts[m] \in ServerParts /\ m \in Msg /\ owner[m] = r /\ NoRun # r
  BY <1>1, <1>2, CurrentParts, Ids
<1>4. OneChange(parts[m], done)
  <2>1. "completed" \in Words
    BY DEF Words
  <2> QED
    BY <1>1, <1>3, <2>1, StatusChanges
<1>5. PICK qs \in ServerParts : qs = done.parts /\ AtMost(SaidOf(parts[m]), SaidOf(qs))
  BY <1>4 DEF OneChange
<1>6. ServerInv /\ RowsOK(rows, Said) /\ DOMAIN rows \subseteq Msg /\ faults' \in [Faults -> Nat]
  BY <1>2 DEF ChatInv, ServerInv, RowsOK
<1>7. /\ parts' \in [Msg -> ServerParts] /\ \A k \in Msg : AtMost(Said[k], Said'[k])
      /\ \A k \in Msg : k # m => parts'[k] = parts[k]
  BY <1>2, <1>3, <1>5, <1>6, PartsStep
<1>8. ServerInv'
  <2>1. "streaming" \in Phases
    BY DEF Phases
  <2>2. \A k \in Msg : owner[k] = NoRun => parts'[k] = parts[k]
    BY <1>3, <1>7
  <2> QED
    BY <1>2, <1>6, <1>7, <2>1, <2>2, ServerStep
<1>9. Kept \subseteq Kept'
  BY <1>2, <1>6, KeptStep DEF Over
<1>10. RowsOK(rows', Said')
  <2>1. PICK rs : rs = rows
    OBVIOUS
  <2>2. RowsOK(rs, Said')
    BY <1>6, <1>7, <2>1, RowsStep
  <2> QED
    BY <1>2, <2>1, <2>2
<1>11. PICK es, e, f : /\ e = Event(r, m, [type |-> "message.started"])
                       /\ f = Event(r, m, done.event)
                       /\ es = <<e, f, RunEvent(r, "run.started")>>
  OBVIOUS
<1>12. Emit(es)
  BY <1>2, <1>11
<1> QED
  BY <1>2, <1>3, <1>4, <1>8, <1>9, <1>10, <1>11, <1>12, RunStarts

-----------------------------------------------------------------------------
(* Only the composer changes. *)
LEMMA ClosedPage ==
  ASSUME NEW N, NEW M, NEW A, NEW c, PageOK(c, N, M, A)
  PROVE  /\ PageOK(Closed(c), N, M, A) /\ PageOK(Stopped(c), N, M, A) /\ PageOK(Sent(c), N, M, A)
         /\ Closed(c).pending = FALSE /\ Stopped(c).pending = FALSE
         /\ Sent(c).pending = TRUE /\ Sent(c).timer = TRUE
<1>1. c \in Client
  BY DEF PageOK
<1>2. /\ Closed(c) \in Client /\ Closed(c).msgs = c.msgs /\ Closed(c).lastDelta = c.lastDelta
      /\ Closed(c).pending = FALSE
  BY <1>1 DEF Client, Closed
<1>3. /\ Stopped(c) \in Client /\ Stopped(c).msgs = c.msgs /\ Stopped(c).lastDelta = c.lastDelta
      /\ Stopped(c).pending = FALSE
  BY <1>1 DEF Client, Stopped
<1>4. /\ Sent(c) \in Client /\ Sent(c).msgs = c.msgs /\ Sent(c).lastDelta = c.lastDelta
      /\ Sent(c).pending = TRUE /\ Sent(c).timer = TRUE
  <2>1. c.placeholders \in Nat
    BY <1>1 DEF Client
  <2>2. PICK n \in Nat : n = c.placeholders + 1
    BY <2>1
  <2>3. Sent(c) = [c EXCEPT !.pending = TRUE, !.timer = TRUE, !.placeholders = n]
    BY <2>2 DEF Sent
  <2> QED
    BY <1>1, <2>3 DEF Client
<1> QED
  BY <1>2, <1>3, <1>4, SamePage

(* run.resume closes the waiting message and starts another, or is refused.  *)
LEMMA AcceptResumeKeeps ==
  ASSUME ChatInv, AcceptResume
  PROVE  ChatInv'
<1>1. PICK r, m, i, done : /\ r = command.run /\ m = current[r]
                           /\ i = CHOOSE j \in WaitingDone(parts[m]) : TRUE
                           /\ done = UpdateStatus(parts[m], i, "completed")
  OBVIOUS
<1>2. /\ IsConnected /\ command.kind = "resume" /\ command' = NoCommand
      /\ UNCHANGED <<outcome, aborted, log, late, conn, fetched, faults>>
  BY DEF AcceptResume
<1>3. /\ r \in Run /\ ServerInv /\ RowsOK(rows, Said) /\ DOMAIN rows \subseteq Msg
      /\ faults' \in [Faults -> Nat]
  BY <1>1, <1>2 DEF ChatInv, WireInv, ServerInv, RowsOK
<1>4. CASE phase[r] = "user"
  <2>1. PICK n \in FreeMsg :
          /\ phase' = [phase EXCEPT ![r] = "streaming"]
          /\ owner' = [owner EXCEPT ![n] = r] /\ current' = [current EXCEPT ![r] = n]
          /\ parts' = [parts EXCEPT ![m] = done.parts] /\ rows' = Saved(m, done.parts)
          /\ Emit(<<Event(r, m, done.event), Event(r, n, [type |-> "message.started"]),
                    RunEvent(r, "run.started")>>)
    BY <1>1, <1>4 DEF AcceptResume
  <2>2. parts[m] \in ServerParts /\ m \in Msg /\ owner[m] = r /\ NoRun # r
    BY <1>1, <1>3, <1>4, CurrentParts, Ids
  <2>3. OneChange(parts[m], done)
    <3>1. "completed" \in Words
      BY DEF Words
    <3> QED
      BY <1>1, <2>2, <3>1, StatusChanges
  <2>4. PICK qs \in ServerParts : qs = done.parts /\ AtMost(SaidOf(parts[m]), SaidOf(qs))
    BY <2>3 DEF OneChange
  <2>5. n \in Msg /\ owner[n] = NoRun
    BY DEF FreeMsg
  <2>6. /\ parts' \in [Msg -> ServerParts] /\ \A k \in Msg : AtMost(Said[k], Said'[k])
        /\ Said'[m] = SaidOf(qs) /\ \A k \in Msg : k # m => parts'[k] = parts[k]
    BY <1>3, <2>1, <2>2, <2>4, PartsStep
  <2>7. ServerInv'
    <3>1. "streaming" \in Phases
      BY DEF Phases
    <3>2. \A k \in Msg : owner[k] = NoRun => parts'[k] = parts[k]
      BY <2>2, <2>6
    <3> QED
      BY <1>3, <2>1, <2>5, <2>6, <3>1, <3>2, ServerStep
  <2>8. Kept \subseteq Kept'
    <3>1. phase[r] \notin Over
      BY <1>4 DEF Over
    <3> QED
      BY <1>3, <2>1, <2>2, <2>5, <3>1, KeptStep
  <2>9. RowsOK(rows', Said')
    <3>1. AtMost(SaidOf(qs), Said'[m])
      <4>1. SaidOf(qs) \in [Nat -> Nat]
        BY ServerIs
      <4> QED
        BY <2>6, <4>1, AtMostSame
    <3> QED
      BY <1>3, <2>1, <2>2, <2>4, <2>6, <3>1, SavedStep
  <2>10. PICK es, e, f : /\ e = Event(r, n, [type |-> "message.started"])
                         /\ f = Event(r, m, done.event)
                         /\ es = <<f, e, RunEvent(r, "run.started")>>
    OBVIOUS
  <2>11. Emit(es)
    BY <2>1, <2>10
  <2> QED
    BY <1>2, <1>3, <2>1, <2>2, <2>3, <2>5, <2>7, <2>8, <2>9, <2>10, <2>11, RunStarts
<1>5. CASE phase[r] # "user"
  <2>1. client' = Closed(client) /\ UNCHANGED <<phase, owner, current, parts, rows, queue>>
    BY <1>1, <1>5 DEF AcceptResume
  <2>2. UNCHANGED server /\ UNCHANGED <<queue, log, late>> /\ UNCHANGED <<conn, fetched, faults>>
    BY <1>2, <2>1 DEF server
  <2>3. ReplayOK(conn'.replay, Said, Kept)
    BY <1>2, ListsNow
  <2>4. ServerInv' /\ RowsOK(rows', Said') /\ EventsInv' /\ Said' = Said /\ Kept' = Kept
        /\ \A q \in Run : phase'[q] = phase[q]
    BY <1>3, <2>2, <2>3, PageStep
  <2>5. PageOK(client', Said, Said, Kept) /\ ~client'.pending
    BY <2>1, ClosedPage DEF ChatInv, PageInv
  <2>6. PageInv'
    BY <2>4, <2>5 DEF PageInv
  <2>7. WireInv'
    BY <1>2, <2>4 DEF ChatInv, WireInv, NoCommand
  <2>8. LockInv'
    BY <2>2, <2>5 DEF ChatInv, LockInv, Steady, NothingFetched, NoAnswer
  <2> QED
    BY <2>4, <2>6, <2>7, <2>8 DEF ChatInv
<1> QED
  BY <1>4, <1>5

-----------------------------------------------------------------------------
(* The message is closed: saved and announced, or neither announced.         *)
LEMMA CloseKeeps ==
  ASSUME ChatInv, NEW r \in Run, phase[r] \in {"streaming", "failing"}, NEW how, NEW chs,
         Changed(parts[current[r]], chs), Close(r, chs, how)
  PROVE  ChatInv'
<1>1. PICK m, ps, qs, final, es :
        /\ m = current[r] /\ ps = parts[m] /\ qs = Last(chs).parts
        /\ final = CompleteOpenParts(qs, how) /\ es = EventsOf(r, m, chs)
  OBVIOUS
<1>2. /\ Complete(r, qs, es, how)
      /\ UNCHANGED <<current, aborted, owner, log, late, conn, command, fetched>>
  BY <1>1 DEF Close, EventsOf
<1>3. /\ ps \in ServerParts /\ m \in Msg /\ owner[m] = r /\ NoRun # r /\ phase[r] \notin Over
  BY <1>1, CurrentParts, Ids DEF Over
<1>4. Changed(ps, chs) /\ qs \in ServerParts /\ AtMost(SaidOf(ps), SaidOf(qs))
  BY <1>1 DEF Changed
<1>5. final \in ServerParts /\ SaidOf(final) = SaidOf(qs) /\ SaidOf(qs) \in [Nat -> Nat]
  BY <1>1, <1>4, ClosedParts, ServerIs
<1>6. ServerInv /\ RowsOK(rows, Said) /\ DOMAIN rows \subseteq Msg /\ faults \in [Faults -> Nat]
  BY DEF ChatInv, ServerInv, RowsOK
<1>7. ASSUME NEW new \in ServerParts, SaidOf(new) = SaidOf(qs), parts' = [parts EXCEPT ![m] = new],
             NEW p \in {"closing", "failing"}, phase' = [phase EXCEPT ![r] = p],
             faults' \in [Faults -> Nat], rows' = rows \/ rows' = Saved(m, final)
      PROVE  /\ ServerInv' /\ Kept \subseteq Kept' /\ RowsOK(rows', Said')
             /\ \A k \in Msg : AtMost(Said[k], Said'[k])
             /\ Sound(es, Said, Said', Kept') /\ Said'[m] = SaidOf(qs)
             /\ \A q \in Run : phase[q] = "approval" => phase'[q] = "approval"
  <2>1. /\ parts' \in [Msg -> ServerParts] /\ \A k \in Msg : AtMost(Said[k], Said'[k])
        /\ Said[m] = SaidOf(ps) /\ Said'[m] = SaidOf(new)
        /\ \A k \in Msg : k # m => parts'[k] = parts[k]
    <3>1. AtMost(SaidOf(parts[m]), SaidOf(new))
      BY <1>1, <1>4, <1>7
    <3> QED
      BY <1>1, <1>3, <1>6, <1>7, <3>1, PartsStep
  <2>2. ServerInv'
    <3>1. p \in Phases /\ p \notin {"none", "accepted"} /\ phase[r] \notin {"none", "accepted"}
      BY DEF Phases
    <3>2. \A k \in Msg : owner[k] = NoRun => parts'[k] = parts[k]
      BY <1>3, <2>1
    <3> QED
      BY <1>2, <1>6, <1>7, <2>1, <3>1, <3>2, ServerStep
  <2>3. Kept \subseteq Kept'
    BY <1>2, <1>3, <1>6, <1>7, KeptStep
  <2>4. RowsOK(rows', Said')
    <3>1. CASE rows' = rows
      <4>1. PICK rs : rs = rows
        OBVIOUS
      <4>2. RowsOK(rs, Said')
        BY <1>6, <2>1, <4>1, RowsStep
      <4> QED
        BY <3>1, <4>1, <4>2
    <3>2. CASE rows' = Saved(m, final)
      <4>1. AtMost(SaidOf(final), Said'[m])
        BY <1>5, <1>7, <2>1, AtMostSame
      <4> QED
        BY <1>3, <1>5, <1>6, <2>1, <3>2, <4>1, SavedStep
    <3> QED
      BY <1>7, <3>1, <3>2
  <2>5. Sound(es, Said, Said', Kept')
    <3>1. PICK N, M, A : N = Said /\ M = Said' /\ A = Kept'
      OBVIOUS
    <3>2. N[m] = SaidOf(ps) /\ M[m] = SaidOf(Last(chs).parts)
      BY <1>1, <1>7, <2>1, <3>1
    <3>3. Sound(EventsOf(r, m, chs), N, M, A)
      BY <1>3, <1>4, <3>2, ChangesTell
    <3> QED
      BY <1>1, <3>1, <3>3
  <2>6. phase[r] # "approval"
    OBVIOUS
  <2> QED
    BY <1>7, <2>1, <2>2, <2>3, <2>4, <2>5, <2>6, EasedApproval
<1>8. CASE /\ parts' = [parts EXCEPT ![m] = final] /\ rows' = Saved(m, final)
           /\ Emit(es \o <<Event(r, m, Completed(final))>>)
           /\ phase' = [phase EXCEPT ![r] = "closing"] /\ UNCHANGED faults
  <2>1. /\ ServerInv' /\ Kept \subseteq Kept' /\ RowsOK(rows', Said')
        /\ \A k \in Msg : AtMost(Said[k], Said'[k])
        /\ Sound(es, Said, Said', Kept') /\ Said'[m] = SaidOf(qs)
        /\ \A q \in Run : phase[q] = "approval" => phase'[q] = "approval"
    BY <1>5, <1>6, <1>7, <1>8
  <2>2. <<m, MergeContent(final)>> \in Kept'
    <3>1. m \in DOMAIN rows' /\ rows'[m] = final
      BY <1>8 DEF Saved
    <3>2. owner'[m] = r /\ phase'[r] \in Over
      BY <1>2, <1>3, <1>6, <1>8 DEF ServerInv, Over
    <3> QED
      BY <3>1, <3>2 DEF Kept
  <2>3. PICK e, N, M, A : e = Event(r, m, Completed(final)) /\ N = Said /\ M = Said' /\ A = Kept'
    OBVIOUS
  <2>4. AtMost(SaidOf(final), M[m])
    BY <1>5, <2>1, <2>3, AtMostSame
  <2>5. EventOK(e, N, M, A) /\ e.type = "message.completed"
    BY <1>3, <1>5, <2>2, <2>3, <2>4, CompletedTells
  <2>6. PICK t, w : t = <<e>> /\ w = es \o t
    OBVIOUS
  <2>7. Sound(t, N, M, A) /\ Sound(es, N, M, A)
    BY <2>1, <2>3, <2>5, <2>6, SoundOnce
  <2>8. Sound(w, N, M, A)
    BY <2>6, <2>7, SoundJoin
  <2>9. Emit(w) /\ Sound(w, Said, Said', Kept')
    BY <1>8, <2>3, <2>6, <2>8
  <2>10. Steady' => Steady
    BY <1>8 DEF Steady
  <2> QED
    BY <1>2, <2>1, <2>9, <2>10, DaemonStep
<1>9. CASE /\ Fault("save") /\ parts' = [parts EXCEPT ![m] = qs] /\ rows' \in {rows, Saved(m, final)}
           /\ Emit(es)
           /\ phase' = [phase EXCEPT ![r] = IF how = "completed" THEN "failing" ELSE "closing"]
  <2>1. faults' \in [Faults -> Nat] /\ (Steady' => Steady)
    BY <1>6, <1>9, FaultCounts
  <2>2. PICK p \in {"closing", "failing"} : phase' = [phase EXCEPT ![r] = p]
    BY <1>9
  <2>3. /\ ServerInv' /\ Kept \subseteq Kept' /\ RowsOK(rows', Said')
        /\ \A k \in Msg : AtMost(Said[k], Said'[k])
        /\ Sound(es, Said, Said', Kept') /\ Said'[m] = SaidOf(qs)
        /\ \A q \in Run : phase[q] = "approval" => phase'[q] = "approval"
    BY <1>4, <1>7, <1>9, <2>1, <2>2
  <2> QED
    BY <1>2, <1>9, <2>1, <2>3, DaemonStep
<1> QED
  BY <1>1, <1>2, <1>8, <1>9 DEF Complete

(* The last turn closes the message: saved first, then announced.            *)
LEMMA AnswerKeeps ==
  ASSUME ChatInv, NEW r \in Run, Answer(r)
  PROVE  ChatInv'
<1>1. PICK ps : ps = parts[current[r]]
  OBVIOUS
<1>2. phase[r] = "streaming"
  BY DEF Answer
<1>3. /\ ps \in ServerParts /\ DOMAIN ps = 1..Len(ps) /\ Len(ps) \in Nat /\ "final" \in Words
  BY <1>1, <1>2, CurrentParts DEF Words
<1>4. PICK a, b : a = <<UpdateTextPartRole(ps, Len(ps), "final")>> /\ b = Say(ps, "final")
  OBVIOUS
<1>5. (ps # <<>> /\ Close(r, a, "completed")) \/ Close(r, b, "completed")
  BY <1>1, <1>4 DEF Answer
<1>6. ASSUME ps # <<>> PROVE Changed(ps, a)
  <2>1. ps \in Seq(Part)
    BY <1>3, ServerIs
  <2>2. Len(ps) \in 1..Len(ps)
    BY <1>3, <1>6, <2>1
  <2>3. OneChange(ps, UpdateTextPartRole(ps, Len(ps), "final"))
    BY <1>3, <2>2, FieldChanges
  <2> QED
    BY <1>4, <2>3, ChangedOnce
<1>7. Changed(ps, b)
  BY <1>3, <1>4, SayChanges
<1> QED
  BY <1>1, <1>2, <1>5, <1>6, <1>7, CloseKeeps

(* A failed run closes its message ...                                       *)
LEMMA FailRunKeeps ==
  ASSUME ChatInv, NEW r \in Run, FailRun(r)
  PROVE  ChatInv'
<1>1. PICK ps, ch, chs : /\ ps = parts[current[r]] /\ ch = StartPart(ps, "error", "none")
                         /\ chs = <<ch>>
  OBVIOUS
<1>2. phase[r] \in {"streaming", "failing"} /\ Close(r, chs, "failed")
  BY <1>1 DEF FailRun
<1>3. ps \in ServerParts /\ "none" \in Words
  BY <1>1, <1>2, CurrentParts DEF Words
<1>4. OneChange(ps, ch)
  BY <1>1, <1>3, StartPartChanges
<1>5. Changed(ps, chs)
  BY <1>1, <1>4, ChangedOnce
<1> QED
  BY <1>1, <1>2, <1>5, CloseKeeps

(* ... and so does a cancelled one.                                          *)
LEMMA CancelRunKeeps ==
  ASSUME ChatInv, NEW r \in Run, CancelRun(r)
  PROVE  ChatInv'
<1>1. PICK ps, chs : ps = parts[current[r]] /\ chs = Say(ps, "final")
  OBVIOUS
<1>2. phase[r] = "streaming" /\ Close(r, chs, "cancelled")
  BY <1>1 DEF CancelRun
<1>3. ps \in ServerParts /\ "final" \in Words
  BY <1>1, <1>2, CurrentParts DEF Words
<1>4. Changed(ps, chs)
  BY <1>1, <1>3, SayChanges
<1> QED
  BY <1>1, <1>2, <1>4, CloseKeeps

-----------------------------------------------------------------------------
(* The page's own steps leave the lock open as soon as they unlock it.       *)
LEMMA SendKeeps ==
  ASSUME ChatInv, Send
  PROVE  ChatInv'
<1>1. /\ client' = Sent(client)
      /\ command' = IF client.waiting = NoRun THEN [kind |-> "send", run |-> NoRun]
                    ELSE [kind |-> "resume", run |-> client.waiting]
      /\ UNCHANGED <<queue, log, late, conn, fetched, faults>> /\ UNCHANGED server
  BY DEF Send
<1>2. faults' \in [Faults -> Nat] /\ ReplayOK(conn'.replay, Said, Kept)
  BY <1>1, ListsNow DEF ChatInv, ServerInv
<1>3. ServerInv' /\ RowsOK(rows', Said') /\ EventsInv' /\ Said' = Said /\ Kept' = Kept
      /\ \A q \in Run : phase'[q] = phase[q]
  BY <1>1, <1>2, PageStep
<1>4. PageOK(client', Said, Said, Kept) /\ client'.pending = TRUE /\ client'.timer = TRUE
  BY <1>1, ClosedPage DEF ChatInv, PageInv
<1>5. PageInv'
  BY <1>3, <1>4 DEF PageInv
<1>6. client.waiting \in Run \cup {NoRun}
  BY DEF ChatInv, PageInv, PageOK, Client
<1>7. command'.kind \in {"send", "resume"} /\ (command'.kind = "resume" => command'.run \in Run)
  BY <1>1, <1>6
<1>8. WireInv'
  BY <1>1, <1>3, <1>7 DEF ChatInv, WireInv
<1>9. LockInv'
  BY <1>1, <1>4, <1>7 DEF ChatInv, LockInv, Steady, NothingFetched, NoAnswer
<1> QED
  BY <1>3, <1>5, <1>8, <1>9 DEF ChatInv

(* A closed socket has nothing to replay.                                    *)
LEMMA OfflineIs ==
  /\ DOMAIN Offline = {"st", "from", "replay"} /\ Offline.from \in Nat
  /\ \A N, A : ReplayOK(Offline.replay, N, A)
<1>1. Offline.replay = <<>> /\ Len(<<>>) = 0
  BY DEF Offline
<1>2. \A N, A : ReplayOK(<<>>, N, A)
  BY <1>1 DEF ReplayOK
<1> QED
  BY <1>1, <1>2 DEF Offline

(* The stop button frees the composer, and drops a request only as a fault.  *)
LEMMA StopKeeps ==
  ASSUME ChatInv, Stop
  PROVE  ChatInv'
<1>1. /\ client.pending \/ client.active # NoRun
      /\ client' = Stopped(client)
      /\ UNCHANGED <<queue, log, late, fetched>> /\ UNCHANGED server
  BY DEF Stop
<1>2. \/ /\ IsConnected /\ client.active # NoRun
         /\ command' = [kind |-> "stop", run |-> client.active] /\ UNCHANGED <<conn, faults>>
      \/ /\ ~(IsConnected /\ client.active # NoRun)
         /\ conn' = Offline /\ command' = NoCommand
         /\ \/ IsConnected /\ command # NoCommand /\ Fault("drop")
            \/ ~(IsConnected /\ command # NoCommand) /\ UNCHANGED faults
  BY DEF Stop
<1>3. ServerInv
  BY DEF ChatInv
<1>4. faults' \in [Faults -> Nat]
  BY <1>2, <1>3, FaultCounts DEF ServerInv
<1>5. /\ ReplayOK(conn'.replay, Said, Kept) /\ DOMAIN conn' = {"st", "from", "replay"}
      /\ conn'.from \in Nat
  <2>1. CASE conn' = conn
    BY <2>1, ListsNow DEF ChatInv, WireInv
  <2>2. CASE conn' = Offline
    BY <2>2, OfflineIs
  <2> QED
    BY <1>2, <2>1, <2>2
<1>6. ServerInv' /\ RowsOK(rows', Said') /\ EventsInv' /\ Said' = Said /\ Kept' = Kept
      /\ \A q \in Run : phase'[q] = phase[q]
  BY <1>1, <1>4, <1>5, PageStep
<1>7. PageOK(client', Said, Said, Kept) /\ client'.pending = FALSE
  BY <1>1, ClosedPage DEF ChatInv, PageInv
<1>8. PageInv'
  BY <1>6, <1>7 DEF PageInv
<1>9. command'.kind # "resume"
  BY <1>2 DEF NoCommand
<1>10. WireInv'
  BY <1>1, <1>5, <1>6, <1>9 DEF ChatInv, WireInv
<1>11. LockInv'
  <2> SUFFICES ASSUME Steady' PROVE conn'.st = "on" /\ fetched' = NothingFetched
    BY <1>7 DEF LockInv, NothingFetched, NoAnswer
  <2>1. Steady
    BY <1>2, <1>3, FaultCounts DEF Steady
  <2>2. /\ conn.st = "on" /\ fetched = NothingFetched
        /\ client.pending /\ client.active = NoRun => command.kind \in {"send", "resume"}
    BY <2>1 DEF ChatInv, LockInv
  <2>3. IsConnected
    BY <2>2 DEF IsConnected
  <2>4. CASE client.active # NoRun
    BY <1>1, <1>2, <2>2, <2>3, <2>4
  <2>5. CASE client.active = NoRun
    <3>1. command.kind \in {"send", "resume"}
      BY <1>1, <2>2, <2>5
    <3>2. command # NoCommand
      BY <3>1 DEF NoCommand
    <3>3. Fault("drop")
      BY <1>2, <2>3, <2>5, <3>2
    <3> QED
      BY <1>3, <3>3, FaultCounts
  <2> QED
    BY <2>4, <2>5
<1> QED
  BY <1>6, <1>8, <1>10, <1>11 DEF ChatInv

(* So does the response timer.                                               *)
LEMMA TimerFiresKeeps ==
  ASSUME ChatInv, TimerFires
  PROVE  ChatInv'
<1>1. /\ client' = [client EXCEPT !.pending = FALSE, !.timer = FALSE]
      /\ UNCHANGED <<queue, log, late, conn, command, fetched, faults>> /\ UNCHANGED server
  BY DEF TimerFires
<1>2. client' = Closed(client)
  BY <1>1 DEF Closed
<1>3. faults' \in [Faults -> Nat] /\ ReplayOK(conn'.replay, Said, Kept)
  BY <1>1, ListsNow DEF ChatInv, ServerInv
<1>4. ServerInv' /\ RowsOK(rows', Said') /\ EventsInv' /\ Said' = Said /\ Kept' = Kept
      /\ \A q \in Run : phase'[q] = phase[q]
  BY <1>1, <1>3, PageStep
<1>5. PageOK(client', Said, Said, Kept) /\ client'.pending = FALSE
  BY <1>2, ClosedPage DEF ChatInv, PageInv
<1>6. PageInv'
  BY <1>4, <1>5 DEF PageInv
<1>7. WireInv'
  BY <1>1, <1>4 DEF ChatInv, WireInv
<1>8. LockInv'
  BY <1>1, <1>5 DEF ChatInv, LockInv, Steady, NothingFetched, NoAnswer
<1> QED
  BY <1>4, <1>6, <1>7, <1>8 DEF ChatInv

(* A socket that is lost takes its request with it.                          *)
LEMMA DropKeeps ==
  ASSUME ChatInv, Drop
  PROVE  ChatInv'
<1>1. /\ Fault("drop") /\ conn' = Offline /\ client' = Closed(client) /\ command' = NoCommand
      /\ UNCHANGED <<queue, log, late, fetched>> /\ UNCHANGED server
  BY DEF Drop
<1>2. faults' \in [Faults -> Nat] /\ ~Steady'
  BY <1>1, FaultCounts DEF ChatInv
<1>3. /\ ReplayOK(conn'.replay, Said, Kept) /\ DOMAIN conn' = {"st", "from", "replay"}
      /\ conn'.from \in Nat
  BY <1>1, OfflineIs
<1>4. ServerInv' /\ RowsOK(rows', Said') /\ EventsInv' /\ Said' = Said /\ Kept' = Kept
  BY <1>1, <1>2, <1>3, PageStep
<1>5. PageInv'
  BY <1>1, <1>4, ClosedPage DEF ChatInv, PageInv
<1>6. WireInv'
  BY <1>1, <1>3, <1>4 DEF ChatInv, WireInv, NoCommand
<1> QED
  BY <1>2, <1>4, <1>5, <1>6 DEF ChatInv, LockInv

(* A new socket asks for what was missed.                                    *)
LEMMA ConnectKeeps ==
  ASSUME ChatInv, Connect
  PROVE  ChatInv'
<1>1. /\ conn.st = "off"
      /\ conn' = [st |-> IF client.lastSeq > 0 THEN "asking" ELSE "on",
                  from |-> client.lastSeq, replay |-> <<>>]
      /\ UNCHANGED <<queue, log, late, client, command, fetched, faults>> /\ UNCHANGED server
  BY DEF Connect
<1>2. client.lastSeq \in Nat
  BY DEF ChatInv, PageInv, PageOK, Client
<1>3. /\ conn'.replay = <<>> /\ DOMAIN conn' = {"st", "from", "replay"} /\ conn'.from \in Nat
  BY <1>1, <1>2
<1>4. ReplayOK(conn'.replay, Said, Kept)
  <2>1. Offline.replay = <<>>
    BY DEF Offline
  <2> QED
    BY <1>3, <2>1, OfflineIs
<1>5. faults' \in [Faults -> Nat]
  BY <1>1 DEF ChatInv, ServerInv
<1>6. ServerInv' /\ RowsOK(rows', Said') /\ EventsInv' /\ Said' = Said /\ Kept' = Kept
  BY <1>1, <1>4, <1>5, PageStep
<1>7. PageInv' /\ WireInv'
  BY <1>1, <1>3, <1>6 DEF ChatInv, PageInv, WireInv
<1>8. ~Steady'
  BY <1>1 DEF ChatInv, LockInv, Steady
<1> QED
  BY <1>6, <1>7, <1>8 DEF ChatInv, LockInv

(* A replay is of events that were written.                                  *)
LEMMA ReadReplayKeeps ==
  ASSUME ChatInv, ReadReplay
  PROVE  ChatInv'
<1>1. /\ conn.st = "asking"
      /\ conn' = [conn EXCEPT !.st = "replaying",
                    !.replay = [i \in 1 .. Len(log) - conn.from |-> <<log[conn.from + i], conn.from + i>>]]
      /\ UNCHANGED <<queue, log, late, client, command, fetched, faults>> /\ UNCHANGED server
  BY DEF ReadReplay
<1>2. /\ DOMAIN conn = {"st", "from", "replay"} /\ conn.from \in Nat
  BY DEF ChatInv, WireInv
<1>3. PICK from, n, es : /\ from = conn.from /\ n = Len(log) - from
                         /\ es = [i \in 1 .. n |-> <<log[from + i], from + i>>]
  OBVIOUS
<1>4. DOMAIN conn' = {"st", "from", "replay"} /\ conn'.from \in Nat /\ conn'.replay = es
  BY <1>1, <1>2, <1>3
<1>5. /\ Len(log) \in Nat /\ Stored(log, Said, Kept)
  BY ListsNow
<1>6. ReplayOK(es, Said, Kept)
  <2>1. n \in Int
    BY <1>2, <1>3, <1>5
  <2>2. PICK k \in Nat : 1..n = 1..k /\ (k = 0 \/ from + k <= Len(log))
    <3>1. CASE n >= 0
      <4>1. n \in Nat /\ from + n <= Len(log)
        BY <1>2, <1>3, <1>5, <2>1, <3>1
      <4> QED
        BY <4>1
    <3>2. CASE ~(n >= 0)
      <4>1. 1..n = 1..0 /\ 0 \in Nat
        BY <2>1, <3>2
      <4> QED
        BY <4>1
    <3> QED
      BY <3>1, <3>2
  <2>3. es = [i \in 1..k |-> <<log[from + i], from + i>>]
    BY <1>3, <2>2
  <2>4. Len(es) = k
    BY <2>3
  <2>5. ASSUME NEW i \in 1..k
        PROVE  EventOK(es[i][1], Said, Said, Kept) /\ es[i][1].type # "part.delta" /\ es[i][2] \in Nat
    <3>1. es[i][1] = log[from + i] /\ es[i][2] = from + i
      BY <2>3
    <3>2. from + i \in 1..Len(log) /\ from + i \in Nat
      BY <1>2, <1>3, <1>5, <2>2
    <3> QED
      BY <1>5, <3>1, <3>2 DEF Stored
  <2> QED
    BY <2>4, <2>5 DEF ReplayOK
<1>7. faults' \in [Faults -> Nat]
  BY <1>1 DEF ChatInv, ServerInv
<1>8. ServerInv' /\ RowsOK(rows', Said') /\ EventsInv' /\ Said' = Said /\ Kept' = Kept
  BY <1>1, <1>4, <1>6, <1>7, PageStep
<1>9. PageInv' /\ WireInv'
  BY <1>1, <1>4, <1>8 DEF ChatInv, PageInv, WireInv
<1>10. ~Steady'
  BY <1>1 DEF ChatInv, LockInv, Steady
<1> QED
  BY <1>8, <1>9, <1>10 DEF ChatInv, LockInv

(* A page that hears a replay hears what was said.                           *)
LEMMA SendReplayKeeps ==
  ASSUME ChatInv, SendReplay
  PROVE  ChatInv'
<1>1. /\ conn.st = "replaying" /\ client' = Apply(client, conn.replay)
      /\ conn' = [conn EXCEPT !.st = "on", !.replay = <<>>]
      /\ UNCHANGED <<queue, log, late, command, fetched, faults>> /\ UNCHANGED server
  BY DEF SendReplay
<1>2. /\ DOMAIN conn' = {"st", "from", "replay"} /\ conn'.from \in Nat /\ conn'.replay = <<>>
  BY <1>1 DEF ChatInv, WireInv
<1>3. ReplayOK(conn'.replay, Said, Kept)
  <2>1. Offline.replay = <<>>
    BY DEF Offline
  <2> QED
    BY <1>2, <2>1, OfflineIs
<1>4. faults' \in [Faults -> Nat]
  BY <1>1 DEF ChatInv, ServerInv
<1>5. ServerInv' /\ RowsOK(rows', Said') /\ EventsInv' /\ Said' = Said /\ Kept' = Kept
  BY <1>1, <1>3, <1>4, PageStep
<1>6. PageOK(client', Said, Said, Kept)
  <2>1. PICK es, N, A : es = conn.replay /\ N = Said /\ A = Kept
    OBVIOUS
  <2>2. N \in Bounds /\ ReplayOK(es, N, A) /\ PageOK(client, N, N, A)
    BY <2>1, ListsNow DEF ChatInv, PageInv
  <2>3. Len(es) \in Nat /\ Telling(es, N, N, A)
    BY <2>2, Reflexive DEF ReplayOK, Telling
  <2>4. Heard(client, client', es)
    BY <1>1, <2>1, <2>3, ApplyHeard
  <2>5. PageOK(client', N, N, A)
    BY <2>2, <2>3, <2>4, HeardKeeps
  <2> QED
    BY <2>1, <2>5
<1>7. PageInv' /\ WireInv'
  BY <1>1, <1>2, <1>5, <1>6 DEF ChatInv, PageInv, WireInv
<1>8. ~Steady'
  BY <1>1 DEF ChatInv, LockInv, Steady
<1> QED
  BY <1>5, <1>7, <1>8 DEF ChatInv, LockInv

-----------------------------------------------------------------------------
(* A page that was just loaded shows nothing.                                *)
LEMMA NewPage ==
  ASSUME NEW N \in Bounds, NEW M \in Bounds, NEW A
  PROVE  /\ PageOK(NewClient, N, M, A) /\ NewClient.pending = FALSE
<1> DEFINE d == NewClient
<1>1. /\ d.msgs = [m \in Msg |-> Absent] /\ d.lastDelta = [m \in Msg |-> <<>>]
      /\ d.placeholders = 0 /\ d.active = NoRun /\ d.waiting = NoRun /\ d.pending = FALSE
      /\ d.timer = FALSE /\ d.lastSeq = 0
      /\ d = [msgs |-> d.msgs, placeholders |-> d.placeholders, lastDelta |-> d.lastDelta,
              active |-> d.active, waiting |-> d.waiting, pending |-> d.pending,
              timer |-> d.timer, lastSeq |-> d.lastSeq]
  BY DEF NewClient
<1> HIDE DEF d
<1>2. Absent \in Message /\ Absent.parts = <<>> /\ Absent.st = "absent"
  <2>1. <<>> \in Content
    BY DEF Content
  <2>2. "absent" \in Words
    BY DEF Words
  <2> QED
    BY <2>1, <2>2 DEF Absent, Message
<1>3. d.lastDelta \in [Msg -> DeltaMap]
  BY <1>1, NoDeltas
<1>4. d.msgs \in [Msg -> Message]
  BY <1>1, <1>2
<1>5. d \in Client
  <2>1. PICK ms \in [Msg -> Message], ld \in [Msg -> DeltaMap] : ms = d.msgs /\ ld = d.lastDelta
    BY <1>3, <1>4
  <2>2. d = [msgs |-> ms, placeholders |-> 0, lastDelta |-> ld, active |-> NoRun,
             waiting |-> NoRun, pending |-> FALSE, timer |-> FALSE, lastSeq |-> 0]
    BY <1>1, <2>1
  <2> QED
    BY <2>2 DEF Client
<1>6. ASSUME NEW m \in Msg PROVE MessageOK(m, d.msgs[m], d.lastDelta[m], N[m], M[m], A)
  <2>1. d.msgs[m] = Absent /\ d.lastDelta[m] = <<>>
    BY <1>1
  <2>2. M[m] \in [Nat -> Nat]
    BY DEF Bounds
  <2>3. \A id \in Nat : Taken(<<>>)[id] <= M[m][id]
    BY <2>2, NoDeltas
  <2>4. <<>> \in Seq(Good(N[m], M[m], <<>>))
    OBVIOUS
  <2> QED
    BY <1>2, <2>1, <2>3, <2>4 DEF MessageOK
<1>7. PageOK(d, N, M, A)
  BY <1>5, <1>6 DEF PageOK
<1> QED
  BY <1>1, <1>7 DEF d

(* A page that is loaded again asks for its rows and its run.                *)
LEMMA ReloadKeeps ==
  ASSUME ChatInv, Reload
  PROVE  ChatInv'
<1>1. /\ Fault("reload") /\ client' = NewClient /\ conn' = Offline /\ command' = NoCommand
      /\ fetched' = [rows |-> Asked, active |-> Asked]
      /\ UNCHANGED <<queue, log, late>> /\ UNCHANGED server
  BY DEF Reload
<1>2. faults' \in [Faults -> Nat] /\ ~Steady'
  BY <1>1, FaultCounts DEF ChatInv
<1>3. /\ ReplayOK(conn'.replay, Said, Kept) /\ DOMAIN conn' = {"st", "from", "replay"}
      /\ conn'.from \in Nat
  BY <1>1, OfflineIs
<1>4. ServerInv' /\ RowsOK(rows', Said') /\ EventsInv' /\ Said' = Said /\ Kept' = Kept
  BY <1>1, <1>2, <1>3, PageStep
<1>5. PageInv'
  BY <1>1, <1>4, NewPage, ListsNow DEF PageInv
<1>6. /\ DOMAIN fetched' = {"rows", "active"} /\ fetched'.rows.st = "asked"
      /\ fetched'.active.st = "asked"
  BY <1>1 DEF Asked
<1>7. WireInv'
  BY <1>1, <1>3, <1>6 DEF WireInv, NoCommand
<1> QED
  BY <1>2, <1>4, <1>5, <1>7 DEF ChatInv, LockInv

(* The active run is one of the runs.                                        *)
LEMMA ActiveIs == ActiveRun.run \in Run \cup {NoRun}
<1> DEFINE live == {r \in Run : phase[r] \notin {"none", "ended"}}
<1>1. CASE live = {}
  BY <1>1 DEF ActiveRun
<1>2. CASE live # {}
  <2>1. PICK n \in Nat : Run = 1..n
    BY ChatAssumption, FS_CardinalityType
  <2>2. live \subseteq 1..n
    BY <2>1
  <2> HIDE DEF live
  <2> DEFINE below == {n - r : r \in live}
  <2>3. below \subseteq Nat /\ below # {}
    <3>1. ASSUME NEW r \in live PROVE n - r \in Nat
      <4>1. r \in 1..n
        BY <2>2
      <4> QED
        BY <4>1
    <3> QED
      BY <1>2, <3>1
  <2> HIDE DEF below
  <2>4. PICK low \in below : \A x \in below : low <= x
    BY <2>3, LeastNumber
  <2> USE DEF below
  <2>5. PICK top \in live : low = n - top
    BY <2>4
  <2>6. ASSUME NEW r \in live PROVE top >= r
    <3>1. n - top <= n - r /\ top \in 1..n /\ r \in 1..n
      BY <2>2, <2>4, <2>5
    <3> QED
      BY <3>1
  <2>7. Max(live) \in live
    BY <2>6 DEF Max
  <2>8. Max(live) \in Run
    BY <2>1, <2>2, <2>7
  <2>9. ActiveRun.run = Max(live)
    BY <1>2 DEF ActiveRun, live
  <2> QED
    BY <2>8, <2>9
<1> QED
  BY <1>1, <1>2

(* The rows it is answered were saved.                                       *)
LEMMA AnswerFetchKeeps ==
  ASSUME ChatInv, AnswerFetch
  PROVE  ChatInv'
<1>1. /\ \/ fetched.rows = Asked /\ fetched' = [fetched EXCEPT !.rows = Answered(rows)]
         \/ fetched.active = Asked /\ fetched' = [fetched EXCEPT !.active = Answered(ActiveRun)]
      /\ UNCHANGED <<queue, log, late, client, conn, command, faults>> /\ UNCHANGED server
  BY DEF AnswerFetch
<1>2. faults' \in [Faults -> Nat] /\ ReplayOK(conn'.replay, Said, Kept)
  BY <1>1, ListsNow DEF ChatInv, ServerInv
<1>3. ServerInv' /\ RowsOK(rows', Said') /\ EventsInv' /\ Said' = Said /\ Kept' = Kept
  BY <1>1, <1>2, PageStep
<1>4. PageInv'
  BY <1>1, <1>3 DEF ChatInv, PageInv
<1>5. /\ DOMAIN fetched = {"rows", "active"}
      /\ fetched.rows.st = "here" => RowsOK(fetched.rows.answer, Said)
      /\ fetched.active.st = "here" => fetched.active.answer.run \in Run \cup {NoRun}
      /\ RowsOK(rows, Said)
  BY DEF ChatInv, WireInv
<1>6. /\ DOMAIN fetched' = {"rows", "active"}
      /\ fetched'.rows.st = "here" => RowsOK(fetched'.rows.answer, Said)
      /\ fetched'.active.st = "here" => fetched'.active.answer.run \in Run \cup {NoRun}
  <2>1. CASE fetched' = [fetched EXCEPT !.rows = Answered(rows)]
    <3>1. fetched'.rows.answer = rows /\ fetched'.active = fetched.active
      BY <1>5, <2>1 DEF Answered
    <3> QED
      BY <1>5, <2>1, <3>1
  <2>2. CASE fetched' = [fetched EXCEPT !.active = Answered(ActiveRun)]
    <3>1. fetched'.active.answer = ActiveRun /\ fetched'.rows = fetched.rows
      BY <1>5, <2>2 DEF Answered
    <3> QED
      BY <1>5, <2>2, <3>1, ActiveIs
  <2> QED
    BY <1>1, <2>1, <2>2
<1>7. WireInv'
  BY <1>1, <1>3, <1>6 DEF ChatInv, WireInv
<1>8. ~Steady'
  <2>1. fetched # NothingFetched
    <3>1. Asked.st = "asked" /\ NoAnswer.st = "none"
      BY DEF Asked, NoAnswer
    <3> QED
      BY <1>1, <3>1 DEF NothingFetched
  <2> QED
    BY <1>1, <2>1 DEF ChatInv, LockInv, Steady
<1> QED
  BY <1>3, <1>4, <1>7, <1>8 DEF ChatInv, LockInv

(* Rows that hold no more than was said become messages of the page.         *)
LEMMA RowsMerged ==
  ASSUME NEW N \in Bounds, NEW A, NEW c, PageOK(c, N, N, A), NEW rs, RowsOK(rs, N)
  PROVE  PageOK(MergeRows(c, rs), N, N, A)
<1> DEFINE Row(m) == [st |-> "loaded", run |-> NoRun, parts |-> rs[m], content |-> MergeContent(rs[m])]
           New(m) == IF m \notin DOMAIN rs THEN c.msgs[m] ELSE Row(m)
<1>1. c \in Client /\ c.msgs \in [Msg -> Message]
  BY DEF PageOK, Client
<1>2. MergeRows(c, rs) = [c EXCEPT !.msgs = [m \in Msg |-> New(m)]]
  BY <1>1 DEF MergeRows
<1>3. ASSUME NEW m \in Msg
      PROVE  New(m) \in Message /\ MessageOK(m, New(m), c.lastDelta[m], N[m], N[m], A)
  <2>1. CASE m \notin DOMAIN rs
    BY <1>1, <2>1 DEF PageOK
  <2>2. CASE m \in DOMAIN rs
    <3>1. rs[m] \in ServerParts /\ AtMost(SaidOf(rs[m]), N[m]) /\ N[m] \in [Nat -> Nat]
      BY <2>2 DEF RowsOK, Bounds
    <3>2. AtMost(N[m], N[m])
      BY Reflexive
    <3>3. rs[m] \in Seq(Good(N[m], N[m], c.lastDelta[m])) /\ rs[m] \in Seq(Part)
      BY <3>1, <3>2, ServerGood
    <3>4. PICK cont \in Content : cont = MergeContent(rs[m])
      BY <3>3 DEF Content
    <3>5. New(m) = [st |-> "loaded", run |-> NoRun, parts |-> rs[m], content |-> cont]
      BY <2>2, <3>4
    <3>6. "loaded" \in Words
      BY DEF Words
    <3>7. New(m) \in Message
      BY <3>3, <3>5, <3>6 DEF Message
    <3>8. \A id \in Nat : Taken(c.lastDelta[m])[id] <= N[m][id]
      BY MessageOf
    <3>9. MessageOK(m, New(m), c.lastDelta[m], N[m], N[m], A)
      BY <3>3, <3>5, <3>8 DEF MessageOK
    <3> QED
      BY <3>7, <3>9
  <2> QED
    BY <2>1, <2>2
<1> HIDE DEF New
<1>4. PICK ms : ms = [m \in Msg |-> New(m)]
  OBVIOUS
<1>5. ms \in [Msg -> Message] /\ \A m \in Msg : MessageOK(m, ms[m], c.lastDelta[m], N[m], N[m], A)
  BY <1>3, <1>4
<1>6. PICK d : d = [c EXCEPT !.msgs = ms]
  OBVIOUS
<1>7. d \in Client /\ d.msgs = ms /\ d.lastDelta = c.lastDelta
  BY <1>1, <1>5, <1>6 DEF Client
<1> QED
  BY <1>2, <1>4, <1>5, <1>6, <1>7 DEF PageOK

(* The rows it takes over were said.                                         *)
LEMMA ApplyRowsKeeps ==
  ASSUME ChatInv, ApplyRows
  PROVE  ChatInv'
<1>1. /\ fetched.rows.st = "here" /\ client' = MergeRows(client, fetched.rows.answer)
      /\ fetched' = [fetched EXCEPT !.rows = NoAnswer]
      /\ UNCHANGED <<queue, log, late, conn, command, faults>> /\ UNCHANGED server
  BY DEF ApplyRows
<1>2. faults' \in [Faults -> Nat] /\ ReplayOK(conn'.replay, Said, Kept) /\ Said \in Bounds
  BY <1>1, ListsNow DEF ChatInv, ServerInv
<1>3. ServerInv' /\ RowsOK(rows', Said') /\ EventsInv' /\ Said' = Said /\ Kept' = Kept
  BY <1>1, <1>2, PageStep
<1>4. PageOK(client', Said, Said, Kept)
  <2>1. PICK rs, N, A : rs = fetched.rows.answer /\ N = Said /\ A = Kept
    OBVIOUS
  <2>2. N \in Bounds /\ RowsOK(rs, N) /\ PageOK(client, N, N, A)
    BY <1>1, <1>2, <2>1 DEF ChatInv, WireInv, PageInv
  <2>3. PageOK(MergeRows(client, rs), N, N, A)
    BY <2>2, RowsMerged
  <2> QED
    BY <1>1, <2>1, <2>3
<1>5. PageInv'
  BY <1>3, <1>4 DEF PageInv
<1>6. DOMAIN fetched' = {"rows", "active"} /\ fetched'.rows.st = "none"
      /\ fetched'.active = fetched.active
  BY <1>1 DEF ChatInv, WireInv, NoAnswer
<1>7. WireInv'
  BY <1>1, <1>3, <1>6 DEF ChatInv, WireInv
<1>8. ~Steady'
  BY <1>1 DEF ChatInv, LockInv, Steady, NothingFetched, NoAnswer
<1> QED
  BY <1>3, <1>5, <1>7, <1>8 DEF ChatInv, LockInv

(* The run it takes over may lock it; it was reloaded.                       *)
LEMMA ApplyActiveKeeps ==
  ASSUME ChatInv, ApplyActive
  PROVE  ChatInv'
<1>1. /\ fetched.active.st = "here"
      /\ client' = IF fetched.active.answer.run = NoRun THEN client
                   ELSE Restored(client, fetched.active.answer.run, fetched.active.answer.kind)
      /\ fetched' = [fetched EXCEPT !.active = NoAnswer]
      /\ UNCHANGED <<queue, log, late, conn, command, faults>> /\ UNCHANGED server
  BY DEF ApplyActive
<1>2. faults' \in [Faults -> Nat] /\ ReplayOK(conn'.replay, Said, Kept) /\ Said \in Bounds
  BY <1>1, ListsNow DEF ChatInv, ServerInv
<1>3. ServerInv' /\ RowsOK(rows', Said') /\ EventsInv' /\ Said' = Said /\ Kept' = Kept
  BY <1>1, <1>2, PageStep
<1>4. PageOK(client, Said, Said, Kept) /\ client \in Client
  BY DEF ChatInv, PageInv, PageOK
<1>5. client' \in Client /\ client'.msgs = client.msgs /\ client'.lastDelta = client.lastDelta
  <2>1. CASE client' = client
    BY <1>4, <2>1
  <2>2. CASE client' # client
    <3>1. PICK r \in Run, w \in Run \cup {NoRun}, p \in BOOLEAN :
            client' = [client EXCEPT !.active = r, !.waiting = w, !.pending = p]
      <4>1. PICK r, k : r = fetched.active.answer.run /\ k = fetched.active.answer.kind
        OBVIOUS
      <4>2. r \in Run /\ client' = Restored(client, r, k)
        BY <1>1, <2>2, <4>1 DEF ChatInv, WireInv
      <4>3. PICK w, p : w = (IF k = "user" THEN r ELSE NoRun) /\ p = (k # "user")
        OBVIOUS
      <4>4. client' = [client EXCEPT !.active = r, !.waiting = w, !.pending = p]
        BY <2>2, <4>2, <4>3 DEF Restored
      <4> QED
        BY <4>2, <4>3, <4>4
    <3> QED
      BY <1>4, <3>1 DEF Client
  <2> QED
    BY <2>1, <2>2
<1>6. PageInv'
  BY <1>3, <1>4, <1>5, SamePage DEF PageInv
<1>7. DOMAIN fetched' = {"rows", "active"} /\ fetched'.active.st = "none"
      /\ fetched'.rows = fetched.rows
  BY <1>1 DEF ChatInv, WireInv, NoAnswer
<1>8. WireInv'
  BY <1>1, <1>3, <1>7 DEF ChatInv, WireInv
<1>9. ~Steady'
  BY <1>1 DEF ChatInv, LockInv, Steady, NothingFetched, NoAnswer
<1> QED
  BY <1>3, <1>6, <1>8, <1>9 DEF ChatInv, LockInv

-----------------------------------------------------------------------------
(* Nothing was said, nothing shown and nothing is under way.                 *)
LEMMA InitKeeps ==
  ASSUME Init
  PROVE  ChatInv
<1>1. /\ phase = [r \in Run |-> "none"] /\ current = [r \in Run |-> 0]
      /\ owner = [m \in Msg |-> NoRun] /\ parts = [m \in Msg |-> <<>>] /\ rows = <<>>
      /\ queue = <<>> /\ log = <<>> /\ late = <<>> /\ client = NewClient
      /\ conn = [Offline EXCEPT !.st = "on"] /\ command = NoCommand
      /\ fetched = NothingFetched /\ faults = [kind \in Faults |-> 0]
  BY DEF Init
<1>2. <<>> \in ServerParts
  <2>1. <<>> \in Seq(Part) /\ Len(<<>>) = 0
    OBVIOUS
  <2> QED
    BY <2>1 DEF ServerParts
<1>3. ServerInv
  <2>1. phase \in [Run -> Phases]
    BY <1>1 DEF Phases
  <2>2. parts \in [Msg -> ServerParts]
    BY <1>1, <1>2
  <2>3. \A r \in Run : phase[r] = "none"
    BY <1>1
  <2> QED
    BY <1>1, <2>1, <2>2, <2>3 DEF ServerInv
<1>4. DOMAIN rows = {}
  <2>1. Len(<<>>) = 0 /\ <<>> \in Seq({})
    OBVIOUS
  <2> QED
    BY <1>1, <2>1
<1>5. RowsOK(rows, Said)
  BY <1>4 DEF RowsOK
<1>6. /\ conn.st = "on" /\ conn.replay = Offline.replay /\ conn.from = Offline.from
      /\ DOMAIN conn = {"st", "from", "replay"}
  BY <1>1 DEF Offline
<1>7. EventsInv
  <2>1. Stored(<<>>, Said, Kept) /\ Quiet(<<>>) /\ ReplayOK(conn.replay, Said, Kept)
    BY <1>6, StoredNone, OfflineIs
  <2> QED
    BY <1>1, <2>1 DEF EventsInv
<1>8. WireInv
  BY <1>1, <1>6, OfflineIs DEF WireInv, NoCommand, NothingFetched, NoAnswer
<1>9. PageInv /\ client.pending = FALSE
  BY <1>1, <1>3, SaidNow, NewPage DEF PageInv
<1>10. LockInv
  BY <1>1, <1>6, <1>9 DEF LockInv
<1> QED
  BY <1>3, <1>5, <1>7, <1>8, <1>9, <1>10 DEF ChatInv

(* Where nothing changes, nothing does.                                      *)
LEMMA StillKeeps ==
  ASSUME ChatInv, UNCHANGED vars
  PROVE  ChatInv'
<1>1. /\ UNCHANGED <<queue, log, late, client, conn, command, fetched, faults>> /\ UNCHANGED server
  BY DEF vars
<1>2. faults' \in [Faults -> Nat] /\ ReplayOK(conn'.replay, Said, Kept)
  BY <1>1, ListsNow DEF ChatInv, ServerInv
<1>3. ServerInv' /\ RowsOK(rows', Said') /\ EventsInv' /\ Said' = Said /\ Kept' = Kept
      /\ phase' = phase
  BY <1>1, <1>2, PageStep DEF server
<1>4. PageInv' /\ WireInv'
  BY <1>1, <1>3 DEF ChatInv, PageInv, WireInv
<1>5. LockInv'
  BY <1>1, <1>3 DEF ChatInv, LockInv, Steady, NothingFetched, NoAnswer
<1> QED
  BY <1>3, <1>4, <1>5 DEF ChatInv

(* A run's step, whichever it is.                                            *)
LEMMA RunStepKeeps ==
  ASSUME ChatInv, NEW r \in Run, RunStep(r)
  PROVE  ChatInv'
<1>1. CASE StartRun(r) \/ StreamStep(r)
  BY <1>1, StartRunKeeps, StreamStepKeeps
<1>2. CASE SuspendForApproval(r) \/ SuspendForUser(r)
  BY <1>2, SuspendForApprovalKeeps, SuspendForUserKeeps
<1>3. CASE AskApproval(r) \/ AskUser(r) \/ Approve(r)
  BY <1>3, AskApprovalKeeps, AskUserKeeps, ApproveKeeps
<1>4. CASE Answer(r) \/ FailRun(r) \/ CancelRun(r) \/ EndRun(r)
  BY <1>4, AnswerKeeps, FailRunKeeps, CancelRunKeeps, EndRunKeeps
<1> QED
  BY <1>1, <1>2, <1>3, <1>4 DEF RunStep

(* What was said bounds what is written, queued, replayed and shown, and     *)
(* what the page shows as completed is kept (persistenceQueue, replay and    *)
(* the page's reducers together).                                            *)
THEOREM ChatInvariant == Spec => []ChatInv
<1>1. Init => ChatInv
  BY InitKeeps
<1>2. ChatInv /\ [Next]_vars => ChatInv'
  <2> SUFFICES ASSUME ChatInv, [Next]_vars PROVE ChatInv'
    OBVIOUS
  <2>1. ASSUME Daemon PROVE ChatInv'
    <3>1. CASE Persist \/ PersistFails \/ Flush
      BY <3>1, PersistKeeps, PersistFailsKeeps, FlushKeeps
    <3>2. CASE AcceptSend \/ AcceptResume \/ AcceptStop
      BY <3>2, AcceptSendKeeps, AcceptResumeKeeps, AcceptStopKeeps
    <3>3. CASE \E r \in Run : RunStep(r)
      BY <3>3, RunStepKeeps
    <3> QED
      BY <2>1, <3>1, <3>2, <3>3 DEF Daemon
  <2>2. ASSUME Page PROVE ChatInv'
    <3>1. CASE Send \/ Stop \/ TimerFires \/ Drop \/ Connect
      BY <3>1, SendKeeps, StopKeeps, TimerFiresKeeps, DropKeeps, ConnectKeeps
    <3>2. CASE ReadReplay \/ SendReplay \/ Reload
      BY <3>2, ReadReplayKeeps, SendReplayKeeps, ReloadKeeps
    <3>3. CASE AnswerFetch \/ ApplyRows \/ ApplyActive
      BY <3>3, AnswerFetchKeeps, ApplyRowsKeeps, ApplyActiveKeeps
    <3> QED
      BY <2>2, <3>1, <3>2, <3>3 DEF Page
  <2>3. CASE UNCHANGED vars
    BY <2>3, StillKeeps
  <2> QED
    BY <2>1, <2>2, <2>3 DEF Next
<1> QED
  BY <1>1, <1>2, PTL DEF Spec

(* The texts of a page that takes no delta twice rise.                       *)
LEMMA TextsRise ==
  ASSUME ChatInv
  PROVE  TextNotRepeated
<1> SUFFICES ASSUME NEW m \in Msg, NEW i \in DOMAIN client.msgs[m].parts,
                    NEW j \in 1 .. Len(client.msgs[m].parts[i].text) - 1
             PROVE  client.msgs[m].parts[i].text[j] < client.msgs[m].parts[i].text[j + 1]
  BY DEF TextNotRepeated
<1>1. Said \in Bounds /\ PageOK(client, Said, Said, Kept)
  BY ListsNow DEF ChatInv, PageInv
<1>2. PICK G, ps : /\ ps = client.msgs[m].parts /\ ps \in Seq(G)
                   /\ G = Good(Said[m], Said[m], client.lastDelta[m])
  BY <1>1, MessageOf
<1>3. i \in 1..Len(ps) /\ ps[i] \in G
  BY <1>2, ListIs
<1>4. Rising(ps[i].text, Said[m][ps[i].id])
  BY <1>2, <1>3 DEF Good
<1> QED
  BY <1>2, <1>4 DEF Rising

(* A message shown as completed has its content among what is kept.          *)
LEMMA CompletedKept ==
  ASSUME ChatInv
  PROVE  ClosedIsSaved
<1> SUFFICES ASSUME NEW m \in Msg, client.msgs[m].st = "completed"
             PROVE  m \in DOMAIN rows /\ client.msgs[m].content = MergeContent(rows[m])
  BY DEF ClosedIsSaved
<1>1. Said \in Bounds /\ PageOK(client, Said, Said, Kept)
  BY ListsNow DEF ChatInv, PageInv
<1>2. <<m, client.msgs[m].content>> \in Kept
  BY <1>1, MessageOf
<1>3. PICK k \in DOMAIN rows : <<m, client.msgs[m].content>> = <<k, MergeContent(rows[k])>>
  BY <1>2 DEF Kept
<1>4. m = k /\ client.msgs[m].content = MergeContent(rows[k])
  BY <1>3
<1> QED
  BY <1>4

(* No page shows a delta twice or out of order, nor as completed what is not *)
(* saved so, whatever is dropped, replayed, reloaded, late or failed         *)
(* (assistantMessageReducer, AssistantMessageStream.complete).               *)
THEOREM TranscriptSound == Spec => []TranscriptIsSound
<1>1. ChatInv => TranscriptIsSound
  BY TextsRise, CompletedKept DEF TranscriptIsSound
<1> QED
  BY <1>1, ChatInvariant, PTL

(* A page that keeps its socket is not locked once every run is over, or its *)
(* response timer will unlock it (use-conversation-socket.ts).               *)
THEOREM SteadyUnlocked == Spec => []SteadyPageUnlocked
<1>1. ChatInv => SteadyPageUnlocked
  <2> SUFFICES ASSUME ChatInv, \A k \in Faults \cap {"drop", "reload"} : faults[k] = 0,
                      AtRest, client.pending
               PROVE  client.timer
    BY DEF SteadyPageUnlocked, RestUnlocked
  <2>1. Steady
    BY DEF Steady
  <2>2. client.pending /\ ~client.timer => client.active \in Run /\ phase[client.active] = "approval"
    BY <2>1 DEF ChatInv, LockInv
  <2>3. \A r \in Run : phase[r] # "approval"
    BY DEF AtRest
  <2> QED
    BY <2>2, <2>3
<1> QED
  BY <1>1, ChatInvariant, PTL
=============================================================================
