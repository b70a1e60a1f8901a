---------------------------- MODULE MemoryPolicy ----------------------------
(***************************************************************************)
(* What the memory writer does with one candidate: reject it, create a     *)
(* memory, or create one that supersedes a similar memory.  A text stands  *)
(* for a title and its content, a slot <<kind, owner>> for a scope and a   *)
(* type, and whom the scope belongs to.  Relevance counts tenths; the      *)
(* order in which the search returns similar memories is left open, and    *)
(* with it which of several that qualify is taken.                         *)
(***************************************************************************)
EXTENDS Naturals, Sequences

CONSTANTS
  Text,       \* the texts memories have
  Relevance,  \* Relevance[r, c]: of a memory with text r to a search for c, in
              \* tenths; 0 when the search does not find it
  Negated,    \* the texts with a negation
  Correcting, \* the texts that read like a correction
  Unfit       \* the texts the policy rejects: secret-like, too short, too vague

ASSUME TextAssumption ==
  /\ Relevance \in [Text \X Text -> Nat]
  /\ Negated \subseteq Text /\ Correcting \subseteq Text /\ Unfit \subseteq Text

(* detectContradiction: of the same kind, memories of one key that differ  *)
(* in polarity, or in content at middling relevance; or a correction.      *)
Contradicts(c, row) ==
  LET relevance == Relevance[row.text, c.text]
  IN  /\ row.slot[1] = c.slot[1]
      /\ \/ /\ row.key = c.key /\ relevance >= 7
            /\ (row.text \in Negated) # (c.text \in Negated) \/ relevance < 9
         \/ c.text \in Correcting /\ relevance >= 5

(* What the user said outranks what the agent inferred; among equals the   *)
(* higher confidence wins.                                                 *)
Outranks(c, row) ==
  \/ c.src = "user_explicit" /\ row.src # "user_explicit"
  \/ (row.src = "user_explicit" => c.src = "user_explicit") /\ c.conf > row.conf

Succeeds(c, row) ==
  row.slot = c.slot /\ (Relevance[row.text, c.text] >= 9 \/ row.text = c.text)

Duplicates(c, row) ==
  row.slot = c.slot /\ c.conf <= row.conf + 1 /\ row.conf <= c.conf + 1

(* The memories the new one is linked to, besides one it contradicts.      *)
Confirmed(c, rows, similar) == {i \in similar : Relevance[rows[i].text, c.text] >= 9}

Reject == [write |-> FALSE, old |-> 0, links |-> {}]

(* classify and buildRelations: the possible decisions on candidate c when *)
(* the search has found the rows similar.                                  *)
Decisions(c, rows, similar) ==
  LET Clashing == {i \in similar : Contradicts(c, rows[i])}
      Similar  == {i \in similar : Succeeds(c, rows[i])}
      Write(old, links) == [write |-> TRUE, old |-> old, links |-> links]
  IN  CASE c.text \in Unfit -> {Reject}
        [] c.text \notin Unfit /\ Clashing # {} ->
             {IF Outranks(c, rows[i])
              THEN Write(i, {i} \cup Confirmed(c, rows, similar)) ELSE Reject : i \in Clashing}
        [] c.text \notin Unfit /\ Clashing = {} /\ Similar # {} ->
             {Write(i, Confirmed(c, rows, similar)) : i \in Similar}
        [] c.text \notin Unfit /\ Clashing = {} /\ Similar = {} ->
             {IF \E i \in similar : Duplicates(c, rows[i]) THEN Reject
              ELSE Write(0, Confirmed(c, rows, similar))}
=============================================================================
