--------------------------- MODULE SkillRegistry ---------------------------
(***************************************************************************)
(* The catalogue of skills: the table installed_skills, the map the        *)
(* registry keeps in memory and serves reads from, reload(), which builds  *)
(* a new map from the directories on disk and swaps it in, and             *)
(* setEnabled(), which a client may call while a reload is going on.       *)
(***************************************************************************)
EXTENDS Naturals, FiniteSets

CONSTANTS
  Skill,       \* the skills with a directory on disk
  Toggle       \* the calls of setEnabled that may be in flight together

VARIABLES
  table,       \* table[s]: the row of s: "absent", "on" or "off" (its column enabled)
  catalogue,   \* catalogue[s]: the same, in the registry's map
  reload,      \* the reload in progress: its place, the skills it has yet to load,
               \* the map it builds, and the row it found for the one it is at
  toggle       \* toggle[t]: a call of setEnabled: its place, skill and row returned

regVars == <<table, catalogue, reload, toggle>>

Row == {"absent", "on", "off"}
NoReload == [pc |-> "idle", todo |-> {}, next |-> [s \in Skill |-> "absent"],
             at |-> {}, found |-> "absent", alone |-> FALSE]
NoToggle == [pc |-> "idle", at |-> {}, row |-> "absent"]

RegTypeOK ==
  /\ table \in [Skill -> Row] /\ catalogue \in [Skill -> Row]
  /\ reload \in [pc : {"idle", "next", "upsert"}, todo : SUBSET Skill,
                 next : [Skill -> Row], at : SUBSET Skill, found : Row, alone : BOOLEAN]
  /\ toggle \in [Toggle -> [pc : {"idle", "applied"}, at : SUBSET Skill, row : Row]]

RegInit ==
  /\ table \in [Skill -> Row]
  /\ catalogue = [s \in Skill |-> "absent"]
  /\ reload = NoReload
  /\ toggle = [t \in Toggle |-> NoToggle]
-----------------------------------------------------------------------------
(* A second caller shares the reload in progress, so there is one.         *)
StartReload ==
  /\ reload.pc = "idle"
  /\ reload' = [NoReload EXCEPT !.pc = "next", !.todo = Skill,
                               !.alone = \A t \in Toggle : toggle[t].pc = "idle"]
  /\ UNCHANGED <<table, catalogue, toggle>>

(* One candidate directory: its manifest does not validate and it is left  *)
(* out of the new map, or its row is looked up.                            *)
LoadSkill(s) ==
  /\ reload.pc = "next" /\ s \in reload.todo
  /\ \/ reload' = [reload EXCEPT !.todo = @ \ {s}]
     \/ reload' = [reload EXCEPT !.pc = "upsert", !.todo = @ \ {s}, !.at = {s},
                                 !.found = table[s]]
  /\ UNCHANGED <<table, catalogue, toggle>>

(* A skill that has a row keeps its flag, a new one is enabled.  The row   *)
(* found may be old by now; the upsert writes the flag as it was.  The     *)
(* audit entry that follows changes nothing.                               *)
Kept_AlwaysOn(found) == "on"

Kept(found) == IF found = "absent" THEN "on" ELSE found

UpsertSkill(s) ==
  LET row == Kept(reload.found) IN
  /\ reload.pc = "upsert" /\ reload.at = {s}
  /\ reload' = [reload EXCEPT !.pc = "next", !.next[s] = row,
                               !.at = {}, !.found = "absent"]
  /\ table' = [table EXCEPT ![s] = row]
  /\ UNCHANGED <<catalogue, toggle>>

SwapCatalogue ==
  /\ reload.pc = "next" /\ reload.todo = {}
  /\ catalogue' = reload.next
  /\ reload' = NoReload
  /\ UNCHANGED <<table, toggle>>

(* setEnabled: the update of the row, and, when its result has come back,  *)
(* the entry of whatever map is current then.                              *)
UpdateRow(t, s, row) ==
  /\ toggle[t].pc = "idle" /\ table[s] # "absent"
  /\ table' = [table EXCEPT ![s] = row]
  /\ toggle' = [toggle EXCEPT ![t] = [pc |-> "applied", at |-> {s}, row |-> row]]
  /\ reload' = [reload EXCEPT !.alone = FALSE]
  /\ UNCHANGED catalogue

UpdateMap(t) ==
  /\ toggle[t].pc = "applied"
  /\ catalogue' = [s \in Skill |-> IF s \in toggle[t].at THEN toggle[t].row ELSE catalogue[s]]
  /\ toggle' = [toggle EXCEPT ![t] = NoToggle]
  /\ UNCHANGED <<table, reload>>

ReloadStep == (\E s \in Skill : LoadSkill(s) \/ UpsertSkill(s)) \/ SwapCatalogue

RegNext ==
  \/ StartReload \/ ReloadStep
  \/ \E t \in Toggle : UpdateMap(t) \/ \E s \in Skill, row \in {"on", "off"} : UpdateRow(t, s, row)

RegSpec == RegInit /\ [][RegNext]_regVars

(* SkillRegistry.get and list: the map first, then the table.              *)
Lookup(s) == IF catalogue[s] # "absent" THEN catalogue[s] ELSE table[s]
-----------------------------------------------------------------------------
Quiet == reload.pc = "idle" /\ \A t \in Toggle : toggle[t].pc = "idle"

(* A reload that no call of setEnabled overlaps puts the map and the table *)
(* in step again, whatever earlier calls had left, and flips no flag.      *)
ReloadReconciles ==
  [][reload.alone =>
       /\ reload.pc # "idle" /\ reload'.pc = "idle" =>
            \A s \in Skill : catalogue'[s] # "absent" => catalogue'[s] = table'[s]
       /\ \A s \in Skill : table[s] # "absent" => table'[s] = table[s]
                                                  \/ ~reload'.alone]_regVars

(* The class comment: the table is the one source of truth of the          *)
(* catalogue.  With nothing in flight the map says what the row says.      *)
CatalogueFollowsTable ==
  Quiet => \A s \in Skill : catalogue[s] # "absent" => catalogue[s] = table[s]
-----------------------------------------------------------------------------
(* The inductive invariant: a reload that no call of setEnabled overlapped  *)
(* has found the rows as they still are, and built its map from them.       *)
FoundInStep ==
  /\ reload.pc = "upsert" <=> reload.at # {}
  /\ reload.alone =>
       /\ \A s \in reload.at : reload.found = table[s]
       /\ \A s \in Skill : reload.next[s] # "absent" => reload.next[s] = table[s]
RegInv == RegTypeOK /\ FoundInStep
=============================================================================
