--------------------------- MODULE MCMemoryWriter ----------------------------
(* Instances of MemoryWriter: two turns of one user in two conversations;  *)
(* what the user asks to remember belongs to the user.  The text "short"   *)
(* is contained in "long", which negates and corrects it.                  *)
EXTENDS MemoryWriter

Two == {"w1", "w2"}
Texts == {"short", "long"}
Keys == {"k"} \cup Two
Slots == {<<"preference", "alice">>, <<"preference", "bob">>,
          <<"summary", "conv1">>, <<"summary", "conv2">>}

RelevanceOf ==
  [p \in Texts \X Texts |->
     IF p[1] = p[2] THEN 22 ELSE IF p = <<"long", "short">> THEN 12 ELSE 0]

SlotsOfTexts == [w \in Two |-> [x \in Texts |-> <<"preference", "alice">>]]
SlotsOfTurns == [w \in Two |-> <<"summary", IF w = "w1" THEN "conv1" ELSE "conv2">>]

KeysOfTexts == [x \in Texts |-> "k"]
=============================================================================
