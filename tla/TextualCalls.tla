---------------------------- MODULE TextualCalls ----------------------------
(***************************************************************************)
(* Models without native function calling write their calls into the text, *)
(* between two markers.  react-model-turn.ts streams the text to the reader *)
(* and keeps the calls out of it while the chunks of the stream cut the     *)
(* text, and the markers, anywhere (consumeTextualCallDelta and             *)
(* finishTextualCallStream).                                                *)
(*                                                                          *)
(* A character stands for a stretch of the text: the two markers are three  *)
(* characters long and share the first two, as <FunctionCallBegin> and      *)
(* <FunctionCallEnd> share their start.                                     *)
(***************************************************************************)
EXTENDS Integers, Sequences, FiniteSetsExt

CONSTANTS
  Char,    \* the characters
  Texts    \* what a provider may write

ASSUME TextsAreTexts == {"<", "F", "B", "E"} \subseteq Char /\ Texts \subseteq Seq(Char)

BEGIN == <<"<", "F", "B">>
END   == <<"<", "F", "E">>

VARIABLES
  text,         \* what the provider writes
  read,         \* characters of it the stream has delivered
  probe,        \* how many of them are withheld as a possible start of a marker
  buffering,    \* the rest of the input is a call's
  shown,        \* the positions handed to the reader
  cut,          \* a chunk has ended inside an END marker
  finished

markerVars == <<text, read, probe, buffering, shown, cut, finished>>

\* The marker stands at position i.
MarkerAt(marker, i) == i + 2 <= Len(text) /\ SubSeq(text, i, i + 2) = marker

\* indexOf within the input, which reaches from lo to hi; 0 if it is not there.
IndexOf(marker, lo, hi) ==
  LET at == {i \in lo..(hi - 2) : MarkerAt(marker, i)}
  IN  IF at = {} THEN 0 ELSE Min(at)

Withheld_None(lo, hi) == 0

\* longestMarkerPrefixSuffix: of the input from lo to hi, how many of its last
\* characters may be the start of BEGIN.
Withheld(lo, hi) ==
  LET may == {n \in 1..2 : n <= hi - lo + 1
                           /\ SubSeq(text, hi - n + 1, hi) = SubSeq(BEGIN, 1, n)}
  IN  IF may = {} THEN 0 ELSE Max(may)

\* The loop over the input that ends at hi: what becomes visible of it, and the
\* state it leaves.  Inside a call, from position lo on, it looks for the END,
\* and what "outside" makes of the rest follows.
InsideCall(hi, outside, lo) ==
  LET e == IndexOf(END, lo, hi)
  IN  IF e = 0 THEN [visible |-> {}, buffering |-> TRUE, probe |-> 0] ELSE outside[e + 3]

Consume(hi, first, inCall) ==
  LET outside[lo \in 1..(Len(text) + 1)] ==
        LET b == IndexOf(BEGIN, lo, hi)
            w == Withheld(lo, hi)
        IN  IF b = 0 THEN [visible |-> lo..(hi - w), buffering |-> FALSE, probe |-> w]
            ELSE [InsideCall(hi, outside, b + 3) EXCEPT !.visible = @ \cup lo..(b - 1)]
  IN  IF inCall THEN InsideCall(hi, outside, first) ELSE outside[first]

MarkersInit ==
  /\ text \in Texts
  /\ read = 0 /\ probe = 0 /\ buffering = FALSE /\ shown = {}
  /\ cut = FALSE /\ finished = FALSE

\* A chunk of any length arrives; the withheld characters come before it.
Chunk ==
  /\ ~finished /\ read < Len(text)
  /\ \E hi \in (read + 1)..Len(text) :
       LET r == Consume(hi, read - probe + 1, buffering) IN
       /\ read' = hi
       /\ shown' = shown \cup r.visible
       /\ buffering' = r.buffering /\ probe' = r.probe
       /\ cut' = (cut \/ \E i \in 1..hi : MarkerAt(END, i) /\ i <= hi /\ hi < i + 2)
  /\ UNCHANGED <<text, finished>>

\* The stream ends: what is still withheld was no marker.
FinishStream ==
  /\ ~finished /\ read = Len(text)
  /\ finished' = TRUE
  /\ shown' = IF buffering THEN shown ELSE shown \cup (read - probe + 1)..read
  /\ probe' = 0
  /\ UNCHANGED <<text, read, buffering, cut>>

MarkersNext == Chunk \/ FinishStream

MarkersSpec == MarkersInit /\ [][MarkersNext]_markerVars

-----------------------------------------------------------------------------
\* The reference: the positions outside every call, of the text as a whole.  A
\* call reaches from its BEGIN to the first END after it.
Outside ==
  {i \in 1..Len(text) : \A b \in 1..i : MarkerAt(BEGIN, b)
                          => \E e \in (b + 3)..(i - 3) : MarkerAt(END, e)}

\* MarkersHidden: however the stream is cut, no character of a call or of its
\* markers reaches the reader, none is shown again, and - unless a cut fell
\* inside an END marker - all the rest does.
MarkersHidden ==
  /\ shown \subseteq Outside
  /\ shown \cap (read - probe + 1)..Len(text) = {}
  /\ finished /\ ~cut => shown = Outside

\* TextOutsideShown: "parses textual function markers split across chunks
\* without leaking them" (react-model-turn.test.ts, which splits the first
\* marker only): the text around a call is shown wherever the chunks end.
TextOutsideShown == finished => shown = Outside
=============================================================================
