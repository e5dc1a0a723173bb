------------------------ MODULE MCThoughtSanitizer --------------------------
(***************************************************************************)
(* The markers shortened to what tells them apart: the channel markers     *)
(* share a beginning with each other and "<" with the tags, one tag name   *)
(* begins another (think, thinking), "H" is a capital, and the lower case  *)
(* of "W" is two characters long, as that of U+0130 is.                    *)
(***************************************************************************)
EXTENDS ThoughtSanitizer

MCThought    == <<"<", "|", "t">>
MCFinal      == <<"<", "|", "f">>
MCClose      == <<"<", "c">>
MCHtmlStarts == {<<"<", "h">>, <<"<", "h", "g">>}
MCHtmlCloses == {<<"<", "/", "h", ">">>, <<"<", "/", "h", "g", ">">>}
MCBoundary   == {">", " "}

MCChars == {"<", "|", "t", "f", "c", "h", "g", "/", ">", " ", "x", "H"}

MCLower == [c \in MCChars |-> IF c = "H" THEN <<"h">> ELSE <<c>>]

MCWideLower ==
  [c \in MCChars \cup {"W"} |-> IF c = "W" THEN <<"w", "+">> ELSE MCLower[c]]

\* Markers, tags that open, the beginnings of some, and plain text.
MCPieces ==
  {MCThought, MCFinal, MCClose, <<"<", "h", ">">>, <<"<", "h">>, <<"<", "H", "g">>,
   <<"<", "/", "h", ">">>, <<"<">>, <<">">>, <<" ">>, <<"x">>}

MCJoin(pieces, n) == {FlattenSeq(p) : p \in [1..n -> pieces]}

\* The pieces that make nested and repeated spans.
MCSpanPieces == {MCThought, MCFinal, <<"<", "h", ">">>, <<"<", "/", "h", ">">>, <<"x">>}

\* All texts of three pieces, and of four of the second kind.
MCTexts == MCJoin(MCPieces, 3) \cup MCJoin(MCSpanPieces, 4)

\* Short texts with a character whose lower case is longer.
MCWideTexts == MCJoin({<<"W">>, <<"<", "h", ">">>, <<"<", "/", "h", ">">>, <<"x">>}, 4)
=============================================================================
