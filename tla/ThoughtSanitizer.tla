-------------------------- MODULE ThoughtSanitizer --------------------------
(***************************************************************************)
(* The thought-channel sanitizer (backend/response_parser.py): text comes  *)
(* in chunks cut anywhere, hidden spans are dropped, and what may be the   *)
(* beginning of a marker is held back.  A call of feed or finish is one    *)
(* run of the loop of _drain; an iteration of the loop is an action.       *)
(* Positions are those of the code plus one.                               *)
(***************************************************************************)
EXTENDS Naturals, Sequences, SequencesExt

CONSTANTS
  Texts,                  \* what the backend may send, as sequences of characters
  Thought, Final, Close,  \* the channel markers
  HtmlStarts, HtmlCloses, \* the html markers, in lower case
  TagEnd,                 \* the character that closes a tag
  Boundary,               \* the characters that may follow a tag's name
  Lower                   \* str.lower of each character, itself a sequence

HiddenMarkers == {Final, Close} \cup HtmlCloses
VisibleMarkers == {Thought, Final, Close} \cup HtmlStarts

Channel == {Thought, Final, Close}
Html    == HtmlStarts \cup HtmlCloses
Markers == HiddenMarkers \cup VisibleMarkers

\* The characters are those that Lower knows; among the markers one is the longest.
ASSUME TextAssumption ==
  /\ Texts \subseteq Seq(DOMAIN Lower)
  /\ Markers \subseteq Seq(DOMAIN Lower) /\ <<>> \notin Markers
  /\ \A ms \in {HiddenMarkers, VisibleMarkers} :
       \E m \in ms : \A k \in ms : Len(k) <= Len(m)

\* A marker begins with a character, "<", that it has nowhere else and that is no other
\* character in lower case.  Html markers are in lower case, and none that starts a span
\* has the character that closes a tag.
ASSUME ShapeAssumption ==
  LET open == Final[1]
  IN  /\ \A m \in Markers : m[1] = open /\ \A k \in 2..Len(m) : m[k] # open
      /\ \A c \in DOMAIN Lower : Lower[c][1] = open <=> c = open
      /\ \A m \in Html : \A k \in 1..Len(m) : Lower[m[k]] = <<m[k]>>
      /\ Lower[TagEnd] = <<TagEnd>>
      /\ \A m \in HtmlStarts : \A k \in 1..Len(m) : m[k] # TagEnd

\* No two markers that are looked for at one place can both be there, whatever the case.
ASSUME ApartAssumption ==
  /\ Channel \cap HtmlStarts = {}
  /\ \A m \in Markers : \A n \in Channel \cup HtmlCloses :
       m # n => \E k \in 1..Len(m) : k <= Len(n) /\ Lower[m[k]][1] # Lower[n[k]][1]

VARIABLES
  text,      \* the whole of what the backend sends
  sent,      \* how many characters of it were fed
  buffer,    \* _buffer
  hidden,    \* _hidden
  out,       \* everything feed and finish returned so far
  mode       \* idle between calls, feeding or finishing in one, done after finish

sanitizerVars == <<text, sent, buffer, hidden, out, mode>>

SanitizerInit ==
  /\ text \in Texts
  /\ sent = 0
  /\ buffer = <<>>
  /\ hidden = FALSE
  /\ out = <<>>
  /\ mode = "idle"

-----------------------------------------------------------------------------
(* Searching.                                                              *)

\* As long as s unless a character of it has a longer lower case.
LowerText(s) ==
  IF \A i \in 1..Len(s) : Len(Lower[s[i]]) = 1
    THEN [i \in 1..Len(s) |-> Lower[s[i]][1]]
    ELSE FlattenSeq([i \in 1..Len(s) |-> Lower[s[i]]])

LowerMarker == [m \in HiddenMarkers \cup VisibleMarkers |-> LowerText(m)]

OccursAt(s, marker, i) ==
  i + Len(marker) <= Len(s) + 1 /\ SubSeq(s, i, i + Len(marker) - 1) = marker

Occurrences(s, markers) == {i \in 1..Len(s) : \E m \in markers : OccursAt(s, m, i)}

\* The end of the buffer counts: the next chunk will tell.
TagBoundary(s, i) == i > Len(s) \/ s[i] \in Boundary

\* Where html tags open.  The search is in the lower-cased text, the boundary is
\* read from the text itself at the same index.
HtmlOpenings(s) ==
  LET low == LowerText(s)
  IN  {i \in 1..Len(low) : \E m \in HtmlStarts :
         OccursAt(low, m, i) /\ TagBoundary(s, i + Len(m))}

VisiblePositions(s) == Occurrences(s, {Thought, Final, Close}) \cup HtmlOpenings(s)

HiddenPositions(s) == Occurrences(s, {Final, Close}) \cup Occurrences(LowerText(s), HtmlCloses)

First(positions) == CHOOSE i \in positions : \A j \in positions : i <= j

\* buffer[i:], which is empty past the end.
From(s, i) == SubSeq(s, i, Len(s))

UpTo(s, i) == SubSeq(s, 1, IF i <= Len(s) THEN i ELSE Len(s))

\* Mutant: the longest beginning of a marker is left out.
SafeSuffixLenShort(s, markers) ==
  LET low     == LowerText(s)
      lows    == {LowerMarker[m] : m \in markers}
      longest == CHOOSE n \in {Len(m) : m \in markers} : \A m \in markers : Len(m) <= n
      fits    == {n \in 1..(longest - 2) : n <= Len(s)
                    /\ \E m \in lows : n <= Len(m) /\ From(low, Len(low) - n + 1) = UpTo(m, n)}
  IN  IF fits = {} THEN 0 ELSE CHOOSE n \in fits : \A k \in fits : k <= n

\* The length of the longest suffix that a marker, read in lower case, could begin
\* with; a marker that is complete is not held back by it.
SafeSuffixLen(s, markers) ==
  LET low     == LowerText(s)
      lows    == {LowerMarker[m] : m \in markers}
      longest == CHOOSE n \in {Len(m) : m \in markers} : \A m \in markers : Len(m) <= n
      fits    == {n \in 1..(longest - 1) : n <= Len(s)
                    /\ \E m \in lows : n <= Len(m) /\ From(low, Len(low) - n + 1) = UpTo(m, n)}
  IN  IF fits = {} THEN 0 ELSE CHOOSE n \in fits : \A k \in fits : k <= n

-----------------------------------------------------------------------------
(* The calls.                                                              *)

Feed ==
  /\ mode = "idle"
  /\ \E n \in (sent + 1)..Len(text) :
       /\ sent' = n
       /\ buffer' = buffer \o SubSeq(text, sent + 1, n)
  /\ mode' = "feeding"
  /\ UNCHANGED <<text, hidden, out>>

\* It may be called again: the buffer is empty then.
Finish ==
  /\ mode \in {"idle", "done"}
  /\ sent = Len(text)
  /\ mode' = "finishing"
  /\ UNCHANGED <<text, sent, buffer, hidden, out>>

InLoop == mode \in {"feeding", "finishing"}

\* One iteration: what is appended to the output, what stays in the buffer.
Continues(output, rest) ==
  /\ out' = out \o output
  /\ buffer' = rest
  /\ UNCHANGED <<text, sent, mode>>

\* The last iteration: the call returns.
Breaks(output, rest) ==
  /\ out' = out \o output
  /\ buffer' = rest
  /\ mode' = IF mode = "feeding" THEN "idle" ELSE "done"
  /\ UNCHANGED <<text, sent, hidden>>

DrainEmpty ==
  /\ InLoop
  /\ buffer = <<>>
  /\ Breaks(<<>>, <<>>)

-----------------------------------------------------------------------------
(* Iterations inside a hidden span.                                        *)

HiddenStart == OccursAt(buffer, Final, 1) \/ OccursAt(buffer, Close, 1)
               \/ \E m \in HtmlCloses : OccursAt(LowerText(buffer), m, 1)

ConsumeHiddenMarker ==
  /\ InLoop /\ hidden
  /\ \E m \in HiddenMarkers :
       /\ OccursAt(IF m \in HtmlCloses THEN LowerText(buffer) ELSE buffer, m, 1)
       /\ Continues(<<>>, From(buffer, Len(m) + 1))
  /\ hidden' = FALSE

\* Mutant: the text before the marker is not cut off.
SkipNothing ==
  /\ InLoop /\ hidden
  /\ ~HiddenStart
  /\ HiddenPositions(buffer) # {}
  /\ Continues(<<>>, buffer)
  /\ UNCHANGED hidden

SkipToHiddenMarker ==
  /\ InLoop /\ hidden
  /\ ~HiddenStart
  /\ HiddenPositions(buffer) # {}
  /\ Continues(<<>>, From(buffer, First(HiddenPositions(buffer))))
  /\ UNCHANGED hidden

\* Mutant: hidden text is dropped to its last character, marker begun or not.
DropAllHidden ==
  /\ InLoop /\ hidden /\ buffer # <<>>
  /\ HiddenPositions(buffer) = {}
  /\ Breaks(<<>>, <<>>)

\* No marker ends the span: finish drops it, feed keeps what may begin one.
DropHidden ==
  /\ InLoop /\ hidden /\ buffer # <<>>
  /\ HiddenPositions(buffer) = {}
  /\ LET keep == IF mode = "finishing" THEN 0 ELSE SafeSuffixLen(buffer, HiddenMarkers)
     IN  Breaks(<<>>, From(buffer, Len(buffer) - keep + 1))

-----------------------------------------------------------------------------
(* Iterations in visible text.                                             *)

ConsumeVisibleMarker ==
  /\ InLoop /\ ~hidden
  /\ \E m \in {Thought, Final, Close} :
       /\ OccursAt(buffer, m, 1)
       /\ Continues(<<>>, From(buffer, Len(m) + 1))
       /\ hidden' = (m = Thought)

TagEnds == {i \in 1..Len(buffer) : buffer[i] = TagEnd}

OpenTag ==
  /\ InLoop /\ ~hidden
  /\ 1 \in HtmlOpenings(buffer)
  /\ TagEnds # {}
  /\ Continues(<<>>, From(buffer, First(TagEnds) + 1))
  /\ hidden' = TRUE

\* The tag does not end in the buffer: feed waits, finish shows it.
UnendedTag ==
  /\ InLoop /\ ~hidden
  /\ 1 \in HtmlOpenings(buffer)
  /\ TagEnds = {}
  /\ IF mode = "feeding" THEN Breaks(<<>>, buffer) ELSE Breaks(buffer, <<>>)

EmitToMarker ==
  /\ InLoop /\ ~hidden
  /\ LET positions == VisiblePositions(buffer)
     IN  /\ positions # {}
         /\ 1 \notin positions
         /\ Continues(UpTo(buffer, First(positions) - 1), From(buffer, First(positions)))
  /\ UNCHANGED hidden

\* Mutant: plain text waits for finish.
HoldPlain ==
  /\ InLoop /\ ~hidden /\ buffer # <<>>
  /\ VisiblePositions(buffer) = {}
  /\ IF mode = "feeding" THEN Breaks(<<>>, buffer) ELSE Breaks(buffer, <<>>)

\* No marker: finish shows everything, feed all but what may begin one.
EmitPlain ==
  /\ InLoop /\ ~hidden /\ buffer # <<>>
  /\ VisiblePositions(buffer) = {}
  /\ LET keep == IF mode = "finishing" THEN 0 ELSE SafeSuffixLen(buffer, VisibleMarkers)
     IN  Breaks(UpTo(buffer, Len(buffer) - keep), From(buffer, Len(buffer) - keep + 1))

-----------------------------------------------------------------------------

Iterate ==
  \/ DrainEmpty \/ ConsumeHiddenMarker \/ SkipToHiddenMarker \/ DropHidden
  \/ ConsumeVisibleMarker \/ OpenTag \/ UnendedTag \/ EmitToMarker \/ EmitPlain

SanitizerNext == Feed \/ Finish \/ Iterate

SanitizerSpec == SanitizerInit /\ [][SanitizerNext]_sanitizerVars

\* A call runs to its end once it has begun.
SanitizerFairSpec == SanitizerSpec /\ WF_sanitizerVars(Iterate)

-----------------------------------------------------------------------------
(* What a text shows, read from left to right without chunks or buffers:   *)
(* the definition the loop is checked against.                             *)

\* Character by character, whatever the case and the width of the lower case.
MatchesAt(t, m, i) ==
  /\ i + Len(m) <= Len(t) + 1
  /\ \A j \in 1..Len(m) : Lower[t[i + j - 1]] = <<m[j]>>

EndsAt(t, i) ==
  {m \in HiddenMarkers : IF m \in HtmlCloses THEN MatchesAt(t, m, i) ELSE OccursAt(t, m, i)}

ChannelAt(t, i) == {m \in Channel : OccursAt(t, m, i)}

OpensAt(t, i) == \E m \in HtmlStarts : MatchesAt(t, m, i) /\ TagBoundary(t, i + Len(m))

TagEndsFrom(t, i) == {j \in i..Len(t) : t[j] = TagEnd}

\* What the text shows from character i on, inside a hidden span and outside, if show
\* says that of the characters after it.
HiddenFrom(t, show, i) ==
  IF EndsAt(t, i) # {}
    THEN show[i + Len(CHOOSE m \in EndsAt(t, i) : TRUE)]["visible"]
    ELSE show[i + 1]["hidden"]

VisibleFrom(t, show, i) ==
  IF ChannelAt(t, i) # {}
    THEN LET m == CHOOSE m \in ChannelAt(t, i) : TRUE
         IN  show[i + Len(m)][IF m = Thought THEN "hidden" ELSE "visible"]
    ELSE IF OpensAt(t, i)
           THEN IF TagEndsFrom(t, i) = {}
                  THEN From(t, i)
                  ELSE show[First(TagEndsFrom(t, i)) + 1]["hidden"]
           ELSE <<t[i]>> \o show[i + 1]["visible"]

ShownFrom(t, show, i) ==
  [side \in {"hidden", "visible"} |->
     IF i > Len(t) THEN <<>>
     ELSE IF side = "hidden" THEN HiddenFrom(t, show, i) ELSE VisibleFrom(t, show, i)]

Shows(t) ==
  LET show[i \in 1..(Len(t) + 1)] == ShownFrom(t, show, i) IN show

Shown(t) == Shows(t)[1]["visible"]

ShownOf == [t \in Texts |-> Shown(t)]

\* No character is longer in lower case; the run sanitizer_wide has one that is.
Narrow == \A c \in DOMAIN Lower : Lower[c] = <<Lower[c][1]>>

\* However the text is cut into chunks, nothing ever leaves feed that the whole text
\* would hide: what is out is a beginning of what the text shows ("Streaming markers
\* split across chunks do not leak tags or hidden text", p0-005).
NothingHiddenLeaves == IsPrefix(out, ShownOf[text])

\* However the text is cut, in the end all that it shows is out, and nothing else:
\* holding back what may begin a marker loses nothing.
ChunksDoNotMatter == mode = "done" => out = ShownOf[text]

\* s is the beginning of the marker m in whatever case, and not m itself.
Begins(s, m) ==
  /\ s # m /\ Len(s) <= Len(m)
  /\ LowerText(s) = UpTo(LowerMarker[m], Len(s))

\* Between calls, all that is held back is the beginning of a marker that the place looks
\* for, or, in visible text, what follows a tag that has opened and not ended.  How much
\* that is nothing bounds: text after a tag that never ends waits for finish.
HeldBack ==
  mode = "idle" =>
    \/ \E m \in IF hidden THEN HiddenMarkers ELSE VisibleMarkers : Begins(buffer, m)
    \/ ~hidden /\ 1 \in HtmlOpenings(buffer) /\ TagEnds = {}

\* The loop of _drain ends for every buffer: each iteration shortens it or breaks.
CallsReturn == InLoop ~> ~InLoop
=============================================================================
