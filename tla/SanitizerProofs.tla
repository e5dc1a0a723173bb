-------------------------- MODULE SanitizerProofs ---------------------------
(***************************************************************************)
(* Proofs about ThoughtSanitizer and SanitizedStream, for texts of any     *)
(* length, any markers of the shape the code's have, and any cut into      *)
(* chunks.                                                                 *)
(*                                                                         *)
(* The reference definition Shows(t) goes over the whole text, the loop    *)
(* over a buffer that is a window of it.  ChunkInv ties them: what is out, *)
(* followed by what the text shows from the window on, is what the text    *)
(* shows.  It is inductive because an iteration takes some characters from *)
(* the buffer and tells exactly what the text shows of them (Tells), which *)
(* rests on two facts: a marker in the buffer is in the text at the same   *)
(* place (WindowFinds), and one that is in the text but not yet whole in   *)
(* the buffer begins in the suffix that is held back (BegunIsHeld).        *)
(*                                                                         *)
(* That Shows is defined, and what a stretch without markers shows, needs  *)
(* induction over the text; it is carried out on sets of numbers, from     *)
(* the fact that one that is not empty has a least element (Inductive).    *)
(***************************************************************************)
EXTENDS SanitizedStream, SequenceTheorems, WellFoundedInduction, TLAPS

\* A set of numbers that is not empty has a least one, and First names it.
LEMMA LeastOf ==
  ASSUME NEW S, S \subseteq Nat, S # {}
  PROVE  First(S) \in S /\ \A j \in S : First(S) <= j
<1>1. \E i \in S : \A j \in S : ~(<<j, i>> \in OpToRel(<, Nat))
  BY WFMin, NatLessThanWellFounded
<1>2. PICK i \in S : \A j \in S : ~(j < i)
  BY <1>1 DEF OpToRel
<1>3. \A j \in S : i <= j
  BY <1>2
<1> QED BY <1>3 DEF First

\* Induction, for a set.
LEMMA Inductive ==
  ASSUME NEW S, 0 \in S, \A n \in Nat : n \in S => n + 1 \in S
  PROVE  Nat \subseteq S
<1>1. SUFFICES ASSUME Nat \ S # {} PROVE FALSE
  OBVIOUS
<1>2. PICK n \in Nat \ S : \A j \in Nat \ S : n <= j
  BY <1>1, LeastOf
<1>3. n # 0 /\ n - 1 \in Nat /\ n - 1 \in S
  BY <1>2
<1> QED BY <1>2, <1>3

\* Of a set of numbers with a bound one is the greatest.
LEMMA GreatestOf ==
  ASSUME NEW S, NEW b \in Nat, S \subseteq 0..b, S # {}
  PROVE  \E n \in S : \A k \in S : k <= n
<1> DEFINE T == {b - n : n \in S}
<1>0. \A n \in S : b - n \in Nat
  OBVIOUS
<1>1. T \subseteq Nat /\ T # {}
  BY <1>0
<1>2. PICK d \in T : \A j \in T : d <= j
  BY <1>1, LeastOf
<1>3. PICK n \in S : d = b - n
  BY <1>2
<1>4. \A k \in S : k <= n
  BY <1>2, <1>3
<1> QED BY <1>4

-----------------------------------------------------------------------------

\* The characters.
Chars == DOMAIN Lower
Sides == {"hidden", "visible"}

\* A marker is a text that is not empty.
LEMMA MarkersAre ==
  ASSUME NEW m \in Markers
  PROVE  m \in Seq(Chars) /\ Len(m) \in Nat \ {0}
BY TextAssumption, EmptySeq DEF Chars

\* What is looked for is a marker.
LEMMA MarkerSets ==
  /\ HiddenMarkers \subseteq Markers /\ VisibleMarkers \subseteq Markers
  /\ Channel \subseteq Markers /\ HtmlStarts \subseteq Markers /\ HtmlCloses \subseteq Markers
BY DEF Markers, HiddenMarkers, VisibleMarkers, Channel

\* A marker occurs at a place if it agrees there character by character.
LEMMA OccursMeans ==
  ASSUME NEW C, NEW s \in Seq(C), NEW D, NEW m \in Seq(D), NEW i \in Nat \ {0}
  PROVE  OccursAt(s, m, i) <=>
           i + Len(m) <= Len(s) + 1 /\ \A k \in 1..Len(m) : s[i + k - 1] = m[k]
<1>1. ASSUME i + Len(m) <= Len(s) + 1
      PROVE  SubSeq(s, i, i + Len(m) - 1) = m <=> \A k \in 1..Len(m) : s[i + k - 1] = m[k]
  <2> DEFINE u == SubSeq(s, i, i + Len(m) - 1)
  <2>1. /\ u \in Seq(C) /\ Len(u) = Len(m)
        /\ \A k \in 1..Len(m) : u[k] = s[i + k - 1]
    BY <1>1
  <2>2. u = m <=> \A k \in 1..Len(m) : u[k] = m[k]
    <3>1. u \in Seq(C \cup D) /\ m \in Seq(C \cup D)
      BY <2>1
    <3> QED BY <2>1, <3>1, SeqEqual
  <2> QED BY <2>1, <2>2
<1> QED BY <1>1 DEF OccursAt

-----------------------------------------------------------------------------
(* The reference definition.  Its recursion goes from the end of the text  *)
(* to its beginning; there is one such function.                           *)

\* The places of a text, the one after its end included, and what a function may show there.
Places(t) == 1..(Len(t) + 1)
ShowType(t) == [Places(t) -> [Sides -> Seq(Chars)]]

\* A marker that is found at a place ends within the text.
LEMMA MarkersReach ==
  ASSUME NEW t \in Seq(Chars), NEW i \in Places(t), NEW m \in EndsAt(t, i) \cup ChannelAt(t, i)
  PROVE  m \in Markers /\ i + Len(m) \in (i + 1)..(Len(t) + 1)
<1>1. m \in Markers
  BY MarkerSets DEF EndsAt, ChannelAt
<1>2. i + Len(m) <= Len(t) + 1
  BY DEF EndsAt, ChannelAt, OccursAt, MatchesAt
<1> QED BY <1>1, <1>2, MarkersAre DEF Places

\* The first end of a tag is within the text.
LEMMA TagEndReaches ==
  ASSUME NEW t \in Seq(Chars), NEW i \in Places(t), TagEndsFrom(t, i) # {}
  PROVE  /\ First(TagEndsFrom(t, i)) \in TagEndsFrom(t, i)
         /\ \A j \in TagEndsFrom(t, i) : First(TagEndsFrom(t, i)) <= j
         /\ First(TagEndsFrom(t, i)) + 1 \in (i + 1)..(Len(t) + 1)
<1>1. TagEndsFrom(t, i) \subseteq i..Len(t) /\ TagEndsFrom(t, i) \subseteq Nat
  BY DEF TagEndsFrom, Places
<1>2. /\ First(TagEndsFrom(t, i)) \in TagEndsFrom(t, i)
      /\ \A j \in TagEndsFrom(t, i) : First(TagEndsFrom(t, i)) <= j
  BY <1>1, LeastOf
<1> QED BY <1>1, <1>2 DEF Places

\* What is left of a text from a place on.
LEMMA FromIs ==
  ASSUME NEW C, NEW s \in Seq(C), NEW i \in 1..(Len(s) + 1)
  PROVE  /\ From(s, i) \in Seq(C) /\ Len(From(s, i)) = Len(s) - i + 1
         /\ \A k \in 1..(Len(s) - i + 1) : From(s, i)[k] = s[i + k - 1]
BY DEF From

\* The same of the texts.
LEMMA FromText ==
  \A s \in Seq(Chars) : \A i \in 1..(Len(s) + 1) :
    /\ Len(From(s, i)) = Len(s) - i + 1
    /\ \A k \in 1..(Len(s) - i + 1) : From(s, i)[k] = s[i + k - 1]
BY FromIs

\* What is shown from a place on depends on what is shown after it.
LEMMA ShownFromLater ==
  ASSUME NEW t \in Seq(Chars), NEW i \in Places(t), NEW f \in ShowType(t),
         NEW g, \A j \in (i + 1)..(Len(t) + 1) : f[j] = g[j]
  PROVE  /\ ShownFrom(t, f, i) = ShownFrom(t, g, i)
         /\ ShownFrom(t, f, i) \in [Sides -> Seq(Chars)]
<1>1. CASE i > Len(t)
  BY <1>1 DEF ShownFrom, Sides
<1>2. CASE i <= Len(t)
  <2>0. i + 1 \in (i + 1)..(Len(t) + 1) /\ t[i] \in Chars
    BY <1>2 DEF Places
  <2>1. \A j \in (i + 1)..(Len(t) + 1) :
          /\ f[j] = g[j] /\ f[j]["hidden"] \in Seq(Chars) /\ f[j]["visible"] \in Seq(Chars)
    BY DEF ShowType, Sides, Places
  <2>2. HiddenFrom(t, f, i) = HiddenFrom(t, g, i) /\ HiddenFrom(t, f, i) \in Seq(Chars)
    <3>1. CASE EndsAt(t, i) # {}
      <4> DEFINE m == CHOOSE m \in EndsAt(t, i) : TRUE
      <4>1. m \in EndsAt(t, i)
        BY <3>1
      <4>2. i + Len(m) \in (i + 1)..(Len(t) + 1)
        BY <4>1, MarkersReach
      <4>3. HiddenFrom(t, f, i) = f[i + Len(m)]["visible"]
            /\ HiddenFrom(t, g, i) = g[i + Len(m)]["visible"]
        BY <3>1 DEF HiddenFrom
      <4> HIDE DEF m
      <4> QED BY <2>1, <4>2, <4>3
    <3>2. CASE EndsAt(t, i) = {}
      BY <2>0, <2>1, <3>2 DEF HiddenFrom
    <3> QED BY <3>1, <3>2
  <2>3. VisibleFrom(t, f, i) = VisibleFrom(t, g, i) /\ VisibleFrom(t, f, i) \in Seq(Chars)
    <3>1. CASE ChannelAt(t, i) # {}
      <4> DEFINE m == CHOOSE m \in ChannelAt(t, i) : TRUE
                 side == IF m = Thought THEN "hidden" ELSE "visible"
      <4>1. m \in ChannelAt(t, i)
        BY <3>1
      <4>2. i + Len(m) \in (i + 1)..(Len(t) + 1)
        BY <4>1, MarkersReach
      <4>3. VisibleFrom(t, f, i) = f[i + Len(m)][side]
            /\ VisibleFrom(t, g, i) = g[i + Len(m)][side]
        BY <3>1 DEF VisibleFrom
      <4>4. side \in {"hidden", "visible"}
        OBVIOUS
      <4> HIDE DEF m, side
      <4> QED BY <2>1, <4>2, <4>3, <4>4
    <3>2. CASE ChannelAt(t, i) = {} /\ OpensAt(t, i)
      <4>1. CASE TagEndsFrom(t, i) = {}
        BY <3>2, <4>1, FromIs DEF VisibleFrom, Places
      <4>2. CASE TagEndsFrom(t, i) # {}
        <5> DEFINE j == First(TagEndsFrom(t, i)) + 1
        <5>1. j \in (i + 1)..(Len(t) + 1)
          BY <4>2, TagEndReaches
        <5>2. VisibleFrom(t, f, i) = f[j]["hidden"] /\ VisibleFrom(t, g, i) = g[j]["hidden"]
          BY <3>2, <4>2 DEF VisibleFrom
        <5> HIDE DEF j
        <5> QED BY <2>1, <5>1, <5>2
      <4> QED BY <4>1, <4>2
    <3>3. CASE ChannelAt(t, i) = {} /\ ~OpensAt(t, i)
      <4>1. VisibleFrom(t, f, i) = <<t[i]>> \o f[i + 1]["visible"]
            /\ VisibleFrom(t, g, i) = <<t[i]>> \o g[i + 1]["visible"]
        BY <3>3 DEF VisibleFrom
      <4>2. <<t[i]>> \in Seq(Chars)
        BY <2>0
      <4> QED BY <2>0, <2>1, <4>1, <4>2
    <3> QED BY <3>1, <3>2, <3>3
  <2>4. /\ ShownFrom(t, f, i) = [side \in Sides |-> IF side = "hidden" THEN HiddenFrom(t, f, i)
                                                                     ELSE VisibleFrom(t, f, i)]
        /\ ShownFrom(t, g, i) = [side \in Sides |-> IF side = "hidden" THEN HiddenFrom(t, g, i)
                                                                     ELSE VisibleFrom(t, g, i)]
    BY <1>2 DEF ShownFrom, Sides, Places
  <2> QED BY <2>2, <2>3, <2>4
<1> QED BY <1>1, <1>2 DEF Places

\* From the end of the text on, there is such a function as far as one likes.
LEMMA ShowsExists ==
  ASSUME NEW t \in Seq(Chars)
  PROVE  \E f \in ShowType(t) : \A i \in Places(t) : f[i] = ShownFrom(t, f, i)
<1> DEFINE Solves(f, k) == \A i \in Places(t) : i > Len(t) + 1 - k => f[i] = ShownFrom(t, f, i)
           S == {k \in Nat : \E f \in ShowType(t) : Solves(f, k)}
<1>1. 0 \in S
  <2> DEFINE f == [i \in Places(t) |-> [side \in Sides |-> <<>>]]
  <2>1. f \in ShowType(t)
    BY DEF ShowType
  <2>2. Solves(f, 0)
    BY DEF Places
  <2> QED BY <2>1, <2>2
<1>2. ASSUME NEW k \in Nat, k \in S PROVE k + 1 \in S
  <2>1. PICK f \in ShowType(t) : Solves(f, k)
    BY <1>2
  <2> DEFINE j == Len(t) + 1 - k
  <2>2. CASE j < 1
    <3>1. Solves(f, k + 1)
      BY <2>1, <2>2 DEF Places
    <3> QED BY <3>1
  <2>3. CASE ~(j < 1)
    <3> DEFINE g == [f EXCEPT ![j] = ShownFrom(t, f, j)]
    <3>1. j \in Places(t)
      BY <2>3 DEF Places
    <3>2. ShownFrom(t, f, j) \in [Sides -> Seq(Chars)]
      BY <3>1, ShownFromLater
    <3>3. g \in ShowType(t)
      BY <3>1, <3>2 DEF ShowType
    <3>4. g[j] = ShownFrom(t, f, j) /\ \A i \in Places(t) : i # j => g[i] = f[i]
      BY <3>1 DEF ShowType
    <3> HIDE DEF g
    <3>5. ASSUME NEW i \in Places(t), i > Len(t) + 1 - (k + 1)
          PROVE  g[i] = ShownFrom(t, g, i)
      <4>1. \A n \in (i + 1)..(Len(t) + 1) : f[n] = g[n]
        BY <3>4, <3>5 DEF Places
      <4>2. ShownFrom(t, f, i) = ShownFrom(t, g, i)
        BY <3>3, <4>1, ShownFromLater
      <4>3. g[i] = ShownFrom(t, f, i)
        BY <2>1, <3>4, <3>5 DEF Places
      <4> QED BY <4>2, <4>3
    <3> QED BY <3>3, <3>5
  <2> QED BY <2>2, <2>3
<1> HIDE DEF S
<1>3. Len(t) + 1 \in S
  BY <1>1, <1>2, Inductive
<1>4. PICK f \in ShowType(t) : Solves(f, Len(t) + 1)
  BY <1>3 DEF S
<1> QED BY <1>4 DEF Places

\* What a text shows is what the recursion says of it.
LEMMA ShowsIs ==
  ASSUME NEW t \in Seq(Chars)
  PROVE  /\ Shows(t) \in ShowType(t)
         /\ \A i \in Places(t) : Shows(t)[i] = ShownFrom(t, Shows(t), i)
<1> DEFINE Is(show) == show = [i \in 1..(Len(t) + 1) |-> ShownFrom(t, show, i)]
<1>1. PICK f \in ShowType(t) : \A i \in Places(t) : f[i] = ShownFrom(t, f, i)
  BY ShowsExists
<1>2. Is(f)
  BY <1>1 DEF ShowType, Places
<1>3. Shows(t) = CHOOSE show : Is(show)
  BY DEF Shows
<1>4. Is(Shows(t))
  BY <1>2, <1>3
<1>5. \A i \in Places(t) : Shows(t)[i] = ShownFrom(t, Shows(t), i)
  BY <1>4 DEF Places
<1> DEFINE S == {k \in Nat : \A i \in Places(t) : i > Len(t) + 1 - k => f[i] = Shows(t)[i]}
<1>6. 0 \in S
  BY DEF Places
<1>7. ASSUME NEW k \in Nat, k \in S PROVE k + 1 \in S
  <2>1. ASSUME NEW i \in Places(t), i > Len(t) + 1 - (k + 1)
        PROVE  f[i] = Shows(t)[i]
    <3>1. \A j \in (i + 1)..(Len(t) + 1) : f[j] = Shows(t)[j]
      BY <1>7, <2>1 DEF Places
    <3>2. ShownFrom(t, f, i) = ShownFrom(t, Shows(t), i)
      BY <3>1, ShownFromLater
    <3> QED BY <1>1, <1>5, <3>2
  <2> QED BY <2>1
<1> HIDE DEF S
<1>8. Len(t) + 1 \in S
  BY <1>6, <1>7, Inductive
<1>9. \A i \in Places(t) : f[i] = Shows(t)[i]
  BY <1>8 DEF S, Places
<1>10. Shows(t) = [i \in Places(t) |-> ShownFrom(t, Shows(t), i)]
  BY <1>4 DEF Places
<1>11. Shows(t) = f
  BY <1>9, <1>10 DEF ShowType
<1> QED BY <1>5, <1>11

-----------------------------------------------------------------------------
(* Searching, if no character gets longer in lower case.                   *)

\* The lower case of a character, where it is one.
Low(c) == Lower[c][1]
LowChars == {Low(c) : c \in Chars}

\* The lower case of a character is one character.
LEMMA NarrowMeans ==
  ASSUME Narrow, NEW c \in Chars
  PROVE  Lower[c] = <<Low(c)>>
BY DEF Narrow, Chars, Low

\* The lower-cased text is as long as the text: an index of one is an index of the other.
LEMMA LowerIs ==
  ASSUME Narrow, NEW s \in Seq(Chars)
  PROVE  /\ LowerText(s) \in Seq(LowChars) /\ Len(LowerText(s)) = Len(s)
         /\ \A i \in 1..Len(s) : LowerText(s)[i] = Low(s[i])
<1>1. \A i \in 1..Len(s) : s[i] \in Chars
  OBVIOUS
<1>2. \A c \in Chars : Len(Lower[c]) = 1
  <2>1. \A d : Len(<<d>>) = 1
    OBVIOUS
  <2> QED BY <2>1, NarrowMeans, Zenon
<1>3. LowerText(s) = [i \in 1..Len(s) |-> Low(s[i])]
  BY <1>1, <1>2 DEF LowerText, Low
<1>4. \A i \in 1..Len(s) : Low(s[i]) \in LowChars
  BY <1>1 DEF LowChars
<1> QED BY <1>3, <1>4

\* Whatever the case, m is in t at i.
Fits(t, m, i) ==
  i + Len(m) <= Len(t) + 1 /\ \A k \in 1..Len(m) : Low(t[i + k - 1]) = Low(m[k])

\* An html marker is its own lower case.
LEMMA HtmlLower ==
  ASSUME NEW m \in Html
  PROVE  m \in Markers /\ \A k \in 1..Len(m) : Lower[m[k]] = <<m[k]>> /\ Low(m[k]) = m[k]
<1>1. m \in Markers
  BY MarkerSets DEF Html
<1>2. \A k \in 1..Len(m) : Lower[m[k]] = <<m[k]>>
  BY ShapeAssumption
<1>3. \A d : <<d>>[1] = d
  OBVIOUS
<1>4. \A k \in 1..Len(m) : Low(m[k]) = m[k]
  BY <1>2, <1>3, Zenon DEF Low
<1> QED BY <1>1, <1>2, <1>4

\* The two ways in which html markers are looked for, character by character and in the
\* lower-cased text, agree.
LEMMA MatchIsFit ==
  ASSUME Narrow, NEW s \in Seq(Chars), NEW i \in Nat \ {0}, NEW m \in Html
  PROVE  /\ MatchesAt(s, m, i) <=> Fits(s, m, i)
         /\ OccursAt(LowerText(s), m, i) <=> Fits(s, m, i)
<1>1. m \in Seq(Chars) /\ \A k \in 1..Len(m) : Low(m[k]) = m[k]
  BY HtmlLower, MarkersAre
<1>2. \A k \in 1..Len(m) : i + Len(m) <= Len(s) + 1 => s[i + k - 1] \in Chars
  BY <1>1
<1>3. \A c \in Chars : \A d : Lower[c] = <<d>> <=> Low(c) = d
  <2>1. \A d, e : <<e>> = <<d>> <=> e = d
    OBVIOUS
  <2> QED BY <2>1, NarrowMeans, Zenon
<1>4. MatchesAt(s, m, i) <=> Fits(s, m, i)
  <2>1. ASSUME i + Len(m) <= Len(s) + 1, NEW k \in 1..Len(m)
        PROVE  Lower[s[i + k - 1]] = <<m[k]>> <=> Low(s[i + k - 1]) = Low(m[k])
    <3>1. s[i + k - 1] \in Chars /\ Low(m[k]) = m[k]
      BY <1>1, <1>2, <2>1
    <3> QED BY <1>3, <3>1
  <2> QED BY <2>1 DEF MatchesAt, Fits
<1>5. OccursAt(LowerText(s), m, i) <=>
        i + Len(m) <= Len(s) + 1 /\ \A k \in 1..Len(m) : LowerText(s)[i + k - 1] = m[k]
  <2>1. LowerText(s) \in Seq(LowChars) /\ Len(LowerText(s)) = Len(s)
    BY LowerIs
  <2>2. OccursAt(LowerText(s), m, i) <=>
          i + Len(m) <= Len(LowerText(s)) + 1
            /\ \A k \in 1..Len(m) : LowerText(s)[i + k - 1] = m[k]
    BY <1>1, <2>1, OccursMeans
  <2> QED BY <2>1, <2>2
<1>6. i + Len(m) <= Len(s) + 1 =>
        \A k \in 1..Len(m) : LowerText(s)[i + k - 1] = Low(s[i + k - 1])
  BY <1>1, LowerIs
<1> QED BY <1>1, <1>4, <1>5, <1>6 DEF Fits

\* A marker that occurs fits.
LEMMA OccurrenceFits ==
  ASSUME NEW s \in Seq(Chars), NEW i \in Nat \ {0}, NEW m \in Markers, OccursAt(s, m, i)
  PROVE  Fits(s, m, i)
BY MarkersAre, OccursMeans DEF Fits

\* What is found at a place fits there.
LEMMA FoundFits ==
  ASSUME Narrow, NEW s \in Seq(Chars), NEW i \in Nat \ {0}
  PROVE  /\ \A m \in EndsAt(s, i) : m \in HiddenMarkers /\ Fits(s, m, i)
         /\ \A m \in ChannelAt(s, i) : m \in Channel /\ Fits(s, m, i)
BY MarkerSets, MatchIsFit, OccurrenceFits DEF EndsAt, ChannelAt, Html

\* Of two markers only one can be at a place, if one of them is of these.
LEMMA FitsApart ==
  ASSUME NEW s \in Seq(Chars), NEW i \in Nat \ {0}, NEW m \in Markers,
         NEW n \in Channel \cup HtmlCloses, Fits(s, m, i), Fits(s, n, i)
  PROVE  m = n
<1>1. SUFFICES ASSUME m # n PROVE FALSE
  OBVIOUS
<1>2. PICK k \in 1..Len(m) : k <= Len(n) /\ Low(m[k]) # Low(n[k])
  BY <1>1, ApartAssumption DEF Low
<1>3. Len(m) \in Nat /\ Len(n) \in Nat
  BY MarkersAre, MarkerSets
<1> QED BY <1>2, <1>3 DEF Fits

\* Markers begin where no other marker goes on.
LEMMA FitsShape ==
  ASSUME NEW s \in Seq(Chars), NEW i \in Nat \ {0}, NEW m \in Markers, Fits(s, m, i)
  PROVE  /\ s[i] = Final[1]
         /\ \A j \in (i + 1)..(i + Len(m) - 1) : s[j] # Final[1]
<1> DEFINE open == Final[1]
<1>1. m \in Seq(Chars) /\ Len(m) \in Nat \ {0}
  BY MarkersAre
<1>2. m[1] = open /\ \A k \in 2..Len(m) : m[k] # open
  BY ShapeAssumption
<1>3. \A c \in Chars : Low(c) = open <=> c = open
  BY ShapeAssumption DEF Chars, Low
<1>4. \A j \in i..(i + Len(m) - 1) : s[j] \in Chars
  BY <1>1 DEF Fits
<1> HIDE DEF open
<1>5. Low(s[i]) = Low(m[1]) /\ m[1] \in Chars
  BY <1>1 DEF Fits
<1>6. s[i] = open
  BY <1>1, <1>2, <1>3, <1>4, <1>5
<1>7. ASSUME NEW j \in (i + 1)..(i + Len(m) - 1) PROVE s[j] # open
  <2>1. /\ j - i + 1 \in 2..Len(m) /\ j - i + 1 \in 1..Len(m) /\ i + (j - i + 1) - 1 = j
        /\ j \in i..(i + Len(m) - 1)
    BY <1>1
  <2>2. Low(s[j]) = Low(m[j - i + 1]) /\ m[j - i + 1] \in Chars
    BY <1>1, <2>1 DEF Fits
  <2> QED BY <1>2, <1>3, <1>4, <2>1, <2>2
<1> QED BY <1>6, <1>7 DEF open

-----------------------------------------------------------------------------
(* The positions that the code searches for are those of the definition.   *)

\* The positions of the hidden loop are the places where a span may end.
LEMMA HiddenFound ==
  ASSUME Narrow, NEW s \in Seq(Chars)
  PROVE  HiddenPositions(s) = {i \in 1..Len(s) : EndsAt(s, i) # {}}
<1>1. Occurrences(LowerText(s), HtmlCloses) =
        {i \in 1..Len(s) : \E m \in HtmlCloses : OccursAt(LowerText(s), m, i)}
  BY LowerIs DEF Occurrences
<1>2. \A i \in 1..Len(s) : \A m \in HtmlCloses :
        OccursAt(LowerText(s), m, i) <=> m \in EndsAt(s, i)
  BY MatchIsFit DEF EndsAt, Html, HiddenMarkers
<1>3. \A i \in 1..Len(s) : \A m \in {Final, Close} : OccursAt(s, m, i) => m \in EndsAt(s, i)
  BY OccurrenceFits, MatchIsFit, MarkerSets DEF EndsAt, Html, HiddenMarkers
<1>4. \A i \in 1..Len(s) : \A m \in EndsAt(s, i) :
        m \in HtmlCloses \/ (m \in {Final, Close} /\ OccursAt(s, m, i))
  BY DEF EndsAt, HiddenMarkers
<1> QED BY <1>1, <1>2, <1>3, <1>4 DEF HiddenPositions, Occurrences

\* The positions where tags open are the places where a span may open.
LEMMA OpeningsFound ==
  ASSUME Narrow, NEW s \in Seq(Chars)
  PROVE  HtmlOpenings(s) = {i \in 1..Len(s) : OpensAt(s, i)}
<1>1. \A i \in 1..Len(s) : \A m \in HtmlStarts :
        OccursAt(LowerText(s), m, i) <=> MatchesAt(s, m, i)
  BY MatchIsFit DEF Html
<1> QED BY <1>1, LowerIs DEF HtmlOpenings, OpensAt

\* The positions of the visible loop are the places where it has something to consume.
LEMMA VisibleFound ==
  ASSUME Narrow, NEW s \in Seq(Chars)
  PROVE  VisiblePositions(s) = {i \in 1..Len(s) : ChannelAt(s, i) # {} \/ OpensAt(s, i)}
<1>1. Occurrences(s, {Thought, Final, Close}) = {i \in 1..Len(s) : ChannelAt(s, i) # {}}
  BY DEF Occurrences, ChannelAt, Channel
<1> QED BY <1>1, OpeningsFound DEF VisiblePositions

-----------------------------------------------------------------------------
(* The buffer is a window of the text.                                     *)

\* b is what t has after the first off characters, as far as it goes.
Window(b, t, off) == off + Len(b) <= Len(t) /\ \A i \in 1..Len(b) : b[i] = t[off + i]

\* A marker that is whole in a window fits there if and only if it fits in the text.
LEMMA WindowFits ==
  ASSUME NEW b \in Seq(Chars), NEW t \in Seq(Chars), NEW off \in Nat, Window(b, t, off),
         NEW m \in Markers, NEW i \in 1..Len(b)
  PROVE  /\ Fits(b, m, i) <=> i + Len(m) <= Len(b) + 1 /\ Fits(t, m, off + i)
         /\ OccursAt(b, m, i) <=> i + Len(m) <= Len(b) + 1 /\ OccursAt(t, m, off + i)
<1>1. m \in Seq(Chars) /\ Len(m) \in Nat \ {0}
  BY MarkersAre
<1>2. ASSUME i + Len(m) <= Len(b) + 1
      PROVE  /\ off + i + Len(m) <= Len(t) + 1
             /\ \A k \in 1..Len(m) : b[i + k - 1] = t[off + i + k - 1]
  <2>1. \A k \in 1..Len(m) : i + k - 1 \in 1..Len(b) /\ off + (i + k - 1) = off + i + k - 1
    BY <1>1, <1>2
  <2> QED BY <1>1, <1>2, <2>1 DEF Window
<1>3. Fits(b, m, i) <=> i + Len(m) <= Len(b) + 1 /\ Fits(t, m, off + i)
  BY <1>2 DEF Fits
<1>4. /\ OccursAt(b, m, i) <=>
           i + Len(m) <= Len(b) + 1 /\ \A k \in 1..Len(m) : b[i + k - 1] = m[k]
      /\ OccursAt(t, m, off + i) <=>
           off + i + Len(m) <= Len(t) + 1 /\ \A k \in 1..Len(m) : t[off + i + k - 1] = m[k]
  <2>1. i \in Nat \ {0} /\ off + i \in Nat \ {0}
    OBVIOUS
  <2>2. /\ OccursAt(t, m, off + i) <=>
             (off + i) + Len(m) <= Len(t) + 1 /\ \A k \in 1..Len(m) : t[(off + i) + k - 1] = m[k]
        /\ OccursAt(b, m, i) <=>
             i + Len(m) <= Len(b) + 1 /\ \A k \in 1..Len(m) : b[i + k - 1] = m[k]
    BY <1>1, <2>1, OccursMeans
  <2> QED BY <2>2
<1> QED BY <1>2, <1>3, <1>4

\* What is found in the buffer is in the text, and what is in the text and ends in the
\* buffer is found.
LEMMA WindowFinds ==
  ASSUME Narrow, NEW b \in Seq(Chars), NEW t \in Seq(Chars), NEW off \in Nat,
         Window(b, t, off), NEW i \in 1..Len(b)
  PROVE  /\ EndsAt(b, i) = {m \in EndsAt(t, off + i) : i + Len(m) <= Len(b) + 1}
         /\ ChannelAt(b, i) = {m \in ChannelAt(t, off + i) : i + Len(m) <= Len(b) + 1}
<1>1. \A m \in HtmlCloses :
        MatchesAt(b, m, i) <=> i + Len(m) <= Len(b) + 1 /\ MatchesAt(t, m, off + i)
  BY MatchIsFit, WindowFits, MarkerSets DEF Html
<1>2. EndsAt(b, i) = {m \in EndsAt(t, off + i) : i + Len(m) <= Len(b) + 1}
  BY <1>1, WindowFits, MarkerSets DEF EndsAt
<1>3. ChannelAt(b, i) = {m \in ChannelAt(t, off + i) : i + Len(m) <= Len(b) + 1}
  BY WindowFits, MarkerSets DEF ChannelAt
<1> QED BY <1>2, <1>3

\* A tag that opens in the text and whose name ends in the buffer is found; one that is
\* found opens in the text if its name does not end where the buffer ends.
LEMMA WindowOpens ==
  ASSUME Narrow, NEW b \in Seq(Chars), NEW t \in Seq(Chars), NEW off \in Nat,
         Window(b, t, off), NEW i \in 1..Len(b), NEW m \in HtmlStarts
  PROVE  /\ /\ MatchesAt(t, m, off + i) /\ TagBoundary(t, off + i + Len(m))
            /\ i + Len(m) <= Len(b) + 1
            => MatchesAt(b, m, i) /\ TagBoundary(b, i + Len(m))
         /\ /\ MatchesAt(b, m, i) /\ TagBoundary(b, i + Len(m))
            /\ i + Len(m) <= Len(b) \/ off + Len(b) = Len(t)
            => MatchesAt(t, m, off + i) /\ TagBoundary(t, off + i + Len(m))
<1>1. m \in Html /\ m \in Markers /\ Len(m) \in Nat \ {0}
  BY MarkerSets, MarkersAre DEF Html
<1>2. MatchesAt(b, m, i) <=> i + Len(m) <= Len(b) + 1 /\ MatchesAt(t, m, off + i)
  BY <1>1, MatchIsFit, WindowFits
<1>3. i + Len(m) <= Len(b) => b[i + Len(m)] = t[off + i + Len(m)] /\ off + i + Len(m) <= Len(t)
  <2>1. i + Len(m) <= Len(b) => i + Len(m) \in 1..Len(b) /\ off + (i + Len(m)) = off + i + Len(m)
    BY <1>1
  <2> QED BY <1>1, <2>1 DEF Window
<1>4. MatchesAt(b, m, i) => i + Len(m) <= Len(b) + 1
  BY <1>2
<1> QED BY <1>1, <1>2, <1>3, <1>4 DEF TagBoundary, Window

-----------------------------------------------------------------------------
(* What is held back.                                                      *)

HeldLengths(s, markers, longest) ==
  {n \in 1..(longest - 1) : n <= Len(s)
     /\ \E m \in {LowerMarker[k] : k \in markers} :
          n <= Len(m) /\ From(LowerText(s), Len(LowerText(s)) - n + 1) = UpTo(m, n)}

\* It is shorter than some marker, fits if it is not nothing, and is the longest that fits.
LEMMA SuffixIs ==
  ASSUME NEW s \in Seq(Chars), NEW markers \in {HiddenMarkers, VisibleMarkers}
  PROVE  /\ SafeSuffixLen(s, markers) \in 0..Len(s)
         /\ \E m \in markers :
              /\ SafeSuffixLen(s, markers) < Len(m) /\ \A k \in markers : Len(k) <= Len(m)
              /\ \/ SafeSuffixLen(s, markers) = 0
                 \/ SafeSuffixLen(s, markers) \in HeldLengths(s, markers, Len(m))
              /\ \A n \in HeldLengths(s, markers, Len(m)) : n <= SafeSuffixLen(s, markers)
<1> DEFINE longest == CHOOSE n \in {Len(m) : m \in markers} : \A m \in markers : Len(m) <= n
           fits    == HeldLengths(s, markers, longest)
           keep    == SafeSuffixLen(s, markers)
<1>1. PICK m \in markers : \A k \in markers : Len(k) <= Len(m)
  BY TextAssumption
<1>2. \A k \in markers : Len(k) \in Nat \ {0}
  BY MarkersAre, MarkerSets
<1>3. \E n \in {Len(k) : k \in markers} : \A k \in markers : Len(k) <= n
  BY <1>1
<1>4. longest = Len(m)
  <2>1. longest \in {Len(k) : k \in markers} /\ \A k \in markers : Len(k) <= longest
    BY <1>3
  <2> HIDE DEF longest
  <2>2. PICK k \in markers : longest = Len(k)
    BY <2>1
  <2>3. Len(k) <= Len(m) /\ Len(m) <= Len(k) /\ Len(m) \in Nat /\ Len(k) \in Nat
    BY <1>1, <1>2, <2>1, <2>2
  <2> QED BY <2>2, <2>3
<1>5. keep = IF fits = {} THEN 0 ELSE CHOOSE n \in fits : \A k \in fits : k <= n
  BY DEF SafeSuffixLen, HeldLengths
<1> HIDE DEF longest
<1>6. fits \subseteq 0..(Len(m) - 1) /\ \A n \in fits : n \in 1..Len(s)
  BY <1>2, <1>4 DEF HeldLengths
<1>7. CASE fits = {}
  BY <1>1, <1>2, <1>4, <1>5, <1>7
<1>8. CASE fits # {}
  <2>1. \E n \in fits : \A k \in fits : k <= n
    BY <1>2, <1>6, <1>8, GreatestOf
  <2> HIDE DEF fits
  <2>2. keep \in fits /\ \A k \in fits : k <= keep
    BY <1>5, <1>8, <2>1
  <2> HIDE DEF keep
  <2>3. keep \in 0..Len(s) /\ keep < Len(m)
    BY <1>2, <1>6, <2>2
  <2> QED BY <1>1, <1>4, <2>2, <2>3 DEF fits, keep
<1> QED BY <1>7, <1>8

LEMMA SuffixSize ==
  ASSUME NEW s \in Seq(Chars), NEW markers \in {HiddenMarkers, VisibleMarkers}
  PROVE  SafeSuffixLen(s, markers) \in 0..Len(s) /\ Len(s) \in Nat
BY SuffixIs

\* The beginning of a marker that goes on after the buffer is held back.
LEMMA BegunIsHeld ==
  ASSUME Narrow, NEW b \in Seq(Chars), NEW t \in Seq(Chars), NEW off \in Nat,
         Window(b, t, off), NEW i \in 1..Len(b),
         NEW markers \in {HiddenMarkers, VisibleMarkers}, NEW m \in markers,
         Fits(t, m, off + i), i + Len(m) > Len(b) + 1
  PROVE  Len(b) - i + 1 <= SafeSuffixLen(b, markers)
<1> DEFINE n == Len(b) - i + 1
           low == LowerText(b)
           lm == LowerText(m)
<1>1. m \in Markers /\ m \in Seq(Chars) /\ Len(m) \in Nat \ {0}
  BY MarkersAre, MarkerSets
<1>2. /\ low \in Seq(LowChars) /\ Len(low) = Len(b)
      /\ \A k \in 1..Len(b) : low[k] = Low(b[k])
  BY LowerIs
<1>3. /\ lm \in Seq(LowChars) /\ Len(lm) = Len(m)
      /\ \A k \in 1..Len(m) : lm[k] = Low(m[k])
  BY <1>1, LowerIs
<1>4. LowerMarker[m] = lm
  BY <1>1 DEF LowerMarker, Markers
<1> HIDE DEF low, lm
<1>5. n \in 1..Len(b) /\ n < Len(m) /\ n \in Nat /\ i = Len(b) - n + 1
  BY <1>1
<1>6. /\ UpTo(lm, n) \in Seq(LowChars) /\ Len(UpTo(lm, n)) = n
      /\ \A k \in 1..n : UpTo(lm, n)[k] = lm[k]
  BY <1>1, <1>3, <1>5 DEF UpTo
<1>7. /\ From(low, i) \in Seq(LowChars) /\ Len(From(low, i)) = n
      /\ \A k \in 1..n : From(low, i)[k] = low[i + k - 1]
  <2>1. i \in 1..(Len(low) + 1) /\ Len(low) - i + 1 = n
    BY <1>2, <1>5
  <2> QED BY <1>2, <2>1, FromIs
<1>8. ASSUME NEW k \in 1..n PROVE low[i + k - 1] = lm[k]
  <2>1. k \in 1..Len(m) /\ i + k - 1 \in 1..Len(b) /\ off + (i + k - 1) = off + i + k - 1
    BY <1>1, <1>5
  <2>2. b[i + k - 1] = t[off + i + k - 1]
    BY <2>1 DEF Window
  <2> QED BY <1>2, <1>3, <2>1, <2>2 DEF Fits
<1>9. From(low, Len(low) - n + 1) = UpTo(lm, n)
  <2>1. From(low, i) = UpTo(lm, n)
    BY <1>6, <1>7, <1>8, SeqEqual
  <2> QED BY <1>2, <1>5, <2>1
<1>10. PICK l \in markers :
         /\ \A k \in markers : Len(k) <= Len(l)
         /\ \A k \in HeldLengths(b, markers, Len(l)) : k <= SafeSuffixLen(b, markers)
  BY SuffixIs
<1>11. n \in HeldLengths(b, markers, Len(l))
  <2>1. Len(m) <= Len(l) /\ Len(l) \in Nat
    BY <1>10, MarkersAre, MarkerSets
  <2>2. n \in 1..(Len(l) - 1) /\ n <= Len(b) /\ n <= Len(lm)
    BY <1>1, <1>3, <1>5, <2>1
  <2>3. lm \in {LowerMarker[k] : k \in markers}
    BY <1>4
  <2> QED BY <1>9, <2>2, <2>3 DEF HeldLengths, low
<1> QED BY <1>10, <1>11

-----------------------------------------------------------------------------
(* What is shown from a place on.                                          *)

\* What a text shows is text.
LEMMA ShowsTypes ==
  ASSUME NEW t \in Seq(Chars), NEW i \in Places(t)
  PROVE  Shows(t)[i]["hidden"] \in Seq(Chars) /\ Shows(t)[i]["visible"] \in Seq(Chars)
BY ShowsIs DEF ShowType, Sides

\* The recursion, and its end.
LEMMA ShowsNext ==
  ASSUME NEW t \in Seq(Chars)
  PROVE  /\ \A i \in 1..Len(t) : /\ Shows(t)[i]["hidden"] = HiddenFrom(t, Shows(t), i)
                                 /\ Shows(t)[i]["visible"] = VisibleFrom(t, Shows(t), i)
         /\ Shows(t)[Len(t) + 1]["hidden"] = <<>> /\ Shows(t)[Len(t) + 1]["visible"] = <<>>
<1>1. ASSUME NEW i \in 1..Len(t)
      PROVE  /\ Shows(t)[i]["hidden"] = HiddenFrom(t, Shows(t), i)
             /\ Shows(t)[i]["visible"] = VisibleFrom(t, Shows(t), i)
  <2>1. Shows(t)[i] = ShownFrom(t, Shows(t), i) /\ ~(i > Len(t))
    BY ShowsIs DEF Places
  <2> QED BY <2>1 DEF ShownFrom
<1>2. Shows(t)[Len(t) + 1] = ShownFrom(t, Shows(t), Len(t) + 1)
  BY ShowsIs DEF Places
<1>3. Shows(t)[Len(t) + 1]["hidden"] = <<>> /\ Shows(t)[Len(t) + 1]["visible"] = <<>>
  BY <1>2 DEF ShownFrom
<1> QED BY <1>1, <1>3

\* A marker ends a hidden span.
LEMMA HiddenEnds ==
  ASSUME Narrow, NEW t \in Seq(Chars), NEW i \in 1..Len(t), NEW m \in EndsAt(t, i)
  PROVE  Shows(t)[i]["hidden"] = Shows(t)[i + Len(m)]["visible"]
<1>1. \A k \in EndsAt(t, i) : k = m
  <2>1. ASSUME NEW k \in EndsAt(t, i) PROVE k = m
    <3>1. /\ k \in Markers /\ Fits(t, k, i) /\ Fits(t, m, i)
          /\ m \in Channel \cup HtmlCloses
      BY FoundFits, MarkerSets DEF HiddenMarkers, Channel
    <3> QED BY <3>1, FitsApart
  <2> QED BY <2>1
<1>2. (CHOOSE k \in EndsAt(t, i) : TRUE) = m
  BY <1>1
<1> QED BY <1>2, ShowsNext DEF HiddenFrom

\* A channel marker goes before a tag.
LEMMA ChannelShows ==
  ASSUME Narrow, NEW t \in Seq(Chars), NEW i \in 1..Len(t), NEW m \in ChannelAt(t, i)
  PROVE  Shows(t)[i]["visible"] =
           Shows(t)[i + Len(m)][IF m = Thought THEN "hidden" ELSE "visible"]
<1>1. \A k \in ChannelAt(t, i) : k = m
  <2>1. ASSUME NEW k \in ChannelAt(t, i) PROVE k = m
    <3>1. k \in Markers /\ Fits(t, k, i) /\ Fits(t, m, i) /\ m \in Channel \cup HtmlCloses
      BY FoundFits, MarkerSets
    <3> QED BY <3>1, FitsApart
  <2> QED BY <2>1
<1>2. (CHOOSE k \in ChannelAt(t, i) : TRUE) = m
  BY <1>1
<1> QED BY <1>2, ShowsNext DEF VisibleFrom

\* Where a tag opens, no channel marker is.
LEMMA TagIsNoChannel ==
  ASSUME Narrow, NEW t \in Seq(Chars), NEW i \in 1..Len(t), NEW m \in HtmlStarts,
         MatchesAt(t, m, i)
  PROVE  ChannelAt(t, i) = {}
<1>1. ASSUME NEW k \in ChannelAt(t, i) PROVE FALSE
  <2>1. Fits(t, m, i) /\ m \in Markers
    BY MatchIsFit, MarkerSets DEF Html
  <2>2. k \in Channel /\ Fits(t, k, i)
    BY FoundFits
  <2>3. m = k
    BY <2>1, <2>2, FitsApart
  <2> QED BY <2>2, <2>3, ApartAssumption
<1> QED BY <1>1

\* A stretch in which no span ends shows nothing.
LEMMA HiddenRun ==
  ASSUME NEW t \in Seq(Chars), NEW i \in Places(t), NEW j \in Places(t), i <= j,
         \A k \in i..(j - 1) : EndsAt(t, k) = {}
  PROVE  Shows(t)[i]["hidden"] = Shows(t)[j]["hidden"]
<1> DEFINE S == {n \in Nat : n <= j - i =>
                               Shows(t)[j - n]["hidden"] = Shows(t)[j]["hidden"]}
<1>1. 0 \in S
  BY DEF Places
<1>2. ASSUME NEW n \in Nat, n \in S PROVE n + 1 \in S
  <2>1. ASSUME n + 1 <= j - i
        PROVE  Shows(t)[j - (n + 1)]["hidden"] = Shows(t)[j]["hidden"]
    <3> DEFINE k == j - (n + 1)
    <3>1. k \in 1..Len(t) /\ k \in i..(j - 1) /\ k + 1 = j - n
      BY <2>1 DEF Places
    <3> HIDE DEF k
    <3>2. Shows(t)[k]["hidden"] = Shows(t)[k + 1]["hidden"]
      BY <3>1, ShowsNext DEF HiddenFrom
    <3>3. Shows(t)[j - n]["hidden"] = Shows(t)[j]["hidden"]
      BY <1>2, <2>1 DEF Places
    <3> QED BY <3>1, <3>2, <3>3 DEF k
  <2> QED BY <2>1
<1> HIDE DEF S
<1>3. j - i \in S
  BY <1>1, <1>2, Inductive DEF Places
<1> QED BY <1>3 DEF S, Places

\* Text without markers shows itself.
LEMMA VisibleRun ==
  ASSUME NEW t \in Seq(Chars), NEW i \in Places(t), NEW j \in Places(t), i <= j,
         \A k \in i..(j - 1) : ChannelAt(t, k) = {} /\ ~OpensAt(t, k)
  PROVE  Shows(t)[i]["visible"] = SubSeq(t, i, j - 1) \o Shows(t)[j]["visible"]
<1> DEFINE Says(k) ==
             Shows(t)[k]["visible"] = SubSeq(t, k, j - 1) \o Shows(t)[j]["visible"]
           S == {n \in Nat : n <= j - i => Says(j - n)}
<1>0. Shows(t)[j]["visible"] \in Seq(Chars) /\ i \in Nat /\ j \in Nat
  BY ShowsTypes DEF Places
<1>1. 0 \in S
  <2>1. SubSeq(t, j, j - 1) = <<>>
    BY DEF Places
  <2>2. <<>> \o Shows(t)[j]["visible"] = Shows(t)[j]["visible"]
    BY <1>0
  <2>3. Says(j) /\ j - 0 = j
    BY <1>0, <2>1, <2>2
  <2> HIDE DEF Says
  <2> QED BY <2>3
<1>2. ASSUME NEW n \in Nat, n \in S PROVE n + 1 \in S
  <2>1. ASSUME n + 1 <= j - i PROVE Says(j - (n + 1))
    <3> DEFINE k == j - (n + 1)
    <3>1. k \in 1..Len(t) /\ k \in i..(j - 1) /\ k + 1 = j - n /\ j - 1 \in k..Len(t)
      BY <2>1 DEF Places
    <3> HIDE DEF k
    <3>2. Shows(t)[k]["visible"] = <<t[k]>> \o Shows(t)[k + 1]["visible"]
      BY <3>1, ShowsNext DEF VisibleFrom
    <3>3. Says(k + 1)
      <4>1. n <= j - i
        BY <1>0, <2>1
      <4> HIDE DEF Says
      <4> QED BY <1>2, <3>1, <4>1
    <3>4. SubSeq(t, k, j - 1) = <<t[k]>> \o SubSeq(t, k + 1, j - 1)
      <4>1. t[k] \in Chars /\ <<t[k]>> \in Seq(Chars) /\ SubSeq(t, k + 1, j - 1) \in Seq(Chars)
        BY <3>1 DEF Places
      <4>2. /\ SubSeq(t, k, j - 1) \in Seq(Chars)
            /\ Len(SubSeq(t, k, j - 1)) = Len(<<t[k]>> \o SubSeq(t, k + 1, j - 1))
            /\ \A l \in 1..Len(SubSeq(t, k, j - 1)) :
                 SubSeq(t, k, j - 1)[l] = (<<t[k]>> \o SubSeq(t, k + 1, j - 1))[l]
        BY <3>1, <4>1 DEF Places
      <4> QED BY <4>1, <4>2, SeqEqual, ConcatProperties, SMTT(30)
    <3>5. /\ <<t[k]>> \in Seq(Chars) /\ SubSeq(t, k + 1, j - 1) \in Seq(Chars)
      BY <3>1 DEF Places
    <3>6. <<t[k]>> \o (SubSeq(t, k + 1, j - 1) \o Shows(t)[j]["visible"]) =
            (<<t[k]>> \o SubSeq(t, k + 1, j - 1)) \o Shows(t)[j]["visible"]
      <4>1. \A x, y, z \in Seq(Chars) : x \o (y \o z) = (x \o y) \o z
        BY ConcatAssociative, SMTT(30)
      <4> QED BY <1>0, <3>5, <4>1, ZenonT(30)
    <3>7. Says(k)
      BY <3>2, <3>3, <3>4, <3>6
    <3> HIDE DEF Says
    <3> QED BY <3>7 DEF k
  <2> HIDE DEF Says
  <2> QED BY <2>1
<1> HIDE DEF S
<1>3. j - i \in S
  BY <1>0, <1>1, <1>2, Inductive
<1>4. Says(j - (j - i)) /\ j - (j - i) = i
  <2> HIDE DEF Says
  <2> QED BY <1>0, <1>3 DEF S
<1> HIDE DEF Says
<1>5. Says(i)
  BY <1>4
<1> QED BY <1>5 DEF Says

-----------------------------------------------------------------------------
(* Types.                                                                  *)

\* The type invariant.
SanitizerTypes ==
  /\ text \in Texts /\ text \in Seq(Chars) /\ sent \in 0..Len(text)
  /\ buffer \in Seq(Chars) /\ out \in Seq(Chars)
  /\ hidden \in BOOLEAN /\ mode \in {"idle", "feeding", "finishing", "done"}

\* What is cut from a text is text.
LEMMA CutTypes ==
  ASSUME NEW s \in Seq(Chars), NEW i \in Nat
  PROVE  From(s, i + 1) \in Seq(Chars) /\ UpTo(s, i) \in Seq(Chars)
<1>1. From(s, i + 1) \in Seq(Chars)
  BY DEF From
<1>2. UpTo(s, i) \in Seq(Chars)
  BY DEF UpTo
<1> QED BY <1>1, <1>2

\* Positions are numbers.
LEMMA PositionsAreNumbers ==
  ASSUME NEW s \in Seq(Chars)
  PROVE  HiddenPositions(s) \subseteq Nat \ {0} /\ VisiblePositions(s) \subseteq Nat \ {0}
BY DEF HiddenPositions, VisiblePositions, HtmlOpenings, Occurrences

\* What is kept, and what is not, is text, and is as long as intended.
LEMMA KeepTypes ==
  ASSUME NEW s \in Seq(Chars), NEW markers \in {HiddenMarkers, VisibleMarkers},
         NEW final \in BOOLEAN
  PROVE  LET keep == IF final THEN 0 ELSE SafeSuffixLen(s, markers)
         IN  /\ keep \in 0..Len(s)
             /\ From(s, Len(s) - keep + 1) \in Seq(Chars) /\ UpTo(s, Len(s) - keep) \in Seq(Chars)
             /\ Len(From(s, Len(s) - keep + 1)) = keep
<1> DEFINE keep == IF final THEN 0 ELSE SafeSuffixLen(s, markers)
<1>1. keep \in 0..Len(s)
  BY SuffixIs
<1> HIDE DEF keep
<1>2. Len(s) - keep \in Nat /\ Len(s) - keep + 1 \in 1..(Len(s) + 1)
  BY <1>1
<1>3. From(s, Len(s) - keep + 1) \in Seq(Chars) /\ UpTo(s, Len(s) - keep) \in Seq(Chars)
  BY <1>2, CutTypes
<1>4. Len(From(s, Len(s) - keep + 1)) = keep
  BY <1>1, <1>2, FromIs
<1> QED BY <1>1, <1>3, <1>4 DEF keep

\* A call keeps the types.
LEMMA CallTypes ==
  ASSUME SanitizerTypes, Feed \/ Finish
  PROVE  SanitizerTypes'
<1>1. CASE Feed
  <2>1. PICK n \in (sent + 1)..Len(text) : /\ sent' = n
                                           /\ buffer' = buffer \o SubSeq(text, sent + 1, n)
    BY <1>1 DEF Feed
  <2>2. SubSeq(text, sent + 1, n) \in Seq(Chars)
    BY DEF SanitizerTypes
  <2>3. buffer' \in Seq(Chars)
    BY <2>1, <2>2 DEF SanitizerTypes
  <2> QED BY <1>1, <2>1, <2>3 DEF SanitizerTypes, Feed
<1>2. CASE Finish
  BY <1>2 DEF SanitizerTypes, Finish
<1> QED BY <1>1, <1>2

\* What is appended and what is left are texts.
LEMMA ContinuesTypes ==
  ASSUME SanitizerTypes, NEW output \in Seq(Chars), NEW rest \in Seq(Chars),
         Continues(output, rest), hidden' \in BOOLEAN
  PROVE  SanitizerTypes'
<1>1. out' \in Seq(Chars)
  BY DEF Continues, SanitizerTypes
<1> QED BY <1>1 DEF Continues, SanitizerTypes

\* The same for the last iteration.
LEMMA BreaksTypes ==
  ASSUME SanitizerTypes, NEW output \in Seq(Chars), NEW rest \in Seq(Chars),
         Breaks(output, rest)
  PROVE  SanitizerTypes'
<1>1. out' \in Seq(Chars)
  BY DEF Breaks, SanitizerTypes
<1> QED BY <1>1 DEF Breaks, SanitizerTypes

\* An iteration keeps the types.
LEMMA IterateTypes ==
  ASSUME SanitizerTypes, Iterate
  PROVE  SanitizerTypes'
<1>0. buffer \in Seq(Chars) /\ <<>> \in Seq(Chars) /\ Len(buffer) \in Nat /\ hidden \in BOOLEAN
  BY DEF SanitizerTypes
<1>1. CASE DrainEmpty
  BY <1>0, <1>1, BreaksTypes DEF DrainEmpty
<1>2. CASE ConsumeHiddenMarker
  <2>1. PICK m \in HiddenMarkers : Continues(<<>>, From(buffer, Len(m) + 1))
    BY <1>2 DEF ConsumeHiddenMarker
  <2>2. From(buffer, Len(m) + 1) \in Seq(Chars)
    BY <1>0, CutTypes, MarkerSets, MarkersAre
  <2> QED BY <1>0, <1>2, <2>1, <2>2, ContinuesTypes DEF ConsumeHiddenMarker
<1>3. CASE SkipToHiddenMarker
  <2> DEFINE p == First(HiddenPositions(buffer))
  <2>1. p \in Nat \ {0}
    BY <1>0, <1>3, PositionsAreNumbers, LeastOf DEF SkipToHiddenMarker
  <2>2. Continues(<<>>, From(buffer, p)) /\ hidden' = hidden
    BY <1>3 DEF SkipToHiddenMarker
  <2> HIDE DEF p
  <2>3. From(buffer, p) \in Seq(Chars)
    BY <1>0, <2>1 DEF From
  <2> QED BY <1>0, <2>2, <2>3, ContinuesTypes
<1>4. CASE DropHidden
  <2> DEFINE keep == IF mode = "finishing" THEN 0 ELSE SafeSuffixLen(buffer, HiddenMarkers)
  <2>1. Breaks(<<>>, From(buffer, Len(buffer) - keep + 1))
    BY <1>4 DEF DropHidden
  <2>2. From(buffer, Len(buffer) - keep + 1) \in Seq(Chars)
    BY <1>0, KeepTypes
  <2> QED BY <1>0, <2>1, <2>2, BreaksTypes
<1>5. CASE ConsumeVisibleMarker
  <2>1. PICK m \in {Thought, Final, Close} :
          Continues(<<>>, From(buffer, Len(m) + 1)) /\ hidden' = (m = Thought)
    BY <1>5 DEF ConsumeVisibleMarker
  <2>2. From(buffer, Len(m) + 1) \in Seq(Chars)
    BY <1>0, CutTypes, MarkerSets, MarkersAre DEF Channel
  <2>3. hidden' \in BOOLEAN
    BY <2>1
  <2> QED BY <1>0, <2>1, <2>2, <2>3, ContinuesTypes
<1>6. CASE OpenTag
  <2>1. TagEnds # {} /\ TagEnds \subseteq Nat /\ Continues(<<>>, From(buffer, First(TagEnds) + 1))
    BY <1>0, <1>6 DEF OpenTag, TagEnds
  <2>2. From(buffer, First(TagEnds) + 1) \in Seq(Chars)
    BY <1>0, <2>1, CutTypes, LeastOf
  <2> QED BY <1>0, <1>6, <2>1, <2>2, ContinuesTypes DEF OpenTag
<1>7. CASE UnendedTag
  BY <1>0, <1>7, BreaksTypes DEF UnendedTag
<1>8. CASE EmitToMarker
  <2> DEFINE p == First(VisiblePositions(buffer))
  <2>1. p \in Nat \ {0}
    BY <1>0, <1>8, PositionsAreNumbers, LeastOf DEF EmitToMarker
  <2>2. Continues(UpTo(buffer, p - 1), From(buffer, p)) /\ hidden' = hidden
    BY <1>8 DEF EmitToMarker
  <2> HIDE DEF p
  <2>3. From(buffer, p) \in Seq(Chars) /\ UpTo(buffer, p - 1) \in Seq(Chars)
    <3>1. p - 1 \in Nat /\ (p - 1) + 1 = p
      BY <2>1
    <3>2. From(buffer, (p - 1) + 1) \in Seq(Chars) /\ UpTo(buffer, p - 1) \in Seq(Chars)
      BY <1>0, <3>1, CutTypes
    <3> QED BY <3>1, <3>2
  <2> QED BY <1>0, <2>2, <2>3, ContinuesTypes
<1>9. CASE EmitPlain
  <2> DEFINE keep == IF mode = "finishing" THEN 0 ELSE SafeSuffixLen(buffer, VisibleMarkers)
  <2>1. Breaks(UpTo(buffer, Len(buffer) - keep), From(buffer, Len(buffer) - keep + 1))
    BY <1>9 DEF EmitPlain
  <2>2. /\ From(buffer, Len(buffer) - keep + 1) \in Seq(Chars)
        /\ UpTo(buffer, Len(buffer) - keep) \in Seq(Chars)
    BY <1>0, KeepTypes
  <2> QED BY <1>0, <2>1, <2>2, BreaksTypes
<1> QED BY <1>1, <1>2, <1>3, <1>4, <1>5, <1>6, <1>7, <1>8, <1>9 DEF Iterate

-----------------------------------------------------------------------------
(* HeldBack is inductive.                                                  *)

\* The types hold in the beginning.
LEMMA SanitizerInitHolds == SanitizerInit => SanitizerTypes
<1> SUFFICES ASSUME SanitizerInit PROVE SanitizerTypes
  OBVIOUS
<1>1. text \in Texts /\ text \in Seq(Chars)
  BY TextAssumption DEF SanitizerInit, Chars
<1>2. <<>> \in Seq(Chars) /\ 0 \in 0..Len(text)
  BY <1>1
<1> QED BY <1>1, <1>2 DEF SanitizerInit, SanitizerTypes

\* An empty buffer is the beginning of every marker.
LEMMA EmptyBegins ==
  ASSUME Narrow, NEW m \in Markers
  PROVE  Begins(<<>>, m)
<1>1. m \in Seq(Chars) /\ Len(m) \in Nat \ {0} /\ LowerMarker[m] = LowerText(m)
  BY MarkersAre DEF LowerMarker, Markers
<1>2. LowerText(<<>>) = <<>>
  <2>1. <<>> \in Seq(Chars) /\ Len(<<>>) = 0
    OBVIOUS
  <2>2. LowerText(<<>>) \in Seq(LowChars) /\ Len(LowerText(<<>>)) = 0
    BY <2>1, LowerIs
  <2> QED BY <2>2, EmptySeq
<1>3. UpTo(LowerMarker[m], 0) = <<>>
  BY <1>1, LowerIs DEF UpTo
<1> QED BY <1>1, <1>2, <1>3 DEF Begins

\* What is kept of a text at whose end no marker is whole is the beginning of a marker.
LEMMA KeptBegins ==
  ASSUME Narrow, NEW s \in Seq(Chars), NEW markers \in {HiddenMarkers, VisibleMarkers},
         \A m \in markers : \A i \in 1..Len(s) :
           OccursAt(s, m, i) => i + Len(m) # Len(s) + 1
  PROVE  \E m \in markers : Begins(From(s, Len(s) - SafeSuffixLen(s, markers) + 1), m)
<1> DEFINE keep == SafeSuffixLen(s, markers)
           i    == Len(s) - keep + 1
           kept == From(s, i)
<1>1. /\ keep \in 0..Len(s)
      /\ \E m \in markers : keep = 0 \/ keep \in HeldLengths(s, markers, Len(m))
  BY SuffixIs
<1> HIDE DEF keep
<1>i. i \in 1..(Len(s) + 1) /\ i \in Nat \ {0} /\ Len(s) - i + 1 = keep /\ keep \in Nat
  BY <1>1
<1> HIDE DEF i
<1>2. /\ kept \in Seq(Chars) /\ Len(kept) = keep
      /\ \A k \in 1..keep : kept[k] = s[i + k - 1]
  BY <1>i, FromIs
<1> HIDE DEF kept
<1>3. CASE keep = 0
  <2>1. kept = <<>>
    BY <1>2, <1>3, EmptySeq
  <2> QED BY <1>1, <2>1, EmptyBegins, MarkerSets DEF kept, i, keep
<1>4. CASE keep # 0
  <2>1. PICK m \in markers :
          /\ keep <= Len(LowerMarker[m])
          /\ From(LowerText(s), Len(LowerText(s)) - keep + 1) = UpTo(LowerMarker[m], keep)
    BY <1>1, <1>4 DEF HeldLengths
  <2>2. m \in Markers /\ m \in Seq(Chars) /\ LowerMarker[m] = LowerText(m)
    BY MarkersAre, MarkerSets DEF LowerMarker, Markers
  <2>3. keep <= Len(m)
    BY <2>1, <2>2, LowerIs
  <2>4. From(LowerText(s), i) = UpTo(LowerMarker[m], keep)
    BY <2>1, LowerIs DEF i
  <2>5. LowerText(kept) = From(LowerText(s), i)
    <3>1. /\ LowerText(kept) \in Seq(LowChars) /\ Len(LowerText(kept)) = keep
          /\ \A k \in 1..keep : LowerText(kept)[k] = Low(s[i + k - 1])
      BY <1>2, LowerIs
    <3>2. /\ LowerText(s) \in Seq(LowChars) /\ Len(LowerText(s)) = Len(s)
          /\ \A k \in 1..Len(s) : LowerText(s)[k] = Low(s[k])
      BY LowerIs
    <3>3. i \in 1..(Len(LowerText(s)) + 1) /\ Len(LowerText(s)) - i + 1 = keep
      BY <1>i, <3>2
    <3>4. /\ From(LowerText(s), i) \in Seq(LowChars) /\ Len(From(LowerText(s), i)) = keep
          /\ \A k \in 1..keep : From(LowerText(s), i)[k] = LowerText(s)[i + k - 1]
      BY <3>2, <3>3, FromIs
    <3>5. \A k \in 1..keep : i + k - 1 \in 1..Len(s)
      BY <1>i
    <3>6. \A k \in 1..keep : From(LowerText(s), i)[k] = Low(s[i + k - 1])
      BY <3>2, <3>4, <3>5
    <3> QED BY <3>1, <3>4, <3>6, SeqEqual
  <2>6. kept # m
    <3>1. SUFFICES ASSUME kept = m PROVE FALSE
      OBVIOUS
    <3>2. i \in 1..Len(s) /\ i + Len(m) = Len(s) + 1
      <4>1. Len(m) = keep /\ Len(s) \in Nat
        BY <1>2, <3>1
      <4> QED BY <1>i, <1>4, <4>1
    <3>3. \A k \in 1..Len(m) : s[i + k - 1] = m[k]
      BY <1>2, <3>1
    <3>4. OccursAt(s, m, i)
      BY <2>2, <3>2, <3>3, OccursMeans
    <3> QED BY <3>2, <3>4
  <2> QED BY <1>2, <2>3, <2>4, <2>5, <2>6 DEF Begins, kept, i, keep
<1> QED BY <1>3, <1>4

\* Where no span ends no marker of hidden text is whole.
LEMMA NoneWholeHidden ==
  ASSUME Narrow, NEW s \in Seq(Chars), HiddenPositions(s) = {},
         NEW m \in HiddenMarkers, NEW i \in 1..Len(s)
  PROVE  ~OccursAt(s, m, i)
<1>1. SUFFICES ASSUME OccursAt(s, m, i) PROVE FALSE
  OBVIOUS
<1>2. m \in EndsAt(s, i)
  BY <1>1, OccurrenceFits, MatchIsFit, MarkerSets DEF EndsAt, Html
<1> QED BY <1>2, HiddenFound

\* Where visible text has no marker none is whole at its end: the end bounds a tag's name.
LEMMA NoneWholeVisible ==
  ASSUME Narrow, NEW s \in Seq(Chars), VisiblePositions(s) = {},
         NEW m \in VisibleMarkers, NEW i \in 1..Len(s), OccursAt(s, m, i)
  PROVE  i + Len(m) # Len(s) + 1
<1>1. SUFFICES ASSUME i + Len(m) = Len(s) + 1 PROVE FALSE
  OBVIOUS
<1>2. CASE m \in HtmlStarts
  <2>1. MatchesAt(s, m, i)
    BY <1>2, OccurrenceFits, MatchIsFit, MarkerSets DEF Html
  <2>2. OpensAt(s, i)
    BY <1>1, <1>2, <2>1 DEF OpensAt, TagBoundary
  <2> QED BY <2>2, VisibleFound
<1>3. CASE m \in Channel
  BY <1>3, VisibleFound DEF ChannelAt
<1> QED BY <1>2, <1>3 DEF VisibleMarkers, Channel

\* A step that ends a call leaves the beginning of a marker, or a tag that has not ended.
LEMMA HeldBackStep ==
  ASSUME Narrow, SanitizerTypes, HeldBack, [SanitizerNext]_sanitizerVars
  PROVE  HeldBack'
<1> DEFINE Markers1 == IF hidden' THEN HiddenMarkers ELSE VisibleMarkers
<1> SUFFICES ASSUME mode' = "idle"
             PROVE  \/ \E m \in Markers1 : Begins(buffer', m)
                    \/ ~hidden' /\ 1 \in HtmlOpenings(buffer') /\ TagEnds' = {}
  BY DEF HeldBack
<1>0. buffer \in Seq(Chars) /\ hidden \in BOOLEAN
  BY DEF SanitizerTypes
<1>1. CASE UNCHANGED sanitizerVars
  BY <1>1 DEF HeldBack, sanitizerVars, TagEnds
<1>2. CASE Feed \/ Finish
  BY <1>2 DEF Feed, Finish
<1>3. CASE DrainEmpty
  <2>1. buffer' = <<>>
    BY <1>3 DEF DrainEmpty, Breaks
  <2>2. Final \in Markers1 /\ Markers1 \subseteq Markers
    BY MarkerSets DEF HiddenMarkers, VisibleMarkers
  <2> QED BY <2>1, <2>2, EmptyBegins
<1>4. ASSUME NEW o, NEW r, Continues(o, r), InLoop PROVE FALSE
  BY <1>4 DEF Continues, InLoop
<1>5. ASSUME ConsumeHiddenMarker \/ SkipToHiddenMarker \/ ConsumeVisibleMarker
             \/ OpenTag \/ EmitToMarker
      PROVE FALSE
  BY <1>4, <1>5 DEF ConsumeHiddenMarker, SkipToHiddenMarker, ConsumeVisibleMarker, OpenTag,
                    EmitToMarker
<1>6. CASE DropHidden
  <2>1. /\ hidden' /\ HiddenPositions(buffer) = {}
        /\ buffer' = From(buffer, Len(buffer) - SafeSuffixLen(buffer, HiddenMarkers) + 1)
    BY <1>6 DEF DropHidden, Breaks, InLoop
  <2>2. \E m \in HiddenMarkers : Begins(buffer', m)
    BY <1>0, <2>1, KeptBegins, NoneWholeHidden
  <2> QED BY <2>1, <2>2
<1>7. CASE UnendedTag
  <2>1. ~hidden' /\ buffer' = buffer /\ 1 \in HtmlOpenings(buffer) /\ TagEnds = {}
    BY <1>7 DEF UnendedTag, Breaks, InLoop
  <2> QED BY <2>1 DEF TagEnds
<1>8. CASE EmitPlain
  <2>1. /\ ~hidden' /\ VisiblePositions(buffer) = {}
        /\ buffer' = From(buffer, Len(buffer) - SafeSuffixLen(buffer, VisibleMarkers) + 1)
    BY <1>8 DEF EmitPlain, Breaks, InLoop
  <2>2. \E m \in VisibleMarkers : Begins(buffer', m)
    BY <1>0, <2>1, KeptBegins, NoneWholeVisible
  <2> QED BY <2>1, <2>2
<1> QED BY <1>1, <1>2, <1>3, <1>5, <1>6, <1>7, <1>8 DEF SanitizerNext, Iterate

\* The same, counted from a place.
LEMMA HiddenStretch ==
  ASSUME NEW t \in Seq(Chars), NEW off \in Nat, NEW p \in Nat \ {0}, off + p \in Places(t),
         \A i \in 1..(p - 1) : EndsAt(t, off + i) = {}
  PROVE  Shows(t)[off + 1]["hidden"] = Shows(t)[off + p]["hidden"]
<1> DEFINE a == off + 1
           z == off + p
<1>1. a \in Places(t) /\ z \in Places(t) /\ a <= z
  BY DEF Places
<1>2. ASSUME NEW j \in a..(z - 1) PROVE EndsAt(t, j) = {}
  <2>1. j - off \in 1..(p - 1) /\ off + (j - off) = j
    OBVIOUS
  <2> QED BY <2>1
<1> HIDE DEF a, z
<1>3. Shows(t)[a]["hidden"] = Shows(t)[z]["hidden"]
  BY <1>1, <1>2, HiddenRun
<1> QED BY <1>3 DEF a, z

\* The same, counted from a place.
LEMMA VisibleStretch ==
  ASSUME NEW t \in Seq(Chars), NEW off \in Nat, NEW p \in Nat \ {0}, off + p \in Places(t),
         \A i \in 1..(p - 1) : ChannelAt(t, off + i) = {} /\ ~OpensAt(t, off + i)
  PROVE  Shows(t)[off + 1]["visible"] =
           SubSeq(t, off + 1, off + p - 1) \o Shows(t)[off + p]["visible"]
<1> DEFINE a == off + 1
           z == off + p
<1>1. a \in Places(t) /\ z \in Places(t) /\ a <= z
  BY DEF Places
<1>2. ASSUME NEW j \in a..(z - 1) PROVE ChannelAt(t, j) = {} /\ ~OpensAt(t, j)
  <2>1. j - off \in 1..(p - 1) /\ off + (j - off) = j
    OBVIOUS
  <2> QED BY <2>1
<1> HIDE DEF a, z
<1>3. Shows(t)[a]["visible"] = SubSeq(t, a, z - 1) \o Shows(t)[z]["visible"]
  BY <1>1, <1>2, VisibleRun
<1>4. z - 1 = off + p - 1
  BY DEF z
<1> QED BY <1>3, <1>4, Zenon DEF a, z

-----------------------------------------------------------------------------
(* What is out and what is still to come.                                  *)

\* How much of the text has been dealt with.
Done == sent - Len(buffer)

\* Which side of the reference definition a state of the loop is on.
Side(h) == IF h THEN "hidden" ELSE "visible"

\* The buffer is what was fed and is not dealt with yet.
WindowInv ==
  /\ Len(buffer) <= sent /\ Window(buffer, text, Done)
  /\ mode \in {"finishing", "done"} => sent = Len(text)
  /\ mode = "done" => buffer = <<>>

\* What the text shows from there on.
ToCome == Shows(text)[Done + 1][Side(hidden)]

\* Nothing of what the text shows is lost, and nothing else is out.
ShownInv == out \o ToCome = Shown(text)

ChunkInv == SanitizerTypes /\ WindowInv /\ ShownInv

\* What the invariant says of the places of the buffer.
LEMMA ChunkFacts ==
  ASSUME SanitizerTypes, WindowInv
  PROVE  /\ text \in Seq(Chars) /\ buffer \in Seq(Chars) /\ out \in Seq(Chars)
         /\ Len(buffer) \in Nat /\ Len(text) \in Nat /\ sent \in Nat /\ Done \in Nat
         /\ Done + Len(buffer) = sent /\ sent <= Len(text)
         /\ Window(buffer, text, Done)
         /\ \A k \in 1..(Len(buffer) + 1) : Done + k \in Places(text)
<1>1. /\ text \in Seq(Chars) /\ buffer \in Seq(Chars) /\ out \in Seq(Chars)
      /\ Len(buffer) \in Nat /\ Len(text) \in Nat /\ sent \in Nat /\ Len(buffer) <= sent
      /\ sent <= Len(text) /\ Window(buffer, text, Done)
  BY DEF SanitizerTypes, WindowInv
<1>2. Done \in Nat /\ Done + Len(buffer) = sent
  BY <1>1 DEF Done
<1>3. \A k \in 1..(Len(buffer) + 1) : Done + k \in Places(text)
  BY <1>1, <1>2 DEF Places
<1> QED BY <1>1, <1>2, <1>3

\* A marker of the text that begins before another one in the buffer ends in it.
LEMMA NoneAcross ==
  ASSUME NEW b \in Seq(Chars), NEW t \in Seq(Chars), NEW off \in Nat, Window(b, t, off),
         NEW p \in 1..Len(b), b[p] = Final[1], NEW i \in 1..(p - 1), NEW m \in Markers,
         Fits(t, m, off + i)
  PROVE  i + Len(m) <= Len(b) + 1
<1>1. Len(m) \in Nat
  BY MarkersAre
<1>2. t[off + p] = Final[1]
  BY DEF Window
<1>3. \A j \in (off + i + 1)..(off + i + Len(m) - 1) : t[j] # Final[1]
  BY FitsShape
<1>4. off + p \notin (off + i + 1)..(off + i + Len(m) - 1)
  BY <1>2, <1>3
<1>5. p > i + Len(m) - 1
  BY <1>1, <1>4
<1> QED BY <1>1, <1>5

\* Iterations take k - 1 characters from the buffer and tell o.
Takes(k, o) ==
  /\ k \in 1..(Len(buffer) + 1) /\ o \in Seq(Chars)
  /\ buffer' = From(buffer, k) /\ out' = out \o o
  /\ text' = text /\ sent' = sent
  /\ mode' \in {"finishing", "done"} => mode = "finishing"
  /\ mode' = "done" => k = Len(buffer) + 1

\* And o is what the text shows of them.
Tells(k, o) ==
  Shows(text)[Done + 1][Side(hidden)] = o \o Shows(text)[Done + k][Side(hidden')]

\* An iteration that takes some characters and tells what they show keeps the invariant.
LEMMA TakesKeeps ==
  ASSUME ChunkInv, SanitizerTypes', NEW k, NEW o, Takes(k, o), Tells(k, o)
  PROVE  ChunkInv'
<1>0. SanitizerTypes /\ WindowInv /\ ShownInv
  BY DEF ChunkInv
<1>1. /\ Len(buffer') = Len(buffer) - k + 1
      /\ \A i \in 1..(Len(buffer) - k + 1) : buffer'[i] = buffer[i + k - 1]
  <2>0. buffer' = From(buffer, k)
    BY DEF Takes
  <2>1. k \in 1..(Len(buffer) + 1) /\ buffer \in Seq(Chars)
    BY <1>0 DEF Takes, SanitizerTypes
  <2>2. Len(From(buffer, k)) = Len(buffer) - k + 1
    BY <2>1, FromText, Zenon
  <2>3. \A i \in 1..(Len(buffer) - k + 1) : From(buffer, k)[i] = buffer[i + k - 1]
    BY <2>1, FromText
  <2> QED BY <2>0, <2>2, <2>3, Zenon
<1> USE ChunkFacts
<1>2. Done' = Done + k - 1 /\ Done' + 1 = Done + k
  BY <1>0, <1>1 DEF Takes, Done
<1>3. Len(buffer') <= sent'
  BY <1>0, <1>1 DEF Takes
<1>4. Window(buffer', text', Done')
  <2>1. ASSUME NEW i \in 1..Len(buffer') PROVE buffer'[i] = text[Done + k - 1 + i]
    <3>1. i + k - 1 \in 1..Len(buffer) /\ Done + (i + k - 1) = Done + k - 1 + i
      BY <1>0, <1>1 DEF Takes
    <3> QED BY <1>0, <1>1, <3>1 DEF Window
  <2>2. Done + k - 1 + Len(buffer') <= Len(text)
    BY <1>0, <1>1 DEF Takes
  <2> QED BY <1>2, <2>1, <2>2 DEF Window, Takes
<1>5. /\ mode' \in {"finishing", "done"} => sent' = Len(text')
      /\ mode' = "done" => buffer' = <<>>
  BY <1>0, <1>1 DEF Takes, WindowInv
<1>6. WindowInv'
  BY <1>3, <1>4, <1>5 DEF WindowInv
<1>7. ToCome' = Shows(text)[Done + k][Side(hidden')]
  BY <1>2 DEF ToCome, Takes
<1>8. /\ ToCome' \in Seq(Chars) /\ o \in Seq(Chars) /\ out \in Seq(Chars)
      /\ ToCome = o \o ToCome' /\ out' = out \o o
  BY <1>0, <1>7, ShowsTypes DEF Tells, ToCome, Takes, Side
<1>9. out' \o ToCome' = out \o ToCome
  <2>1. \A x, y, z \in Seq(Chars) : (x \o y) \o z = x \o (y \o z)
    BY ConcatAssociative, SMTT(30)
  <2> QED BY <1>8, <2>1, ZenonT(30)
<1>10. ShownInv'
  BY <1>0, <1>9 DEF ShownInv, Takes
<1> QED BY <1>6, <1>10 DEF ChunkInv

-----------------------------------------------------------------------------
(* The iterations.                                                         *)

\* To tell nothing is to tell the empty text.
LEMMA NothingTold ==
  ASSUME NEW x \in Seq(Chars)
  PROVE  <<>> \o x = x /\ <<>> \in Seq(Chars)
OBVIOUS

\* An empty buffer has nothing to tell.
LEMMA EmptyTells ==
  ASSUME SanitizerTypes, WindowInv, DrainEmpty
  PROVE  Takes(1, <<>>) /\ Tells(1, <<>>)
<1> USE ChunkFacts
<1>1. buffer = <<>> /\ From(buffer, 1) = <<>> /\ Len(buffer) = 0
  BY DEF DrainEmpty, From
<1>2. Takes(1, <<>>)
  BY <1>1 DEF DrainEmpty, Breaks, Takes, InLoop
<1>3. Shows(text)[Done + 1][Side(hidden)] \in Seq(Chars)
  BY <1>1, ShowsTypes DEF Side
<1>4. hidden' = hidden
  BY DEF DrainEmpty, Breaks
<1> QED BY <1>2, <1>3, <1>4, NothingTold DEF Tells

\* A marker that ends a hidden span shows nothing.
LEMMA HiddenMarkerTells ==
  ASSUME Narrow, SanitizerTypes, WindowInv, ConsumeHiddenMarker
  PROVE  \E k : Takes(k, <<>>) /\ Tells(k, <<>>)
<1> USE ChunkFacts
<1>1. PICK m \in HiddenMarkers :
        /\ OccursAt(IF m \in HtmlCloses THEN LowerText(buffer) ELSE buffer, m, 1)
        /\ Continues(<<>>, From(buffer, Len(m) + 1))
  BY DEF ConsumeHiddenMarker
<1>2. Len(m) \in Nat \ {0} /\ m \in Markers
  BY MarkersAre, MarkerSets
<1>3. m \in EndsAt(buffer, 1) /\ 1 + Len(m) <= Len(buffer) + 1
  <2>1. m \in EndsAt(buffer, 1)
    BY <1>1, MatchIsFit DEF EndsAt, Html
  <2> QED BY <2>1, FoundFits DEF Fits
<1>4. m \in EndsAt(text, Done + 1)
  BY <1>2, <1>3, WindowFinds
<1>5. Shows(text)[Done + 1]["hidden"] = Shows(text)[Done + 1 + Len(m)]["visible"]
  BY <1>2, <1>3, <1>4, HiddenEnds
<1>6. hidden /\ ~hidden' /\ Done + (Len(m) + 1) = Done + 1 + Len(m)
      /\ Len(m) + 1 \in 1..(Len(buffer) + 1)
  BY <1>2, <1>3 DEF ConsumeHiddenMarker
<1>7. Shows(text)[Done + (Len(m) + 1)]["visible"] \in Seq(Chars)
  BY <1>6, ShowsTypes
<1>8. Takes(Len(m) + 1, <<>>)
  BY <1>1, <1>6, NothingTold DEF Continues, Takes, ConsumeHiddenMarker, InLoop
<1>9. Tells(Len(m) + 1, <<>>)
  BY <1>5, <1>6, <1>7, NothingTold DEF Tells, Side
<1> QED BY <1>8, <1>9

\* Hidden text before the marker shows nothing: no marker begins in it.
LEMMA SkipTells ==
  ASSUME Narrow, SanitizerTypes, WindowInv, SkipToHiddenMarker
  PROVE  \E k : Takes(k, <<>>) /\ Tells(k, <<>>)
<1> USE ChunkFacts
<1> DEFINE p == First(HiddenPositions(buffer))
<1>1. /\ p \in HiddenPositions(buffer) /\ \A j \in HiddenPositions(buffer) : p <= j
      /\ Continues(<<>>, From(buffer, p)) /\ hidden /\ hidden' = hidden
  BY PositionsAreNumbers, LeastOf DEF SkipToHiddenMarker
<1> HIDE DEF p
<1>2. p \in 1..Len(buffer) /\ EndsAt(buffer, p) # {}
  BY <1>1, HiddenFound
<1>3. buffer[p] = Final[1]
  <2>1. PICK m \in EndsAt(buffer, p) : m \in Markers /\ Fits(buffer, m, p)
    BY <1>2, FoundFits, MarkerSets
  <2> QED BY <1>2, <2>1, FitsShape
<1>4. ASSUME NEW i \in 1..(p - 1) PROVE EndsAt(text, Done + i) = {}
  <2>0. i \in 1..Len(buffer) /\ Done + i \in Nat \ {0}
    BY <1>2
  <2>1. ASSUME NEW m \in EndsAt(text, Done + i) PROVE FALSE
    <3>1. m \in Markers /\ Fits(text, m, Done + i)
      BY <2>0, FoundFits, MarkerSets
    <3>2. i + Len(m) <= Len(buffer) + 1
      BY <1>2, <1>3, <3>1, NoneAcross
    <3>3. m \in EndsAt(buffer, i)
      BY <2>0, <3>2, WindowFinds
    <3>4. i \in HiddenPositions(buffer)
      BY <2>0, <3>3, HiddenFound
    <3> QED BY <1>1, <1>2, <3>4
  <2> QED BY <2>1
<1>5. Shows(text)[Done + 1]["hidden"] = Shows(text)[Done + p]["hidden"]
  <2>1. text \in Seq(Chars) /\ Done \in Nat /\ p \in Nat \ {0} /\ Done + p \in Places(text)
    BY <1>2
  <2> QED BY <1>4, <2>1, HiddenStretch
<1>6. Shows(text)[Done + p]["hidden"] \in Seq(Chars)
  BY <1>2, ShowsTypes
<1>7. Takes(p, <<>>)
  BY <1>1, <1>2, <1>6, NothingTold DEF Continues, Takes, SkipToHiddenMarker, InLoop
<1>8. Tells(p, <<>>)
  BY <1>1, <1>5, <1>6, NothingTold DEF Tells, Side
<1> QED BY <1>7, <1>8

\* What no marker is in, but for one that may have begun in the last keep characters,
\* has none in the text.
LEMMA NoneBegun ==
  ASSUME Narrow, SanitizerTypes, WindowInv, InLoop,
         NEW markers \in {HiddenMarkers, VisibleMarkers}, NEW m \in markers,
         NEW i \in 1..Len(buffer), Fits(text, m, Done + i),
         i <= Len(buffer) - (IF mode = "finishing" THEN 0 ELSE SafeSuffixLen(buffer, markers))
  PROVE  i + Len(m) <= Len(buffer) + 1
<1> USE ChunkFacts
<1>1. Len(m) \in Nat
  BY MarkersAre, MarkerSets
<1>2. CASE mode = "finishing"
  BY <1>1, <1>2 DEF Fits, WindowInv
<1>3. CASE mode # "finishing"
  <2>1. SUFFICES ASSUME i + Len(m) > Len(buffer) + 1 PROVE FALSE
    BY <1>1
  <2>2. Len(buffer) - i + 1 <= SafeSuffixLen(buffer, markers)
    BY <2>1, BegunIsHeld, SMTT(30)
  <2>3. SafeSuffixLen(buffer, markers) \in Nat
    BY SuffixSize
  <2> QED BY <1>3, <2>2, <2>3
<1> QED BY <1>2, <1>3

\* Nor does hidden text that no marker can have begun in.
LEMMA DropTells ==
  ASSUME Narrow, SanitizerTypes, WindowInv, DropHidden
  PROVE  \E k : Takes(k, <<>>) /\ Tells(k, <<>>)
<1> USE ChunkFacts
<1> DEFINE keep == IF mode = "finishing" THEN 0 ELSE SafeSuffixLen(buffer, HiddenMarkers)
           k == Len(buffer) - keep + 1
<1>1. /\ HiddenPositions(buffer) = {} /\ InLoop /\ hidden
      /\ Breaks(<<>>, From(buffer, k))
  BY DEF DropHidden
<1>2. keep \in 0..Len(buffer) /\ k \in 1..(Len(buffer) + 1)
  <2>0. buffer \in Seq(Chars) /\ Len(buffer) \in Nat
    OBVIOUS
  <2>1. keep \in 0..Len(buffer)
    BY <2>0, SuffixSize
  <2> QED BY <2>1
<1>3. ASSUME NEW i \in 1..(k - 1) PROVE EndsAt(text, Done + i) = {}
  <2>0. i \in 1..Len(buffer) /\ Done + i \in Nat \ {0} /\ i <= Len(buffer) - keep
    BY <1>2, SMTT(20)
  <2>1. ASSUME NEW m \in EndsAt(text, Done + i) PROVE FALSE
    <3>1. m \in HiddenMarkers /\ Fits(text, m, Done + i)
      BY <2>0, FoundFits
    <3>2. i + Len(m) <= Len(buffer) + 1
      BY <1>1, <2>0, <3>1, NoneBegun
    <3>3. m \in EndsAt(buffer, i)
      BY <2>0, <3>2, WindowFinds
    <3> QED BY <1>1, <2>0, <3>3, HiddenFound
  <2> QED BY <2>1
<1>4. mode = "finishing" => k = Len(buffer) + 1
  OBVIOUS
<1> HIDE DEF keep, k
<1>5. Shows(text)[Done + 1]["hidden"] = Shows(text)[Done + k]["hidden"]
  <2>1. text \in Seq(Chars) /\ Done \in Nat /\ k \in Nat \ {0} /\ Done + k \in Places(text)
    BY <1>2
  <2> QED BY <1>3, <2>1, HiddenStretch
<1>6. Shows(text)[Done + k]["hidden"] \in Seq(Chars)
  BY <1>2, ShowsTypes
<1>7. Takes(k, <<>>)
  BY <1>1, <1>2, <1>4, <1>6, NothingTold DEF Breaks, Takes, InLoop
<1>8. hidden' = hidden
  BY <1>1 DEF Breaks
<1>9. Tells(k, <<>>)
  BY <1>1, <1>5, <1>6, <1>8, NothingTold DEF Tells, Side
<1> QED BY <1>7, <1>9

\* A channel marker opens or closes a span, and shows nothing.
LEMMA ChannelTells ==
  ASSUME Narrow, SanitizerTypes, WindowInv, ConsumeVisibleMarker
  PROVE  \E k : Takes(k, <<>>) /\ Tells(k, <<>>)
<1> USE ChunkFacts
<1>1. PICK m \in Channel :
        /\ OccursAt(buffer, m, 1)
        /\ Continues(<<>>, From(buffer, Len(m) + 1))
        /\ hidden' = (m = Thought)
  BY DEF ConsumeVisibleMarker, Channel
<1>2. Len(m) \in Nat \ {0} /\ m \in Markers
  BY MarkersAre, MarkerSets
<1>3. m \in ChannelAt(buffer, 1) /\ 1 + Len(m) <= Len(buffer) + 1
  BY <1>1 DEF ChannelAt, OccursAt
<1>4. m \in ChannelAt(text, Done + 1)
  BY <1>2, <1>3, WindowFinds
<1>5. Shows(text)[Done + 1]["visible"] =
        Shows(text)[Done + 1 + Len(m)][IF m = Thought THEN "hidden" ELSE "visible"]
  <2>1. m \in ChannelAt(text, Done + 1) /\ Done + 1 \in 1..Len(text)
    BY <1>2, <1>3, <1>4
  <2> QED BY <2>1, ChannelShows, SMTT(30)
<1>6. ~hidden /\ InLoop /\ Done + (Len(m) + 1) = Done + 1 + Len(m)
      /\ Len(m) + 1 \in 1..(Len(buffer) + 1)
  BY <1>2, <1>3 DEF ConsumeVisibleMarker
<1>7. Side(hidden') = IF m = Thought THEN "hidden" ELSE "visible"
  BY <1>1 DEF Side
<1>8. Shows(text)[Done + (Len(m) + 1)][Side(hidden')] \in Seq(Chars)
  BY <1>6, ShowsTypes DEF Side
<1>9. Takes(Len(m) + 1, <<>>)
  BY <1>1, <1>6, NothingTold DEF Continues, Takes, InLoop
<1>10. Side(hidden) = "visible"
  BY <1>6 DEF Side
<1>11. Tells(Len(m) + 1, <<>>)
  BY <1>5, <1>6, <1>7, <1>8, <1>10, NothingTold DEF Tells
<1> QED BY <1>9, <1>11

\* A tag that opens the buffer.
LEMMA OpenedTag ==
  ASSUME Narrow, SanitizerTypes, WindowInv, 1 \in HtmlOpenings(buffer),
         TagEnds # {} \/ mode = "finishing"
  PROVE  /\ Len(buffer) \in Nat \ {0}
         /\ ChannelAt(text, Done + 1) = {} /\ OpensAt(text, Done + 1)
<1> USE ChunkFacts
<1>1. 1 \in 1..Len(buffer) /\ OpensAt(buffer, 1)
  BY OpeningsFound
<1>2. PICK m \in HtmlStarts : MatchesAt(buffer, m, 1) /\ TagBoundary(buffer, 1 + Len(m))
  BY <1>1 DEF OpensAt
<1>3. /\ m \in Html /\ m \in Markers /\ Len(m) \in Nat \ {0} /\ Fits(buffer, m, 1)
      /\ 1 + Len(m) <= Len(buffer) + 1 /\ Done + 1 \in 1..Len(text)
  BY <1>1, <1>2, MarkerSets, MarkersAre, MatchIsFit DEF Html, Fits
<1>4. 1 + Len(m) <= Len(buffer) \/ Done + Len(buffer) = Len(text)
  <2>1. CASE mode = "finishing"
    BY <2>1 DEF WindowInv
  <2>2. CASE TagEnds # {}
    <3>1. SUFFICES ASSUME ~(1 + Len(m) <= Len(buffer)) PROVE FALSE
      OBVIOUS
    <3>2. PICK e \in 1..Len(buffer) : buffer[e] = TagEnd
      BY <2>2 DEF TagEnds
    <3>3. e \in 1..Len(m) /\ 1 + e - 1 = e
      BY <1>3, <3>1
    <3>4. Low(buffer[e]) = Low(m[e])
      BY <1>3, <3>3 DEF Fits
    <3>5. Low(TagEnd) = TagEnd
      <4>1. \A d : <<d>>[1] = d
        OBVIOUS
      <4> QED BY <4>1, ShapeAssumption, Zenon DEF Low
    <3>6. Low(m[e]) = m[e]
      BY <1>3, <3>3, HtmlLower
    <3>7. m[e] # TagEnd
      BY <3>3, ShapeAssumption
    <3> QED BY <3>2, <3>4, <3>5, <3>6, <3>7
  <2> QED BY <2>1, <2>2
<1>5. MatchesAt(text, m, Done + 1) /\ TagBoundary(text, Done + 1 + Len(m))
  BY <1>1, <1>2, <1>4, WindowOpens
<1>6. OpensAt(text, Done + 1)
  BY <1>5 DEF OpensAt
<1>7. ChannelAt(text, Done + 1) = {}
  BY <1>3, <1>5, TagIsNoChannel
<1> QED BY <1>1, <1>6, <1>7

\* Nor does a tag, up to its first end, which is the first in the text too.
LEMMA OpenTagTells ==
  ASSUME Narrow, SanitizerTypes, WindowInv, OpenTag
  PROVE  \E k : Takes(k, <<>>) /\ Tells(k, <<>>)
<1> USE ChunkFacts
<1> DEFINE e == First(TagEnds)
           f == First(TagEndsFrom(text, Done + 1))
<1>1. /\ Len(buffer) \in Nat \ {0}
      /\ ChannelAt(text, Done + 1) = {} /\ OpensAt(text, Done + 1)
  BY OpenedTag DEF OpenTag
<1>2. e \in TagEnds /\ \A j \in TagEnds : e <= j
  <2>1. TagEnds \subseteq Nat /\ TagEnds # {}
    BY DEF TagEnds, OpenTag
  <2> QED BY <2>1, LeastOf
<1>3. e \in 1..Len(buffer) /\ buffer[e] = TagEnd
  BY <1>2 DEF TagEnds
<1>4. Done + e \in TagEndsFrom(text, Done + 1)
  BY <1>3 DEF TagEndsFrom, Window
<1>5. f \in TagEndsFrom(text, Done + 1) /\ \A j \in TagEndsFrom(text, Done + 1) : f <= j
  <2>1. Done + 1 \in Places(text)
    BY <1>1
  <2> QED BY <1>4, <2>1, TagEndReaches
<1> HIDE DEF e, f
<1>6. f \in (Done + 1)..Len(text) /\ text[f] = TagEnd /\ f <= Done + e
  BY <1>4, <1>5 DEF TagEndsFrom
<1>7. f = Done + e
  <2>1. f - Done \in 1..Len(buffer) /\ Done + (f - Done) = f
    BY <1>3, <1>6
  <2>2. buffer[f - Done] = TagEnd
    BY <1>6, <2>1 DEF Window
  <2>3. e <= f - Done
    BY <1>2, <2>1, <2>2 DEF TagEnds
  <2> QED BY <1>3, <1>6, <2>1, <2>3
<1>8. Shows(text)[Done + 1]["visible"] = Shows(text)[f + 1]["hidden"]
  <2>1. Done + 1 \in 1..Len(text)
    BY <1>6
  <2>2. Shows(text)[Done + 1]["visible"] = VisibleFrom(text, Shows(text), Done + 1)
    BY <2>1, ShowsNext
  <2> QED BY <1>1, <1>4, <2>2 DEF VisibleFrom, f
<1>9. e + 1 \in 1..(Len(buffer) + 1) /\ Done + (e + 1) = f + 1
  BY <1>3, <1>7
<1>10. Shows(text)[Done + (e + 1)]["hidden"] \in Seq(Chars)
  BY <1>9, ShowsTypes
<1>11. /\ Continues(<<>>, From(buffer, e + 1)) /\ InLoop
       /\ Side(hidden) = "visible" /\ Side(hidden') = "hidden"
  BY DEF OpenTag, e, Side
<1>12. Takes(e + 1, <<>>)
  BY <1>9, <1>11, NothingTold DEF Continues, Takes, InLoop
<1>13. Tells(e + 1, <<>>)
  BY <1>8, <1>9, <1>10, <1>11, NothingTold DEF Tells
<1> QED BY <1>12, <1>13

\* A tag that never ends is shown; one that may still end waits.
LEMMA UnendedTells ==
  ASSUME Narrow, SanitizerTypes, WindowInv, UnendedTag
  PROVE  \E k, o : Takes(k, o) /\ Tells(k, o)
<1> USE ChunkFacts
<1>1. InLoop /\ ~hidden /\ 1 \in HtmlOpenings(buffer) /\ TagEnds = {}
  BY DEF UnendedTag
<1>2. CASE mode = "feeding"
  <2>1. Breaks(<<>>, buffer)
    BY <1>2 DEF UnendedTag
  <2>2. From(buffer, 1) = buffer
    BY DEF From
  <2>3. Takes(1, <<>>)
    BY <1>2, <2>1, <2>2 DEF Breaks, Takes
  <2>4. Shows(text)[Done + 1][Side(hidden)] \in Seq(Chars) /\ hidden' = hidden
    BY <2>1, ShowsTypes DEF Side, Breaks
  <2>5. Tells(1, <<>>)
    BY <2>4, NothingTold DEF Tells
  <2> QED BY <2>3, <2>5
<1>3. CASE mode = "finishing"
  <2> DEFINE k == Len(buffer) + 1
  <2>1. Breaks(buffer, <<>>)
    BY <1>3 DEF UnendedTag
  <2>2. /\ Len(buffer) \in Nat \ {0}
        /\ ChannelAt(text, Done + 1) = {} /\ OpensAt(text, Done + 1)
    BY <1>1, <1>3, OpenedTag
  <2>3. Done + Len(buffer) = Len(text) /\ Done + 1 \in 1..Len(text) /\ Done + k = Len(text) + 1
    BY <1>3, <2>2 DEF WindowInv
  <2>4. TagEndsFrom(text, Done + 1) = {}
    <3>1. ASSUME NEW j \in TagEndsFrom(text, Done + 1) PROVE FALSE
      <4>1. j - Done \in 1..Len(buffer) /\ Done + (j - Done) = j /\ text[j] = TagEnd
        BY <2>3 DEF TagEndsFrom
      <4>2. buffer[j - Done] = TagEnd
        BY <4>1 DEF Window
      <4> QED BY <1>1, <4>1, <4>2 DEF TagEnds
    <3> QED BY <3>1
  <2>5. Shows(text)[Done + 1]["visible"] = From(text, Done + 1)
    BY <2>2, <2>3, <2>4, ShowsNext DEF VisibleFrom
  <2>6. From(text, Done + 1) = buffer
    <3> DEFINE i == Done + 1
    <3>0. /\ text \in Seq(Chars) /\ buffer \in Seq(Chars) /\ i \in 1..(Len(text) + 1)
          /\ Len(text) - i + 1 = Len(buffer) /\ \A l \in 1..Len(buffer) : l + i - 1 = Done + l
      <4>1. text \in Seq(Chars) /\ buffer \in Seq(Chars)
        OBVIOUS
      <4>2. i \in 1..(Len(text) + 1)
        BY <2>3
      <4>3. Len(text) - i + 1 = Len(buffer)
        BY <2>3
      <4>4. \A l \in 1..Len(buffer) : l + i - 1 = Done + l
        OBVIOUS
      <4> QED BY <4>1, <4>2, <4>3, <4>4
    <3> HIDE DEF i
    <3>1. From(text, i) \in Seq(Chars)
      BY <3>0, FromIs
    <3>2. Len(From(text, i)) = Len(buffer)
      BY <3>0, FromIs
    <3>3. \A l \in 1..Len(buffer) : From(text, i)[l] = text[l + i - 1]
      BY <3>0, FromIs
    <3>4. \A l \in 1..Len(buffer) : From(text, i)[l] = buffer[l]
      BY <3>0, <3>3 DEF Window
    <3>5. From(text, i) = buffer
      BY <3>0, <3>1, <3>2, <3>4, SeqEqual
    <3> QED BY <3>5, Zenon DEF i
  <2>7. From(buffer, k) = <<>>
    BY DEF From
  <2>8. Takes(k, buffer)
    BY <1>3, <2>1, <2>2, <2>7 DEF Breaks, Takes
  <2>9. Side(hidden) = "visible" /\ Side(hidden') = "visible"
    BY <1>1, <2>1 DEF Side, Breaks
  <2>10. Shows(text)[Done + k]["visible"] = <<>> /\ buffer \o <<>> = buffer
    BY <2>3, ShowsNext
  <2>11. Tells(k, buffer)
    BY <2>5, <2>6, <2>9, <2>10 DEF Tells
  <2> QED BY <2>8, <2>11
<1> QED BY <1>1, <1>2, <1>3 DEF InLoop

\* What is emitted is the text from where the buffer begins.
LEMMA EmitsText ==
  ASSUME SanitizerTypes, WindowInv, NEW n \in 0..Len(buffer)
  PROVE  UpTo(buffer, n) = SubSeq(text, Done + 1, Done + n) /\ UpTo(buffer, n) \in Seq(Chars)
<1> USE ChunkFacts
<1>1. UpTo(buffer, n) = SubSeq(buffer, 1, n)
  BY DEF UpTo
<1>2. /\ SubSeq(buffer, 1, n) \in Seq(Chars) /\ Len(SubSeq(buffer, 1, n)) = n
      /\ \A i \in 1..n : SubSeq(buffer, 1, n)[i] = buffer[i]
  <2>1. buffer \in Seq(Chars) /\ n \in 0..Len(buffer)
    OBVIOUS
  <2> QED BY <2>1
<1>3. /\ SubSeq(text, Done + 1, Done + n) \in Seq(Chars)
      /\ Len(SubSeq(text, Done + 1, Done + n)) = n
      /\ \A i \in 1..n : SubSeq(text, Done + 1, Done + n)[i] = text[Done + i]
  <2>1. /\ text \in Seq(Chars) /\ Done \in Nat /\ Done + n \in Nat /\ Done + n <= Len(text)
        /\ n \in Nat
    OBVIOUS
  <2> QED BY <2>1
<1>4. \A i \in 1..n : buffer[i] = text[Done + i]
  BY DEF Window
<1>5. SubSeq(buffer, 1, n) = SubSeq(text, Done + 1, Done + n)
  BY <1>2, <1>3, <1>4, SeqEqual
<1> QED BY <1>1, <1>2, <1>5

\* A tag of the text that opens in the buffer is found there.
LEMMA OpeningIsFound ==
  ASSUME Narrow, SanitizerTypes, WindowInv, NEW i \in 1..Len(buffer), NEW m \in HtmlStarts,
         MatchesAt(text, m, Done + i), TagBoundary(text, Done + i + Len(m)),
         i + Len(m) <= Len(buffer) + 1
  PROVE  i \in VisiblePositions(buffer)
<1> USE ChunkFacts
<1>1. MatchesAt(buffer, m, i) /\ TagBoundary(buffer, i + Len(m))
  BY WindowOpens
<1> QED BY <1>1, VisibleFound DEF OpensAt

\* Text before a marker is shown: none begins in it.
LEMMA EmitToMarkerTells ==
  ASSUME Narrow, SanitizerTypes, WindowInv, EmitToMarker
  PROVE  \E k, o : Takes(k, o) /\ Tells(k, o)
<1> USE ChunkFacts
<1> DEFINE p == First(VisiblePositions(buffer))
           o == UpTo(buffer, p - 1)
<1>1. /\ p \in VisiblePositions(buffer) /\ \A j \in VisiblePositions(buffer) : p <= j
      /\ Continues(o, From(buffer, p)) /\ InLoop /\ ~hidden /\ hidden' = hidden
  BY PositionsAreNumbers, LeastOf DEF EmitToMarker
<1> HIDE DEF p
<1>2. p \in 1..Len(buffer) /\ (ChannelAt(buffer, p) # {} \/ OpensAt(buffer, p))
  BY <1>1, VisibleFound
<1>3. buffer[p] = Final[1]
  <2>1. \E m \in Markers : Fits(buffer, m, p)
    BY <1>2, FoundFits, MatchIsFit, MarkerSets DEF OpensAt, Html
  <2> QED BY <1>2, <2>1, FitsShape
<1>4. ASSUME NEW i \in 1..(p - 1)
      PROVE  ChannelAt(text, Done + i) = {} /\ ~OpensAt(text, Done + i)
  <2>0. i \in 1..Len(buffer) /\ Done + i \in Nat \ {0} /\ i \notin VisiblePositions(buffer)
    BY <1>1, <1>2
  <2>1. ASSUME NEW m \in ChannelAt(text, Done + i) PROVE FALSE
    <3>1. m \in Markers /\ Fits(text, m, Done + i)
      BY <2>0, FoundFits, MarkerSets
    <3>2. i + Len(m) <= Len(buffer) + 1
      BY <1>2, <1>3, <3>1, NoneAcross
    <3>3. m \in ChannelAt(buffer, i)
      BY <2>0, <3>2, WindowFinds
    <3> QED BY <2>0, <3>3, VisibleFound
  <2>2. ASSUME OpensAt(text, Done + i) PROVE FALSE
    <3>1. PICK m \in HtmlStarts :
            MatchesAt(text, m, Done + i) /\ TagBoundary(text, Done + i + Len(m))
      BY <2>2 DEF OpensAt
    <3>2. m \in Markers /\ Fits(text, m, Done + i)
      BY <2>0, <3>1, MatchIsFit, MarkerSets DEF Html
    <3>3. i + Len(m) <= Len(buffer) + 1
      BY <1>2, <1>3, <3>2, NoneAcross
    <3> QED BY <2>0, <3>1, <3>3, OpeningIsFound
  <2> QED BY <2>1, <2>2
<1>5. Shows(text)[Done + 1]["visible"] =
        SubSeq(text, Done + 1, Done + p - 1) \o Shows(text)[Done + p]["visible"]
  <2>1. text \in Seq(Chars) /\ Done \in Nat /\ p \in Nat \ {0} /\ Done + p \in Places(text)
    BY <1>2
  <2> QED BY <1>4, <2>1, VisibleStretch
<1>6. o = SubSeq(text, Done + 1, Done + p - 1) /\ o \in Seq(Chars)
  <2>1. p - 1 \in 0..Len(buffer) /\ Done + (p - 1) = Done + p - 1
    BY <1>2
  <2>2. /\ o = SubSeq(text, Done + 1, Done + (p - 1)) /\ o \in Seq(Chars)
    BY <2>1, EmitsText
  <2> QED BY <2>1, <2>2
<1> HIDE DEF o
<1>7. Takes(p, o)
  <2>1. /\ out' = out \o o /\ buffer' = From(buffer, p)
        /\ text' = text /\ sent' = sent /\ mode' = mode
    BY <1>1, Zenon DEF Continues, o
  <2>2. p \in 1..(Len(buffer) + 1)
    BY <1>2
  <2>3. mode \in {"feeding", "finishing"}
    BY <1>1 DEF InLoop
  <2> QED BY <1>6, <2>1, <2>2, <2>3 DEF Takes
<1>8. Side(hidden) = "visible" /\ Side(hidden') = "visible"
  BY <1>1 DEF Side
<1>9. Tells(p, o)
  BY <1>5, <1>6, <1>8 DEF Tells
<1> QED BY <1>7, <1>9

\* So is text that no marker can have begun in.
LEMMA EmitPlainTells ==
  ASSUME Narrow, SanitizerTypes, WindowInv, EmitPlain
  PROVE  \E k, o : Takes(k, o) /\ Tells(k, o)
<1> USE ChunkFacts
<1> DEFINE keep == IF mode = "finishing" THEN 0 ELSE SafeSuffixLen(buffer, VisibleMarkers)
           n == Len(buffer) - keep
           o == UpTo(buffer, n)
<1>1. /\ VisiblePositions(buffer) = {} /\ InLoop /\ ~hidden
      /\ Breaks(o, From(buffer, n + 1))
  BY DEF EmitPlain
<1>2. keep \in 0..Len(buffer) /\ n \in 0..Len(buffer)
  <2>0. buffer \in Seq(Chars) /\ Len(buffer) \in Nat
    OBVIOUS
  <2>1. SafeSuffixLen(buffer, VisibleMarkers) \in 0..Len(buffer)
    BY <2>0, SuffixSize
  <2>2. keep \in 0..Len(buffer)
    BY <2>0, <2>1
  <2> QED BY <2>0, <2>2
<1>3. ASSUME NEW i \in 1..n
      PROVE  ChannelAt(text, Done + i) = {} /\ ~OpensAt(text, Done + i)
  <2>0. i \in 1..Len(buffer) /\ Done + i \in Nat \ {0} /\ i <= Len(buffer) - keep
    BY <1>2
  <2>1. ASSUME NEW m \in ChannelAt(text, Done + i) PROVE FALSE
    <3>1. m \in VisibleMarkers /\ Fits(text, m, Done + i)
      BY <2>0, FoundFits DEF Channel, VisibleMarkers
    <3>2. i + Len(m) <= Len(buffer) + 1
      BY <1>1, <2>0, <3>1, NoneBegun
    <3>3. m \in ChannelAt(buffer, i)
      BY <2>0, <3>2, WindowFinds
    <3> QED BY <1>1, <2>0, <3>3, VisibleFound
  <2>2. ASSUME OpensAt(text, Done + i) PROVE FALSE
    <3>1. PICK m \in HtmlStarts :
            MatchesAt(text, m, Done + i) /\ TagBoundary(text, Done + i + Len(m))
      BY <2>2 DEF OpensAt
    <3>2. m \in VisibleMarkers /\ Fits(text, m, Done + i)
      BY <2>0, <3>1, MatchIsFit DEF Html, VisibleMarkers
    <3>3. i + Len(m) <= Len(buffer) + 1
      BY <1>1, <2>0, <3>2, NoneBegun
    <3> QED BY <1>1, <2>0, <3>1, <3>3, OpeningIsFound
  <2> QED BY <2>1, <2>2
<1>4. mode = "finishing" => n + 1 = Len(buffer) + 1
  OBVIOUS
<1> HIDE DEF keep, n
<1>5. Shows(text)[Done + 1]["visible"] =
        SubSeq(text, Done + 1, Done + n) \o Shows(text)[Done + (n + 1)]["visible"]
  <2> DEFINE p == n + 1
  <2>1. /\ text \in Seq(Chars) /\ Done \in Nat /\ p \in Nat \ {0} /\ Done + p \in Places(text)
        /\ p - 1 = n
    BY <1>2
  <2>2. \A i \in 1..(p - 1) : ChannelAt(text, Done + i) = {} /\ ~OpensAt(text, Done + i)
    BY <1>3, <2>1
  <2>3. Done + p - 1 = Done + n
    BY <1>2
  <2> HIDE DEF p
  <2>4. Shows(text)[Done + 1]["visible"] =
          SubSeq(text, Done + 1, Done + p - 1) \o Shows(text)[Done + p]["visible"]
    BY <2>1, <2>2, VisibleStretch
  <2> QED BY <2>3, <2>4, Zenon DEF p
<1>6. o = SubSeq(text, Done + 1, Done + n) /\ o \in Seq(Chars)
  BY <1>2, EmitsText
<1> HIDE DEF o
<1>7. Takes(n + 1, o)
  <2>1. /\ out' = out \o o /\ buffer' = From(buffer, n + 1)
        /\ text' = text /\ sent' = sent /\ mode' = IF mode = "feeding" THEN "idle" ELSE "done"
    BY <1>1, Zenon DEF Breaks, o
  <2>2. n + 1 \in 1..(Len(buffer) + 1)
    BY <1>2
  <2>3. mode \in {"feeding", "finishing"}
    BY <1>1 DEF InLoop
  <2> QED BY <1>4, <1>6, <2>1, <2>2, <2>3 DEF Takes
<1>8. Side(hidden) = "visible" /\ Side(hidden') = "visible"
  BY <1>1 DEF Side, Breaks
<1>9. Tells(n + 1, o)
  BY <1>5, <1>6, <1>8 DEF Tells
<1> QED BY <1>7, <1>9

-----------------------------------------------------------------------------
(* Chunks do not matter.                                                   *)

\* Every iteration takes some characters and tells what they show.
LEMMA IterateTells ==
  ASSUME Narrow, SanitizerTypes, WindowInv, Iterate
  PROVE  \E k, o : Takes(k, o) /\ Tells(k, o)
BY EmptyTells, HiddenMarkerTells, SkipTells, DropTells, ChannelTells, OpenTagTells,
   UnendedTells, EmitToMarkerTells, EmitPlainTells DEF Iterate

\* A place of the chunk that is appended is a place of the text.
LEMMA PlaceInText ==
  ASSUME NEW l \in Nat, NEW d \in Nat, NEW s \in Nat, NEW n \in Nat, NEW i \in 1..(l + (n - s)),
         d + l = s, s < n, i > l
  PROVE  i - l \in 1..(n - s) /\ s + (i - l) = d + i
OBVIOUS

\* A call of feed makes the window longer, one of finish says that no more will come.
LEMMA CallTells ==
  ASSUME ChunkInv, Feed \/ Finish
  PROVE  ChunkInv'
<1>0. SanitizerTypes /\ WindowInv /\ ShownInv
  BY DEF ChunkInv
<1> USE ChunkFacts
<1>1. SanitizerTypes'
  BY <1>0, CallTypes
<1>2. CASE Feed
  <2>1. PICK n \in (sent + 1)..Len(text) : /\ sent' = n
                                           /\ buffer' = buffer \o SubSeq(text, sent + 1, n)
    BY <1>2 DEF Feed
  <2> DEFINE more == SubSeq(text, sent + 1, n)
  <2>2. /\ more \in Seq(Chars) /\ Len(more) = n - sent
        /\ \A i \in 1..(n - sent) : more[i] = text[sent + i]
    <3>1. text \in Seq(Chars) /\ sent \in Nat /\ n \in Nat /\ sent < n /\ n <= Len(text)
      BY <1>0
    <3> QED BY <3>1
  <2> HIDE DEF more
  <2>3. /\ Len(buffer') = Len(buffer) + (n - sent)
        /\ \A i \in 1..Len(buffer) : buffer'[i] = buffer[i]
        /\ \A i \in (Len(buffer) + 1)..Len(buffer') : buffer'[i] = more[i - Len(buffer)]
    <3>1. buffer' = buffer \o more /\ buffer \in Seq(Chars)
      BY <1>0, <2>1 DEF more
    <3>2. Len(buffer') = Len(buffer) + Len(more)
      BY <2>2, <3>1, ConcatProperties, SMTT(30)
    <3>3. \A i \in 1..(Len(buffer) + Len(more)) :
            buffer'[i] = IF i <= Len(buffer) THEN buffer[i] ELSE more[i - Len(buffer)]
      BY <2>2, <3>1, ConcatProperties, SMTT(30)
    <3>4. Len(buffer) \in Nat /\ Len(more) \in Nat
      BY <2>2, <3>1
    <3> QED BY <2>2, <3>2, <3>3, <3>4, SMTT(30)
  <2>4. Done' = Done
    BY <1>0, <2>1, <2>3 DEF Done
  <2>5. Window(buffer', text', Done')
    <3>1. text' = text
      BY <1>2 DEF Feed
    <3>2. ASSUME NEW i \in 1..Len(buffer') PROVE buffer'[i] = text[Done + i]
      <4>1. CASE i <= Len(buffer)
        BY <1>0, <2>3, <4>1 DEF Window
      <4>2. CASE ~(i <= Len(buffer))
        <5>0. /\ Len(buffer) \in Nat /\ sent \in Nat /\ n \in Nat /\ Done \in Nat /\ sent < n
              /\ Done + Len(buffer) = sent /\ i \in 1..(Len(buffer) + (n - sent))
              /\ i > Len(buffer)
          <6>1. sent \in Nat /\ Len(text) \in Nat /\ Len(buffer) \in Nat
            BY <1>0
          <6> QED BY <1>0, <2>1, <2>3, <4>2, <6>1
        <5>1. i - Len(buffer) \in 1..(n - sent) /\ sent + (i - Len(buffer)) = Done + i
          BY <5>0, PlaceInText
        <5>2. more[i - Len(buffer)] = text[sent + (i - Len(buffer))]
          BY <2>2, <5>1
        <5>3. i \in (Len(buffer) + 1)..Len(buffer')
          BY <1>0, <4>2
        <5> QED BY <2>3, <5>1, <5>2, <5>3
      <4> QED BY <4>1, <4>2
    <3>3. Done + Len(buffer') <= Len(text)
      BY <1>0, <2>1, <2>3
    <3> QED BY <2>4, <3>1, <3>2, <3>3 DEF Window
  <2>6. WindowInv'
    BY <1>0, <1>2, <2>1, <2>3, <2>5 DEF WindowInv, Feed
  <2>7. ShownInv'
    BY <1>0, <1>2, <2>4 DEF ShownInv, ToCome, Feed
  <2> QED BY <1>1, <2>6, <2>7 DEF ChunkInv
<1>3. CASE Finish
  <2>1. UNCHANGED <<text, sent, buffer, hidden, out>> /\ mode' = "finishing" /\ sent = Len(text)
    BY <1>3 DEF Finish
  <2>2. WindowInv'
    BY <1>0, <2>1 DEF WindowInv, Window, Done
  <2>3. ShownInv'
    BY <1>0, <2>1 DEF ShownInv, ToCome, Done
  <2> QED BY <1>1, <2>2, <2>3 DEF ChunkInv
<1> QED BY <1>2, <1>3

\* In the beginning all is to come.
LEMMA InitChunkInv == SanitizerInit => ChunkInv
<1> SUFFICES ASSUME SanitizerInit PROVE ChunkInv
  OBVIOUS
<1>1. SanitizerTypes
  BY SanitizerInitHolds
<1>2. Len(buffer) = 0 /\ sent = 0 /\ Done = 0 /\ mode = "idle" /\ out = <<>> /\ ~hidden
  <2>1. sent = 0 /\ mode = "idle" /\ out = <<>> /\ hidden = FALSE
    BY DEF SanitizerInit
  <2>2. Len(buffer) = 0
    BY DEF SanitizerInit
  <2>3. sent = 0
    BY <2>1
  <2>4. Done = 0
    BY <2>2, <2>3 DEF Done
  <2> QED BY <2>1, <2>2, <2>4
<1>3. text \in Seq(Chars) /\ 1 \in Places(text)
  BY <1>1 DEF SanitizerTypes, Places
<1>4. WindowInv
  BY <1>2, <1>3 DEF WindowInv, Window
<1>5. ToCome = Shown(text) /\ ToCome \in Seq(Chars)
  BY <1>2, <1>3, ShowsTypes DEF ToCome, Shown, Side
<1>6. ShownInv
  BY <1>2, <1>5 DEF ShownInv
<1> QED BY <1>1, <1>4, <1>6 DEF ChunkInv

\* Every step keeps the invariant.
LEMMA NextChunkInv ==
  ASSUME Narrow, ChunkInv, [SanitizerNext]_sanitizerVars
  PROVE  ChunkInv'
<1>0. SanitizerTypes /\ WindowInv
  BY DEF ChunkInv
<1>1. CASE UNCHANGED sanitizerVars
  BY <1>1 DEF ChunkInv, SanitizerTypes, WindowInv, ShownInv, ToCome, Window, Done, sanitizerVars
<1>2. CASE Feed \/ Finish
  BY <1>2, CallTells
<1>3. CASE Iterate
  <2>1. SanitizerTypes'
    BY <1>0, <1>3, IterateTypes
  <2>2. PICK k, o : Takes(k, o) /\ Tells(k, o)
    BY <1>0, <1>3, IterateTells
  <2> QED BY <2>1, <2>2, TakesKeeps
<1> QED BY <1>1, <1>2, <1>3 DEF SanitizerNext

\* What the invariant is for.
LEMMA ChunkInvTells ==
  ASSUME ChunkInv
  PROVE  NothingHiddenLeaves /\ ChunksDoNotMatter
<1>0. SanitizerTypes /\ WindowInv /\ ShownInv
  BY DEF ChunkInv
<1> USE ChunkFacts
<1>1. ShownOf[text] = Shown(text)
  BY <1>0 DEF ShownOf, SanitizerTypes
<1>2. ToCome \in Seq(Chars) /\ out \in Seq(Chars) /\ out \o ToCome = Shown(text)
  BY <1>0, ShowsTypes DEF ToCome, Side, ShownInv
<1>3. NothingHiddenLeaves
  <2>1. /\ Len(out \o ToCome) = Len(out) + Len(ToCome)
        /\ \A i \in 1..Len(out) : (out \o ToCome)[i] = out[i]
    BY <1>2
  <2>2. SubSeq(out, 1, Len(out)) = SubSeq(out \o ToCome, 1, Len(out))
    BY <1>2, <2>1
  <2>3. Len(out) <= Len(out \o ToCome)
    BY <1>2, <2>1
  <2> QED BY <1>1, <1>2, <2>2, <2>3 DEF NothingHiddenLeaves, IsPrefix
<1>4. ASSUME mode = "done" PROVE out = Shown(text)
  <2>1. Done + 1 = Len(text) + 1
    BY <1>0, <1>4 DEF WindowInv
  <2>2. ToCome = <<>>
    BY <1>0, <2>1, ShowsNext DEF ToCome, Side
  <2> QED BY <1>2, <2>2
<1> QED BY <1>1, <1>3, <1>4 DEF ChunksDoNotMatter

-----------------------------------------------------------------------------
(* The theorems about the sanitizer.                                       *)

\* Every step keeps the types.
LEMMA StepTypes ==
  ASSUME SanitizerTypes, [SanitizerNext]_sanitizerVars
  PROVE  SanitizerTypes'
<1>1. CASE UNCHANGED sanitizerVars
  BY <1>1 DEF SanitizerTypes, sanitizerVars
<1> QED BY <1>1, CallTypes, IterateTypes DEF SanitizerNext

\* The variables keep their types, whatever the markers, the chunks and the lower case.
THEOREM SanitizerTypeCorrect == SanitizerSpec => []SanitizerTypes
<1>1. SanitizerInit => SanitizerTypes
  BY SanitizerInitHolds
<1>2. SanitizerTypes /\ [SanitizerNext]_sanitizerVars => SanitizerTypes'
  BY StepTypes
<1> QED BY <1>1, <1>2, PTL DEF SanitizerSpec

\* What a call of feed leaves in the buffer is the beginning of a marker that the place
\* looks for, in whatever case, or visible text that opens with a tag that has not ended:
\* plain text is never swallowed.  It says nothing of how long an unended tag is waited for.
THEOREM OnlyMarkersAreHeld ==
  ASSUME Narrow
  PROVE  SanitizerSpec => []HeldBack
<1>1. SanitizerInit => HeldBack
  <2> SUFFICES ASSUME SanitizerInit PROVE HeldBack
    OBVIOUS
  <2>1. buffer = <<>> /\ ~hidden /\ Final \in VisibleMarkers /\ Final \in Markers
    BY MarkerSets DEF SanitizerInit, VisibleMarkers
  <2> QED BY <2>1, EmptyBegins DEF HeldBack
<1>2. SanitizerTypes /\ HeldBack /\ [SanitizerNext]_sanitizerVars => HeldBack'
  BY HeldBackStep
<1> QED BY <1>1, <1>2, SanitizerTypeCorrect, PTL DEF SanitizerSpec

\* What is cut off makes a text shorter.
LEMMA CutShortens ==
  ASSUME NEW s \in Seq(Chars), s # <<>>, NEW i \in Nat, i > 1
  PROVE  Len(From(s, i)) < Len(s)
<1>1. Len(s) \in Nat \ {0}
  OBVIOUS
<1>2. CASE i <= Len(s)
  <2>1. Len(From(s, i)) = Len(s) - i + 1
    BY <1>2, FromText
  <2> QED BY <1>1, <2>1
<1>3. CASE i > Len(s)
  <2>1. From(s, i) = <<>>
    BY <1>3 DEF From
  <2> QED BY <1>1, <2>1
<1> QED BY <1>1, <1>2, <1>3

\* An iteration that does not end the call makes the buffer shorter.
LEMMA IterateShortens ==
  ASSUME SanitizerTypes, Iterate, InLoop'
  PROVE  Len(buffer') < Len(buffer)
<1>0. buffer \in Seq(Chars) /\ <<>> \in Seq(Chars)
  BY DEF SanitizerTypes
<1>1. ASSUME NEW o, NEW r, Breaks(o, r), InLoop PROVE FALSE
  BY <1>1 DEF Breaks, InLoop
<1>2. ~(DrainEmpty \/ DropHidden \/ UnendedTag \/ EmitPlain)
  BY <1>1 DEF DrainEmpty, DropHidden, UnendedTag, EmitPlain
<1>3. ASSUME buffer = <<>>
      PROVE  /\ \A m \in Markers : ~OccursAt(buffer, m, 1) /\ ~OccursAt(LowerText(buffer), m, 1)
             /\ TagEnds = {} /\ VisiblePositions(buffer) = {} /\ HiddenPositions(buffer) = {}
  <2>1. LowerText(buffer) = <<>>
    BY <1>3 DEF LowerText
  <2>2. \A m \in Markers : ~OccursAt(<<>>, m, 1)
    <3>1. SUFFICES ASSUME NEW m \in Markers PROVE ~(1 + Len(m) <= Len(<<>>) + 1)
      BY DEF OccursAt
    <3>2. Len(m) \in Nat \ {0} /\ Len(<<>>) = 0
      BY MarkersAre
    <3> QED BY <3>2
  <2>3. TagEnds = {}
    BY <1>3 DEF TagEnds
  <2>4. VisiblePositions(buffer) = {} /\ HiddenPositions(buffer) = {}
    BY <1>3, <2>1 DEF VisiblePositions, HiddenPositions, HtmlOpenings, Occurrences
  <2> QED BY <1>3, <2>1, <2>2, <2>3, <2>4
<1>4. ASSUME NEW i \in Nat, NEW o, i > 1, buffer # <<>>, Continues(o, From(buffer, i))
      PROVE  Len(buffer') < Len(buffer)
  BY <1>0, <1>4, CutShortens DEF Continues
<1>5. ASSUME NEW m \in Markers PROVE Len(m) + 1 \in Nat /\ Len(m) + 1 > 1
  BY MarkersAre
<1>6. CASE ConsumeHiddenMarker
  <2>1. PICK m \in HiddenMarkers :
          /\ OccursAt(IF m \in HtmlCloses THEN LowerText(buffer) ELSE buffer, m, 1)
          /\ Continues(<<>>, From(buffer, Len(m) + 1))
    BY <1>6 DEF ConsumeHiddenMarker
  <2>2. m \in Markers
    BY MarkerSets
  <2> QED BY <1>3, <1>4, <1>5, <2>1, <2>2
<1>7. CASE ConsumeVisibleMarker
  <2>1. PICK m \in Channel : OccursAt(buffer, m, 1) /\ Continues(<<>>, From(buffer, Len(m) + 1))
    BY <1>7 DEF ConsumeVisibleMarker, Channel
  <2>2. m \in Markers
    BY MarkerSets
  <2> QED BY <1>3, <1>4, <1>5, <2>1, <2>2
<1>8. CASE OpenTag
  <2> DEFINE i == First(TagEnds) + 1
  <2>1. TagEnds \subseteq Nat \ {0} /\ TagEnds # {} /\ Continues(<<>>, From(buffer, i))
    BY <1>8 DEF OpenTag, TagEnds
  <2>2. First(TagEnds) \in Nat \ {0}
    BY <2>1, LeastOf
  <2>3. i \in Nat /\ i > 1
    BY <2>2
  <2> HIDE DEF i
  <2> QED BY <1>3, <1>4, <2>1, <2>3
<1>9. CASE SkipToHiddenMarker
  <2> DEFINE p == First(HiddenPositions(buffer))
  <2>1. /\ ~HiddenStart /\ HiddenPositions(buffer) # {}
        /\ Continues(<<>>, From(buffer, p))
    BY <1>9 DEF SkipToHiddenMarker
  <2>2. p \in HiddenPositions(buffer) /\ p \in Nat \ {0}
    BY <1>0, <2>1, LeastOf, PositionsAreNumbers
  <2>3. p # 1
    BY <2>1, <2>2 DEF HiddenPositions, Occurrences, HiddenStart
  <2> QED BY <1>3, <1>4, <2>1, <2>2, <2>3
<1>10. CASE EmitToMarker
  <2> DEFINE p == First(VisiblePositions(buffer))
  <2>1. /\ 1 \notin VisiblePositions(buffer) /\ VisiblePositions(buffer) # {}
        /\ Continues(UpTo(buffer, p - 1), From(buffer, p))
    BY <1>10 DEF EmitToMarker
  <2>2. p \in VisiblePositions(buffer) /\ p \in Nat \ {0}
    BY <1>0, <2>1, LeastOf, PositionsAreNumbers
  <2> QED BY <1>3, <1>4, <2>1, <2>2
<1> QED BY <1>2, <1>6, <1>7, <1>8, <1>9, <1>10 DEF Iterate

\* The loop of _drain ends for every buffer, whatever the lower case: an iteration makes
\* the buffer shorter, or is the last one of its call.
THEOREM LoopsEnd ==
  SanitizerSpec => [][Iterate => ~InLoop' \/ Len(buffer') < Len(buffer)]_sanitizerVars
<1>1. SanitizerTypes /\ [SanitizerNext]_sanitizerVars =>
        [Iterate => ~InLoop' \/ Len(buffer') < Len(buffer)]_sanitizerVars
  BY IterateShortens
<1> QED BY <1>1, SanitizerTypeCorrect, PTL DEF SanitizerSpec

\* The inductive invariant: the buffer is a window of the text, and what is out, followed
\* by what the text shows from that window on, is what the text shows.
THEOREM ChunkInvariant ==
  ASSUME Narrow
  PROVE  SanitizerSpec => []ChunkInv
<1>1. SanitizerInit => ChunkInv
  BY InitChunkInv
<1>2. ChunkInv /\ [SanitizerNext]_sanitizerVars => ChunkInv'
  BY NextChunkInv
<1> QED BY <1>1, <1>2, PTL DEF SanitizerSpec

\* However a text is cut into chunks, what feed and finish have returned is a beginning
\* of what the whole text shows: nothing hidden leaves.  A character whose lower case is
\* longer is excluded: with one the text does leave, as the run sanitizer_wide shows.
THEOREM HiddenStaysHidden ==
  ASSUME Narrow
  PROVE  SanitizerSpec => []NothingHiddenLeaves
<1>1. ChunkInv => NothingHiddenLeaves
  BY ChunkInvTells
<1> QED BY <1>1, ChunkInvariant, PTL

\* However a text is cut into chunks, after finish exactly what it shows has been returned.
THEOREM ChunkingIsInvisible ==
  ASSUME Narrow
  PROVE  SanitizerSpec => []ChunksDoNotMatter
<1>1. ChunkInv => ChunksDoNotMatter
  BY ChunkInvTells
<1> QED BY <1>1, ChunkInvariant, PTL

-----------------------------------------------------------------------------
(* The streams of the gateway.                                             *)

\* A step of a stream is one of its sanitizer, or leaves that alone.
LEMMA StreamStepSanitizes ==
  ASSUME [StreamNext]_streamVars
  PROVE  [SanitizerNext]_sanitizerVars
<1>1. CASE UNCHANGED streamVars
  BY <1>1 DEF streamVars
<1>2. CASE Sanitizes
  BY <1>2 DEF Sanitizes, SanitizerNext
<1>3. CASE ReadContent \/ ReadFinish
  BY <1>3 DEF ReadContent, ReadFinish, SanitizerNext
<1>4. CASE FinishesChoice \/ ReadDone
  BY <1>4 DEF FinishesChoice, ReadDone, SanitizerNext
<1>5. CASE ClosesEarly \/ StreamFails \/ Buffered \/ SendChunk \/ SendDone \/ SendDelta \/ SendStop
  BY <1>5 DEF ClosesEarly, StreamFails, Buffered, SendChunk, SendDone, SendDelta, SendStop
<1> QED BY <1>1, <1>2, <1>3, <1>4, <1>5 DEF StreamNext

\* Both endpoints use the sanitizer as it is meant to be: every step of a stream is a call
\* of it, a step of one, or leaves it alone.
THEOREM StreamsUseSanitizer == StreamSpec => SanitizerSpec
<1>1. StreamInit => SanitizerInit
  BY DEF StreamInit
<1>2. [StreamNext]_streamVars => [SanitizerNext]_sanitizerVars
  BY StreamStepSanitizes
<1> QED BY <1>1, <1>2, PTL DEF StreamSpec, SanitizerSpec

\* What the client was told says how far the stream is.
TellInv ==
  /\ told = "end" => chunk = "over"
  /\ told = "finish_reason" => endpoint = "chat" /\ finished
  /\ chunk = "content" => ~finished
  /\ chunk = "finish" => finished

StreamInv == ToldIsSent /\ TellInv

\* Nothing was told or sent in the beginning.
LEMMA StreamInitHolds == StreamInit => StreamInv
<1> SUFFICES ASSUME StreamInit PROVE StreamInv
  OBVIOUS
<1>1. got = <<>> /\ told = "none" /\ chunk \in {"none", "buffering"} /\ text \in Texts
  BY DEF StreamInit, SanitizerInit
<1>2. Shown(text) \in Seq(Chars) /\ ShownOf[text] = Shown(text)
  <2>1. text \in Seq(Chars) /\ 1 \in Places(text)
    BY <1>1, TextAssumption DEF Chars, Places
  <2> QED BY <1>1, <2>1, ShowsTypes DEF Shown, ShownOf
<1>3. IsPrefix(got, ShownOf[text])
  BY <1>1, <1>2 DEF IsPrefix
<1> QED BY <1>1, <1>3 DEF StreamInv, ToldIsSent, TellInv

\* A step that sends nothing.
LEMMA SilentKeeps ==
  ASSUME StreamInv,
         got' = got, block' = block, text' = text, endpoint' = endpoint,
         told' = told \/ told' = "error",
         told = "end" => chunk' = "over",
         finished => finished' /\ chunk' # "content",
         chunk' = "content" => ~finished', chunk' = "finish" => finished'
  PROVE  StreamInv'
BY DEF StreamInv, ToldIsSent, TellInv

\* Every step keeps the invariant; what is sent is what the sanitizer let out.
LEMMA NextStreamInv ==
  ASSUME StreamInv, NothingHiddenLeaves, ChunksDoNotMatter, NothingHiddenLeaves',
         [StreamNext]_streamVars
  PROVE  StreamInv'
<1>1. CASE UNCHANGED streamVars \/ Sanitizes
  <2>1. UNCHANGED handlerVars /\ text' = text
    BY <1>1 DEF Sanitizes, streamVars, sanitizerVars, Iterate, DrainEmpty, ConsumeHiddenMarker,
         SkipToHiddenMarker, DropHidden, ConsumeVisibleMarker, OpenTag, UnendedTag, EmitToMarker,
         EmitPlain, Continues, Breaks
  <2> QED BY <2>1 DEF StreamInv, ToldIsSent, TellInv, handlerVars
<1>2. CASE ReadContent \/ ReadFinish
  BY <1>2, SilentKeeps DEF ReadContent, ReadFinish, Feed, sanitizerVars, StreamInv, TellInv
<1>3. CASE FinishesChoice \/ ReadDone
  BY <1>3, SilentKeeps DEF FinishesChoice, ReadDone, Finish, handlerVars, StreamInv, TellInv
<1>4. CASE ClosesEarly \/ StreamFails \/ Buffered
  BY <1>4, SilentKeeps DEF ClosesEarly, StreamFails, Buffered, sanitizerVars, StreamInv, TellInv
<1>5. CASE SendChunk \/ SendDone \/ SendDelta \/ SendStop
  <2>1. got' = out /\ text' = text /\ endpoint' = endpoint /\ finished' = finished
        /\ chunk' \in {"none", "over"}
    BY <1>5 DEF SendChunk, SendDone, SendDelta, SendStop, sanitizerVars
  <2>2. IsPrefix(got', ShownOf[text'])
    BY <2>1 DEF NothingHiddenLeaves
  <2>3. told' \in {"finish_reason", "end"} => mode = "done"
    BY <1>5 DEF SendChunk, SendDone, SendDelta, SendStop, StreamInv, TellInv
  <2>4. told' \in {"finish_reason", "end"} => got' = ShownOf[text']
    BY <2>1, <2>3 DEF ChunksDoNotMatter
  <2>5. /\ endpoint' = "messages" /\ got' # <<>> => block' # "none"
        /\ endpoint' = "messages" /\ told' = "end" =>
             block' = IF got' = <<>> THEN "none" ELSE "closed"
    BY <1>5, <2>1 DEF SendChunk, SendDone, SendDelta, SendStop, StreamInv, TellInv, ToldIsSent
  <2>6. TellInv'
    BY <1>5, <2>1 DEF SendChunk, SendDone, SendDelta, SendStop, StreamInv, TellInv
  <2> QED BY <2>2, <2>4, <2>5, <2>6 DEF StreamInv, ToldIsSent
<1> QED BY <1>1, <1>2, <1>3, <1>4, <1>5 DEF StreamNext

\* A client that was told of the end was sent all that the text shows, any other a beginning
\* of it, and in /v1/messages inside one content block.
THEOREM EndMeansAllSent ==
  ASSUME Narrow
  PROVE  StreamSpec => []ToldIsSent
<1>1. StreamInit => StreamInv
  BY StreamInitHolds
<1>2. StreamInv /\ NothingHiddenLeaves /\ ChunksDoNotMatter /\ NothingHiddenLeaves'
        /\ [StreamNext]_streamVars => StreamInv'
  BY NextStreamInv
<1>3. StreamSpec => []NothingHiddenLeaves /\ []ChunksDoNotMatter
  BY StreamsUseSanitizer, HiddenStaysHidden, ChunkingIsInvisible
<1>4. StreamInv => ToldIsSent
  BY DEF StreamInv
<1> QED BY <1>1, <1>2, <1>3, <1>4, PTL DEF StreamSpec

=============================================================================
