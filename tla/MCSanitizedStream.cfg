\* Every text of three pieces, and of four that make spans, cut in every way.
SPECIFICATION StreamFairSpec
CONSTANTS
  Texts <- MCTexts
  Thought <- MCThought
  Final <- MCFinal
  Close <- MCClose
  HtmlStarts <- MCHtmlStarts
  HtmlCloses <- MCHtmlCloses
  TagEnd = ">"
  Boundary <- MCBoundary
  Lower <- MCLower
CHECK_DEADLOCK FALSE
INVARIANTS
  NothingHiddenLeaves
  ChunksDoNotMatter
  HeldBack
  ToldIsSent
PROPERTIES
  CallsReturn
