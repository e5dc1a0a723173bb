\* A character whose lower case is longer than it is.
SPECIFICATION SanitizerSpec
CONSTANTS
  Texts <- MCWideTexts
  Thought <- MCThought
  Final <- MCFinal
  Close <- MCClose
  HtmlStarts <- MCHtmlStarts
  HtmlCloses <- MCHtmlCloses
  TagEnd = ">"
  Boundary <- MCBoundary
  Lower <- MCWideLower
CHECK_DEADLOCK FALSE
INVARIANTS
  NothingHiddenLeaves
