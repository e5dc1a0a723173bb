------------------------ MODULE MCSanitizedStream ---------------------------
EXTENDS SanitizedStream, MCThoughtSanitizer

\* What the theorems about these properties assume.
ASSUME NarrowAssumption == Narrow
=============================================================================
