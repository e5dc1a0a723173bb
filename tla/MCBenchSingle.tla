--------------------------- MODULE MCBenchSingle ----------------------------
EXTENDS BenchSingle

CONSTANTS both, echo, none

MCServer ==
  [s \in Setups |->
    CASE s = both -> [dialect |-> "both",   usage |-> TRUE]
      [] s = echo -> [dialect |-> "echo",   usage |-> TRUE]
      [] s = none -> [dialect |-> "silent", usage |-> FALSE]]

\* With ignore_eos all answers to a request are equally long, but a server that
\* ignores the field may stop earlier.
MCAnswers == {<<1>>, <<1, 2>>}
=============================================================================
