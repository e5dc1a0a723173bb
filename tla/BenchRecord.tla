---------------------------- MODULE BenchRecord -----------------------------
(***************************************************************************)
(* What the file of a benchmark run promises to whoever reads it: it is    *)
(* absent, torn, or whole; a whole file is the record of one launch, whose *)
(* groups are the first it measured, and all of them if it says complete.  *)
(* The state is one record, so that several files can be kept side by side. *)
(***************************************************************************)
EXTENDS Naturals, Sequences

CONSTANTS
  Setups,        \* what a launch may be about: its configuration
  GroupsOf,      \* the groups that may be measured under each setup
  NumGroups      \* how many of them a launch measures

VARIABLE bench   \* the file, and the launch that writes it

Absent == [kind |-> "absent"]
Torn   == [kind |-> "torn"]

Whole(b, kind, failed) ==
  [kind |-> kind, setup |-> b.setup, groups |-> b.groups, failed |-> failed]

RecordInit ==
  \E s \in Setups : bench = [file |-> Absent, running |-> FALSE, setup |-> s, groups |-> <<>>]

-----------------------------------------------------------------------------

\* A launch begins; what an earlier one left stays in the file.
Launched(b, s) == [b EXCEPT !.running = TRUE, !.setup = s, !.groups = <<>>]

\* A group is measured; the file does not have it yet.
Measured(b, g) == [b EXCEPT !.groups = Append(@, g)]

\* The file is opened to be written anew, which empties it.
Opened(b) == [b EXCEPT !.file = Torn]

Flushed(b, failed) == [b EXCEPT !.file = Whole(b, "partial", failed)]

Completed(b) == [b EXCEPT !.file = Whole(b, "complete", FALSE), !.running = FALSE]

Stopped(b) == [b EXCEPT !.running = FALSE]

Successors(b) ==
  IF b.running
    THEN {Opened(b), Flushed(b, TRUE), Flushed(b, FALSE), Stopped(b)}
         \cup (IF Len(b.groups) = NumGroups
                 THEN {Completed(b)}
                 ELSE {Measured(b, g) : g \in GroupsOf[b.setup]})
    ELSE {Launched(b, s) : s \in Setups}

RecordNext == bench' \in Successors(bench)

RecordSpec == RecordInit /\ [][RecordNext]_bench
=============================================================================
