--------------------------- MODULE MCHealthCheck ----------------------------
(***************************************************************************)
(* A drafting profile with a good backend and the ones that are wrong: one *)
(* serves another model, one is too old to draft, one contradicts the      *)
(* profile in every field.                                                 *)
(***************************************************************************)
EXTENDS HealthCheck, TLC

MCGood == [current |-> TRUE, target |-> TRUE, mtp |-> TRUE, wrong |-> {}]

MCBuilds == {MCGood, [MCGood EXCEPT !.target = FALSE],
             [MCGood EXCEPT !.mtp = FALSE, !.current = FALSE],
             [MCGood EXCEPT !.wrong = Fields]}

\* The deltas of scrapes that failed are judged as an idle one is.
MCDeltas == {"active", "registered_but_idle"}
=============================================================================
