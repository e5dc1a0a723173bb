--------------------------- MODULE GenerationLog ----------------------------
(***************************************************************************)
(* What the rest of the gateway may rely on about finished generations:    *)
(* each is counted first, then its MTP delta is recorded or given up, in   *)
(* any order among generations; and a delta is "active" only if the        *)
(* backend has ever made a draft round.                                    *)
(***************************************************************************)
EXTENDS Naturals

CONSTANT Deltas           \* what a delta may say, "active" among it

VARIABLES
  counted,     \* batch_requests
  pending,     \* generations counted whose second scrape is under way
  lastDelta,   \* last_mtp_delta, "none" before the first
  drafts       \* draft rounds the backend ever made

logVars == <<counted, pending, lastDelta, drafts>>

LogInit == counted = 0 /\ pending = 0 /\ lastDelta = "none" /\ drafts = 0

CountOne ==
  /\ counted' = counted + 1
  /\ pending' = pending + 1
  /\ UNCHANGED <<lastDelta, drafts>>

RecordOne(delta) ==
  /\ pending > 0
  /\ delta = "active" => drafts > 0
  /\ pending' = pending - 1
  /\ lastDelta' = delta
  /\ UNCHANGED <<counted, drafts>>

GiveUpOne ==
  /\ pending > 0
  /\ pending' = pending - 1
  /\ UNCHANGED <<counted, lastDelta, drafts>>

DraftOne == drafts' = drafts + 1 /\ UNCHANGED <<counted, pending, lastDelta>>

LogNext == CountOne \/ (\E d \in Deltas : RecordOne(d)) \/ GiveUpOne \/ DraftOne

LogSpec == LogInit /\ [][LogNext]_logVars
=============================================================================
