----------------------------- MODULE MtpMetrics -----------------------------
(***************************************************************************)
(* What the gateway learns of multi-token prediction from one scrape of    *)
(* the backend's /metrics, and from two (mtp_metrics.py).  The backend     *)
(* advances its draft-round and drafted-token counters together, so one    *)
(* number, drafts, stands for both.                                        *)
(***************************************************************************)
EXTENDS Naturals

MtpStates == {"active", "registered_but_idle", "unavailable", "parse_error"}

\* How a scrape can end: counters found; no answer, an HTTP error or no
\* speculative counter in the text; a counter whose value is not a finite number.
ScrapeResults == {"counters", "nothing", "malformed"}

Observations == [state : MtpStates, drafts : Nat]

ParseMtpMetrics(result, counter) ==
  [state  |-> CASE result = "nothing"   -> "unavailable"
                [] result = "malformed" -> "parse_error"
                [] OTHER -> IF counter > 0 THEN "active" ELSE "registered_but_idle",
   drafts |-> IF result = "counters" THEN counter ELSE 0]

MetricsRegistered(o) == o.state # "unavailable"

\* Mutant: the distance between the counters, whichever is the larger.
CounterDeltaAbs(b, a) ==
  IF a.drafts > b.drafts THEN a.drafts - b.drafts ELSE b.drafts - a.drafts

\* max(after - before, 0): a counter that went backwards counts as no progress.
CounterDelta(b, a) == IF a.drafts > b.drafts THEN a.drafts - b.drafts ELSE 0

MtpMetricDelta(b, a) ==
  CASE "parse_error" \in {b.state, a.state}                 -> "parse_error"
    [] "parse_error" \notin {b.state, a.state}
       /\ ~(MetricsRegistered(b) /\ MetricsRegistered(a))   -> "unavailable"
    [] OTHER -> IF CounterDelta(b, a) > 0 THEN "active" ELSE "registered_but_idle"
=============================================================================
