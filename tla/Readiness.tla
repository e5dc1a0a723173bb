----------------------------- MODULE Readiness ------------------------------
(***************************************************************************)
(* The readiness evaluator (readiness.py): one verdict from what a probe   *)
(* observed.  Configuration fields that could not be observed are warnings *)
(* and change no verdict, so only the contradicted ones are here.          *)
(***************************************************************************)

Verdicts == {"unavailable", "starting", "warming", "degraded", "ready"}

\* What /health answered: ok; a body that says it is loading; another body; an
\* HTTP error, a transport error or a timeout.
HealthAnswers == {"ok", "loading", "other", "unreachable"}

\* Mutant: a profile without a generation so far is judged by its missing delta.
MtpReasonsAlways(generations, delta) ==
  CASE delta = "active" -> {}
    [] delta = "registered_but_idle" -> {"mtp_inactive_after_generation"}
    [] OTHER -> {"mtp_unverified_after_generation"}

\* The MTP reason of a profile that drafts: after a generation only its delta
\* counts, whatever the counters say by then.
MtpReasons(generations, delta) ==
  CASE generations = 0 \/ delta = "active"  -> {}
    [] generations # 0 /\ delta = "registered_but_idle" -> {"mtp_inactive_after_generation"}
    [] OTHER -> {"mtp_unverified_after_generation"}

\* Mutant: a target that is not served is no reason.
ReasonsWithoutTarget(seen, drafting, generations, delta) ==
  (IF seen.current THEN {} ELSE {"old_vllm_version"})
  \cup (IF seen.wrong = {} THEN {} ELSE {"config_mismatch"})
  \cup (IF drafting THEN MtpReasons(generations, delta) ELSE {})

Reasons(seen, drafting, generations, delta) ==
  (IF seen.current THEN {} ELSE {"old_vllm_version"})
  \cup (IF seen.served THEN {} ELSE {"target_not_served"})
  \cup (IF seen.wrong = {} THEN {} ELSE {"config_mismatch"})
  \cup (IF drafting THEN MtpReasons(generations, delta) ELSE {})

\* Mutant: idle counters are warming, before a generation or after it.
WarmingWhenIdle(mtp, drafting, generations) == drafting /\ mtp = "registered_but_idle"

Warming(mtp, drafting, generations) ==
  drafting /\ generations = 0 /\ mtp = "registered_but_idle"

\* build_readiness_state: seen is what the probe observed before the metrics, mtp
\* the state of those; drafting is FALSE for a profile without speculation.
ReadinessState(seen, mtp, drafting, generations, delta) ==
  CASE seen.health = "unreachable" -> "unavailable"
    [] seen.health = "loading"     -> "starting"
    [] seen.health = "other"       -> "degraded"
    [] OTHER ->
         IF Reasons(seen, drafting, generations, delta) # {} THEN "degraded"
         ELSE IF Warming(mtp, drafting, generations) THEN "warming" ELSE "ready"
=============================================================================
