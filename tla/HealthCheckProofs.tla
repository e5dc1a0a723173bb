------------------------- MODULE HealthCheckProofs --------------------------
(***************************************************************************)
(* Proofs about HealthCheck, for any probes, builds, deltas and bounds.    *)
(*                                                                         *)
(* SteadyInv says what a probe that is still steady has observed: the      *)
(* backend is the one that was up when the probe began, and each answer    *)
(* read so far is true of it.  The command line may not have been found,   *)
(* so of the fields that are wrong only some may have been seen, but the   *)
(* one that /v1/models shows is seen if the target is served.              *)
(***************************************************************************)
EXTENDS HealthCheck, TLAPS

SteadyProbe(p) ==
  /\ Up /\ at[p] # "idle"
  /\ seen[p].wrong \subseteq backend.build.wrong
  /\ at[p] \in {"version", "models", "metrics"} => seen[p].health = "ok"
  /\ at[p] \in {"models", "metrics"} => seen[p].current = backend.build.current
  /\ at[p] = "metrics" =>
       /\ seen[p].served = backend.build.target
       /\ backend.build.target /\ "length" \in backend.build.wrong => "length" \in seen[p].wrong

SteadyInv == \A p \in Probes : steady[p] => SteadyProbe(p)

\* A probe that has not asked anything has observed nothing.
FreshInv == \A p \in Probes : at[p] \in {"idle", "health"} => seen[p] = NothingSeen

ExercisedInv == exercised => counted > 0

HealthInv == HealthTypeOK /\ SteadyInv /\ FreshInv /\ ExercisedInv

-----------------------------------------------------------------------------
(* The verdict.                                                            *)

\* Traffic is let in only if /health said ok and there is no reason against it.
LEMMA LetsTrafficIn ==
  ASSUME NEW o, NEW mtp, NEW drafting, NEW n, NEW delta,
         o.health \in HealthAnswers,
         ReadinessState(o, mtp, drafting, n, delta) \in {"ready", "warming"}
  PROVE  /\ o.health = "ok"
         /\ o.current /\ o.served /\ o.wrong = {}
<1>1. /\ o.health # "unreachable" /\ o.health # "loading" /\ o.health # "other"
  BY DEF ReadinessState
<1>2. o.health = "ok"
  BY <1>1 DEF HealthAnswers
<1>3. Reasons(o, drafting, n, delta) = {}
  BY <1>2 DEF ReadinessState
<1> QED BY <1>2, <1>3 DEF Reasons

\* Nothing against it means that it is let in.
LEMMA NothingAgainst ==
  ASSUME NEW o, NEW mtp, NEW drafting, NEW n, NEW delta,
         o.health = "ok", o.current, o.served, o.wrong = {},
         n = 0 \/ delta = "active"
  PROVE  ReadinessState(o, mtp, drafting, n, delta) \in {"ready", "warming"}
<1>1. MtpReasons(n, delta) = {}
  BY DEF MtpReasons
<1>2. Reasons(o, drafting, n, delta) = {}
  BY <1>1 DEF Reasons
<1> QED BY <1>2 DEF ReadinessState

LEMMA WarmingIsFirst ==
  ASSUME NEW o, NEW mtp, NEW drafting, NEW n, NEW delta,
         o.health \in HealthAnswers,
         ReadinessState(o, mtp, drafting, n, delta) = "warming"
  PROVE  n = 0
<1>1. o.health = "ok"
  BY LetsTrafficIn
<1>2. Warming(mtp, drafting, n)
  BY <1>1 DEF ReadinessState
<1> QED BY <1>2 DEF Warming

-----------------------------------------------------------------------------
(* Types.                                                                  *)

LEMMA VerdictType ==
  ASSUME NEW o, NEW mtp, NEW drafting, NEW n, NEW delta, o.health \in HealthAnswers
  PROVE  ReadinessState(o, mtp, drafting, n, delta) \in Verdicts
<1>1. CASE o.health = "ok"
  <2>1. ReadinessState(o, mtp, drafting, n, delta) \in {"degraded", "warming", "ready"}
    BY <1>1 DEF ReadinessState
  <2> QED BY <2>1 DEF Verdicts
<1>2. CASE o.health # "ok"
  BY <1>2 DEF ReadinessState, HealthAnswers, Verdicts
<1> QED BY <1>1, <1>2

LEMMA MetricsType ==
  ASSUME NEW result, NEW counter
  PROVE  ParseMtpMetrics(result, counter).state \in MtpStates
BY DEF ParseMtpMetrics, MtpStates

SeenType == [health : HealthAnswers, current : BOOLEAN, served : BOOLEAN, wrong : SUBSET Fields]

LEMMA NothingSeenType == NothingSeen \in SeenType
BY DEF NothingSeen, SeenType, HealthAnswers

LEMMA EvidenceType ==
  ASSUME HealthTypeOK
  PROVE  /\ backend.build \in BuildType
         /\ Evidence \subseteq SUBSET Fields
<1>1. backend.build \in BuildType
  BY BuildAssumption DEF HealthTypeOK
<1> QED BY <1>1 DEF Evidence, BuildType

LEMMA HealthTypeInit == HealthInit => HealthTypeOK
<1> SUFFICES ASSUME HealthInit
             PROVE  HealthTypeOK
  OBVIOUS
<1>1. counted \in Nat /\ pending \in Nat /\ drafts \in Nat /\ lastDelta \in Deltas \cup {"none"}
  BY DEF HealthInit, LogInit
<1>2. backend \in [life : Nat, phase : {"down", "loading", "up"}, build : Builds, counter : Nat]
  BY DEF HealthInit
<1>3. at \in [Probes -> Steps] /\ seen \in [Probes -> SeenType]
  BY NothingSeenType DEF HealthInit, Steps
<1>4. /\ verdict \in [state : Verdicts \cup {"none"}, mtp : MtpStates, steady : BOOLEAN]
      /\ steady \in [Probes -> BOOLEAN] /\ exercised \in BOOLEAN
  BY DEF HealthInit, NoVerdict, MtpStates
<1> QED BY <1>1, <1>2, <1>3, <1>4 DEF HealthTypeOK, SeenType

\* What a question may add to what was seen.
LEMMA SeenUpdates ==
  ASSUME HealthTypeOK, NEW p \in Probes
  PROVE  /\ seen[p] \in SeenType
         /\ \A a \in HealthAnswers : [seen[p] EXCEPT !.health = a] \in SeenType
         /\ \A a \in HealthAnswers, w \in SUBSET Fields :
              [seen[p] EXCEPT !.health = a, !.wrong = w] \in SeenType
         /\ \A b \in BOOLEAN, w \in SUBSET Fields :
              [seen[p] EXCEPT !.current = b, !.wrong = w] \in SeenType
         /\ \A w \in SUBSET Fields : [seen[p] EXCEPT !.wrong = w] \in SeenType
         /\ \A b \in BOOLEAN, w \in SUBSET Fields :
              [seen[p] EXCEPT !.served = b, !.wrong = w] \in SeenType
BY DEF HealthTypeOK, SeenType

LEMMA ProbeType ==
  ASSUME HealthTypeOK, NEW p \in Probes, Start(p) \/ Probe(p)
  PROVE  HealthTypeOK'
<1>0. seen \in [Probes -> SeenType]
  BY DEF HealthTypeOK, SeenType
<1>1. CASE Start(p)
  <2>1. verdict' = NoVerdict /\ Up \in BOOLEAN
    BY <1>1 DEF Start, Up
  <2>2. NoVerdict \in [state : Verdicts \cup {"none"}, mtp : MtpStates, steady : BOOLEAN]
    BY DEF NoVerdict, MtpStates
  <2> QED BY <1>1, <2>1, <2>2 DEF Start, Goto, HealthTypeOK, SeenType, Steps, logVars
<1>2. CASE Health(p)
  <2>1. seen' \in [Probes -> SeenType]
    <3>1. CASE Observes(p, [seen[p] EXCEPT !.health = "ok"])
      <4>1. [seen[p] EXCEPT !.health = "ok"] \in SeenType
        <5>1. "ok" \in HealthAnswers
          BY DEF HealthAnswers
        <5> QED BY <5>1, SeenUpdates
      <4> QED BY <1>0, <3>1, <4>1 DEF Observes
    <3>2. ASSUME NEW answer \in HealthAnswers, NEW evidence \in Evidence,
                 Observes(p, [seen[p] EXCEPT !.health = answer, !.wrong = evidence])
          PROVE  seen' \in [Probes -> SeenType]
      <4>1. [seen[p] EXCEPT !.health = answer, !.wrong = evidence] \in SeenType
        BY SeenUpdates, EvidenceType
      <4> QED BY <1>0, <3>2, <4>1 DEF Observes
    <3> QED BY <1>2, <3>1, <3>2 DEF Health
  <2>2. at' \in [Probes -> Steps] /\ steady' \in [Probes -> BOOLEAN]
    BY <1>2 DEF Health, Goto, Fails, HealthTypeOK, Steps
  <2>3. UNCHANGED <<logVars, backend, verdict, exercised>>
    BY <1>2 DEF Health
  <2> QED BY <2>1, <2>2, <2>3 DEF HealthTypeOK, SeenType, logVars
<1>3. CASE Version(p)
  <2>1. seen' \in [Probes -> SeenType]
    <3>1. PICK evidence \in Evidence :
            \/ Observes(p, [seen[p] EXCEPT !.current = backend.build.current, !.wrong = evidence])
            \/ Observes(p, [seen[p] EXCEPT !.wrong = evidence])
      BY <1>3 DEF Version
    <3>2. backend.build.current \in BOOLEAN /\ evidence \in SUBSET Fields
      BY EvidenceType DEF BuildType
    <3>3. /\ [seen[p] EXCEPT !.current = backend.build.current, !.wrong = evidence] \in SeenType
          /\ [seen[p] EXCEPT !.wrong = evidence] \in SeenType
      BY <3>2, SeenUpdates
    <3> QED BY <1>0, <3>1, <3>3 DEF Observes
  <2>2. at' \in [Probes -> Steps] /\ steady' \in [Probes -> BOOLEAN]
    BY <1>3 DEF Version, Goto, Fails, HealthTypeOK, Steps
  <2>3. UNCHANGED <<logVars, backend, verdict, exercised>>
    BY <1>3 DEF Version
  <2> QED BY <2>1, <2>2, <2>3 DEF HealthTypeOK, SeenType, logVars
<1>4. CASE Models(p)
  <2>1. seen' \in [Probes -> SeenType]
    <3> DEFINE w == IF backend.build.target
                      THEN (seen[p].wrong \ {"length"}) \cup (backend.build.wrong \cap {"length"})
                      ELSE seen[p].wrong
    <3>1. \/ Observes(p, [seen[p] EXCEPT !.served = backend.build.target, !.wrong = w])
          \/ UNCHANGED seen
      BY <1>4 DEF Models
    <3>2. seen[p].wrong \in SUBSET Fields
      BY <1>0 DEF SeenType
    <3>3. backend.build.target \in BOOLEAN /\ backend.build.wrong \in SUBSET Fields
      BY EvidenceType DEF BuildType
    <3>4. w \in SUBSET Fields
      BY <3>2, <3>3
    <3> HIDE DEF w
    <3>5. [seen[p] EXCEPT !.served = backend.build.target, !.wrong = w] \in SeenType
      BY <3>3, <3>4, SeenUpdates
    <3> QED BY <1>0, <3>1, <3>5 DEF Observes
  <2>2. at' \in [Probes -> Steps] /\ steady' \in [Probes -> BOOLEAN]
    BY <1>4 DEF Models, Goto, Fails, HealthTypeOK, Steps
  <2>3. UNCHANGED <<logVars, backend, verdict, exercised>>
    BY <1>4 DEF Models
  <2> QED BY <2>1, <2>2, <2>3 DEF HealthTypeOK, SeenType, logVars
<1>5. CASE Metrics(p)
  <2>1. PICK result \in ScrapeResults :
          LET answered == result # "nothing" \/ (Up /\ ~backend.build.mtp)
              mtp      == ParseMtpMetrics(result, backend.counter).state
              state    == ReadinessState(seen[p], mtp, Drafting, counted, lastDelta)
          IN  verdict' = [state |-> state, mtp |-> mtp, steady |-> steady[p] /\ answered]
    BY <1>5 DEF Metrics
  <2>2. verdict' \in [state : Verdicts \cup {"none"}, mtp : MtpStates, steady : BOOLEAN]
    <3>1. seen[p].health \in HealthAnswers /\ steady[p] \in BOOLEAN
      BY <1>0 DEF HealthTypeOK, SeenType
    <3>2. ParseMtpMetrics(result, backend.counter).state \in MtpStates
      BY MetricsType
    <3>3. ReadinessState(seen[p], ParseMtpMetrics(result, backend.counter).state,
                         Drafting, counted, lastDelta) \in Verdicts
      BY <3>1, VerdictType
    <3> QED BY <2>1, <3>1, <3>2, <3>3
  <2>3. seen' \in [Probes -> SeenType]
    <3> QED BY <1>0, <1>5, NothingSeenType DEF Metrics, Ends, Observes
  <2>4. /\ at' \in [Probes -> Steps] /\ steady' \in [Probes -> BOOLEAN]
        /\ exercised' \in BOOLEAN
    BY <1>5 DEF Metrics, Ends, Goto, HealthTypeOK, Steps
  <2>5. UNCHANGED <<logVars, backend>>
    BY <1>5 DEF Metrics
  <2> QED BY <2>2, <2>3, <2>4, <2>5 DEF HealthTypeOK, SeenType, logVars
<1>6. CASE Raises(p)
  <2>1. seen' \in [Probes -> SeenType]
    BY <1>0, <1>6, NothingSeenType DEF Raises, Ends, Observes
  <2>2. at' \in [Probes -> Steps] /\ steady' \in [Probes -> BOOLEAN]
    BY <1>6 DEF Raises, Ends, Goto, Fails, HealthTypeOK, Steps
  <2>3. UNCHANGED <<logVars, backend, verdict, exercised>>
    BY <1>6 DEF Raises
  <2> QED BY <2>1, <2>2, <2>3 DEF HealthTypeOK, SeenType, logVars
<1> QED BY <1>1, <1>2, <1>3, <1>4, <1>5, <1>6 DEF Probe

LEMMA BackendType ==
  ASSUME HealthTypeOK, BackendIsUp \/ BackendStops \/ BackendStarts \/ BackendDrafts
  PROVE  HealthTypeOK'
<1>1. backend' \in [life : Nat, phase : {"down", "loading", "up"}, build : Builds, counter : Nat]
  BY DEF HealthTypeOK, BackendIsUp, BackendStops, BackendStarts, BackendDrafts
<1>2. steady' \in [Probes -> BOOLEAN]
  BY DEF HealthTypeOK, BackendIsUp, BackendStops, BackendStarts, BackendDrafts, Disturbed
<1>3. UNCHANGED <<counted, pending, lastDelta>> /\ drafts' \in Nat
  BY DEF HealthTypeOK, BackendIsUp, BackendStops, BackendStarts, BackendDrafts, DraftOne, logVars
<1>4. UNCHANGED <<at, seen, verdict, exercised>>
  BY DEF BackendIsUp, BackendStops, BackendStarts, BackendDrafts
<1> QED BY <1>1, <1>2, <1>3, <1>4 DEF HealthTypeOK

LEMMA GenerationType ==
  ASSUME HealthTypeOK, Generation
  PROVE  HealthTypeOK'
<1>1. UNCHANGED <<backend, at, seen, verdict, steady, exercised, drafts>>
  BY DEF Generation, healthVars, CountOne, RecordOne, GiveUpOne
<1>2. counted' \in Nat /\ pending' \in Nat /\ lastDelta' \in Deltas \cup {"none"}
  BY DEF Generation, CountOne, RecordOne, GiveUpOne, HealthTypeOK
<1> QED BY <1>1, <1>2 DEF HealthTypeOK

LEMMA HealthTypeStep ==
  ASSUME HealthTypeOK, [HealthNext]_allVars
  PROVE  HealthTypeOK'
<1>1. CASE UNCHANGED allVars
  BY <1>1 DEF HealthTypeOK, allVars, healthVars, logVars
<1> QED BY <1>1, ProbeType, BackendType, GenerationType DEF HealthNext

-----------------------------------------------------------------------------
(* What a steady probe has seen.                                           *)

\* What one probe does leaves the others as they are.
LEMMA OthersKeep ==
  ASSUME HealthTypeOK, NEW p \in Probes, Start(p) \/ Probe(p), NEW o \in Probes, o # p
  PROVE  /\ at'[o] = at[o] /\ seen'[o] = seen[o] /\ steady'[o] = steady[o]
         /\ UNCHANGED backend
<1>1. UNCHANGED backend /\ at'[o] = at[o]
  BY DEF Start, Probe, Health, Version, Models, Metrics, Raises, Ends, Goto, HealthTypeOK
<1>2. steady'[o] = steady[o]
  BY DEF Start, Probe, Health, Version, Models, Metrics, Raises, Fails, HealthTypeOK
<1>3. seen'[o] = seen[o]
  BY DEF Start, Probe, Health, Version, Models, Metrics, Raises, Ends, Observes, HealthTypeOK
<1> QED BY <1>1, <1>2, <1>3

LEMMA ProbeSteady ==
  ASSUME HealthTypeOK, SteadyInv, FreshInv, NEW p \in Probes, Start(p) \/ Probe(p)
  PROVE  SteadyInv' /\ FreshInv'
<1>0. seen \in [Probes -> SeenType] /\ backend.build \in BuildType
  BY EvidenceType DEF HealthTypeOK, SeenType
<1>1. ASSUME NEW o \in Probes, o # p
      PROVE  /\ steady'[o] => SteadyProbe(o)'
             /\ at'[o] \in {"idle", "health"} => seen'[o] = NothingSeen
  BY <1>1, OthersKeep DEF SteadyInv, SteadyProbe, FreshInv, Up
<1>2. /\ steady'[p] => SteadyProbe(p)'
      /\ at'[p] \in {"idle", "health"} => seen'[p] = NothingSeen
  <2>1. CASE Start(p)
    <3>1. /\ at'[p] = "health" /\ seen' = seen /\ seen[p] = NothingSeen
          /\ backend' = backend /\ steady'[p] = Up
      BY <2>1 DEF Start, Goto, FreshInv, HealthTypeOK
    <3>2. seen'[p] = NothingSeen /\ seen'[p].wrong = {}
      BY <3>1 DEF NothingSeen
    <3>3. steady'[p] => Up'
      BY <3>1 DEF Up
    <3> QED BY <3>1, <3>2, <3>3 DEF SteadyProbe
  <2>2. CASE Health(p)
    <3>1. /\ at[p] = "health" /\ seen[p] = NothingSeen /\ backend' = backend
          /\ at'[p] \in {"version", "models"}
      BY <2>2 DEF Health, Goto, FreshInv, HealthTypeOK
    <3>2. CASE Up /\ Goto(p, "version") /\ Observes(p, [seen[p] EXCEPT !.health = "ok"])
      <4>1. at'[p] = "version" /\ seen'[p] = [seen[p] EXCEPT !.health = "ok"]
        BY <3>2 DEF Goto, Observes, HealthTypeOK
      <4>2. seen'[p].health = "ok" /\ seen'[p].wrong = {}
        BY <3>1, <4>1 DEF NothingSeen
      <4> QED BY <3>1, <3>2, <4>1, <4>2 DEF SteadyProbe, Up
    <3>3. CASE Fails(p)
      <4>1. ~steady'[p]
        BY <3>3 DEF Fails, HealthTypeOK
      <4> QED BY <3>1, <4>1
    <3> QED BY <2>2, <3>2, <3>3 DEF Health
  <2>3. CASE Version(p)
    <3>1. /\ at[p] = "version" /\ at'[p] = "models" /\ backend' = backend
      BY <2>3 DEF Version, Goto, HealthTypeOK
    <3>2. CASE Fails(p)
      <4>1. ~steady'[p]
        BY <3>2 DEF Fails, HealthTypeOK
      <4> QED BY <3>1, <4>1
    <3>3. ASSUME NEW evidence \in Evidence, Up, UNCHANGED steady, steady[p],
                 Observes(p, [seen[p] EXCEPT !.current = backend.build.current,
                                             !.wrong = evidence])
          PROVE  SteadyProbe(p)'
      <4>1. seen'[p] = [seen[p] EXCEPT !.current = backend.build.current, !.wrong = evidence]
        BY <3>3 DEF Observes, HealthTypeOK
      <4>2. /\ seen'[p].current = backend.build.current /\ seen'[p].wrong = evidence
            /\ seen'[p].health = seen[p].health
        BY <1>0, <4>1 DEF SeenType
      <4>3. seen[p].health = "ok"
        BY <3>1, <3>3 DEF SteadyInv, SteadyProbe
      <4>4. evidence \subseteq backend.build.wrong
        BY <3>3 DEF Evidence
      <4> QED BY <3>1, <3>3, <4>2, <4>3, <4>4 DEF SteadyProbe, Up
    <3>4. steady'[p] => SteadyProbe(p)'
      BY <2>3, <3>2, <3>3 DEF Version
    <3> QED BY <3>1, <3>4
  <2>4. CASE Models(p)
    <3>1. /\ at[p] = "models" /\ at'[p] = "metrics" /\ backend' = backend
      BY <2>4 DEF Models, Goto, HealthTypeOK
    <3>2. CASE Fails(p)
      <4>1. ~steady'[p]
        BY <3>2 DEF Fails, HealthTypeOK
      <4> QED BY <3>1, <4>1
    <3> DEFINE w == IF backend.build.target
                      THEN (seen[p].wrong \ {"length"}) \cup (backend.build.wrong \cap {"length"})
                      ELSE seen[p].wrong
    <3>3. ASSUME Up, UNCHANGED steady, steady[p],
                 Observes(p, [seen[p] EXCEPT !.served = backend.build.target, !.wrong = w])
          PROVE  SteadyProbe(p)'
      <4>1. seen'[p] = [seen[p] EXCEPT !.served = backend.build.target, !.wrong = w]
        BY <3>3 DEF Observes, HealthTypeOK
      <4>2. /\ seen[p].wrong \subseteq backend.build.wrong /\ seen[p].health = "ok"
            /\ seen[p].current = backend.build.current
        BY <3>1, <3>3 DEF SteadyInv, SteadyProbe
      <4>3. /\ w \subseteq backend.build.wrong
            /\ backend.build.target /\ "length" \in backend.build.wrong => "length" \in w
        BY <4>2
      <4> HIDE DEF w
      <4>4. /\ seen'[p].served = backend.build.target /\ seen'[p].wrong = w
            /\ seen'[p].health = seen[p].health /\ seen'[p].current = seen[p].current
        BY <1>0, <4>1 DEF SeenType
      <4> QED BY <3>1, <3>3, <4>2, <4>3, <4>4 DEF SteadyProbe, Up
    <3>4. steady'[p] => SteadyProbe(p)'
      BY <2>4, <3>2, <3>3 DEF Models
    <3> QED BY <3>1, <3>4
  <2>5. CASE Metrics(p)
    <3>1. ~steady'[p] /\ seen'[p] = NothingSeen
      BY <2>5 DEF Metrics, Ends, Observes, HealthTypeOK
    <3> QED BY <3>1
  <2>6. CASE Raises(p)
    <3>1. ~steady'[p] /\ seen'[p] = NothingSeen
      BY <2>6 DEF Raises, Ends, Observes, Fails, HealthTypeOK
    <3> QED BY <3>1
  <2> QED BY <2>1, <2>2, <2>3, <2>4, <2>5, <2>6 DEF Probe
<1> QED BY <1>1, <1>2 DEF SteadyInv, FreshInv

LEMMA BackendSteady ==
  ASSUME HealthTypeOK, SteadyInv, FreshInv,
         BackendIsUp \/ BackendStops \/ BackendStarts \/ BackendDrafts
  PROVE  SteadyInv' /\ FreshInv'
<1>1. UNCHANGED <<at, seen>>
  BY DEF BackendIsUp, BackendStops, BackendStarts, BackendDrafts
<1>2. CASE BackendStops
  BY <1>1, <1>2 DEF BackendStops, Disturbed, SteadyInv, FreshInv
<1>3. CASE BackendIsUp \/ BackendStarts
  <2>1. backend.phase # "up" /\ UNCHANGED steady
    BY <1>3 DEF BackendIsUp, BackendStarts
  <2>2. \A p \in Probes : ~steady'[p]
    BY <2>1 DEF SteadyInv, SteadyProbe, Up
  <2> QED BY <1>1, <2>2 DEF SteadyInv, FreshInv
<1>4. CASE BackendDrafts
  <2>1. backend'.phase = backend.phase /\ backend'.build = backend.build /\ UNCHANGED steady
    BY <1>4 DEF BackendDrafts, HealthTypeOK
  <2> QED BY <1>1, <2>1 DEF SteadyInv, SteadyProbe, FreshInv, Up
<1> QED BY <1>2, <1>3, <1>4

LEMMA SteadyStep ==
  ASSUME HealthTypeOK, SteadyInv, FreshInv, [HealthNext]_allVars
  PROVE  SteadyInv' /\ FreshInv'
<1>1. CASE Generation \/ UNCHANGED allVars
  <2>1. UNCHANGED <<backend, at, seen, steady>>
    BY <1>1 DEF Generation, allVars, healthVars
  <2> QED BY <2>1 DEF SteadyInv, SteadyProbe, FreshInv, Up
<1> QED BY <1>1, ProbeSteady, BackendSteady DEF HealthNext

\* The count of generations never goes back, so a verdict after one is after one for good.
LEMMA ExercisedStep ==
  ASSUME HealthTypeOK, ExercisedInv, [HealthNext]_allVars
  PROVE  ExercisedInv'
<1> USE DEF ExercisedInv
<1>1. ASSUME NEW p \in Probes, Start(p) \/ Probe(p)
      PROVE  ExercisedInv'
  BY <1>1 DEF Start, Probe, Health, Version, Models, Metrics, Raises, logVars
<1>2. CASE BackendIsUp \/ BackendStops \/ BackendStarts \/ BackendDrafts
  BY <1>2 DEF BackendIsUp, BackendStops, BackendStarts, BackendDrafts, DraftOne, logVars
<1>3. CASE Generation
  BY <1>3 DEF Generation, healthVars, CountOne, RecordOne, GiveUpOne, HealthTypeOK
<1>4. CASE UNCHANGED allVars
  BY <1>4 DEF allVars, healthVars, logVars
<1> QED BY <1>1, <1>2, <1>3, <1>4 DEF HealthNext

LEMMA HealthInitInv == HealthInit => HealthInv
<1> SUFFICES ASSUME HealthInit
             PROVE  HealthInv
  OBVIOUS
<1>1. SteadyInv /\ FreshInv /\ ExercisedInv
  BY DEF HealthInit, SteadyInv, FreshInv, ExercisedInv
<1> QED BY <1>1, HealthTypeInit DEF HealthInv

LEMMA HealthNextInv == HealthInv /\ [HealthNext]_allVars => HealthInv'
BY HealthTypeStep, SteadyStep, ExercisedStep DEF HealthInv

\* The inductive invariant of the probes: types, what a steady probe has seen, and that
\* nothing is exercised without a generation.
THEOREM HealthInvariant == HealthSpec => []HealthInv
BY HealthInitInv, HealthNextInv, PTL DEF HealthSpec

-----------------------------------------------------------------------------
(* Verdicts.                                                               *)

\* The verdict of a probe is given in its last step.
LEMMA VerdictGiven ==
  ASSUME HealthTypeOK, [HealthNext]_allVars, NEW p \in Probes, Verdict(p)
  PROVE  /\ Metrics(p)
         /\ \E result \in ScrapeResults :
              LET answered == result # "nothing" \/ (Up /\ ~backend.build.mtp)
                  mtp      == ParseMtpMetrics(result, backend.counter).state
                  state    == ReadinessState(seen[p], mtp, Drafting, counted, lastDelta)
              IN  verdict' = [state |-> state, mtp |-> mtp, steady |-> steady[p] /\ answered]
<1>1. at' # at
  BY DEF Verdict
<1>2. PICK q \in Probes : Start(q) \/ Probe(q)
  BY <1>1 DEF HealthNext, allVars, healthVars, Generation, BackendIsUp, BackendStops,
              BackendStarts, BackendDrafts
<1>3. q = p
  BY <1>2, OthersKeep DEF Verdict
<1>4. Metrics(p)
  BY <1>2, <1>3 DEF Verdict, Start, Probe, Health, Version, Models, Raises, Goto, HealthTypeOK
<1> QED BY <1>4 DEF Metrics

\* A steady probe whose verdict is out, and what it read.
LEMMA SteadyVerdict ==
  ASSUME HealthInv, [HealthNext]_allVars, NEW p \in Probes, Verdict(p), verdict'.steady
  PROVE  /\ SteadyProbe(p) /\ at[p] = "metrics" /\ backend.build \in BuildType
         /\ seen[p] \in SeenType
         /\ \E mtp : verdict'.state = ReadinessState(seen[p], mtp, Drafting, counted, lastDelta)
<1>0. HealthTypeOK
  BY DEF HealthInv
<1>1. PICK result \in ScrapeResults :
        LET answered == result # "nothing" \/ (Up /\ ~backend.build.mtp)
            mtp      == ParseMtpMetrics(result, backend.counter).state
            state    == ReadinessState(seen[p], mtp, Drafting, counted, lastDelta)
        IN  verdict' = [state |-> state, mtp |-> mtp, steady |-> steady[p] /\ answered]
  BY <1>0, VerdictGiven
<1>2. /\ verdict'.state = ReadinessState(seen[p], ParseMtpMetrics(result, backend.counter).state,
                                         Drafting, counted, lastDelta)
      /\ steady[p]
  BY <1>1
<1>3. SteadyProbe(p) /\ at[p] = "metrics"
  BY <1>2 DEF HealthInv, SteadyInv, Verdict
<1>4. backend.build \in BuildType /\ seen[p] \in SeenType
  BY <1>0, EvidenceType DEF HealthTypeOK, SeenType
<1> QED BY <1>2, <1>3, <1>4

\* A verdict that lets traffic in is true of the backend, for every number of probes,
\* every set of backends and any interleaving of their lives.
THEOREM ReadyVerdictIsTrue == HealthSpec => ReadyIsTrue
<1>1. ASSUME HealthInv, [HealthNext]_allVars, NEW p \in Probes,
             Verdict(p), verdict'.steady, verdict'.state \in {"ready", "warming"}
      PROVE  /\ backend.build.current /\ backend.build.target
             /\ "length" \notin backend.build.wrong
  <2>1. /\ SteadyProbe(p) /\ at[p] = "metrics" /\ backend.build \in BuildType
        /\ seen[p] \in SeenType
    BY <1>1, SteadyVerdict
  <2>2. PICK mtp : verdict'.state = ReadinessState(seen[p], mtp, Drafting, counted, lastDelta)
    BY <1>1, SteadyVerdict
  <2>3. seen[p].health \in HealthAnswers
    BY <2>1 DEF SeenType
  <2>4. seen[p].current /\ seen[p].served /\ seen[p].wrong = {}
    BY <1>1, <2>2, <2>3, LetsTrafficIn
  <2> QED BY <2>1, <2>4 DEF SteadyProbe
<1>2. HealthInv /\ [HealthNext]_allVars =>
        [\A p \in Probes :
           Verdict(p) /\ verdict'.steady /\ verdict'.state \in {"ready", "warming"} =>
             /\ backend.build.current /\ backend.build.target
             /\ "length" \notin backend.build.wrong]_allVars
  BY <1>1
<1> QED BY <1>2, HealthInvariant, PTL DEF HealthSpec, ReadyIsTrue

\* A good backend that answered the whole probe is let in, whatever was before it.
THEOREM GoodBackendIsLetIn == HealthSpec => NoFalseAlarm
<1>1. ASSUME HealthInv, [HealthNext]_allVars, NEW p \in Probes,
             Verdict(p), verdict'.steady,
             backend.build.current, backend.build.target, backend.build.wrong = {},
             counted = 0 \/ lastDelta = "active"
      PROVE  verdict'.state \in {"ready", "warming"}
  <2>1. SteadyProbe(p) /\ at[p] = "metrics"
    BY <1>1, SteadyVerdict
  <2>2. PICK mtp : verdict'.state = ReadinessState(seen[p], mtp, Drafting, counted, lastDelta)
    BY <1>1, SteadyVerdict
  <2>3. seen[p].health = "ok" /\ seen[p].current /\ seen[p].served /\ seen[p].wrong = {}
    BY <1>1, <2>1 DEF SteadyProbe
  <2> QED BY <1>1, <2>2, <2>3, NothingAgainst
<1>2. HealthInv /\ [HealthNext]_allVars =>
        [\A p \in Probes :
           /\ Verdict(p) /\ verdict'.steady
           /\ backend.build.current /\ backend.build.target /\ backend.build.wrong = {}
           /\ counted = 0 \/ lastDelta = "active"
           => verdict'.state \in {"ready", "warming"}]_allVars
  BY <1>1
<1> QED BY <1>2, HealthInvariant, PTL DEF HealthSpec, NoFalseAlarm

\* Once a verdict was given after a generation, no probe says "warming" again.
THEOREM WarmingIsOver == HealthSpec => WarmingNeverReturns
<1>1. ASSUME HealthInv, [HealthNext]_allVars, NEW p \in Probes,
             Verdict(p), verdict'.state = "warming"
      PROVE  ~exercised
  <2>0. HealthTypeOK /\ ExercisedInv
    BY <1>1 DEF HealthInv
  <2>1. PICK result \in ScrapeResults :
          LET answered == result # "nothing" \/ (Up /\ ~backend.build.mtp)
              mtp      == ParseMtpMetrics(result, backend.counter).state
              state    == ReadinessState(seen[p], mtp, Drafting, counted, lastDelta)
          IN  verdict' = [state |-> state, mtp |-> mtp, steady |-> steady[p] /\ answered]
    BY <1>1, <2>0, VerdictGiven
  <2>2. ReadinessState(seen[p], ParseMtpMetrics(result, backend.counter).state,
                       Drafting, counted, lastDelta) = "warming"
    BY <1>1, <2>1
  <2>3. seen[p].health \in HealthAnswers
    BY <2>0 DEF HealthTypeOK
  <2>4. counted = 0
    BY <2>2, <2>3, WarmingIsFirst
  <2> QED BY <2>0, <2>4 DEF ExercisedInv
<1>2. HealthInv /\ [HealthNext]_allVars =>
        [\A p \in Probes : Verdict(p) /\ verdict'.state = "warming" => ~exercised]_allVars
  BY <1>1
<1> QED BY <1>2, HealthInvariant, PTL DEF HealthSpec, WarmingNeverReturns
=============================================================================
