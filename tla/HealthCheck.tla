---------------------------- MODULE HealthCheck -----------------------------
(***************************************************************************)
(* /health and /readyz (server/app.py): coroutines that ask the backend    *)
(* four questions one after the other and judge the answers together with  *)
(* the generation counters, while the backend crashes, restarts with       *)
(* another configuration and drafts, and generations end (GenerationLog,   *)
(* which Gateway implements).  at[p] names the await a probe is in.        *)
(***************************************************************************)
EXTENDS GenerationLog, Readiness, MtpMetrics

CONSTANTS
  Probes,          \* the requests to /health and /readyz, each asked again and again
  Builds,          \* the backends that may be started, see BuildType
  Drafting,        \* FALSE for a profile with language_model_only
  MaxLives,        \* bound: starts of the backend
  MaxGenerations,  \* bound: generations
  MaxDrafts        \* bound: draft rounds

\* A backend: its version is recent enough, it serves the target, it has speculation
\* on; the fields that contradict the profile, one that /v1/models shows as well as
\* the command line ("length") and one that only the command line shows ("tokens").
Fields == {"length", "tokens"}

BuildType == [current : BOOLEAN, target : BOOLEAN, mtp : BOOLEAN, wrong : SUBSET Fields]

ASSUME BuildAssumption == Builds \subseteq BuildType /\ Drafting \in BOOLEAN
ASSUME LifeAssumption == {MaxLives, MaxGenerations, MaxDrafts} \subseteq Nat

VARIABLES
  backend,    \* life: starts so far; phase; build; counter: drafts in this life
  at,         \* the await of each probe, or idle
  seen,       \* what each probe observed so far
  verdict,    \* the last verdict and the metrics it read, none once a probe began
  steady,     \* history: since the probe began, one backend was up and answered it
  exercised   \* history: a verdict was given after a generation

healthVars == <<backend, at, seen, verdict, steady, exercised>>
allVars == <<logVars, healthVars>>

Steps == {"idle", "health", "version", "models", "metrics"}

\* default_observed_config.
NothingSeen == [health |-> "unreachable", current |-> FALSE, served |-> FALSE, wrong |-> {}]

NoVerdict == [state |-> "none", mtp |-> "unavailable", steady |-> FALSE]

HealthInit ==
  /\ LogInit
  /\ backend \in [life : {1}, phase : {"loading"}, build : Builds, counter : {0}]
  /\ at = [p \in Probes |-> "idle"]
  /\ seen = [p \in Probes |-> NothingSeen]
  /\ verdict = NoVerdict
  /\ steady = [p \in Probes |-> FALSE]
  /\ exercised = FALSE

Up == backend.phase = "up"

-----------------------------------------------------------------------------
(* A probe.  Every question has half a second; an error or no answer is    *)
(* never more than a missing observation.                                  *)

Goto(p, step) == at' = [at EXCEPT ![p] = step]

Observes(p, what) == seen' = [seen EXCEPT ![p] = what]

\* The question of p stays without answer, or is answered with an error.
Fails(p) == steady' = [steady EXCEPT ![p] = FALSE]

Start(p) ==
  /\ at[p] = "idle"
  /\ Goto(p, "health")
  /\ verdict' = NoVerdict
  /\ steady' = [steady EXCEPT ![p] = Up]
  /\ UNCHANGED <<logVars, backend, seen, exercised>>

\* The next probe begins with nothing observed.
Ends(p) == Goto(p, "idle") /\ Observes(p, NothingSeen)

\* Only a backend that said "ok" is asked for its version; one that did not has
\* its evidence read at once.  The evidence is the command line of the running
\* process, if the manifest leads to it.
Evidence == {{}} \cup (IF backend.phase = "down" THEN {} ELSE {backend.build.wrong})

Health(p) ==
  /\ at[p] = "health"
  /\ \/ /\ Up
        /\ Goto(p, "version")
        /\ Observes(p, [seen[p] EXCEPT !.health = "ok"])
        /\ UNCHANGED steady
     \/ \E answer \in HealthAnswers \ {"ok"}, evidence \in Evidence :
          /\ answer = "loading" => backend.phase = "loading"
          /\ Goto(p, "models")
          /\ Observes(p, [seen[p] EXCEPT !.health = answer, !.wrong = evidence])
          /\ Fails(p)
  /\ UNCHANGED <<logVars, backend, verdict, exercised>>

\* Mutant: the version is awaited without a timeout.
VersionUnbounded(p) ==
  /\ at[p] = "version"
  /\ Up
  /\ \E evidence \in Evidence :
       Observes(p, [seen[p] EXCEPT !.current = backend.build.current, !.wrong = evidence])
  /\ Goto(p, "models")
  /\ UNCHANGED <<steady, logVars, backend, verdict, exercised>>

\* An unknown version is not recent enough.
Version(p) ==
  /\ at[p] = "version"
  /\ \E evidence \in Evidence :
       \/ /\ Up
          /\ Observes(p, [seen[p] EXCEPT !.current = backend.build.current,
                                         !.wrong = evidence])
          /\ UNCHANGED steady
       \/ /\ Observes(p, [seen[p] EXCEPT !.wrong = evidence])
          /\ Fails(p)
  /\ Goto(p, "models")
  /\ UNCHANGED <<logVars, backend, verdict, exercised>>

\* The entry of the target overrides what the command line said of its field.
Models(p) ==
  /\ at[p] = "models"
  /\ \/ /\ Up
        /\ Observes(p, [seen[p] EXCEPT
             !.served = backend.build.target,
             !.wrong = IF backend.build.target
                       THEN (@ \ {"length"}) \cup (backend.build.wrong \cap {"length"})
                       ELSE @])
        /\ UNCHANGED steady
     \/ Fails(p) /\ UNCHANGED seen
  /\ Goto(p, "metrics")
  /\ UNCHANGED <<logVars, backend, verdict, exercised>>

\* The scrape of the metrics, and in the same step the snapshot and the verdict.
Metrics(p) ==
  /\ at[p] = "metrics"
  /\ \E result \in ScrapeResults :
       LET answered == result # "nothing" \/ (Up /\ ~backend.build.mtp)
           mtp      == ParseMtpMetrics(result, backend.counter).state
           state    == ReadinessState(seen[p], mtp, Drafting, counted, lastDelta)
       IN  /\ result # "nothing" => Up /\ backend.build.mtp
           /\ verdict' = [state |-> state, mtp |-> mtp, steady |-> steady[p] /\ answered]
  /\ Ends(p)
  /\ exercised' = (exercised \/ counted > 0)
  /\ steady' = [steady EXCEPT ![p] = FALSE]
  /\ UNCHANGED <<logVars, backend>>

\* An answer whose body is not JSON raises what nothing on the way catches: the probe
\* ends in a 500, without a verdict.
Raises(p) ==
  /\ at[p] \in {"health", "version", "models"}
  /\ backend.phase # "down"
  /\ Ends(p)
  /\ Fails(p)
  /\ UNCHANGED <<logVars, backend, verdict, exercised>>

Probe(p) == Health(p) \/ Version(p) \/ Models(p) \/ Metrics(p) \/ Raises(p)

-----------------------------------------------------------------------------
(* The backend, and the generations.                                       *)

\* No probe sees the same backend before and after.
Disturbed == steady' = [p \in Probes |-> FALSE]

BackendIsUp ==
  /\ backend.phase = "loading"
  /\ backend' = [backend EXCEPT !.phase = "up"]
  /\ UNCHANGED <<logVars, at, seen, verdict, steady, exercised>>

BackendStops ==
  /\ backend.phase # "down"
  /\ backend' = [backend EXCEPT !.phase = "down"]
  /\ Disturbed
  /\ UNCHANGED <<logVars, at, seen, verdict, exercised>>

BackendStarts ==
  /\ backend.phase = "down"
  /\ backend.life < MaxLives
  /\ \E build \in Builds :
       backend' = [life |-> backend.life + 1, phase |-> "loading", build |-> build,
                   counter |-> 0]
  /\ UNCHANGED <<logVars, at, seen, verdict, steady, exercised>>

BackendDrafts ==
  /\ Up /\ backend.build.mtp
  /\ drafts < MaxDrafts
  /\ DraftOne
  /\ backend' = [backend EXCEPT !.counter = @ + 1]
  /\ UNCHANGED <<at, seen, verdict, steady, exercised>>

Generation ==
  /\ \/ counted < MaxGenerations /\ CountOne
     \/ \E d \in Deltas : RecordOne(d)
     \/ GiveUpOne
  /\ UNCHANGED healthVars

-----------------------------------------------------------------------------

HealthNext ==
  \/ \E p \in Probes : Start(p) \/ Probe(p)
  \/ BackendIsUp \/ BackendStops \/ BackendStarts \/ BackendDrafts
  \/ Generation

HealthSpec == HealthInit /\ [][HealthNext]_allVars

\* asyncio.wait_for ends every question after half a second.
HealthFairSpec == HealthSpec /\ \A p \in Probes : WF_allVars(Probe(p))

-----------------------------------------------------------------------------
(* Properties.                                                             *)

\* Every variable has its type.
HealthTypeOK ==
  /\ counted \in Nat /\ pending \in Nat /\ drafts \in Nat
  /\ lastDelta \in Deltas \cup {"none"}
  /\ backend \in [life : Nat, phase : {"down", "loading", "up"}, build : Builds,
                  counter : Nat]
  /\ at \in [Probes -> Steps]
  /\ seen \in [Probes -> [health : HealthAnswers, current : BOOLEAN, served : BOOLEAN,
                          wrong : SUBSET Fields]]
  /\ verdict \in [state : Verdicts \cup {"none"}, mtp : MtpStates, steady : BOOLEAN]
  /\ steady \in [Probes -> BOOLEAN]
  /\ exercised \in BOOLEAN

Verdict(p) == at[p] = "metrics" /\ at'[p] = "idle"

\* A verdict that lets traffic in is true of the backend: if one backend was up for
\* the whole probe and answered it, then "ready" and "warming" mean that this backend
\* has the version, serves the target and shows no wrong length.
ReadyIsTrue ==
  [][\A p \in Probes :
       Verdict(p) /\ verdict'.steady /\ verdict'.state \in {"ready", "warming"} =>
         /\ backend.build.current /\ backend.build.target
         /\ "length" \notin backend.build.wrong]_allVars

\* No false alarm: a probe answered by one good backend that was up for all of it is
\* never "degraded" or worse, however the backend it replaced was judged before, unless
\* the last delta of a generation is missing or shows no drafting.
NoFalseAlarm ==
  [][\A p \in Probes :
       /\ Verdict(p) /\ verdict'.steady
       /\ backend.build.current /\ backend.build.target /\ backend.build.wrong = {}
       /\ counted = 0 \/ lastDelta = "active"
       => verdict'.state \in {"ready", "warming"}]_allVars

\* Warming is over for good once a verdict was given after a generation, for every
\* probe and across restarts of the backend.
WarmingNeverReturns ==
  [][\A p \in Probes : Verdict(p) /\ verdict'.state = "warming" => ~exercised]_allVars

\* Every probe ends, whatever the backend does.
ProbesEnd == \A p \in Probes : at[p] # "idle" ~> at[p] = "idle"

\* "Post-generation idle MTP metrics degrade with an explicit warning" (p0-004): no
\* verdict after a generation is "ready" while one backend answered the whole probe
\* and the counters it showed are zero.
IdleMetricsDegrade ==
  [][\A p \in Probes :
       /\ Verdict(p) /\ verdict'.steady
       /\ Drafting /\ counted > 0 /\ verdict'.mtp = "registered_but_idle"
       => verdict'.state # "ready"]_allVars
=============================================================================
