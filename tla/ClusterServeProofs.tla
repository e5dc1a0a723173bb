------------------------- MODULE ClusterServeProofs -------------------------
(***************************************************************************)
(* Proofs about ClusterServe, for any number of nodes and any deadline.    *)
(*                                                                         *)
(* The properties speak of the end of a run; ClusterInv says what each     *)
(* phase has achieved on the way there.  Its heart is the rollback: at     *)
(* command number "at" the last at - 1 nodes were stopped, and as long as  *)
(* none of these stops failed, Ray runs on a stopped node only if a start  *)
(* took effect after the run had given it up.                              *)
(***************************************************************************)
EXTENDS ClusterServe, TLAPS

\* A part of the run failed, according to report r.
Blamed(r) ==
  \/ r.launch = "failed"
  \/ "timeout" \in {r.ready, r.queue}
  \/ r.continuity = "blocked"

\* The phases before anything has failed for good.
Going == {"preflight", "launch", "ready", "smoke", "queue", "continuity"}

PreflightInv ==
  /\ phase = "preflight" =>
       /\ issued = {}
       /\ at \in Nodes
       /\ report.preflight = "pass" => fit = 1..(at - 1)
  /\ flags["preflight"] /\ phase \in Going \ {"preflight"} => fit = Nodes
  /\ PreflightComesFirst

RollbackInv ==
  /\ phase \in Going => stopped = {} /\ report.rollback = "not_checked"
  /\ phase = "rollback" =>
       /\ flags["rollback_on_failure"] /\ Blamed(report)
       /\ at \in Nodes
       /\ stopped = (N + 2 - at)..N
       /\ report.rollback \in {"pass", "failed"}
       /\ report.rollback = "pass" => ray \cap stopped \subseteq outlived
  /\ phase = "over" /\ report.rollback \in {"pass", "failed"} => stopped = Nodes
  /\ phase = "over" /\ report.rollback = "pass" => ray \subseteq outlived
  /\ stopped # {} => flags["rollback_on_failure"] /\ Blamed(report)

ClusterInv == ClusterTypeOK /\ PreflightInv /\ RollbackInv

LEMMA Numbers ==
  /\ N \in Nat /\ N > 1 /\ MaxPolls \in Nat
  /\ Nodes = 1..N /\ Commands = 1..(N + 1) /\ Serve = N + 1 /\ Nodes \subseteq Commands
  /\ 1 \in Nodes
BY NodeAssumption, PollAssumption DEF Nodes, Commands, Serve

\* Two fields of a report at once, as every end of a run writes them.
LEMMA Closing ==
  ASSUME NEW r \in Reports, NEW s \in Statuses, NEW e \in {"none", "zero", "one"}
  PROVE  /\ [r EXCEPT !.rollback = s, !.exit = e] \in Reports
         /\ [r EXCEPT !.rollback = s, !.exit = e].rollback = s
         /\ [r EXCEPT !.rollback = s, !.exit = e].preflight = r.preflight
<1> DEFINE y == [r EXCEPT !.rollback = s]
<1>1. y \in Reports /\ y.rollback = s /\ y.preflight = r.preflight
  BY DEF Reports
<1>2. [r EXCEPT !.rollback = s, !.exit = e] = [y EXCEPT !.exit = e]
  OBVIOUS
<1> HIDE DEF y
<1>3. /\ [y EXCEPT !.exit = e] \in Reports /\ [y EXCEPT !.exit = e].rollback = s
      /\ [y EXCEPT !.exit = e].preflight = r.preflight
  BY <1>1 DEF Reports
<1> QED BY <1>2, <1>3

LEMMA InitCluster == ClusterInit => ClusterInv
<1> SUFFICES ASSUME ClusterInit PROVE ClusterInv
  OBVIOUS
<1>1. /\ FirstReport \in Reports /\ report \in Reports
      /\ report.rollback = "not_checked"
  BY DEF ClusterInit, FirstReport, Reports, Statuses
<1>2. ClusterTypeOK
  <2>1. phase \in Phases
    BY DEF ClusterInit, Phases
  <2>2. /\ at \in Commands /\ polls \in 0..MaxPolls
    BY Numbers DEF ClusterInit
  <2>3. /\ flags \in [FlagNames -> BOOLEAN] /\ ray \subseteq Nodes
        /\ vllm \in {"none", "waiting", "loading", "serving", "dead"}
        /\ port \in {"nobody", "own", "other"} /\ busy \in BOOLEAN
    BY DEF ClusterInit
  <2>4. /\ issued \subseteq Commands /\ inFlight \subseteq issued /\ outlived \subseteq issued
        /\ stopped \subseteq Nodes /\ fit \subseteq Nodes
    BY DEF ClusterInit
  <2> QED BY <1>1, <2>1, <2>2, <2>3, <2>4 DEF ClusterTypeOK
<1>3. PreflightInv
  BY Numbers DEF ClusterInit, PreflightInv, PreflightComesFirst, Going
<1>4. RollbackInv
  BY <1>1 DEF ClusterInit, RollbackInv, Going
<1> QED BY <1>2, <1>3, <1>4 DEF ClusterInv

-----------------------------------------------------------------------------
(* The pieces the steps of the run share.                                  *)

\* Going on to a gate, or to the end without rollback.
LEMMA EnterGateResult ==
  ASSUME NEW i \in 1..4, NEW r \in Reports, EnterGate(i, r)
  PROVE  /\ report' \in Reports
         /\ report'.preflight = r.preflight
         /\ \/ phase' = "over" /\ report'.rollback = "skipped"
            \/ phase' \in {"ready", "queue", "continuity"} /\ report' = r
<1>1. CASE phase' = "over" /\ report' = [r EXCEPT !.rollback = "skipped", !.exit = "zero"]
  BY <1>1, Closing DEF Statuses
<1>2. CASE \E j \in i..3 : phase' = Gates[j] /\ report' = r
  BY <1>2 DEF Gates
<1> QED BY <1>1, <1>2 DEF EnterGate

\* The run was going, and goes on.
LEMMA GoesOn ==
  ASSUME ClusterInv, phase \in Going \ {"preflight"},
         phase' \in Going \ {"preflight"} \/ (phase' = "over" /\ report'.rollback = "skipped"),
         phase' \in Going => report' = report \/ report'.rollback = report.rollback,
         flags' = flags, stopped' = stopped, fit' = fit
  PROVE  PreflightInv' /\ RollbackInv'
<1>1. PreflightInv'
  BY DEF ClusterInv, PreflightInv, PreflightComesFirst, Going
<1>2. RollbackInv'
  BY DEF ClusterInv, RollbackInv, Going
<1> QED BY <1>1, <1>2

\* The run was going, and a part of it failed.
LEMMA Fails ==
  ASSUME ClusterInv, phase \in Going \ {"preflight"},
         NEW r \in Reports, Blamed(r), Fail(r),
         flags' = flags, stopped' = stopped, fit' = fit
  PROVE  /\ phase' \in {"rollback", "over"}
         /\ report' \in Reports
         /\ at' = 1
         /\ PreflightInv' /\ RollbackInv'
<1>1. flags["rollback_on_failure"] \in BOOLEAN
  BY DEF ClusterInv, ClusterTypeOK, FlagNames
<1>2. stopped = {}
  BY DEF ClusterInv, RollbackInv
<1>3. CASE flags["rollback_on_failure"]
  <2>1. phase' = "rollback" /\ report' = [r EXCEPT !.rollback = "pass"] /\ at' = 1
    BY <1>3 DEF Fail
  <2>2. report' \in Reports /\ report'.rollback = "pass" /\ Blamed(report')
    BY <2>1 DEF Reports, Statuses, Blamed
  <2>3. (N + 2 - 1)..N = {}
    BY Numbers
  <2>4. PreflightInv'
    BY <2>1 DEF ClusterInv, PreflightInv, PreflightComesFirst, Going
  <2>5. RollbackInv'
    BY <1>2, <1>3, <2>1, <2>2, <2>3, Numbers DEF RollbackInv, Going
  <2> QED BY <2>1, <2>2, <2>4, <2>5
<1>4. CASE ~flags["rollback_on_failure"]
  <2>1. /\ phase' = "over" /\ at' = 1
        /\ report' = [r EXCEPT !.rollback = "skipped", !.exit = "one"]
    BY <1>4 DEF Fail
  <2>2. report' \in Reports /\ report'.rollback = "skipped"
    BY <2>1, Closing DEF Statuses
  <2>3. PreflightInv'
    BY <2>1 DEF ClusterInv, PreflightInv, PreflightComesFirst, Going
  <2>4. RollbackInv'
    BY <1>2, <2>1, <2>2 DEF RollbackInv, Going
  <2> QED BY <2>1, <2>2, <2>3, <2>4
<1> QED BY <1>1, <1>3, <1>4

\* What a start does on its node keeps the types.
LEMMA EffectTypes ==
  ASSUME ClusterTypeOK, NEW c \in Commands, Effect(c)
  PROVE  /\ ray' \subseteq Nodes
         /\ ray' \subseteq ray \cup {c}
         /\ vllm' \in {"none", "waiting", "loading", "serving", "dead"}
BY Numbers DEF ClusterTypeOK, Effect

-----------------------------------------------------------------------------
(* Every step preserves the invariant.                                     *)

LEMMA ProbeHostInv == ClusterInv /\ ProbeHost => ClusterInv'
<1> SUFFICES ASSUME ClusterInv, ProbeHost PROVE ClusterInv'
  OBVIOUS
<1> PICK ok \in BOOLEAN :
      LET r == IF ok THEN report ELSE [report EXCEPT !.preflight = "blocked"]
      IN  /\ fit' = IF ok THEN fit \cup {at} ELSE fit
          /\ \/ at < N /\ at' = at + 1 /\ report' = r /\ UNCHANGED phase
             \/ /\ at = N /\ at' = 1
                /\ \/ r.preflight = "pass" /\ phase' = "launch" /\ report' = r
                   \/ /\ r.preflight = "blocked" /\ phase' = "over"
                      /\ report' = [r EXCEPT !.rollback = "skipped", !.exit = "one"]
  BY DEF ProbeHost
<1> DEFINE r == IF ok THEN report ELSE [report EXCEPT !.preflight = "blocked"]
<1>1. /\ phase = "preflight" /\ at \in Nodes /\ issued = {} /\ stopped = {}
      /\ report \in Reports /\ report.rollback = "not_checked" /\ fit \subseteq Nodes
      /\ report.preflight = "pass" => fit = 1..(at - 1)
  BY DEF ProbeHost, ClusterInv, ClusterTypeOK, PreflightInv, RollbackInv, Going
<1>2. /\ r \in Reports /\ r.rollback = "not_checked"
      /\ r.preflight = "pass" => ok /\ report.preflight = "pass"
  BY <1>1 DEF Reports, Statuses
<1>3. fit' \subseteq Nodes /\ (r.preflight = "pass" => fit' = 1..at)
  BY <1>1, <1>2, Numbers
<1>4. UNCHANGED <<flags, polls, nodeVars, issued, inFlight, outlived, stopped, proof>>
  BY DEF ProbeHost
<1> HIDE DEF r
<1>5. CASE at < N /\ at' = at + 1 /\ report' = r /\ phase' = phase
  <2>1. at' \in Nodes
    BY <1>1, <1>5, Numbers
  <2>2. ClusterTypeOK'
    BY <1>2, <1>3, <1>4, <1>5, <2>1, Numbers DEF ClusterInv, ClusterTypeOK, nodeVars
  <2>3. PreflightInv'
    BY <1>1, <1>3, <1>4, <1>5, <2>1, Numbers DEF PreflightInv, PreflightComesFirst, Going
  <2>4. RollbackInv'
    BY <1>1, <1>2, <1>4, <1>5 DEF RollbackInv, Going
  <2> QED BY <2>2, <2>3, <2>4 DEF ClusterInv
<1>6. CASE at = N /\ at' = 1 /\ r.preflight = "pass" /\ phase' = "launch" /\ report' = r
  <2>1. ClusterTypeOK'
    BY <1>2, <1>3, <1>4, <1>6, Numbers DEF ClusterInv, ClusterTypeOK, nodeVars, Phases
  <2>2. PreflightInv'
    BY <1>1, <1>3, <1>4, <1>6, Numbers DEF PreflightInv, PreflightComesFirst, Going
  <2>3. RollbackInv'
    BY <1>1, <1>2, <1>4, <1>6 DEF RollbackInv, Going
  <2> QED BY <2>1, <2>2, <2>3 DEF ClusterInv
<1>7. CASE /\ at = N /\ at' = 1 /\ phase' = "over"
           /\ report' = [r EXCEPT !.rollback = "skipped", !.exit = "one"]
  <2>1. report' \in Reports /\ report'.rollback = "skipped"
    BY <1>2, <1>7, Closing DEF Statuses
  <2>2. ClusterTypeOK'
    BY <1>3, <1>4, <1>7, <2>1, Numbers DEF ClusterInv, ClusterTypeOK, nodeVars, Phases
  <2>3. PreflightInv'
    BY <1>1, <1>4, <1>7 DEF PreflightInv, PreflightComesFirst, Going
  <2>4. RollbackInv'
    BY <1>1, <1>4, <1>7, <2>1 DEF RollbackInv, Going
  <2> QED BY <2>2, <2>3, <2>4 DEF ClusterInv
<1> QED BY <1>5, <1>6, <1>7 DEF r

LEMMA StartInv ==
  ASSUME ClusterInv, NEW c \in Commands, StartSucceeds(c) \/ StartFails(c)
  PROVE  ClusterInv'
<1>1. /\ report \in Reports /\ ClusterTypeOK /\ issued \subseteq Commands
      /\ inFlight \subseteq issued /\ outlived \subseteq issued
  BY DEF ClusterInv, ClusterTypeOK
<1>2. phase = "launch" /\ phase \in Going \ {"preflight"} /\ at = c
  BY DEF StartSucceeds, StartFails, Going
<1>3. /\ issued' = issued \cup {c}
      /\ UNCHANGED <<flags, polls, port, busy, outlived, stopped, fit>>
  BY DEF StartSucceeds, StartFails
<1>4. CASE StartSucceeds(c)
  <2>1. Effect(c) /\ inFlight' = inFlight
    BY <1>4 DEF StartSucceeds
  <2>2. CASE c < Serve /\ at' = c + 1 /\ UNCHANGED <<phase, report>>
    <3>1. at' \in Commands
      BY <2>2, Numbers
    <3>2. ClusterTypeOK'
      BY <1>1, <1>3, <2>1, <2>2, <3>1, EffectTypes DEF ClusterTypeOK
    <3>3. PreflightInv' /\ RollbackInv'
      BY <1>2, <1>3, <2>2, GoesOn
    <3> QED BY <3>2, <3>3 DEF ClusterInv
  <2>3. CASE EnterGate(1, [report EXCEPT !.launch = "pass"]) /\ UNCHANGED at
    <3> DEFINE r == [report EXCEPT !.launch = "pass"]
    <3>1. r \in Reports /\ r.rollback = report.rollback
      BY <1>1 DEF Reports, Statuses
    <3>2. EnterGate(1, r)
      BY <2>3
    <3> HIDE DEF r
    <3>3. /\ report' \in Reports
          /\ \/ phase' = "over" /\ report'.rollback = "skipped"
             \/ phase' \in {"ready", "queue", "continuity"} /\ report' = r
      BY <3>1, <3>2, EnterGateResult
    <3>4. ClusterTypeOK'
      BY <1>1, <1>3, <2>1, <2>3, <3>3, EffectTypes DEF ClusterTypeOK, Phases
    <3>5. PreflightInv' /\ RollbackInv'
      <4>1. /\ phase' \in Going \ {"preflight"} \/ (phase' = "over" /\ report'.rollback = "skipped")
            /\ phase' \in Going => report'.rollback = report.rollback
        BY <3>1, <3>3 DEF Going
      <4> QED BY <1>2, <1>3, <4>1, GoesOn
    <3> QED BY <3>4, <3>5 DEF ClusterInv
  <2> QED BY <1>4, <2>2, <2>3 DEF StartSucceeds
<1>5. CASE StartFails(c)
  <2> DEFINE r == [report EXCEPT !.launch = "failed"]
  <2>1. r \in Reports /\ Blamed(r)
    BY <1>1 DEF Reports, Statuses, Blamed
  <2>2. Fail(r)
    BY <1>5 DEF StartFails
  <2> HIDE DEF r
  <2>3. /\ phase' \in {"rollback", "over"} /\ report' \in Reports /\ at' = 1
        /\ PreflightInv' /\ RollbackInv'
    BY <1>2, <1>3, <2>1, <2>2, Fails
  <2>4. inFlight' \subseteq issued'
    BY <1>1, <1>3, <1>5 DEF StartFails
  <2>5. /\ ray' \subseteq Nodes
        /\ vllm' \in {"none", "waiting", "loading", "serving", "dead"}
    BY <1>1, <1>5, EffectTypes DEF StartFails, ClusterTypeOK
  <2>6. ClusterTypeOK'
    BY <1>1, <1>3, <2>3, <2>4, <2>5, Numbers DEF ClusterTypeOK, Phases
  <2> QED BY <2>3, <2>6 DEF ClusterInv
<1> QED BY <1>4, <1>5

\* A gate that passes, whatever it relied on.
LEMMA GatePassesInv ==
  ASSUME ClusterInv, NEW i \in 1..3, phase \in Going \ {"preflight"}, GatePasses(i),
         UNCHANGED <<flags, nodeVars, issued, inFlight, outlived, stopped, fit>>
  PROVE  ClusterInv'
<1> DEFINE r == [report EXCEPT ![Gates[i]] = "pass"]
<1>1. report \in Reports
  BY DEF ClusterInv, ClusterTypeOK
<1>2. Gates[i] \in {"ready", "queue", "continuity"}
  BY DEF Gates
<1>3. r \in Reports /\ r.rollback = report.rollback
  <2>1. CASE Gates[i] = "ready"
    BY <1>1, <2>1 DEF Reports, Statuses
  <2>2. CASE Gates[i] = "queue"
    BY <1>1, <2>2 DEF Reports, Statuses
  <2>3. CASE Gates[i] = "continuity"
    BY <1>1, <2>3 DEF Reports, Statuses
  <2> QED BY <1>2, <2>1, <2>2, <2>3
<1>4. EnterGate(i + 1, r) /\ polls' = 0 /\ at' = at /\ i + 1 \in 1..4
  BY DEF GatePasses
<1> HIDE DEF r
<1>5. /\ report' \in Reports
      /\ \/ phase' = "over" /\ report'.rollback = "skipped"
         \/ phase' \in {"ready", "queue", "continuity"} /\ report' = r
  BY <1>3, <1>4, EnterGateResult
<1>6. ClusterTypeOK'
  BY <1>4, <1>5, Numbers DEF ClusterInv, ClusterTypeOK, nodeVars, Phases
<1>7. /\ phase' \in Going \ {"preflight"} \/ (phase' = "over" /\ report'.rollback = "skipped")
      /\ phase' \in Going => report'.rollback = report.rollback
  BY <1>3, <1>5 DEF Going
<1>8. PreflightInv' /\ RollbackInv'
  BY <1>7, GoesOn
<1> QED BY <1>6, <1>8 DEF ClusterInv

\* A gate that fails for good.
LEMMA GateFailsInv ==
  ASSUME ClusterInv, phase \in {"ready", "queue", "continuity"}, NEW how \in Statuses,
         how = (IF phase = "continuity" THEN "blocked" ELSE "timeout"), GateFails(phase, how),
         UNCHANGED <<flags, nodeVars, issued, inFlight, outlived, stopped, fit>>
  PROVE  ClusterInv'
<1> DEFINE r == [report EXCEPT ![phase] = how]
<1>1. report \in Reports /\ phase \in Going \ {"preflight"}
  BY DEF ClusterInv, ClusterTypeOK, Going
<1>2. r \in Reports /\ Blamed(r)
  <2>1. CASE phase = "ready"
    BY <1>1, <2>1 DEF Reports, Statuses, Blamed
  <2>2. CASE phase = "queue"
    BY <1>1, <2>2 DEF Reports, Statuses, Blamed
  <2>3. CASE phase = "continuity"
    BY <1>1, <2>3 DEF Reports, Statuses, Blamed
  <2> QED BY <2>1, <2>2, <2>3
<1>3. Fail(r) /\ polls' = 0
  BY DEF GateFails
<1> HIDE DEF r
<1>4. /\ phase' \in {"rollback", "over"} /\ report' \in Reports /\ at' = 1
      /\ PreflightInv' /\ RollbackInv'
  BY <1>1, <1>2, <1>3, Fails
<1>5. ClusterTypeOK'
  BY <1>3, <1>4, Numbers DEF ClusterInv, ClusterTypeOK, nodeVars, Phases
<1> QED BY <1>4, <1>5 DEF ClusterInv

\* Another poll of a gate, or the way from one question of it to the next.
LEMMA PollInv ==
  ASSUME ClusterInv, phase \in Going \ {"preflight"}, phase' \in Going \ {"preflight"},
         polls' \in 0..MaxPolls,
         UNCHANGED <<flags, at, report, nodeVars, issued, inFlight, outlived, stopped, fit>>
  PROVE  ClusterInv'
<1>1. ClusterTypeOK'
  BY DEF ClusterInv, ClusterTypeOK, nodeVars, Phases, Going
<1>2. PreflightInv' /\ RollbackInv'
  BY GoesOn
<1> QED BY <1>1, <1>2 DEF ClusterInv

LEMMA GatesInv ==
  ASSUME ClusterInv, GateTimesOut \/ ListModels \/ Smoke \/ PollQueue \/ CheckContinuity
  PROVE  ClusterInv'
<1>1. polls \in 0..MaxPolls /\ (polls < MaxPolls => polls + 1 \in 0..MaxPolls)
  BY Numbers DEF ClusterInv, ClusterTypeOK
<1>2. 1 \in 1..3 /\ 2 \in 1..3 /\ 3 \in 1..3
  OBVIOUS
<1>3. CASE GateTimesOut
  <2>1. "timeout" \in Statuses
    BY DEF Statuses
  <2> QED BY <1>3, <2>1, GateFailsInv DEF GateTimesOut, pastVars
<1>4. CASE ListModels
  <2>1. /\ phase \in Going \ {"preflight"}
        /\ UNCHANGED <<flags, nodeVars, issued, inFlight, outlived, stopped, fit>>
    BY <1>4 DEF ListModels, Going
  <2>2. \/ GatePasses(1)
        \/ /\ phase' \in Going \ {"preflight"} /\ polls' \in 0..MaxPolls
           /\ UNCHANGED <<at, report>>
    BY <1>1, <1>4 DEF ListModels, Going
  <2> QED BY <1>2, <2>1, <2>2, GatePassesInv, PollInv
<1>5. CASE Smoke
  <2>1. /\ phase \in Going \ {"preflight"}
        /\ UNCHANGED <<flags, nodeVars, issued, inFlight, outlived, stopped, fit>>
    BY <1>5 DEF Smoke, Going
  <2>2. \/ GatePasses(1)
        \/ /\ phase' \in Going \ {"preflight"} /\ polls' \in 0..MaxPolls
           /\ UNCHANGED <<at, report>>
    BY <1>1, <1>5 DEF Smoke, Going
  <2> QED BY <1>2, <2>1, <2>2, GatePassesInv, PollInv
<1>6. CASE PollQueue
  <2>1. /\ phase \in Going \ {"preflight"}
        /\ UNCHANGED <<flags, nodeVars, issued, inFlight, outlived, stopped, fit>>
    BY <1>6 DEF PollQueue, Going
  <2>2. \/ GatePasses(2)
        \/ /\ phase' \in Going \ {"preflight"} /\ polls' \in 0..MaxPolls
           /\ UNCHANGED <<at, report>>
    BY <1>1, <1>6 DEF PollQueue, Going
  <2> QED BY <1>2, <2>1, <2>2, GatePassesInv, PollInv
<1>7. CASE CheckContinuity
  <2>1. /\ phase = "continuity" /\ phase \in Going \ {"preflight"} /\ "blocked" \in Statuses
        /\ UNCHANGED <<flags, nodeVars, issued, inFlight, outlived, stopped, fit>>
    BY <1>7 DEF CheckContinuity, Going, Statuses
  <2>2. GatePasses(3) \/ GateFails("continuity", "blocked")
    BY <1>7 DEF CheckContinuity
  <2> QED BY <1>2, <2>1, <2>2, GatePassesInv, GateFailsInv
<1> QED BY <1>3, <1>4, <1>5, <1>6, <1>7

LEMMA StopRayInv == ClusterInv /\ StopRay => ClusterInv'
<1> SUFFICES ASSUME ClusterInv, StopRay PROVE ClusterInv'
  OBVIOUS
<1> DEFINE node == N + 1 - at
<1>1. /\ phase = "rollback" /\ at \in Nodes /\ at \in 1..N /\ report \in Reports
      /\ flags["rollback_on_failure"] /\ Blamed(report)
      /\ stopped = (N + 2 - at)..N
      /\ report.rollback \in {"pass", "failed"}
      /\ report.rollback = "pass" => ray \cap stopped \subseteq outlived
  BY Numbers DEF StopRay, ClusterInv, ClusterTypeOK, RollbackInv
<1>2. node \in Nodes /\ stopped' = stopped \cup {node}
  BY <1>1, Numbers DEF StopRay
<1>3. stopped' = (N + 1 - at)..N
  BY <1>1, <1>2, Numbers
<1>4. UNCHANGED <<flags, polls, vllm, port, busy, issued, inFlight, outlived, fit>>
  BY DEF StopRay
<1> PICK ok \in BOOLEAN :
      LET r == IF ok THEN report ELSE [report EXCEPT !.rollback = "failed"]
      IN  /\ ray' = ray \ {node} \/ (~ok /\ ray' = ray)
          /\ \/ at < N /\ at' = at + 1 /\ report' = r /\ UNCHANGED phase
             \/ at = N /\ phase' = "over" /\ report' = [r EXCEPT !.exit = "one"] /\ UNCHANGED at
  BY DEF StopRay
<1> DEFINE r == IF ok THEN report ELSE [report EXCEPT !.rollback = "failed"]
<1>5. /\ r \in Reports /\ Blamed(r) /\ r.rollback \in {"pass", "failed"}
      /\ r.rollback = "pass" => ok /\ report.rollback = "pass"
  BY <1>1 DEF Reports, Statuses, Blamed
<1>6. r.rollback = "pass" => ray' \cap stopped' \subseteq outlived
  BY <1>1, <1>2, <1>5
<1>7. ray' \subseteq ray
  OBVIOUS
<1> HIDE DEF r
<1>8. CASE at < N /\ at' = at + 1 /\ report' = r /\ phase' = phase
  <2>1. at' \in Nodes /\ stopped' = (N + 2 - at')..N
    BY <1>1, <1>3, <1>8, Numbers
  <2>2. ClusterTypeOK'
    BY <1>2, <1>4, <1>5, <1>7, <1>8, <2>1, Numbers DEF ClusterInv, ClusterTypeOK
  <2>3. PreflightInv'
    BY <1>1, <1>4, <1>8 DEF ClusterInv, PreflightInv, PreflightComesFirst, Going
  <2>4. RollbackInv'
    BY <1>1, <1>4, <1>5, <1>6, <1>8, <2>1 DEF RollbackInv, Going
  <2> QED BY <2>2, <2>3, <2>4 DEF ClusterInv
<1>9. CASE at = N /\ phase' = "over" /\ report' = [r EXCEPT !.exit = "one"] /\ at' = at
  <2>1. report' \in Reports /\ report'.rollback = r.rollback /\ Blamed(report')
    BY <1>5, <1>9 DEF Reports, Blamed
  <2>2. stopped' = Nodes
    BY <1>3, <1>9, Numbers
  <2>3. ClusterTypeOK'
    BY <1>4, <1>7, <1>9, <2>1, <2>2 DEF ClusterInv, ClusterTypeOK, Phases
  <2>4. PreflightInv'
    BY <1>1, <1>4, <1>9 DEF ClusterInv, PreflightInv, PreflightComesFirst, Going
  <2>5. r.rollback = "pass" => ray' \subseteq outlived'
    BY <1>4, <1>6, <2>2, <2>3 DEF ClusterTypeOK
  <2>6. RollbackInv'
    BY <1>1, <1>4, <1>9, <2>1, <2>2, <2>5 DEF RollbackInv, Going
  <2> QED BY <2>3, <2>4, <2>6 DEF ClusterInv
<1> QED BY <1>8, <1>9 DEF r

LEMMA AbortInv == ClusterInv /\ Abort => ClusterInv'
<1> SUFFICES ASSUME ClusterInv, Abort PROVE ClusterInv'
  OBVIOUS
<1>1. phase' = "aborted" /\ UNCHANGED <<flags, at, polls, report, nodeVars, pastVars>>
  BY DEF Abort
<1>2. ClusterTypeOK'
  BY <1>1 DEF ClusterInv, ClusterTypeOK, nodeVars, pastVars, Phases
<1>3. PreflightInv'
  BY <1>1 DEF ClusterInv, PreflightInv, PreflightComesFirst, pastVars, Going
<1>4. RollbackInv'
  BY <1>1 DEF ClusterInv, RollbackInv, pastVars, nodeVars, Going
<1> QED BY <1>2, <1>3, <1>4 DEF ClusterInv

\* Nothing a node does changes what the run has done or knows; Ray appears on a node
\* only by a start that was given up.
LEMMA NodeInv == ClusterInv /\ NodeStep => ClusterInv'
<1> SUFFICES ASSUME ClusterInv, NodeStep PROVE ClusterInv'
  OBVIOUS
<1>1. ClusterTypeOK
  BY DEF ClusterInv
<1>2. UNCHANGED <<runVars, issued, stopped, fit>>
  BY DEF NodeStep, LateStart, VllmLoads, VllmServes, VllmDies, LoadChanges, RayDies, pastVars
<1>3. /\ inFlight' \subseteq issued' /\ outlived' \subseteq issued' /\ outlived \subseteq outlived'
      /\ ray' \subseteq ray \cup outlived' /\ ray' \subseteq Nodes
      /\ vllm' \in {"none", "waiting", "loading", "serving", "dead"}
      /\ port' \in {"nobody", "own", "other"} /\ busy' \in BOOLEAN
  <2>1. ASSUME NEW c \in Commands, LateStart(c)
        PROVE  <1>3!:
    <3>1. /\ Effect(c) /\ inFlight' = inFlight \ {c} /\ outlived' = outlived \cup {c}
          /\ c \in inFlight /\ issued' = issued /\ port' = port /\ busy' = busy
      BY <2>1 DEF LateStart
    <3> QED BY <1>1, <3>1, EffectTypes DEF ClusterTypeOK
  <2>2. ASSUME NEW n \in Nodes, RayDies(n)
        PROVE  <1>3!:
    BY <1>1, <2>2 DEF RayDies, ClusterTypeOK, pastVars
  <2>3. CASE VllmLoads \/ VllmServes \/ VllmDies \/ LoadChanges
    BY <1>1, <2>3 DEF VllmLoads, VllmServes, VllmDies, LoadChanges, ClusterTypeOK, pastVars
  <2> QED BY <2>1, <2>2, <2>3 DEF NodeStep
<1>4. ClusterTypeOK'
  BY <1>1, <1>2, <1>3 DEF ClusterTypeOK, runVars
<1>5. PreflightInv'
  BY <1>2 DEF ClusterInv, PreflightInv, PreflightComesFirst, runVars
<1>6. RollbackInv'
  BY <1>2, <1>3 DEF ClusterInv, RollbackInv, runVars
<1> QED BY <1>4, <1>5, <1>6 DEF ClusterInv

LEMMA NextCluster == ClusterInv /\ [ClusterNext]_clusterVars => ClusterInv'
<1> SUFFICES ASSUME ClusterInv, [ClusterNext]_clusterVars PROVE ClusterInv'
  OBVIOUS
<1>1. CASE RunStep
  BY <1>1, ProbeHostInv, StartInv, GatesInv, StopRayInv DEF RunStep
<1>2. CASE Abort
  BY <1>2, AbortInv
<1>3. CASE NodeStep
  BY <1>3, NodeInv
<1>4. CASE UNCHANGED clusterVars
  <2>1. ClusterTypeOK'
    BY <1>4 DEF ClusterInv, ClusterTypeOK, clusterVars
  <2>2. PreflightInv' /\ RollbackInv'
    BY <1>4 DEF ClusterInv, PreflightInv, PreflightComesFirst, RollbackInv, clusterVars
  <2> QED BY <2>1, <2>2 DEF ClusterInv
<1> QED BY <1>1, <1>2, <1>3, <1>4 DEF ClusterNext

THEOREM ClusterInvariant == ClusterSpec => []ClusterInv
BY InitCluster, NextCluster, PTL DEF ClusterSpec

\* Every variable of the run and of the nodes keeps its type.
THEOREM ClusterTypeCorrect == ClusterSpec => []ClusterTypeOK
<1>1. ClusterInv => ClusterTypeOK
  BY DEF ClusterInv
<1> QED BY <1>1, ClusterInvariant, PTL

\* With preflight on, no start is sent before the probe of every host has passed.
THEOREM PreflightFirst == ClusterSpec => []PreflightComesFirst
<1>1. ClusterInv => PreflightComesFirst
  BY DEF ClusterInv, PreflightInv
<1> QED BY <1>1, ClusterInvariant, PTL

\* Ray is stopped only when that was asked for and a start or a gate failed.
THEOREM RayStopsOnlyOnFailure == ClusterSpec => []StopsOnlyOnFailure
<1>1. ClusterInv => StopsOnlyOnFailure
  BY DEF ClusterInv, RollbackInv, Blamed, StopsOnlyOnFailure
<1> QED BY <1>1, ClusterInvariant, PTL

\* A rollback that is over has reached every node that was sent a start.
THEOREM RollbackReachesEveryStart == ClusterSpec => []RollbackMeetsEveryStart
<1>1. ClusterInv => RollbackMeetsEveryStart
  <2> SUFFICES ASSUME ClusterInv, phase = "over", report.rollback \in {"pass", "failed"}
               PROVE  issued \ {Serve} \subseteq stopped
    BY DEF RollbackMeetsEveryStart
  <2>1. stopped = Nodes /\ issued \subseteq Commands
    BY DEF ClusterInv, ClusterTypeOK, RollbackInv
  <2> QED BY <2>1, Numbers
<1> QED BY <1>1, ClusterInvariant, PTL

\* A rollback that reports success has left Ray on no node, late starts excepted.
THEOREM RollbackIsThorough == ClusterSpec => []PassedRollbackLeavesNoRay
<1>1. ClusterInv => PassedRollbackLeavesNoRay
  BY DEF ClusterInv, RollbackInv, PassedRollbackLeavesNoRay
<1> QED BY <1>1, ClusterInvariant, PTL

-----------------------------------------------------------------------------
(* Exit code 0.  SuccessInv adds what the run has earned when it stands at *)
(* a gate: all starts returned 0, and every gate before this one that is   *)
(* on has passed.                                                          *)

Earned(i) == \E who \in {"own", "other", "nodes"} : <<Gates[i], who>> \in proof

EarnedBefore(i) == \A k \in 1..3 : k < i /\ GateOn(Gates[k]) => Earned(k)

OwnServer == port # "other" => \A g \in {"ready", "queue"} : <<g, "other">> \notin proof

SuccessInv ==
  /\ phase \in Going => inFlight = {} /\ report.exit = "none"
  /\ phase = "preflight" => issued = {}
  /\ phase = "launch" => issued = 1..(at - 1)
  /\ phase \in {"ready", "smoke", "queue", "continuity"} => issued = Commands
  /\ phase = "queue" => EarnedBefore(2)
  /\ phase = "continuity" => EarnedBefore(3)
  /\ OwnServer
  /\ report.exit = "zero" =>
       phase = "over" /\ issued = Commands /\ inFlight = {} /\ stopped = {} /\ EarnedBefore(4)

LEMMA InitSuccess == ClusterInit => SuccessInv
<1> SUFFICES ASSUME ClusterInit PROVE SuccessInv
  OBVIOUS
<1>1. report.exit = "none" /\ phase \in {"preflight", "launch"} /\ proof = {} /\ at = 1
  BY DEF ClusterInit, FirstReport
<1>2. issued = {} /\ inFlight = {}
  BY DEF ClusterInit
<1> QED BY <1>1, <1>2, Numbers DEF SuccessInv, OwnServer

\* The run goes on to a gate, or ends well, with everything before it earned.
LEMMA EnterGateEarns ==
  ASSUME NEW i \in 1..4, NEW r \in Reports, r.exit = "none", EnterGate(i, r),
         flags' = flags, EarnedBefore(i)'
  PROVE  \/ phase' = "over" /\ EarnedBefore(4)'
         \/ /\ phase' \in {"ready", "queue", "continuity"} /\ report'.exit = "none"
            /\ phase' = "queue" => EarnedBefore(2)'
            /\ phase' = "continuity" => EarnedBefore(3)'
<1>1. \A k \in 1..3 : GateOn(Gates[k])' <=> GateOn(Gates[k])
  BY DEF GateOn
<1>2. CASE {j \in i..3 : GateOn(Gates[j])} = {} /\ phase' = "over"
  <2>1. \A k \in 1..3 : k < i \/ ~GateOn(Gates[k])
    BY <1>2
  <2> QED BY <1>1, <1>2, <2>1 DEF EarnedBefore
<1>3. CASE /\ \E j \in {j \in i..3 : GateOn(Gates[j])} :
                 /\ \A k \in {m \in i..3 : GateOn(Gates[m])} : j <= k
                 /\ phase' = Gates[j]
           /\ report' = r
  <2>1. PICK j \in i..3 : /\ \A k \in i..3 : GateOn(Gates[k]) => j <= k
                          /\ phase' = Gates[j]
    BY <1>3
  <2>2. EarnedBefore(j)'
    <3> SUFFICES ASSUME NEW k \in 1..3, k < j, GateOn(Gates[k])'
                 PROVE  Earned(k)'
      BY DEF EarnedBefore
    <3>1. k < i
      BY <1>1, <2>1
    <3> QED BY <3>1 DEF EarnedBefore
  <2>3. \/ j = 1 /\ phase' = "ready"
        \/ j = 2 /\ phase' = "queue"
        \/ j = 3 /\ phase' = "continuity"
    BY <2>1 DEF Gates
  <2> QED BY <1>3, <2>2, <2>3
<1> QED BY <1>2, <1>3 DEF EnterGate

\* A step that ends the run in another way than with 0.
LEMMA NoSuccess ==
  ASSUME SuccessInv, phase' \notin Going, report'.exit # "zero", port' = port, proof' = proof
  PROVE  SuccessInv'
BY DEF SuccessInv, OwnServer, Going

LEMMA FailNoSuccess ==
  ASSUME NEW r \in Reports, r.exit = "none", Fail(r)
  PROVE  phase' \notin Going /\ report'.exit # "zero"
<1>1. CASE phase' = "rollback" /\ report' = [r EXCEPT !.rollback = "pass"]
  BY <1>1 DEF Reports, Going
<1>2. CASE phase' = "over" /\ report' = [r EXCEPT !.rollback = "skipped", !.exit = "one"]
  <2> DEFINE y == [r EXCEPT !.rollback = "skipped"]
  <2>1. y \in Reports /\ report' = [y EXCEPT !.exit = "one"]
    BY <1>2 DEF Reports, Statuses
  <2> HIDE DEF y
  <2>2. report'.exit = "one"
    BY <2>1 DEF Reports
  <2> QED BY <1>2, <2>2 DEF Going
<1> QED BY <1>1, <1>2 DEF Fail

\* The run goes on to the gates, or ends with 0, in a step that keeps the port.
LEMMA EnterGateSuccess ==
  ASSUME ClusterInv, SuccessInv, phase \in Going, NEW i \in 1..4, NEW r \in Reports,
         r.exit = "none", EnterGate(i, r), EarnedBefore(i)', OwnServer',
         issued' = Commands, inFlight' = inFlight, flags' = flags, stopped' = stopped
  PROVE  SuccessInv'
<1>1. inFlight' = {} /\ stopped' = {}
  BY DEF SuccessInv, ClusterInv, RollbackInv
<1>2. \/ phase' = "over" /\ EarnedBefore(4)'
      \/ /\ phase' \in {"ready", "queue", "continuity"} /\ report'.exit = "none"
         /\ phase' = "queue" => EarnedBefore(2)'
         /\ phase' = "continuity" => EarnedBefore(3)'
  BY EnterGateEarns
<1> QED BY <1>1, <1>2 DEF SuccessInv, Going

LEMMA StartSuccess ==
  ASSUME ClusterInv, SuccessInv, NEW c \in Commands, StartSucceeds(c) \/ StartFails(c)
  PROVE  SuccessInv'
<1>1. /\ phase = "launch" /\ phase \in Going /\ at = c /\ issued' = issued \cup {c}
      /\ UNCHANGED <<flags, port, stopped, proof>>
  BY DEF StartSucceeds, StartFails, Going
<1>2. /\ report \in Reports /\ report.exit = "none" /\ inFlight = {} /\ OwnServer
      /\ issued = 1..(c - 1)
  BY <1>1 DEF ClusterInv, ClusterTypeOK, SuccessInv
<1>3. issued' = 1..c
  BY <1>1, <1>2, Numbers
<1>4. OwnServer'
  BY <1>1, <1>2 DEF OwnServer
<1>5. CASE StartSucceeds(c)
  <2>1. inFlight' = inFlight
    BY <1>5 DEF StartSucceeds
  <2>2. CASE c < Serve /\ at' = c + 1 /\ UNCHANGED <<phase, report>>
    BY <1>1, <1>2, <1>3, <1>4, <2>1, <2>2, Numbers DEF SuccessInv
  <2>3. CASE c = Serve /\ EnterGate(1, [report EXCEPT !.launch = "pass"])
    <3> DEFINE r == [report EXCEPT !.launch = "pass"]
    <3>1. r \in Reports /\ r.exit = "none"
      BY <1>2 DEF Reports, Statuses
    <3>2. EnterGate(1, r)
      BY <2>3
    <3> HIDE DEF r
    <3>3. EarnedBefore(1)'
      BY DEF EarnedBefore
    <3>4. issued' = Commands
      BY <1>3, <2>3, Numbers
    <3> QED BY <1>1, <1>4, <2>1, <3>1, <3>2, <3>3, <3>4, EnterGateSuccess
  <2>4. c = Serve \/ c < Serve
    BY Numbers
  <2> QED BY <1>5, <2>2, <2>3, <2>4 DEF StartSucceeds
<1>6. CASE StartFails(c)
  <2> DEFINE r == [report EXCEPT !.launch = "failed"]
  <2>1. r \in Reports /\ r.exit = "none"
    BY <1>2 DEF Reports, Statuses
  <2>2. Fail(r)
    BY <1>6 DEF StartFails
  <2> HIDE DEF r
  <2> QED BY <1>1, <2>1, <2>2, FailNoSuccess, NoSuccess
<1> QED BY <1>5, <1>6

LEMMA GatePassesSuccess ==
  ASSUME ClusterInv, SuccessInv, NEW i \in 1..3, GatePasses(i),
         phase = Gates[i] \/ (i = 1 /\ phase = "smoke"),
         i # 3 => Answers,
         UNCHANGED <<flags, nodeVars, issued, inFlight, outlived, stopped, fit>>
  PROVE  SuccessInv'
<1> DEFINE who == IF i = 3 THEN "nodes" ELSE port
           r   == [report EXCEPT ![Gates[i]] = "pass"]
<1>1. \/ i = 1 /\ Gates[i] = "ready"
      \/ i = 2 /\ Gates[i] = "queue"
      \/ i = 3 /\ Gates[i] = "continuity"
  BY DEF Gates
<1>2. phase \in Going /\ phase \in {"ready", "smoke", "queue", "continuity"}
  BY <1>1 DEF Going
<1>3. report \in Reports /\ report.exit = "none" /\ issued = Commands /\ OwnServer
  BY <1>2 DEF ClusterInv, ClusterTypeOK, SuccessInv
<1>4. r \in Reports /\ r.exit = "none"
  <2>1. CASE Gates[i] = "ready"
    BY <1>3, <2>1 DEF Reports, Statuses
  <2>2. CASE Gates[i] = "queue"
    BY <1>3, <2>2 DEF Reports, Statuses
  <2>3. CASE Gates[i] = "continuity"
    BY <1>3, <2>3 DEF Reports, Statuses
  <2> QED BY <1>1, <2>1, <2>2, <2>3
<1>5. who \in {"own", "other", "nodes"} /\ (who = "other" => port = "other")
  BY DEF Answers
<1>6. proof' = proof \cup {<<Gates[i], who>>} /\ EnterGate(i + 1, r)
  BY DEF GatePasses
<1> HIDE DEF who, r
<1>7. EarnedBefore(i)
  BY <1>1, <1>2 DEF SuccessInv, EarnedBefore
<1>8. EarnedBefore(i + 1)'
  <2> SUFFICES ASSUME NEW k \in 1..3, k < i + 1, GateOn(Gates[k])'
               PROVE  \E w \in {"own", "other", "nodes"} : <<Gates[k], w>> \in proof'
    BY DEF EarnedBefore, Earned
  <2>1. CASE k = i
    BY <1>5, <1>6, <2>1
  <2>2. CASE k < i
    <3>1. GateOn(Gates[k])
      BY DEF GateOn
    <3>2. Earned(k)
      BY <1>7, <2>2, <3>1 DEF EarnedBefore
    <3> QED BY <1>6, <3>2 DEF Earned
  <2> QED BY <2>1, <2>2
<1>9. OwnServer'
  <2>1. port' = port
    BY DEF nodeVars
  <2> QED BY <1>3, <1>5, <1>6, <2>1 DEF OwnServer
<1> QED BY <1>2, <1>3, <1>4, <1>6, <1>8, <1>9, EnterGateSuccess

LEMMA GatesSuccess ==
  ASSUME ClusterInv, SuccessInv,
         GateTimesOut \/ ListModels \/ Smoke \/ PollQueue \/ CheckContinuity
  PROVE  SuccessInv'
<1> DEFINE Still == UNCHANGED <<flags, nodeVars, issued, inFlight, outlived, stopped, fit>>
           Poll  == phase' = phase \/ {phase, phase'} = {"ready", "smoke"}
<1>1. report \in Reports /\ (phase \in Going => report.exit = "none")
  BY DEF ClusterInv, ClusterTypeOK, SuccessInv
<1>2. ASSUME Still, phase \in {"ready", "smoke", "queue"}, Poll, UNCHANGED <<at, report, proof>>
      PROVE  SuccessInv'
  BY <1>2 DEF SuccessInv, OwnServer, EarnedBefore, Earned, GateOn, nodeVars, Going
<1>3. ASSUME Still, phase \in {"ready", "queue", "continuity"}, NEW how \in Statuses,
             GateFails(phase, how), proof' = proof
      PROVE  SuccessInv'
  <2> DEFINE r == [report EXCEPT ![phase] = how]
  <2>1. r \in Reports /\ r.exit = "none"
    <3>1. report.exit = "none"
      BY <1>1, <1>3 DEF Going
    <3>2. CASE phase = "ready"
      BY <1>1, <3>1, <3>2 DEF Reports
    <3>3. CASE phase = "queue"
      BY <1>1, <3>1, <3>3 DEF Reports
    <3>4. CASE phase = "continuity"
      BY <1>1, <3>1, <3>4 DEF Reports
    <3> QED BY <1>3, <3>2, <3>3, <3>4
  <2>2. Fail(r)
    BY <1>3 DEF GateFails
  <2> HIDE DEF r
  <2>3. port' = port
    BY <1>3 DEF nodeVars
  <2> QED BY <1>3, <2>1, <2>2, <2>3, FailNoSuccess, NoSuccess
<1>4. Gates[1] = "ready" /\ Gates[2] = "queue" /\ Gates[3] = "continuity"
  BY DEF Gates
<1>5. CASE GateTimesOut
  <2>1. "timeout" \in Statuses
    BY DEF Statuses
  <2> QED BY <1>3, <1>5, <2>1 DEF GateTimesOut, pastVars
<1>6. CASE ListModels
  <2>1. Still /\ phase = "ready"
    BY <1>6 DEF ListModels
  <2>2. (GatePasses(1) /\ Answers) \/ (Poll /\ UNCHANGED <<at, report, proof>>)
    BY <1>6 DEF ListModels
  <2> HIDE DEF Poll
  <2> QED BY <1>2, <1>4, <2>1, <2>2, GatePassesSuccess
<1>7. CASE Smoke
  <2>1. Still /\ phase = "smoke"
    BY <1>7 DEF Smoke
  <2>2. (GatePasses(1) /\ Answers) \/ (Poll /\ UNCHANGED <<at, report, proof>>)
    BY <1>7 DEF Smoke
  <2> HIDE DEF Poll
  <2> QED BY <1>2, <1>4, <2>1, <2>2, GatePassesSuccess
<1>8. CASE PollQueue
  <2>1. Still /\ phase = "queue"
    BY <1>8 DEF PollQueue
  <2>2. (GatePasses(2) /\ Answers) \/ (Poll /\ UNCHANGED <<at, report, proof>>)
    BY <1>8 DEF PollQueue
  <2> HIDE DEF Poll
  <2> QED BY <1>2, <1>4, <2>1, <2>2, GatePassesSuccess
<1>9. CASE CheckContinuity
  <2>1. Still /\ phase = "continuity" /\ "blocked" \in Statuses
    BY <1>9 DEF CheckContinuity, Statuses
  <2>2. GatePasses(3) \/ (GateFails("continuity", "blocked") /\ proof' = proof)
    BY <1>9 DEF CheckContinuity
  <2> QED BY <1>3, <1>4, <2>1, <2>2, GatePassesSuccess
<1> QED BY <1>5, <1>6, <1>7, <1>8, <1>9

LEMMA NextSuccess ==
  ClusterInv /\ SuccessInv /\ [ClusterNext]_clusterVars => SuccessInv'
<1> SUFFICES ASSUME ClusterInv, SuccessInv, [ClusterNext]_clusterVars PROVE SuccessInv'
  OBVIOUS
<1>1. report \in Reports /\ at \in Commands
  BY DEF ClusterInv, ClusterTypeOK
<1>2. CASE ProbeHost
  <2> PICK ok \in BOOLEAN :
        LET r == IF ok THEN report ELSE [report EXCEPT !.preflight = "blocked"]
        IN  \/ at < N /\ at' = at + 1 /\ report' = r /\ UNCHANGED phase
            \/ /\ at = N /\ at' = 1
               /\ \/ r.preflight = "pass" /\ phase' = "launch" /\ report' = r
                  \/ /\ r.preflight = "blocked" /\ phase' = "over"
                     /\ report' = [r EXCEPT !.rollback = "skipped", !.exit = "one"]
    BY <1>2 DEF ProbeHost
  <2> DEFINE r == IF ok THEN report ELSE [report EXCEPT !.preflight = "blocked"]
  <2>1. /\ phase = "preflight" /\ issued = {} /\ inFlight = {} /\ report.exit = "none"
        /\ UNCHANGED <<nodeVars, issued, inFlight, stopped, proof>>
    BY <1>2 DEF ProbeHost, SuccessInv, Going
  <2>2. r \in Reports /\ r.exit = "none"
    BY <1>1, <2>1 DEF Reports, Statuses
  <2>3. OwnServer'
    BY <2>1 DEF SuccessInv, OwnServer, nodeVars
  <2> HIDE DEF r
  <2>4. CASE /\ report' = r
             /\ phase' = "preflight" \/ (phase' = "launch" /\ at' = 1)
    BY <2>1, <2>2, <2>3, <2>4 DEF SuccessInv
  <2>5. CASE phase' = "over" /\ report' = [r EXCEPT !.rollback = "skipped", !.exit = "one"]
    <3> DEFINE y == [r EXCEPT !.rollback = "skipped"]
    <3>1. y \in Reports /\ report' = [y EXCEPT !.exit = "one"]
      BY <2>2, <2>5 DEF Reports, Statuses
    <3> HIDE DEF y
    <3>2. report'.exit = "one"
      BY <3>1 DEF Reports
    <3>3. port' = port /\ proof' = proof /\ phase' \notin Going
      BY <2>1, <2>5 DEF nodeVars, Going
    <3> QED BY <3>2, <3>3, NoSuccess
  <2> QED BY <2>1, <2>4, <2>5 DEF r
<1>3. CASE \E c \in Commands : StartSucceeds(c) \/ StartFails(c)
  BY <1>3, StartSuccess
<1>4. CASE GateTimesOut \/ ListModels \/ Smoke \/ PollQueue \/ CheckContinuity
  BY <1>4, GatesSuccess
<1>5. CASE StopRay
  <2>1. /\ phase = "rollback" /\ report.exit # "zero" /\ port' = port /\ proof' = proof
    BY <1>5 DEF StopRay, SuccessInv
  <2>2. PICK ok \in BOOLEAN :
          LET r == IF ok THEN report ELSE [report EXCEPT !.rollback = "failed"]
          IN  \/ report' = r /\ UNCHANGED phase
              \/ phase' = "over" /\ report' = [r EXCEPT !.exit = "one"]
    BY <1>5 DEF StopRay
  <2> DEFINE r == IF ok THEN report ELSE [report EXCEPT !.rollback = "failed"]
  <2>3. r \in Reports /\ r.exit # "zero"
    BY <1>1, <2>1 DEF Reports, Statuses
  <2> HIDE DEF r
  <2>4. \/ report' = r /\ phase' = phase
        \/ phase' = "over" /\ report' = [r EXCEPT !.exit = "one"]
    BY <2>2 DEF r
  <2>5. phase' \notin Going /\ report'.exit # "zero"
    BY <2>1, <2>3, <2>4 DEF Going, Reports
  <2> QED BY <2>1, <2>5, NoSuccess
<1>6. CASE Abort
  <2>1. /\ phase' \notin Going /\ report'.exit # "zero" /\ port' = port /\ proof' = proof
    BY <1>6 DEF Abort, SuccessInv, Going, nodeVars, pastVars
  <2> QED BY <2>1, NoSuccess
<1>7. CASE NodeStep
  <2>1. /\ UNCHANGED <<runVars, issued, stopped, proof>>
        /\ inFlight' = inFlight \/ (\E c \in inFlight : inFlight' = inFlight \ {c})
        /\ port' = "other" <=> port = "other"
    BY <1>7 DEF NodeStep, LateStart, VllmLoads, VllmServes, VllmDies, LoadChanges, RayDies,
       runVars, pastVars
  <2>2. inFlight = {} => inFlight' = {}
    BY <2>1
  <2> QED BY <2>1, <2>2 DEF SuccessInv, OwnServer, EarnedBefore, Earned, GateOn, runVars
<1>8. CASE UNCHANGED clusterVars
  BY <1>8 DEF SuccessInv, OwnServer, EarnedBefore, Earned, GateOn, clusterVars
<1> QED BY <1>2, <1>3, <1>4, <1>5, <1>6, <1>7, <1>8 DEF ClusterNext, RunStep

\* Exit code 0 is never reached around a start, a gate or a rollback, and without a
\* server on the port beforehand only with this run's own.
THEOREM SuccessEarned == ClusterSpec => []SuccessIsEarned
<1>1. SuccessInv => SuccessIsEarned
  BY DEF SuccessInv, SuccessIsEarned, EarnedBefore, Earned, OwnServer
<1> QED BY <1>1, ClusterInvariant, InitSuccess, NextSuccess, PTL DEF ClusterSpec
=============================================================================
