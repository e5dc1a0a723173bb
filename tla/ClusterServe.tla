---------------------------- MODULE ClusterServe ----------------------------
(***************************************************************************)
(* cluster-serve (cli.py, cluster.py): one operator's run that probes the  *)
(* nodes, starts Ray and vLLM on them over SSH, waits for three gates, and *)
(* on failure stops Ray again if it was asked to.  The nodes live on their *)
(* own: what a command did there and what its SSH connection said of it    *)
(* are two things, and a start can still happen after the run gave it up.  *)
(***************************************************************************)
EXTENDS Naturals, FiniteSets

CONSTANTS
  N,         \* --node-count
  MaxPolls   \* bound: polls of a gate before its deadline

ASSUME NodeAssumption == N \in Nat /\ N > 1
ASSUME PollAssumption == MaxPolls \in Nat

\* Node 1 is the head.  Command c \in Nodes starts Ray on node c, the head first;
\* the last command starts vLLM on the head.
Nodes == 1..N
Serve == N + 1
Commands == 1..Serve

FlagNames == {"preflight", "wait_ready", "generation_smoke", "queue_drain",
              "ray_continuity", "rollback_on_failure"}

VARIABLES
  flags,      \* the options of the run
  phase,      \* what the run is doing
  at,         \* the host or the command it is at
  polls,      \* polls of the gate it is in
  report,     \* the payload: how each part ended, and the exit code
  ray,        \* the nodes Ray runs on, on some of them since before the run
  vllm,       \* the vLLM process of this run
  port,       \* who holds the head's port: this run's vLLM, another server, nobody
  busy,       \* whether that server has requests running or waiting
  issued,     \* history: the start commands sent, in whatever way they ended
  inFlight,   \* sent commands the run gave up on that may still take effect
  outlived,   \* history: those that took effect after they were given up
  stopped,    \* history: the nodes "ray stop" was sent to
  fit,        \* history: the hosts whose probe passed
  proof       \* history: what the gates that passed relied on

runVars  == <<flags, phase, at, polls, report>>
nodeVars == <<ray, vllm, port, busy>>
pastVars == <<issued, inFlight, outlived, stopped, fit, proof>>
clusterVars == <<flags, phase, at, polls, report, ray, vllm, port, busy,
                 issued, inFlight, outlived, stopped, fit, proof>>

Phases == {"preflight", "launch", "ready", "smoke", "queue", "continuity",
           "rollback", "over", "aborted"}

Statuses == {"not_checked", "skipped", "pass", "blocked", "failed", "timeout"}

Reports == [preflight : Statuses, launch : Statuses, ready : Statuses, queue : Statuses,
            continuity : Statuses, rollback : Statuses, exit : {"none", "zero", "one"}]

FirstReport ==
  [preflight |-> "not_checked", launch |-> "not_checked", ready |-> "not_checked",
   queue |-> "not_checked", continuity |-> "not_checked", rollback |-> "not_checked",
   exit |-> "none"]

ClusterInit ==
  /\ flags \in [FlagNames -> BOOLEAN]
  /\ phase = IF flags["preflight"] THEN "preflight" ELSE "launch"
  /\ at = 1
  /\ polls = 0
  /\ report = [FirstReport EXCEPT !.preflight =
                 IF flags["preflight"] THEN "pass" ELSE "skipped"]
  /\ ray \in SUBSET Nodes
  /\ vllm = "none"
  /\ port \in {"nobody", "other"}
  /\ busy = FALSE
  /\ issued = {} /\ inFlight = {} /\ outlived = {} /\ stopped = {}
  /\ fit = {} /\ proof = {}

-----------------------------------------------------------------------------
(* Where the run goes next.                                                *)

\* The gates in their order.  A gate that is off and one the run does not get to
\* are both "not_checked" here.
Gates == <<"ready", "queue", "continuity">>

GateOn(gate) ==
  CASE gate = "ready" -> flags["wait_ready"]
    [] gate = "queue" -> flags["queue_drain"]
    [] OTHER          -> flags["ray_continuity"]

\* On, with report r, to the first gate from position i that is switched on.
EnterGate(i, r) ==
  LET on == {j \in i..3 : GateOn(Gates[j])}
  IN  \/ /\ on = {}
         /\ phase' = "over"
         /\ report' = [r EXCEPT !.rollback = "skipped", !.exit = "zero"]
      \/ /\ \E j \in on : (\A k \in on : j <= k) /\ phase' = Gates[j]
         /\ report' = r

\* Mutant: the run enters a rollback it was not asked for.
FailAndRollBack(r) ==
  /\ phase' = "rollback"
  /\ report' = [r EXCEPT !.rollback = "pass"]
  /\ at' = 1

\* A part failed: roll back if that was asked for, then report and exit with 1.
Fail(r) ==
  /\ phase' = IF flags["rollback_on_failure"] THEN "rollback" ELSE "over"
  /\ report' = IF flags["rollback_on_failure"] THEN [r EXCEPT !.rollback = "pass"]
               ELSE [r EXCEPT !.rollback = "skipped", !.exit = "one"]
  /\ at' = 1

-----------------------------------------------------------------------------
(* Preflight: every host is probed, whatever the ones before it answered.  *)

\* Mutant: the answer of the last host is taken for that of all of them.
ProbeHostLastOnly ==
  /\ phase = "preflight"
  /\ \E ok \in BOOLEAN :
       /\ fit' = IF ok THEN fit \cup {at} ELSE fit
       /\ report' = [report EXCEPT !.preflight = IF ok THEN "pass" ELSE "blocked",
                                   !.rollback = IF at = N /\ ~ok THEN "skipped" ELSE @,
                                   !.exit = IF at = N /\ ~ok THEN "one" ELSE @]
       /\ IF at < N THEN at' = at + 1 /\ UNCHANGED phase
          ELSE at' = 1 /\ phase' = IF ok THEN "launch" ELSE "over"
  /\ UNCHANGED <<flags, polls, nodeVars, issued, inFlight, outlived, stopped, proof>>

ProbeHost ==
  /\ phase = "preflight"
  /\ \E ok \in BOOLEAN :
       LET r == IF ok THEN report ELSE [report EXCEPT !.preflight = "blocked"]
       IN  /\ fit' = IF ok THEN fit \cup {at} ELSE fit
           /\ \/ at < N /\ at' = at + 1 /\ report' = r /\ UNCHANGED phase
              \/ /\ at = N /\ at' = 1
                 /\ \/ r.preflight = "pass" /\ phase' = "launch" /\ report' = r
                    \/ /\ r.preflight = "blocked" /\ phase' = "over"
                       /\ report' = [r EXCEPT !.rollback = "skipped", !.exit = "one"]
  /\ UNCHANGED <<flags, polls, nodeVars, issued, inFlight, outlived, stopped, proof>>

-----------------------------------------------------------------------------
(* Launch.                                                                 *)

\* What command c does on its node.  A worker finds no cluster to join without the
\* head; vLLM is detached and only begins to wait for the nodes.
Effect(c) ==
  /\ ray' = IF c = 1 \/ (c \in Nodes /\ 1 \in ray) THEN ray \cup {c} ELSE ray
  /\ vllm' = IF c = Serve /\ vllm = "none" THEN "waiting" ELSE vllm

\* Command c returned 0.
StartSucceeds(c) ==
  /\ phase = "launch" /\ at = c
  /\ c \in Nodes \ {1} => 1 \in ray
  /\ Effect(c)
  /\ issued' = issued \cup {c}
  /\ IF c < Serve THEN at' = c + 1 /\ UNCHANGED <<phase, report>>
     ELSE EnterGate(1, [report EXCEPT !.launch = "pass"]) /\ UNCHANGED at
  /\ UNCHANGED <<flags, polls, port, busy, inFlight, outlived, stopped, fit, proof>>

\* It returned something else, or the connection was cut at the timeout (124).  It
\* may have taken effect all the same, may still do so, or never will.
StartFails(c) ==
  /\ phase = "launch" /\ at = c
  /\ Fail([report EXCEPT !.launch = "failed"])
  /\ issued' = issued \cup {c}
  /\ \/ Effect(c) /\ UNCHANGED inFlight
     \/ UNCHANGED <<ray, vllm, inFlight>>
     \/ inFlight' = inFlight \cup {c} /\ UNCHANGED <<ray, vllm>>
  /\ UNCHANGED <<flags, polls, port, busy, outlived, stopped, fit, proof>>

-----------------------------------------------------------------------------
(* The gates.  A server answers on the port only while it serves.          *)

Answers == port = "other" \/ (port = "own" /\ vllm = "serving")

GateFails(gate, how) ==
  /\ Fail([report EXCEPT ![gate] = how])
  /\ polls' = 0

\* Mutant: a gate that timed out is left for the next one.
GateTimesOutAndPasses ==
  /\ phase \in {"ready", "queue"}
  /\ EnterGate(IF phase = "ready" THEN 2 ELSE 3, [report EXCEPT ![phase] = "timeout"])
  /\ polls' = 0
  /\ UNCHANGED <<flags, at, nodeVars, pastVars>>

\* The deadline passes, between two polls.
GateTimesOut ==
  /\ phase \in {"ready", "queue"}
  /\ GateFails(phase, "timeout")
  /\ UNCHANGED <<flags, nodeVars, pastVars>>

GatePasses(i) ==
  /\ EnterGate(i + 1, [report EXCEPT ![Gates[i]] = "pass"])
  /\ proof' = proof \cup {<<Gates[i], IF i = 3 THEN "nodes" ELSE port>>}
  /\ polls' = 0
  /\ UNCHANGED at

\* Mutant: a poll that gets as far as the smoke test is not counted.
ListModelsUncounted ==
  /\ phase = "ready"
  /\ polls < MaxPolls
  /\ \/ /\ Answers
        /\ IF flags["generation_smoke"]
             THEN phase' = "smoke" /\ UNCHANGED <<at, polls, report, proof>>
             ELSE GatePasses(1)
     \/ polls' = polls + 1 /\ UNCHANGED <<phase, at, report, proof>>
  /\ UNCHANGED <<flags, nodeVars, issued, inFlight, outlived, stopped, fit>>

\* /v1/models lists the served model; without the smoke test that is enough.
ListModels ==
  /\ phase = "ready"
  /\ polls < MaxPolls
  /\ \/ /\ Answers
        /\ IF flags["generation_smoke"]
             THEN phase' = "smoke" /\ polls' = polls + 1 /\ UNCHANGED <<at, report, proof>>
             ELSE GatePasses(1)
     \/ polls' = polls + 1 /\ UNCHANGED <<phase, at, report, proof>>
  /\ UNCHANGED <<flags, nodeVars, issued, inFlight, outlived, stopped, fit>>

\* The generation of the same poll: the expected text, another one, an error.
Smoke ==
  /\ phase = "smoke"
  /\ \/ Answers /\ GatePasses(1)
     \/ phase' = "ready" /\ UNCHANGED <<at, polls, report, proof>>
  /\ UNCHANGED <<flags, nodeVars, issued, inFlight, outlived, stopped, fit>>

\* /metrics shows no request running and none waiting.
PollQueue ==
  /\ phase = "queue"
  /\ polls < MaxPolls
  /\ \/ Answers /\ ~busy /\ GatePasses(2)
     \/ polls' = polls + 1 /\ UNCHANGED <<phase, at, report, proof>>
  /\ UNCHANGED <<flags, nodeVars, issued, inFlight, outlived, stopped, fit>>

\* One question to Ray on the head: are N nodes alive?
CheckContinuity ==
  /\ phase = "continuity"
  /\ \/ Cardinality(ray) >= N /\ GatePasses(3)
     \/ GateFails("continuity", "blocked") /\ UNCHANGED proof
  /\ UNCHANGED <<flags, nodeVars, issued, inFlight, outlived, stopped, fit>>

-----------------------------------------------------------------------------
(* Rollback: "ray stop --force" on every node, the last one first, on to   *)
(* the next whatever it returns.  vLLM is not touched.                     *)

\* Mutant: the reversed index is off by one.
StopRayShifted ==
  /\ phase = "rollback"
  /\ stopped' = stopped \cup {N - at}
  /\ ray' = ray \ {N - at}
  /\ \/ at < N /\ at' = at + 1 /\ UNCHANGED <<phase, report>>
     \/ at = N /\ phase' = "over" /\ report' = [report EXCEPT !.exit = "one"] /\ UNCHANGED at
  /\ UNCHANGED <<flags, polls, vllm, port, busy, issued, inFlight, outlived, fit, proof>>

\* Mutant: the rollback gives up at the first node it cannot stop.
StopRayUntilFailure ==
  /\ phase = "rollback"
  /\ LET node == N + 1 - at
     IN  /\ stopped' = stopped \cup {node}
         /\ \E ok \in BOOLEAN :
              /\ ray' = IF ok THEN ray \ {node} ELSE ray
              /\ IF at < N /\ ok
                 THEN at' = at + 1 /\ UNCHANGED <<phase, report>>
                 ELSE /\ phase' = "over"
                      /\ report' = [report EXCEPT !.rollback = IF ok THEN "pass" ELSE "failed",
                                                  !.exit = "one"]
                      /\ UNCHANGED at
  /\ UNCHANGED <<flags, polls, vllm, port, busy, issued, inFlight, outlived, fit, proof>>

\* Mutant: the rollback reports the result of its last command.
StopRayLastOnly ==
  /\ phase = "rollback"
  /\ LET node == N + 1 - at
     IN  /\ stopped' = stopped \cup {node}
         /\ \E ok \in BOOLEAN :
              /\ ray' = IF ok THEN ray \ {node} ELSE ray
              /\ report' = [report EXCEPT !.rollback = IF ok THEN "pass" ELSE "failed",
                                          !.exit = IF at = N THEN "one" ELSE @]
              /\ IF at < N THEN at' = at + 1 /\ UNCHANGED phase
                 ELSE phase' = "over" /\ UNCHANGED at
  /\ UNCHANGED <<flags, polls, vllm, port, busy, issued, inFlight, outlived, fit, proof>>

StopRay ==
  /\ phase = "rollback"
  /\ LET node == N + 1 - at
     IN  /\ stopped' = stopped \cup {node}
         /\ \E ok \in BOOLEAN :
              LET r == IF ok THEN report ELSE [report EXCEPT !.rollback = "failed"]
              IN  /\ ray' = ray \ {node} \/ (~ok /\ ray' = ray)
                  /\ \/ at < N /\ at' = at + 1 /\ report' = r /\ UNCHANGED phase
                     \/ /\ at = N /\ phase' = "over"
                        /\ report' = [r EXCEPT !.exit = "one"]
                        /\ UNCHANGED at
  /\ UNCHANGED <<flags, polls, vllm, port, busy, issued, inFlight, outlived, fit, proof>>

\* Ctrl-C, an ssh binary that is not there, a report that cannot be written: the run
\* ends where it is, without rollback.
Abort ==
  /\ phase \notin {"over", "aborted"}
  /\ phase' = "aborted"
  /\ UNCHANGED <<flags, at, polls, report, nodeVars, pastVars>>

-----------------------------------------------------------------------------
(* The nodes.                                                              *)

\* A start the run gave up on takes effect, be it after the rollback.
LateStart(c) ==
  /\ c \in inFlight
  /\ Effect(c)
  /\ inFlight' = inFlight \ {c}
  /\ outlived' = outlived \cup {c}
  /\ UNCHANGED <<runVars, port, busy, issued, stopped, fit, proof>>

\* All the nodes have joined, and vLLM loads the model.
VllmLoads ==
  /\ vllm = "waiting"
  /\ Cardinality(ray) >= N
  /\ vllm' = "loading"
  /\ UNCHANGED <<runVars, ray, port, busy, pastVars>>

VllmServes ==
  /\ vllm = "loading"
  /\ port = "nobody"
  /\ vllm' = "serving"
  /\ port' = "own"
  /\ UNCHANGED <<runVars, ray, busy, pastVars>>

\* The nodes did not join in time, the port was taken, the engine failed.
VllmDies ==
  /\ vllm \in {"waiting", "loading", "serving"}
  /\ vllm' = "dead"
  /\ port' = IF port = "own" THEN "nobody" ELSE port
  /\ busy' = (busy /\ port # "own")
  /\ UNCHANGED <<runVars, ray, pastVars>>

RayDies(n) ==
  /\ n \in ray
  /\ ray' = ray \ {n}
  /\ UNCHANGED <<runVars, vllm, port, busy, pastVars>>

\* Other clients of the server.
LoadChanges ==
  /\ Answers
  /\ busy' = ~busy
  /\ UNCHANGED <<runVars, ray, vllm, port, pastVars>>

-----------------------------------------------------------------------------

RunStep ==
  \/ ProbeHost
  \/ \E c \in Commands : StartSucceeds(c) \/ StartFails(c)
  \/ GateTimesOut \/ ListModels \/ Smoke \/ PollQueue \/ CheckContinuity
  \/ StopRay

NodeStep ==
  \/ \E c \in Commands : LateStart(c)
  \/ VllmLoads \/ VllmServes \/ VllmDies \/ LoadChanges
  \/ \E n \in Nodes : RayDies(n)

ClusterNext == RunStep \/ Abort \/ NodeStep

ClusterSpec == ClusterInit /\ [][ClusterNext]_clusterVars

\* Every subprocess and every HTTP request of the run has a timeout, and every gate
\* a deadline; the nodes owe nothing.
ClusterFairSpec == ClusterSpec /\ WF_clusterVars(RunStep)

-----------------------------------------------------------------------------
(* Properties.                                                             *)

\* Every variable has its type.
ClusterTypeOK ==
  /\ flags \in [FlagNames -> BOOLEAN]
  /\ phase \in Phases
  /\ at \in Commands
  /\ polls \in 0..MaxPolls
  /\ report \in Reports
  /\ ray \subseteq Nodes
  /\ vllm \in {"none", "waiting", "loading", "serving", "dead"}
  /\ port \in {"nobody", "own", "other"}
  /\ busy \in BOOLEAN
  /\ issued \subseteq Commands /\ inFlight \subseteq issued /\ outlived \subseteq issued
  /\ stopped \subseteq Nodes /\ fit \subseteq Nodes

\* "cluster-serve runs SSH preflight before launch" (p2-001): with preflight on, no
\* start is sent to any node unless the probe of every host has passed, those probed
\* after a failing one included.
PreflightComesFirst == flags["preflight"] /\ issued # {} => fit = Nodes

\* "no automatic ray stop" (README): Ray is stopped only in a run that was given
\* --rollback-on-failure and in which a start or a gate failed.
StopsOnlyOnFailure ==
  stopped # {} =>
    /\ flags["rollback_on_failure"]
    /\ "failed" = report.launch \/ "timeout" \in {report.ready, report.queue}
       \/ report.continuity = "blocked"

\* Once a rollback is over, every node that was ever sent a start was sent a stop
\* after it, even when the stop of another node failed.
RollbackMeetsEveryStart ==
  phase = "over" /\ report.rollback \in {"pass", "failed"} =>
    issued \ {Serve} \subseteq stopped

\* A rollback that reports "pass" leaves Ray on no node, but for a start that took
\* effect after the run had given it up.
PassedRollbackLeavesNoRay ==
  phase = "over" /\ report.rollback = "pass" => ray \subseteq outlived

\* Exit code 0 is never reached around a gate: every start returned 0, every gate
\* that is on passed, nothing was stopped, and unless a server held the head's port
\* before the run, the server the gates talked to was this run's own.
SuccessIsEarned ==
  report.exit = "zero" =>
    /\ issued = Commands /\ inFlight = {} /\ stopped = {}
    /\ \A i \in 1..3 : GateOn(Gates[i]) => \E who \in {"own", "other", "nodes"} :
                                              <<Gates[i], who>> \in proof
    /\ port # "other" => \A g \in {"ready", "queue"} : <<g, "other">> \notin proof

\* The run ends, whatever the nodes do.
RunEnds == <>(phase \in {"over", "aborted"})
=============================================================================
