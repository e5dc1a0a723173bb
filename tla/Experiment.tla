----------------------------- MODULE Experiment -----------------------------
(***************************************************************************)
(* The 2x2 experiment: an operator measures the servers A, B, C and D, one *)
(* bench-single at a time, each into its file, and bench-2x2-compare reads *)
(* the four files one after the other, whatever they hold at that moment.  *)
(* The files behave as BenchRecord says (which BenchSingle implements).    *)
(* What may go wrong is bounded: a launch for the wrong server or with     *)
(* wrong arguments, an answer that differs or is no evidence, a bench that *)
(* stops early.                                                            *)
(***************************************************************************)
EXTENDS Compare2x2

CONSTANTS
  Runs,          \* answers per group
  NumGroups,     \* groups per launch
  MaxLaunches,   \* bound: launches of all roles together
  MaxFaults      \* bound: how many things go wrong

ASSUME ExperimentAssumption ==
  /\ Runs \in Nat \ {0} /\ NumGroups \in Nat \ {0}
  /\ MaxLaunches \in Nat /\ MaxFaults \in Nat

VARIABLES
  manifests,     \* whether the experiment is to be run with manifests
  bench,         \* of each role, its file and the launch that writes it
  copies,        \* the files that the comparison has read, by role
  verdict,       \* its experiment_status, "refused", or "none"
  launches,
  faults

experimentVars == <<manifests, bench, copies, verdict, launches, faults>>

-----------------------------------------------------------------------------
(* Servers and launches.                                                   *)

\* A server is what was launched, and the build it runs.
Server == [eager : BOOLEAN, mtp : BOOLEAN, context : {1, 2}, build : {1, 2}]

\* A launch of bench-single is about a server; the profile and whether MTP is on are
\* the operator's claims; the manifest of the server may be given.
Setup == [server : Server, profile : {"eager", "graph"}, mtp : BOOLEAN,
          manifest : BOOLEAN, target : {1, 2}]

\* The launch of a role as it is meant, without a manifest or with one.
Designed(role, m) ==
  [server   |-> [eager |-> ExpectedEager(role), mtp |-> ExpectedMtp(role),
                 context |-> 1, build |-> 1],
   profile  |-> ExpectedProfile(role),
   mtp      |-> ExpectedMtp(role),
   manifest |-> m,
   target   |-> 1]

\* One thing about a launch is not as it is meant.
Mistaken(role, m) ==
  LET d == Designed(role, m)
  IN  {[d EXCEPT !.server.eager = ~@],  [d EXCEPT !.server.mtp = ~@],
       [d EXCEPT !.server.context = 2], [d EXCEPT !.server.build = 2],
       [d EXCEPT !.profile = IF @ = "eager" THEN "graph" ELSE "eager"],
       [d EXCEPT !.mtp = ~@],           [d EXCEPT !.target = 2]}

\* Greedy answers depend on the execution mode, and on nothing else.
Answer(server) == IF server.eager THEN <<1>> ELSE <<2>>

Divergent == <<3>>

File(role) == INSTANCE BenchRecord WITH
  Setups   <- UNION {{Designed(role, m)} \cup Mistaken(role, m) : m \in BOOLEAN},
  GroupsOf <- [s \in Setup |-> [1..Runs -> {Answer(s.server), Divergent, <<>>}]],
  bench    <- bench[role]

\* build_vllm_serve_args; the port is the role's own.
Argv(role, server) ==
     <<<<"serve", 1>>, <<"--port", role>>, <<"--max-model-len", server.context>>>>
  \o (IF server.eager THEN <<<<"--enforce-eager", 1>>>> ELSE <<>>)
  \o (IF server.mtp THEN <<<<"--speculative-config", 1>>>> ELSE <<>>)

\* No argument list is taken for the absence of one.
ASSUME NoArgvAssumption ==
  \A role \in Roles : \A server \in Server : Argv(role, server) # NoArgv

\* The payload of a file, as bench-single wrote it: the profile decides the eager
\* flag, the manifest brings argv and versions.  Groups are told apart by prompt and
\* target; the request body is made of the two.
Payload(role, file) ==
  LET s == file.setup
  IN  [complete |-> file.kind = "complete",
       profile  |-> s.profile,
       eager    |-> s.profile = "eager",
       mtp      |-> s.mtp,
       argv     |-> IF s.manifest THEN Argv(role, s.server) ELSE NoArgv,
       fields   |-> IF s.manifest THEN {s.server.build} ELSE {},
       groups   |-> [i \in DOMAIN file.groups |->
                       [key          |-> <<i, s.target>>,
                        body         |-> <<i, s.target>>,
                        observations |-> file.groups[i]]]]

-----------------------------------------------------------------------------

ExperimentInit ==
  /\ manifests \in BOOLEAN
  /\ bench = [r \in Roles |-> [file |-> File(r)!Absent, running |-> FALSE,
                               setup |-> Designed(r, FALSE), groups |-> <<>>]]
  /\ copies = <<>>
  /\ verdict = "none"
  /\ launches = 0
  /\ faults = 0

Order == <<"A", "B", "C", "D">>

\* One bench runs at a time.  A role is measured once those before it have a file,
\* and again if its file is not complete.
MayLaunch(role) ==
  /\ launches < MaxLaunches
  /\ bench[role].file.kind # "complete"
  /\ \A r \in Roles : ~bench[r].running
  /\ \A i, j \in DOMAIN Order :
       i < j /\ Order[j] = role => bench[Order[i]].file.kind # "absent"

\* How many things go wrong in a step of a role's bench from b to c.
FaultsOf(role, b, c) ==
  CASE ~b.running              ->   (IF c.setup = Designed(role, c.setup.manifest) THEN 0 ELSE 1)
                                  + (IF c.setup.manifest = manifests THEN 0 ELSE 1)
    [] b.running /\ ~c.running -> IF c.file.kind = "complete" THEN 0 ELSE 1
    [] b.running /\ c.running  ->
         IF c.groups = b.groups
           THEN IF c.file = File(role)!Whole(b, "partial", TRUE) THEN 1 ELSE 0
           ELSE LET g == c.groups[Len(c.groups)]
                IN  Cardinality({n \in DOMAIN g : g[n] # Answer(b.setup.server)})

\* One step of one role's bench; what happens after the last file is read is of no
\* interest.
Measure(role) ==
  /\ verdict = "none" /\ Len(copies) < Len(Order)
  /\ bench[role].running \/ MayLaunch(role)
  /\ \E c \in File(role)!Successors(bench[role]) :
       /\ bench' = [bench EXCEPT ![role] = c]
       /\ faults' = faults + FaultsOf(role, bench[role], c)
       /\ faults' <= MaxFaults
  /\ launches' = IF bench[role].running THEN launches ELSE launches + 1
  /\ UNCHANGED <<manifests, copies, verdict>>

\* _load_json_payload of the next file: what is absent or no JSON ends the command.
\* The comparison is started between two benches, but one may begin while it reads.
Load ==
  /\ verdict = "none"
  /\ copies = <<>> => \A r \in Roles : ~bench[r].running
  /\ Len(copies) < Len(Order)
  /\ LET file == bench[Order[Len(copies) + 1]].file
     IN  IF file.kind \in {"absent", "torn"}
           THEN verdict' = "refused" /\ UNCHANGED copies
           ELSE copies' = Append(copies, file) /\ UNCHANGED verdict
  /\ UNCHANGED <<manifests, bench, launches, faults>>

Copy(role) == copies[CHOOSE i \in DOMAIN Order : Order[i] = role]

Compare ==
  /\ verdict = "none"
  /\ Len(copies) = Len(Order)
  /\ verdict' = ExperimentStatus([r \in Roles |-> Payload(r, Copy(r))])
  /\ UNCHANGED <<manifests, bench, copies, launches, faults>>

ExperimentNext == (\E r \in Roles : Measure(r)) \/ Load \/ Compare

ExperimentSpec == ExperimentInit /\ [][ExperimentNext]_experimentVars

-----------------------------------------------------------------------------
(* Properties.                                                             *)

SameMode == {<<"A", "B">>, <<"C", "D">>}

\* All observations that role r has of its i-th group.
Seen(r, i) == {Copy(r).groups[i][n] : n \in DOMAIN Copy(r).groups[i]}

\* MTP is recommended only if every file is complete and, within each execution mode,
\* every answer without MTP and every answer with MTP is one and the same, recorded
\* whole; and, where manifests tell, the four servers were those of the experiment
\* ("A/B may differ only in MTP, ... A/C only in eager mode", p0-004).
AdoptIsEarned ==
  verdict = "passed" =>
    /\ \A r \in Roles : Copy(r).kind = "complete"
    /\ \A r \in Roles : Copy(r).setup.target = Copy("A").setup.target
    /\ \A p \in SameMode : \A i \in 1..NumGroups :
         \E tokens \in {<<1>>, <<2>>, <<3>>} : Seen(p[1], i) \cup Seen(p[2], i) = {tokens}
    /\ \/ \A r \in Roles : ~Copy(r).setup.manifest
       \/ \A r \in Roles : LET server == Copy(r).setup.server
                           IN  /\ server.eager = ExpectedEager(r)
                               /\ server.mtp = ExpectedMtp(r)
                               /\ server.context = Copy("A").setup.server.context
                               /\ server.build = Copy("A").setup.server.build

\* MTP is rejected as "failed" only for two answers to one request, recorded whole,
\* that differ although they come from one execution mode: never for evidence that is
\* missing, and never because eager and graph execution differ ("cross-mode
\* inequality alone does not produce do_not_adopt", p0-004).
FailureIsReal ==
  verdict = "failed" =>
    \E p \in SameMode \cup {<<r, r>> : r \in Roles} :
      \E i \in (DOMAIN Copy(p[1]).groups) \cap (DOMAIN Copy(p[2]).groups) :
        Cardinality((Seen(p[1], i) \cup Seen(p[2], i)) \ {<<>>}) > 1

\* If the files that were read are those of the experiment as it is meant and no
\* answer diverged or went missing, the experiment passes, whatever was interrupted,
\* mistaken and repeated before.
EvidenceIsEnough ==
  (/\ verdict \notin {"none", "refused"}
   /\ \A r \in Roles : Copy(r).setup = Designed(r, manifests)
   /\ \A r \in Roles : /\ Copy(r).kind = "complete"
                       /\ \A i \in 1..NumGroups : Seen(r, i) = {Answer(Copy(r).setup.server)})
  => verdict = "passed"
=============================================================================
