---------------------------- MODULE Attestation -----------------------------
(***************************************************************************)
(* What doctor and /health say of the configuration of the running vLLM    *)
(* (runtime_config.py): vllm-mtp launch writes a manifest and becomes the  *)
(* server; a report reads the manifest, the command line of the process it *)
(* names, and two answers of whatever serves the port, and calls each      *)
(* field verified, mismatch, unknown or not_applicable.  Servers are       *)
(* started and stopped meanwhile, by launch or by hand, and process ids    *)
(* come round again.                                                       *)
(***************************************************************************)
EXTENDS Naturals, Sequences, FiniteSets

CONSTANTS
  Pids,          \* process ids, used again once they are free
  Argvs,         \* command lines of servers, see ArgvType
  Private,       \* the models whose name is a private path
  Profile,       \* what is desired: an element of ArgvType
  Versions,      \* versions of vLLM; the larger is the later
  MinVersion,    \* the least that is recent enough
  NoValue,       \* a field that is not observed, an option that is not given
  MaxStarts,     \* bound: processes started
  MaxReports     \* bound: reports

\* A command line: what stands before "serve", the model, and the options.  A launch
\* always calls "vllm" and names the alias of the gateway; a start by hand may not.
ArgvType ==
  [head : {"vllm", "interpreter"}, model : STRING, port : Nat, alias : BOOLEAN,
   length : Nat, eager : BOOLEAN, tokens : Nat \cup {NoValue}, seqs : Nat \cup {NoValue}]

ASSUME AttestationAssumption ==
  /\ Argvs \subseteq ArgvType /\ Profile \in ArgvType
  /\ Versions \subseteq Nat /\ MinVersion \in Nat
  /\ NoValue \notin Nat \cup BOOLEAN \cup Pids \cup ArgvType
  /\ MaxStarts \in Nat /\ MaxReports \in Nat

\* A profile asks for a number of speculative tokens, or it is refused; it may leave
\* max_num_seqs unset.
ASSUME ProfileAssumption == Profile.tokens # NoValue

VARIABLES
  procs,     \* of each pid the process that has it, or NoProcess
  manifest,  \* the manifest file: NoManifest if absent or torn, or what is in it
  report,    \* the report under way: its kind, its next step, what it has read
  statuses,  \* of each field what the last report said, NoStatus while none is out
  steady,    \* history: the pid of the server that was up, alone on the port, and
             \* answered since the report began, or NoValue
  starts,    \* processes started so far
  reports    \* reports begun so far

attestVars == <<procs, manifest, report, statuses, steady, starts, reports>>

-----------------------------------------------------------------------------
(* Fields.                                                                 *)

Fields == {"model", "served", "length", "eager", "tokens", "seqs", "version", "torch"}

\* OPTIONAL_PROFILE_FIELDS: what a profile may leave unset.
OptionalFields == {"seqs"}

NothingObserved == [f \in Fields |-> NoValue]

\* merge_observed_config: a later observation replaces an earlier one, if it has one.
Merge(observed, later) ==
  [f \in Fields |-> IF later[f] = NoValue THEN observed[f] ELSE later[f]]

Redacted == "REDACTED_PATH"

RedactPath(model) == IF model \in Private THEN Redacted ELSE model

\* observed_config_from_process_argv: flags are always observed, options if given.
ObservedFromArgv(argv) ==
  [NothingObserved EXCEPT !.model = RedactPath(argv.model), !.length = argv.length,
                          !.eager = argv.eager, !.tokens = argv.tokens,
                          !.seqs = argv.seqs]

\* desired_config; no version of torch is asked for.
Desired ==
  [model |-> RedactPath(Profile.model), served |-> TRUE, length |-> Profile.length,
   eager |-> Profile.eager, tokens |-> Profile.tokens, seqs |-> Profile.seqs,
   version |-> MinVersion, torch |-> NoValue]

\* _verification_field.
FieldStatus(field, observed) ==
  CASE observed = NoValue                                       ->
         IF field \in OptionalFields /\ Desired[field] = NoValue
           THEN "not_applicable" ELSE "unknown"
    [] observed # NoValue /\ field = "model"
         /\ Redacted \in {observed, Desired["model"]}           -> "unknown"
    [] observed # NoValue /\ field = "version"                  ->
         IF observed >= Desired["version"] THEN "verified" ELSE "mismatch"
    [] observed # NoValue /\ field \notin {"model", "version"}
         /\ Desired[field] = NoValue                            -> "verified"
    [] OTHER -> IF observed = Desired[field] THEN "verified" ELSE "mismatch"

NoStatus == [f \in Fields |-> "none"]

-----------------------------------------------------------------------------
(* Evidence.                                                               *)

\* Mutant: a process with the pid of the manifest is the process of the manifest.
ArgvMatchesAnything(written, argv) == TRUE

\* Mutant: the command line is compared with the redacted one that was written.
ArgvMatchesRedacted(written, argv) == argv = [written.argv EXCEPT !.model = RedactPath(@)]

\* _argv_matches_manifest: by the fingerprint; a manifest that has none is compared
\* redacted, from "serve" on.
ArgvMatchesManifest(written, argv) ==
  IF written.fingerprint
    THEN written.argv = argv
    ELSE [written.argv EXCEPT !.head = "", !.model = RedactPath(@)]
           = [argv EXCEPT !.head = "", !.model = RedactPath(@)]

\* observed_config_from_runtime_evidence: the command line, and the versions that the
\* manifest has, if the process of the manifest serves the port that is asked.
ObservedFromEvidence(written, argv) ==
  IF argv # NoValue /\ argv.port = Profile.port /\ ArgvMatchesManifest(written, argv)
    THEN [ObservedFromArgv(argv) EXCEPT !.version = written.version,
                                        !.torch = written.version]
    ELSE NothingObserved

-----------------------------------------------------------------------------
(* Processes.                                                              *)

NoProcess  == [is |-> "none"]
NoManifest == [pid |-> NoValue]
NoReport   == [kind |-> "none"]

\* The command line of a program that is no server: no options, so the port defaults
\* to that of a server.
OtherArgv ==
  [head |-> "", model |-> "", port |-> Profile.port, alias |-> FALSE,
   length |-> NoValue, eager |-> FALSE, tokens |-> NoValue, seqs |-> NoValue]

Server(argv, version, start) ==
  [is |-> "server", argv |-> argv, version |-> version, start |-> start, listens |-> FALSE]

Serves(p) == procs[p].is = "server" /\ procs[p].argv.port = Profile.port

\* The server that answers on the port, if any.
Up(p) == Serves(p) /\ procs[p].listens

AttestInit ==
  /\ procs = [p \in Pids |-> NoProcess]
  /\ manifest \in {NoManifest} \cup
       [pid : Pids, argv : Argvs, version : Versions, start : {0}, fingerprint : {FALSE}]
  /\ report = NoReport
  /\ statuses = NoStatus
  /\ steady = NoValue
  /\ starts = 0 /\ reports = 0

\* Process p becomes another, or none; steady is lost if its server is not p's only
\* successor on the port.
Becomes(p, process) ==
  /\ procs' = [procs EXCEPT ![p] = process]
  /\ steady' = IF \/ steady = p
                  \/ process.is = "server" /\ process.argv.port = Profile.port
                 THEN NoValue ELSE steady

Starts(p, process) ==
  /\ procs[p] = NoProcess
  /\ starts < MaxStarts
  /\ starts' = starts + 1
  /\ Becomes(p, process)

\* vllm-mtp launch.
Launch(p) ==
  /\ \E argv \in Argvs, version \in Versions :
       /\ argv.alias /\ argv.head = "vllm"
       /\ Starts(p, [is |-> "launcher", argv |-> OtherArgv, target |-> argv,
                     version |-> version, start |-> starts + 1, stage |-> "begun"])
  /\ UNCHANGED <<manifest, report, statuses, reports>>

\* The manifest is opened to be written, which empties it.
OpensManifest(p) ==
  /\ procs[p].is = "launcher" /\ procs[p].stage = "begun"
  /\ procs' = [procs EXCEPT ![p].stage = "opened"]
  /\ manifest' = NoManifest
  /\ UNCHANGED <<report, statuses, steady, starts, reports>>

\* It is written whole, with the pid, the versions of the launcher's environment and
\* the fingerprint; over what another launch wrote meanwhile, the rest of a longer
\* text may stay behind it, which is no JSON.
WritesManifest(p) ==
  /\ procs[p].is = "launcher" /\ procs[p].stage = "opened"
  /\ procs' = [procs EXCEPT ![p].stage = "written"]
  /\ manifest' \in
       {[pid |-> p, argv |-> procs[p].target, version |-> procs[p].version,
         start |-> procs[p].start, fingerprint |-> TRUE]}
       \cup {m \in {NoManifest} : manifest # NoManifest}
  /\ UNCHANGED <<report, statuses, steady, starts, reports>>

\* os.execvp: the launcher is the server.  If vllm is a script, the kernel puts its
\* interpreter before the arguments.  The version is that of the vllm on the path.
Exec(p) ==
  /\ procs[p].is = "launcher" /\ procs[p].stage = "written"
  /\ \E head \in {"vllm", "interpreter"}, version \in Versions :
       Becomes(p, Server([procs[p].target EXCEPT !.head = head], version, procs[p].start))
  /\ UNCHANGED <<manifest, report, statuses, starts, reports>>

StartByHand(p) ==
  /\ \E argv \in Argvs, version \in Versions : Starts(p, Server(argv, version, starts + 1))
  /\ UNCHANGED <<manifest, report, statuses, reports>>

StartOther(p) ==
  /\ Starts(p, [is |-> "other", argv |-> OtherArgv])
  /\ UNCHANGED <<manifest, report, statuses, reports>>

\* A server listens once it has loaded, on a port that is free.
Listens(p) ==
  /\ procs[p].is = "server" /\ ~procs[p].listens
  /\ \A q \in Pids : procs[q].is = "server" /\ procs[q].listens =>
                     procs[q].argv.port # procs[p].argv.port
  /\ procs' = [procs EXCEPT ![p].listens = TRUE]
  /\ UNCHANGED <<manifest, report, statuses, steady, starts, reports>>

\* A process ends: stopped, crashed, its port taken, or nothing to exec.
Exits(p) ==
  /\ procs[p] # NoProcess
  /\ Becomes(p, NoProcess)
  /\ UNCHANGED <<manifest, report, statuses, starts, reports>>

-----------------------------------------------------------------------------
(* Reports.                                                                *)

\* The order of the reads: /health asks for the version first and lets the manifest
\* override it, doctor the other way round.
StepsOf(kind) ==
  IF kind = "doctor" THEN <<"manifest", "cmdline", "version", "models">>
                     ELSE <<"version", "manifest", "cmdline", "models">>

ReportBegins ==
  /\ report = NoReport
  /\ reports < MaxReports
  /\ reports' = reports + 1
  /\ \E kind \in {"doctor", "health"} :
       report' = [kind |-> kind, step |-> 1, written |-> NoManifest,
                  observed |-> NothingObserved]
  /\ statuses' = NoStatus
  /\ steady' = LET alone == {p \in Pids : Up(p) /\ \A q \in Pids : Serves(q) => q = p}
               IN  IF alone = {} THEN NoValue ELSE CHOOSE p \in alone : TRUE
  /\ UNCHANGED <<procs, manifest, starts>>

At(step) == report # NoReport /\ StepsOf(report.kind)[report.step] = step

\* The step under way adds what it observed; the last one ends the report.
Observes(later) ==
  LET observed == Merge(report.observed, later)
  IN  IF report.step < 4
        THEN /\ report' = [report EXCEPT !.step = @ + 1, !.observed = observed]
             /\ UNCHANGED statuses
        ELSE /\ report' = NoReport
             /\ statuses' = [f \in Fields |-> FieldStatus(f, observed[f])]

ReadManifest ==
  /\ At("manifest")
  /\ report' = [report EXCEPT !.step = @ + 1, !.written = manifest]
  /\ UNCHANGED <<procs, manifest, statuses, steady, starts, reports>>

\* The command line of the process that has the pid now, if there is one.
ReadCmdline ==
  /\ At("cmdline")
  /\ Observes(LET pid == report.written.pid
              IN  IF pid = NoValue THEN NothingObserved
                  ELSE ObservedFromEvidence(report.written,
                         IF procs[pid] = NoProcess THEN NoValue ELSE procs[pid].argv))
  /\ UNCHANGED <<procs, manifest, steady, starts, reports>>

AskVersion ==
  /\ At("version")
  /\ \E p \in Pids :
       /\ Up(p)
       /\ Observes([NothingObserved EXCEPT !.version = procs[p].version])
  /\ UNCHANGED <<procs, manifest, steady, starts, reports>>

\* /v1/models lists the alias, or the model of a server that has none.
ObservedFromModels(argv) ==
  LET listed == ~argv.alias /\ argv.model = Profile.model
  IN  [NothingObserved EXCEPT
         !.served = argv.alias \/ listed,
         !.model  = IF listed THEN RedactPath(Profile.model) ELSE NoValue,
         !.length = IF argv.alias \/ listed THEN argv.length ELSE NoValue]

AskModels ==
  /\ At("models")
  /\ \E p \in Pids : Up(p) /\ Observes(ObservedFromModels(procs[p].argv))
  /\ UNCHANGED <<procs, manifest, steady, starts, reports>>

\* A question stays without answer.
AskInVain ==
  /\ At("version") \/ At("models")
  /\ Observes(NothingObserved)
  /\ steady' = NoValue
  /\ UNCHANGED <<procs, manifest, starts, reports>>

-----------------------------------------------------------------------------

\* Bound: what happens after the last report is of no interest.
MoreToSee == reports < MaxReports \/ report # NoReport

AttestNext ==
  \/ \E p \in Pids :
       /\ MoreToSee
       /\ \/ Launch(p) \/ OpensManifest(p) \/ WritesManifest(p) \/ Exec(p)
          \/ StartByHand(p) \/ StartOther(p) \/ Listens(p) \/ Exits(p)
  \/ ReportBegins \/ ReadManifest \/ ReadCmdline \/ AskVersion \/ AskModels \/ AskInVain

AttestSpec == AttestInit /\ [][AttestNext]_attestVars

-----------------------------------------------------------------------------
(* Properties.                                                             *)

\* Whether a server is as the profile wants it.
AsDesired(server, field) ==
  CASE field = "model"   -> server.argv.model = Profile.model
    [] field = "served"  -> server.argv.alias \/ server.argv.model = Profile.model
    [] field = "length"  -> server.argv.length = Profile.length
    [] field = "eager"   -> server.argv.eager = Profile.eager
    [] field = "tokens"  -> server.argv.tokens = Profile.tokens
    [] field = "seqs"    -> server.argv.seqs = Profile.seqs
    [] field = "version" -> server.version >= MinVersion
    [] field = "torch"   -> TRUE

\* What "verified" says of a server: it is as the profile wants it.  Of an option that
\* the profile leaves unset it says no more than that the server was given the option:
\* the code verifies any value of it.
Verified(server, field) ==
  IF Desired[field] # NoValue THEN AsDesired(server, field)
                              ELSE field \in OptionalFields => server.argv.seqs # NoValue

ReportEnds == report # NoReport /\ report' = NoReport

\* A report tells the truth: if one server was up and alone on the port for the whole
\* report, a field that the profile sets is called verified only if that server has
\* what the profile wants, one that it leaves unset only if the server has that option,
\* and a field is called mismatch only if the server has not what the profile wants,
\* whoever else had the pid of the manifest before ("use runtime manifest/process argv
\* only when the manifest PID is still active and the current process argv matches the
\* manifest argv", p0-002-runtime-attestation).  Two things are left out: the version
\* of /health, where the manifest overrides the server's own, and not_applicable, which
\* an option that is unset is called whenever it was not observed, so of a server whose
\* command line could not be read it says nothing.
StatusesAreTrue ==
  [][ReportEnds /\ steady # NoValue =>
       \A f \in IF report.kind = "health" THEN Fields \ {"version"} ELSE Fields :
         /\ statuses'[f] = "verified" => Verified(procs[steady], f)
         /\ statuses'[f] = "mismatch" => ~AsDesired(procs[steady], f)]_attestVars

\* What launch started is attested: if the manifest that was read is the one the
\* server was launched with, and its command line is still what launch passed, two
\* fields that only the command line shows are known, private paths or not: whether the
\* server is eager, and its speculative tokens if it was given a number of them.
LaunchedIsAttested ==
  [][/\ ReportEnds /\ steady # NoValue
     /\ report.written # NoManifest /\ report.written.start = procs[steady].start
     /\ procs[steady].argv.head = "vllm"
     => /\ statuses'["eager"] # "unknown"
        /\ procs[steady].argv.tokens # NoValue => statuses'["tokens"] # "unknown"]_attestVars
=============================================================================
