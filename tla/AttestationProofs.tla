------------------------- MODULE AttestationProofs --------------------------
(***************************************************************************)
(* Proofs about the attestation of the running server, for any processes,  *)
(* command lines, versions and profile, and any number of starts and       *)
(* reports.                                                                *)
(*                                                                         *)
(* AloneInv says that the server a report is measured against is the only  *)
(* one on the port; TrueInv that what the report has observed so far is    *)
(* that server's; StartsInv and OriginInv that a start number tells a      *)
(* process from any other and a manifest the process it was written for;   *)
(* KnownInv that a report that has read the command line of a launched     *)
(* server knows what only the command line shows.                          *)
(***************************************************************************)
EXTENDS Attestation, TLAPS

Written == [pid : Pids, argv : ArgvType, version : Versions, start : Nat, fingerprint : BOOLEAN]

Launchers ==
  [is : {"launcher"}, argv : {OtherArgv}, target : {a \in ArgvType : a.head = "vllm"},
   version : Versions, start : Nat, stage : {"begun", "opened", "written"}]

Servers ==
  [is : {"server"}, argv : ArgvType, version : Versions, start : Nat, listens : BOOLEAN]

Others == [is : {"other"}, argv : {OtherArgv}]

Processes == {NoProcess} \cup Launchers \cup Servers \cup Others

IsReport(r) ==
  /\ r = [kind |-> r.kind, step |-> r.step, written |-> r.written, observed |-> r.observed]
  /\ r.kind \in {"doctor", "health"} /\ r.step \in 1..4
  /\ r.written \in {NoManifest} \cup Written

TypeInv ==
  /\ procs \in [Pids -> Processes]
  /\ manifest \in {NoManifest} \cup Written
  /\ report # NoReport => IsReport(report)
  /\ steady \in Pids \cup {NoValue}
  /\ starts \in Nat

AloneInv == steady # NoValue => Up(steady) /\ \A p \in Pids : Serves(p) => p = steady

\* What an observation of a field shows of a server.
Shown(server, field) ==
  CASE field = "model"   -> RedactPath(server.argv.model)
    [] field = "served"  -> server.argv.alias \/ server.argv.model = Profile.model
    [] field = "length"  -> server.argv.length
    [] field = "eager"   -> server.argv.eager
    [] field = "tokens"  -> server.argv.tokens
    [] field = "seqs"    -> server.argv.seqs
    [] field = "version" -> server.version

\* The fields that every observation of the server shows alike.
Plain == {"model", "served", "length", "eager", "tokens", "seqs"}

\* The fields an observation may show before the report ends.
ShowsIt(server, observed, fields) ==
  \A f \in fields : observed[f] \in {NoValue, Shown(server, f)}

Reporting == report # NoReport /\ steady # NoValue

TrueInv ==
  Reporting =>
    /\ ShowsIt(procs[steady], report.observed, Plain)
    /\ report.kind = "doctor" /\ report.step > 3 =>
         ShowsIt(procs[steady], report.observed, {"version"})

\* Processes that have a start number.
Begun(process) == process.is \in {"launcher", "server"}

StartsInv ==
  /\ \A p \in Pids : Begun(procs[p]) => procs[p].start \in 1..starts
  /\ \A p, q \in Pids :
       Begun(procs[p]) /\ Begun(procs[q]) /\ procs[p].start = procs[q].start => p = q

\* Manifest m was written for what is process p now.
WrittenFor(m, p, process) ==
  /\ m.pid = p /\ m.fingerprint
  /\ process.is = "launcher" => m.argv = process.target
  /\ process.is = "server" /\ process.argv.head = "vllm" => m.argv = process.argv

Origin(m) ==
  m # NoManifest =>
    /\ m.start <= starts
    /\ \A p \in Pids : Begun(procs[p]) /\ procs[p].start = m.start => WrittenFor(m, p, procs[p])

OriginInv == Origin(manifest) /\ (report # NoReport => Origin(report.written))

\* The report has read the manifest of the steady server, which launch started.
OfLaunched ==
  /\ Reporting
  /\ report.written # NoManifest /\ report.written.start = procs[steady].start
  /\ procs[steady].argv.head = "vllm"

CmdlineRead == report.step > IF report.kind = "doctor" THEN 2 ELSE 3

KnownInv ==
  OfLaunched /\ CmdlineRead =>
    /\ report.observed["eager"] # NoValue
    /\ procs[steady].argv.tokens # NoValue => report.observed["tokens"] # NoValue

AttestInv == TypeInv /\ AloneInv /\ TrueInv /\ StartsInv /\ OriginInv /\ KnownInv
-----------------------------------------------------------------------------
(* Observations.                                                           *)

\* An observation of one field tells the truth of the server.
LEMMA StatusTells ==
  ASSUME NEW server \in Servers, NEW f \in Fields, NEW o,
         f # "torch" => o \in {NoValue, Shown(server, f)}
  PROVE  /\ FieldStatus(f, o) = "verified" => Verified(server, f)
         /\ FieldStatus(f, o) = "mismatch" => ~AsDesired(server, f)
<1>0. /\ server.argv \in ArgvType /\ server.version \in Nat /\ Profile \in ArgvType
      /\ MinVersion \in Nat /\ NoValue \notin Nat \cup BOOLEAN
  BY AttestationAssumption DEF Servers
<1>d. /\ Desired["model"] = RedactPath(Profile.model) /\ Desired["served"] = TRUE
      /\ Desired["length"] = Profile.length /\ Desired["eager"] = Profile.eager
      /\ Desired["tokens"] = Profile.tokens /\ Desired["version"] = MinVersion
      /\ Desired["torch"] = NoValue /\ Desired["seqs"] = Profile.seqs
  BY DEF Desired
<1>v. AsDesired(server, f) /\ f # "seqs" => Verified(server, f)
  BY DEF Verified, OptionalFields
<1>n. CASE o = NoValue
  <2>1. FieldStatus(f, o) \in {"not_applicable", "unknown"}
    BY <1>n DEF FieldStatus
  <2> QED BY <2>1
<1>1. CASE f = "model" /\ o # NoValue
  <2>1. o = RedactPath(server.argv.model)
    BY <1>1 DEF Shown
  <2>2. CASE Redacted \in {o, Desired["model"]}
    <3>1. FieldStatus(f, o) = "unknown"
      BY <1>1, <2>2 DEF FieldStatus
    <3> QED BY <3>1
  <2>3. CASE Redacted \notin {o, Desired["model"]}
    <3>1. FieldStatus(f, o) = IF o = Desired["model"] THEN "verified" ELSE "mismatch"
      BY <1>1, <2>3 DEF FieldStatus
    <3>2. o = server.argv.model /\ Desired["model"] = Profile.model
      BY <1>d, <2>1, <2>3 DEF RedactPath
    <3>3. AsDesired(server, f) <=> server.argv.model = Profile.model
      BY <1>1 DEF AsDesired
    <3> QED BY <1>1, <1>v, <3>1, <3>2, <3>3
  <2> QED BY <2>2, <2>3
<1>2. CASE f = "served" /\ o # NoValue
  <2>1. o = (server.argv.alias \/ server.argv.model = Profile.model)
    BY <1>2 DEF Shown
  <2>2. FieldStatus(f, o) = IF o = TRUE THEN "verified" ELSE "mismatch"
    BY <1>0, <1>2, <1>d DEF FieldStatus
  <2>3. AsDesired(server, f) <=> server.argv.alias \/ server.argv.model = Profile.model
    BY <1>2 DEF AsDesired
  <2> QED BY <1>v, <1>2, <2>1, <2>2, <2>3
<1>3. CASE f = "length" /\ o # NoValue
  <2>1. o = server.argv.length /\ Desired["length"] \in Nat
    BY <1>0, <1>3, <1>d DEF Shown, ArgvType
  <2>2. FieldStatus(f, o) = IF o = Profile.length THEN "verified" ELSE "mismatch"
    BY <1>0, <1>3, <1>d, <2>1 DEF FieldStatus
  <2> QED BY <1>v, <1>3, <2>1, <2>2 DEF AsDesired
<1>4. CASE f = "eager" /\ o # NoValue
  <2>1. o = server.argv.eager /\ Desired["eager"] \in BOOLEAN /\ Desired["eager"] = Profile.eager
    BY <1>0, <1>4, <1>d DEF Shown, ArgvType
  <2>2. Desired["eager"] # NoValue
    BY <1>0, <2>1
  <2>3. FieldStatus(f, o) = IF o = Desired["eager"] THEN "verified" ELSE "mismatch"
    BY <1>4, <2>2 DEF FieldStatus
  <2>4. AsDesired(server, f) <=> server.argv.eager = Profile.eager
    BY <1>4 DEF AsDesired
  <2> QED BY <1>v, <1>4, <2>1, <2>3, <2>4
<1>5. CASE f = "tokens" /\ o # NoValue
  <2>1. o = server.argv.tokens
    BY <1>5 DEF Shown
  <2>2. FieldStatus(f, o) = IF o = Profile.tokens THEN "verified" ELSE "mismatch"
    BY <1>5, <1>d, ProfileAssumption DEF FieldStatus
  <2> QED BY <1>v, <1>5, <2>1, <2>2 DEF AsDesired
<1>6. CASE f = "version" /\ o # NoValue
  <2>1. o = server.version
    BY <1>6 DEF Shown
  <2>2. FieldStatus(f, o) = IF o >= MinVersion THEN "verified" ELSE "mismatch"
    BY <1>6, <1>d DEF FieldStatus
  <2> QED BY <1>v, <1>6, <2>1, <2>2 DEF AsDesired
<1>7. CASE f = "torch" /\ o # NoValue
  <2>1. FieldStatus(f, o) = "verified"
    BY <1>7, <1>d DEF FieldStatus
  <2> QED BY <1>v, <1>7, <2>1 DEF AsDesired
<1>8. CASE f = "seqs" /\ o # NoValue
  <2>1. o = server.argv.seqs
    BY <1>8 DEF Shown
  <2>2. CASE Profile.seqs = NoValue
    <3>1. FieldStatus(f, o) = "verified"
      BY <1>8, <1>d, <2>2 DEF FieldStatus
    <3>2. Verified(server, f)
      BY <1>8, <1>d, <2>1, <2>2 DEF Verified, OptionalFields
    <3> QED BY <3>1, <3>2
  <2>3. CASE Profile.seqs # NoValue
    <3>1. FieldStatus(f, o) = IF o = Profile.seqs THEN "verified" ELSE "mismatch"
      BY <1>8, <1>d, <2>3 DEF FieldStatus
    <3>2. /\ Verified(server, f) <=> AsDesired(server, f)
          /\ AsDesired(server, f) <=> server.argv.seqs = Profile.seqs
      BY <1>8, <1>d, <2>3 DEF Verified, AsDesired
    <3> QED BY <2>1, <3>1, <3>2
  <2> QED BY <2>2, <2>3
<1> QED BY <1>n, <1>1, <1>2, <1>3, <1>4, <1>5, <1>6, <1>7, <1>8 DEF Fields

\* A field that was observed is called something.
LEMMA StatusKnown ==
  ASSUME NEW f \in {"eager", "tokens"}, NEW o, o # NoValue
  PROVE  FieldStatus(f, o) # "unknown"
<1>1. FieldStatus(f, o) = IF Desired[f] = NoValue THEN "verified"
                          ELSE IF o = Desired[f] THEN "verified" ELSE "mismatch"
  BY DEF FieldStatus
<1> QED BY <1>1

LEMMA MergeTakes ==
  ASSUME NEW observed, NEW later, NEW f \in Fields
  PROVE  Merge(observed, later)[f] = IF later[f] = NoValue THEN observed[f] ELSE later[f]
BY DEF Merge

\* What is merged of the truth is the truth.
LEMMA MergeShows ==
  ASSUME NEW server, NEW observed, NEW later, NEW fields \in SUBSET Fields,
         ShowsIt(server, observed, fields), ShowsIt(server, later, fields)
  PROVE  ShowsIt(server, Merge(observed, later), fields)
BY MergeTakes DEF ShowsIt

LEMMA NothingShows ==
  ASSUME NEW server, NEW fields \in SUBSET Fields
  PROVE  ShowsIt(server, NothingObserved, fields)
BY DEF ShowsIt, NothingObserved

\* The command line of a server shows the server, and shows what only it can show.
LEMMA ArgvShows ==
  ASSUME NEW server \in Servers, NEW version
  PROVE  LET observed == [ObservedFromArgv(server.argv) EXCEPT !.version = version,
                                                               !.torch = version]
         IN  /\ ShowsIt(server, observed, Plain)
             /\ observed["eager"] = server.argv.eager /\ observed["tokens"] = server.argv.tokens
<1> DEFINE observed == [ObservedFromArgv(server.argv) EXCEPT !.version = version,
                                                             !.torch = version]
<1>1. /\ observed["model"] = RedactPath(server.argv.model) /\ observed["served"] = NoValue
      /\ observed["length"] = server.argv.length /\ observed["eager"] = server.argv.eager
      /\ observed["tokens"] = server.argv.tokens /\ observed["seqs"] = server.argv.seqs
  BY DEF ObservedFromArgv, NothingObserved, Fields
<1> HIDE DEF observed
<1>2. \A f \in Plain : observed[f] \in {NoValue, Shown(server, f)}
  BY <1>1 DEF Shown, Plain
<1> QED BY <1>1, <1>2 DEF observed, ShowsIt

LEMMA ModelsShow ==
  ASSUME NEW server \in Servers
  PROVE  /\ ShowsIt(server, ObservedFromModels(server.argv), Plain)
         /\ ObservedFromModels(server.argv)["version"] = NoValue
<1> DEFINE listed == ~server.argv.alias /\ server.argv.model = Profile.model
           observed == ObservedFromModels(server.argv)
<1>0. server.argv \in ArgvType /\ server.argv.alias \in BOOLEAN
  BY DEF Servers, ArgvType
<1>1. /\ observed["model"] = IF listed THEN RedactPath(Profile.model) ELSE NoValue
      /\ observed["served"] = (server.argv.alias \/ listed)
      /\ observed["length"] = IF server.argv.alias \/ listed THEN server.argv.length ELSE NoValue
      /\ observed["eager"] = NoValue /\ observed["tokens"] = NoValue
      /\ observed["seqs"] = NoValue
      /\ observed["version"] = NoValue
  BY DEF ObservedFromModels, NothingObserved, Fields
<1> HIDE DEF observed
<1>2. (server.argv.alias \/ listed) = (server.argv.alias \/ server.argv.model = Profile.model)
  BY <1>0
<1>3. ASSUME NEW f \in Plain PROVE observed[f] \in {NoValue, Shown(server, f)}
  <2>1. CASE f = "model"
    BY <1>1, <2>1 DEF Shown
  <2>2. CASE f = "served"
    <3>1. Shown(server, "served") = (server.argv.alias \/ server.argv.model = Profile.model)
      BY DEF Shown
    <3>2. observed["served"] = Shown(server, "served")
      BY <1>1, <1>2, <3>1, Zenon
    <3> QED BY <2>2, <3>2
  <2>3. CASE f \in {"length", "eager", "tokens", "seqs"}
    BY <1>1, <2>3 DEF Shown
  <2> QED BY <2>1, <2>2, <2>3 DEF Plain
<1> QED BY <1>1, <1>3 DEF observed, ShowsIt

\* Only the command line of a server can be that of a manifest.
LEMMA OthersNeverMatch ==
  ASSUME NEW m \in Written
  PROVE  ~ArgvMatchesManifest(m, OtherArgv)
<1>1. m.argv \in ArgvType /\ m.argv.length # NoValue
  BY AttestationAssumption DEF Written, ArgvType
<1>2. m.argv # OtherArgv
  <2>1. OtherArgv.length = NoValue
    BY DEF OtherArgv
  <2> QED BY <1>1, <2>1
<1>3. [m.argv EXCEPT !.head = "", !.model = RedactPath(@)].length = m.argv.length
  BY <1>1 DEF ArgvType
<1>4. [OtherArgv EXCEPT !.head = "", !.model = RedactPath(@)].length = NoValue
  BY DEF OtherArgv
<1> QED BY <1>1, <1>2, <1>3, <1>4 DEF ArgvMatchesManifest
-----------------------------------------------------------------------------
(* Processes.                                                              *)

\* What there is to know of a process by its kind.
LEMMA Kinds ==
  ASSUME TypeInv, NEW p \in Pids
  PROVE  /\ procs[p] \in Processes
         /\ procs[p].is = "server" => procs[p] \in Servers
         /\ procs[p].is = "launcher" => procs[p] \in Launchers
         /\ procs[p].is \notin {"server", "launcher"} /\ procs[p] # NoProcess =>
              procs[p].argv = OtherArgv
         /\ procs[p].is = "launcher" => procs[p].argv = OtherArgv
         /\ procs[p] = NoProcess => procs[p].is = "none"
<1>1. procs[p] \in Processes
  BY DEF TypeInv
<1> QED BY <1>1 DEF Processes, Launchers, Servers, Others, NoProcess

\* One process is replaced.
LEMMA Replaced ==
  ASSUME TypeInv, NEW p \in Pids, NEW new \in Processes, procs' = [procs EXCEPT ![p] = new]
  PROVE  /\ procs' \in [Pids -> Processes] /\ procs'[p] = new
         /\ \A q \in Pids : q # p => procs'[q] = procs[q]
BY DEF TypeInv

\* A process that is replaced by one with a number of its own, or by its own successor,
\* leaves the numbers and what was written for them as they are.
LEMMA StartsKept ==
  ASSUME TypeInv, StartsInv, NEW p \in Pids, NEW new \in Processes,
         procs' = [procs EXCEPT ![p] = new], starts' \in {starts, starts + 1},
         Begun(new) => \/ new.start = starts + 1 /\ starts' = starts + 1
                       \/ /\ Begun(procs[p]) /\ new.start = procs[p].start
                          /\ \A m \in Written : WrittenFor(m, p, procs[p]) => WrittenFor(m, p, new)
  PROVE  /\ StartsInv'
         /\ \A m \in {NoManifest} \cup Written : Origin(m) => Origin(m)'
<1>1. /\ procs'[p] = new /\ \A q \in Pids : q # p => procs'[q] = procs[q]
      /\ starts \in Nat
  BY Replaced DEF TypeInv
<1>2. \A q \in Pids : Begun(procs[q]) => procs[q].start \in 1..starts
  BY DEF StartsInv
<1>3. \A q, r \in Pids :
        Begun(procs[q]) /\ Begun(procs[r]) /\ procs[q].start = procs[r].start => q = r
  BY DEF StartsInv
<1>4. ASSUME NEW q \in Pids, Begun(procs'[q]) PROVE procs'[q].start \in 1..starts'
  BY <1>1, <1>2, <1>4
<1>5. ASSUME NEW q \in Pids, NEW r \in Pids, Begun(procs'[q]), Begun(procs'[r]),
             procs'[q].start = procs'[r].start, q # r
      PROVE  FALSE
  <2>1. CASE q = p
    BY <1>1, <1>2, <1>3, <1>5, <2>1
  <2>2. CASE r = p
    BY <1>1, <1>2, <1>3, <1>5, <2>2
  <2>3. CASE q # p /\ r # p
    BY <1>1, <1>3, <1>5, <2>3
  <2> QED BY <2>1, <2>2, <2>3
<1>6. ASSUME NEW m \in {NoManifest} \cup Written, Origin(m), m # NoManifest
      PROVE  /\ m.start <= starts'
             /\ \A q \in Pids : Begun(procs'[q]) /\ procs'[q].start = m.start =>
                                WrittenFor(m, q, procs'[q])
  <2>0. m \in Written /\ m.start \in Nat /\ m.start <= starts
    BY <1>6 DEF Origin, Written
  <2>1. m.start <= starts'
    BY <1>1, <2>0
  <2>2. ASSUME NEW q \in Pids, Begun(procs'[q]), procs'[q].start = m.start
        PROVE  WrittenFor(m, q, procs'[q])
    <3>1. CASE q # p
      BY <1>1, <1>6, <2>2, <3>1 DEF Origin
    <3>2. CASE q = p
      <4>1. new.start = m.start /\ Begun(new)
        BY <1>1, <2>2, <3>2
      <4>2. new.start # starts + 1
        BY <1>1, <2>0, <4>1
      <4>3. /\ Begun(procs[p]) /\ procs[p].start = m.start
            /\ WrittenFor(m, p, procs[p]) => WrittenFor(m, p, new)
        BY <2>0, <4>1, <4>2
      <4>4. WrittenFor(m, p, procs[p])
        BY <1>6, <4>3 DEF Origin
      <4> QED BY <1>1, <3>2, <4>3, <4>4
    <3> QED BY <3>1, <3>2
  <2> QED BY <2>1, <2>2
<1>7. StartsInv'
  BY <1>4, <1>5 DEF StartsInv
<1>8. ASSUME NEW m \in {NoManifest} \cup Written, Origin(m) PROVE Origin(m)'
  BY <1>6, <1>8 DEF Origin
<1> QED BY <1>7, <1>8

\* A step of a process that is not the steady server, and puts no other on the port,
\* leaves what a report has observed true.
LEMMA SteadyKept ==
  ASSUME TypeInv, AloneInv, TrueInv, KnownInv, NEW p \in Pids, NEW new \in Processes,
         procs' = [procs EXCEPT ![p] = new], report' = report, steady' \in {NoValue, steady},
         steady' # NoValue =>
           p # steady /\ (new.is = "server" /\ new.argv.port = Profile.port => Serves(p))
  PROVE  AloneInv' /\ TrueInv' /\ KnownInv'
<1>1. CASE steady' = NoValue
  BY <1>1 DEF AloneInv, TrueInv, KnownInv, OfLaunched, Reporting
<1>2. CASE steady' # NoValue
  <2>1. /\ steady' = steady /\ steady # NoValue /\ steady \in Pids
        /\ procs'[steady] = procs[steady] /\ procs'[p] = new
        /\ \A q \in Pids : q # p => procs'[q] = procs[q]
    BY <1>2, Replaced DEF TypeInv
  <2>2. Up(steady) /\ \A q \in Pids : Serves(q) => q = steady
    BY <2>1 DEF AloneInv
  <2>3. \A q \in Pids : Serves(q)' => Serves(q)
    BY <1>2, <2>1 DEF Serves
  <2>4. AloneInv'
    <3>1. Up(steady)'
      BY <2>1, <2>2 DEF Up, Serves
    <3>2. \A q \in Pids : Serves(q)' => q = steady'
      BY <2>1, <2>2, <2>3
    <3> QED BY <3>1, <3>2 DEF AloneInv
  <2>5. TrueInv'
    BY <2>1 DEF TrueInv, Reporting
  <2>6. KnownInv'
    BY <2>1 DEF KnownInv, OfLaunched, Reporting, CmdlineRead
  <2> QED BY <2>4, <2>5, <2>6
<1> QED BY <1>1, <1>2

\* Both together: a step of one process.
LEMMA ProcessStep ==
  ASSUME AttestInv, NEW p \in Pids, NEW new \in Processes,
         procs' = [procs EXCEPT ![p] = new], report' = report,
         starts' \in {starts, starts + 1},
         Begun(new) => \/ new.start = starts + 1 /\ starts' = starts + 1
                       \/ /\ Begun(procs[p]) /\ new.start = procs[p].start
                          /\ \A m \in Written : WrittenFor(m, p, procs[p]) => WrittenFor(m, p, new),
         steady' \in {NoValue, steady},
         steady' # NoValue =>
           p # steady /\ (new.is = "server" /\ new.argv.port = Profile.port => Serves(p)),
         manifest' # manifest => manifest' \in {NoManifest} \cup Written /\ Origin(manifest)'
  PROVE  AttestInv'
<1> USE DEF AttestInv
<1>1. TypeInv'
  <2>1. procs' \in [Pids -> Processes]
    BY Replaced
  <2> QED BY <2>1 DEF TypeInv
<1>2. /\ StartsInv'
      /\ \A m \in {NoManifest} \cup Written : Origin(m) => Origin(m)'
  BY StartsKept
<1>3. AloneInv' /\ TrueInv' /\ KnownInv'
  BY SteadyKept
<1>4. Origin(manifest)'
  <2>1. CASE manifest' = manifest
    <3>1. Origin(manifest) /\ manifest \in {NoManifest} \cup Written
      BY DEF OriginInv, TypeInv
    <3> QED BY <1>2, <2>1, <3>1 DEF Origin
  <2>2. CASE manifest' # manifest
    BY <2>2
  <2> QED BY <2>1, <2>2
<1>5. report' # NoReport => Origin(report.written)'
  <2> SUFFICES ASSUME report' # NoReport PROVE Origin(report.written)'
    OBVIOUS
  <2>1. Origin(report.written) /\ report.written \in {NoManifest} \cup Written
    BY DEF OriginInv, TypeInv, IsReport
  <2> QED BY <1>2, <2>1 DEF Origin
<1> QED BY <1>1, <1>2, <1>3, <1>4, <1>5 DEF OriginInv
LEMMA BecomesStep ==
  ASSUME AttestInv, NEW p \in Pids, NEW new \in Processes, Becomes(p, new),
         UNCHANGED <<report, manifest>>, starts' \in {starts, starts + 1},
         Begun(new) => \/ new.start = starts + 1 /\ starts' = starts + 1
                       \/ /\ Begun(procs[p]) /\ new.start = procs[p].start
                          /\ \A m \in Written : WrittenFor(m, p, procs[p]) => WrittenFor(m, p, new)
  PROVE  AttestInv'
<1>1. /\ procs' = [procs EXCEPT ![p] = new]
      /\ steady' = IF \/ steady = p
                      \/ new.is = "server" /\ new.argv.port = Profile.port
                     THEN NoValue ELSE steady
  BY DEF Becomes
<1>2. /\ steady' \in {NoValue, steady}
      /\ steady' # NoValue =>
           p # steady /\ (new.is = "server" /\ new.argv.port = Profile.port => Serves(p))
  BY <1>1
<1> QED BY <1>1, <1>2, ProcessStep

\* A process with a new start number.
LEMMA StartStep ==
  ASSUME AttestInv, NEW p \in Pids, NEW new \in Processes, Starts(p, new),
         UNCHANGED <<report, manifest>>, Begun(new) => new.start = starts + 1
  PROVE  AttestInv'
BY BecomesStep DEF Starts

LEMMA ProcessesStep ==
  ASSUME AttestInv, NEW p \in Pids,
         \/ Launch(p) \/ OpensManifest(p) \/ WritesManifest(p) \/ Exec(p)
         \/ StartByHand(p) \/ StartOther(p) \/ Listens(p) \/ Exits(p)
  PROVE  AttestInv'
<1> USE DEF AttestInv
<1>0. /\ starts \in Nat /\ steady \in Pids \cup {NoValue} /\ procs \in [Pids -> Processes]
      /\ Argvs \subseteq ArgvType
  BY AttestationAssumption DEF TypeInv
<1>p. /\ procs[p] \in Processes
      /\ procs[p].is = "server" => procs[p] \in Servers
      /\ procs[p].is = "launcher" => procs[p] \in Launchers
  BY Kinds
<1>s. steady # NoValue => procs[steady].is = "server" /\ procs[steady].listens
  BY DEF AloneInv, Up, Serves
<1>1. CASE Launch(p)
  <2>1. PICK argv \in Argvs, version \in Versions :
          /\ argv.alias /\ argv.head = "vllm"
          /\ Starts(p, [is |-> "launcher", argv |-> OtherArgv, target |-> argv,
                        version |-> version, start |-> starts + 1, stage |-> "begun"])
    BY <1>1 DEF Launch
  <2> DEFINE new == [is |-> "launcher", argv |-> OtherArgv, target |-> argv,
                     version |-> version, start |-> starts + 1, stage |-> "begun"]
  <2>2. new \in Processes /\ new.start = starts + 1
    <3>1. argv \in {a \in ArgvType : a.head = "vllm"}
      BY <1>0, <2>1
    <3>2. new \in Launchers
      BY <1>0, <3>1 DEF Launchers
    <3> QED BY <3>2 DEF Processes
  <2>3. Starts(p, new)
    BY <2>1
  <2> HIDE DEF new
  <2> QED BY <1>1, <2>2, <2>3, StartStep DEF Launch
<1>2. ASSUME NEW stage \in {"opened", "written"}, procs[p].is = "launcher",
             procs' = [procs EXCEPT ![p].stage = stage], UNCHANGED <<report, steady, starts>>,
             manifest' # manifest => manifest' \in {NoManifest} \cup Written /\ Origin(manifest)'
      PROVE  AttestInv'
  <2> DEFINE new == [procs[p] EXCEPT !.stage = stage]
  <2>1. /\ new \in Launchers /\ new.is = "launcher" /\ new.start = procs[p].start
        /\ new.target = procs[p].target
    BY <1>2, <1>p DEF Launchers
  <2>2. procs' = [procs EXCEPT ![p] = new]
    BY <1>0, <1>2
  <2> HIDE DEF new
  <2>3. \A m \in Written : WrittenFor(m, p, procs[p]) => WrittenFor(m, p, new)
    BY <1>2, <2>1 DEF WrittenFor
  <2>4. p # steady \/ steady = NoValue
    BY <1>2, <1>s
  <2>5. new \in Processes /\ Begun(procs[p])
    BY <1>2, <2>1 DEF Processes, Begun
  <2> QED BY <1>2, <2>1, <2>2, <2>3, <2>4, <2>5, ProcessStep
<1>3. CASE OpensManifest(p)
  <2>1. Origin(NoManifest)'
    BY DEF Origin
  <2>2. manifest' = NoManifest
    BY <1>3 DEF OpensManifest
  <2>3. Origin(manifest)'
    BY <2>2 DEF Origin
  <2> QED BY <1>2, <1>3, <2>2, <2>3 DEF OpensManifest
<1>4. CASE WritesManifest(p)
  <2> DEFINE m == [pid |-> p, argv |-> procs[p].target, version |-> procs[p].version,
                   start |-> procs[p].start, fingerprint |-> TRUE]
  <2>0. procs[p].is = "launcher" /\ procs[p] \in Launchers
    BY <1>4, <1>p DEF WritesManifest
  <2>1. m \in Written /\ m.start = procs[p].start /\ m.pid = p /\ m.fingerprint
        /\ m.argv = procs[p].target
    BY <2>0 DEF Written, Launchers
  <2>2. manifest' \in {NoManifest, m}
    BY <1>4 DEF WritesManifest
  <2> HIDE DEF m
  <2>3. procs' = [procs EXCEPT ![p].stage = "written"] /\ UNCHANGED <<report, steady, starts>>
    BY <1>4 DEF WritesManifest
  <2>4. /\ procs'[p] = [procs[p] EXCEPT !.stage = "written"]
        /\ \A q \in Pids : q # p => procs'[q] = procs[q]
    BY <1>0, <2>3
  <2>5. /\ procs'[p].is = "launcher" /\ procs'[p].start = procs[p].start
        /\ procs'[p].target = procs[p].target
    BY <2>0, <2>4 DEF Launchers
  <2>6. CASE manifest' = m
    <3>1. m.start <= starts'
      BY <2>0, <2>1, <2>3 DEF StartsInv, Begun
    <3>2. ASSUME NEW q \in Pids, Begun(procs'[q]), procs'[q].start = m.start
          PROVE  WrittenFor(m, q, procs'[q])
      <4>1. q = p
        BY <2>0, <2>1, <2>4, <3>2 DEF StartsInv, Begun
      <4> QED BY <2>1, <2>5, <4>1 DEF WrittenFor
    <3>3. Origin(manifest)'
      BY <2>6, <3>1, <3>2 DEF Origin
    <3> QED BY <1>2, <2>0, <2>1, <2>3, <2>6, <3>3
  <2>7. CASE manifest' = NoManifest
    <3>1. Origin(manifest)'
      BY <2>7 DEF Origin
    <3> QED BY <1>2, <2>0, <2>3, <2>7, <3>1
  <2> QED BY <2>2, <2>6, <2>7
<1>5. CASE Exec(p)
  <2>1. PICK head \in {"vllm", "interpreter"}, version \in Versions :
          Becomes(p, Server([procs[p].target EXCEPT !.head = head], version, procs[p].start))
    BY <1>5 DEF Exec
  <2>0. procs[p].is = "launcher" /\ procs[p] \in Launchers
    BY <1>5, <1>p DEF Exec
  <2> DEFINE argv == [procs[p].target EXCEPT !.head = head]
             new == Server(argv, version, procs[p].start)
  <2>2. /\ argv \in ArgvType /\ argv.head = head
        /\ head = "vllm" => argv = procs[p].target
    BY <2>0 DEF Launchers, ArgvType
  <2>b. Becomes(p, new)
    BY <2>1
  <2> HIDE DEF argv
  <2>3. /\ new \in Servers /\ new.is = "server" /\ new.start = procs[p].start
        /\ new.argv = argv
    BY <2>0, <2>2 DEF Server, Servers, Launchers
  <2> HIDE DEF new
  <2>4. \A m \in Written : WrittenFor(m, p, procs[p]) => WrittenFor(m, p, new)
    BY <2>0, <2>2, <2>3 DEF WrittenFor
  <2>5. new \in Processes /\ Begun(procs[p])
    BY <2>0, <2>3 DEF Processes, Begun
  <2> QED BY <1>5, <2>b, <2>3, <2>4, <2>5, BecomesStep DEF Exec
<1>6. CASE StartByHand(p)
  <2>1. PICK argv \in Argvs, version \in Versions :
          Starts(p, Server(argv, version, starts + 1))
    BY <1>6 DEF StartByHand
  <2> DEFINE new == Server(argv, version, starts + 1)
  <2>2. new \in Servers /\ new.start = starts + 1
    BY <1>0 DEF Server, Servers
  <2>3. Starts(p, new)
    BY <2>1
  <2> HIDE DEF new
  <2>4. new \in Processes
    BY <2>2 DEF Processes
  <2> QED BY <1>6, <2>2, <2>3, <2>4, StartStep DEF StartByHand
<1>7. CASE StartOther(p)
  <2> DEFINE new == [is |-> "other", argv |-> OtherArgv]
  <2>1. new \in Processes /\ new.is = "other"
    BY DEF Processes, Others
  <2>2. Starts(p, new) /\ UNCHANGED <<report, manifest>>
    BY <1>7 DEF StartOther
  <2> HIDE DEF new
  <2>3. ~Begun(new)
    BY <2>1 DEF Begun
  <2> QED BY <2>1, <2>2, <2>3, StartStep
<1>8. CASE Listens(p)
  <2> DEFINE new == [procs[p] EXCEPT !.listens = TRUE]
  <2>0. procs[p].is = "server" /\ procs[p] \in Servers /\ ~procs[p].listens
    BY <1>8, <1>p DEF Listens
  <2>1. /\ new \in Servers /\ new.is = "server" /\ new.start = procs[p].start
        /\ new.argv = procs[p].argv
    BY <2>0 DEF Servers
  <2>2. procs' = [procs EXCEPT ![p] = new] /\ UNCHANGED <<manifest, report, steady, starts>>
    BY <1>0, <1>8 DEF Listens
  <2> HIDE DEF new
  <2>3. \A m \in Written : WrittenFor(m, p, procs[p]) => WrittenFor(m, p, new)
    BY <2>0, <2>1 DEF WrittenFor
  <2>4. steady # NoValue =>
          p # steady /\ (new.is = "server" /\ new.argv.port = Profile.port => Serves(p))
    BY <1>s, <2>0, <2>1 DEF Serves
  <2>5. new \in Processes /\ Begun(procs[p])
    BY <2>0, <2>1 DEF Processes, Begun
  <2> QED BY <2>1, <2>2, <2>3, <2>4, <2>5, ProcessStep
<1>9. CASE Exits(p)
  <2>1. NoProcess \in Processes /\ ~Begun(NoProcess)
    BY DEF Processes, NoProcess, Begun
  <2>2. Becomes(p, NoProcess) /\ UNCHANGED <<manifest, report, starts>>
    BY <1>9 DEF Exits
  <2> QED BY <2>1, <2>2, BecomesStep
<1> QED BY <1>1, <1>3, <1>4, <1>5, <1>6, <1>7, <1>8, <1>9
-----------------------------------------------------------------------------
(* Reports.                                                                *)

\* Where a report asks what.
LEMMA Order ==
  ASSUME TypeInv, report # NoReport
  PROVE  /\ At("manifest") => report.step = IF report.kind = "doctor" THEN 1 ELSE 2
         /\ At("cmdline") => report.step = IF report.kind = "doctor" THEN 2 ELSE 3
         /\ At("version") => report.step = IF report.kind = "doctor" THEN 3 ELSE 1
         /\ At("models") => report.step = 4
<1>0. report.kind \in {"doctor", "health"} /\ report.step \in 1..4
  BY DEF TypeInv, IsReport
<1>d. report.kind = "doctor" =>
        StepsOf(report.kind) = <<"manifest", "cmdline", "version", "models">>
  BY DEF StepsOf
<1>h. report.kind = "health" =>
        StepsOf(report.kind) = <<"version", "manifest", "cmdline", "models">>
  BY <1>0 DEF StepsOf
<1>1. CASE report.kind = "doctor"
  <2>1. /\ StepsOf(report.kind)[1] = "manifest" /\ StepsOf(report.kind)[2] = "cmdline"
        /\ StepsOf(report.kind)[3] = "version" /\ StepsOf(report.kind)[4] = "models"
    BY <1>1, <1>d
  <2> QED BY <1>0, <1>1, <2>1 DEF At
<1>2. CASE report.kind = "health"
  <2>1. /\ StepsOf(report.kind)[1] = "version" /\ StepsOf(report.kind)[2] = "manifest"
        /\ StepsOf(report.kind)[3] = "cmdline" /\ StepsOf(report.kind)[4] = "models"
    BY <1>2, <1>h
  <2> QED BY <1>0, <1>2, <2>1 DEF At
<1> QED BY <1>0, <1>1, <1>2

\* What a step of a report makes of its fields.
LEMMA ObservesFields ==
  ASSUME TypeInv, report # NoReport, NEW later, Observes(later)
  PROVE  /\ report.step < 4 =>
              /\ report' # NoReport /\ IsReport(report')
              /\ report'.kind = report.kind /\ report'.step = report.step + 1
              /\ report'.written = report.written
              /\ report'.observed = Merge(report.observed, later)
         /\ ~(report.step < 4) =>
              /\ report' = NoReport
              /\ \A f \in Fields : statuses'[f] = FieldStatus(f, Merge(report.observed, later)[f])
<1> DEFINE merged == Merge(report.observed, later)
<1>0. /\ report = [kind |-> report.kind, step |-> report.step, written |-> report.written,
                   observed |-> report.observed]
      /\ report.kind \in {"doctor", "health"} /\ report.step \in 1..4
      /\ report.written \in {NoManifest} \cup Written
  BY DEF TypeInv, IsReport
<1> HIDE DEF merged
<1>1. CASE report.step < 4
  <2>1. report' = [report EXCEPT !.step = report.step + 1, !.observed = merged]
    BY <1>1 DEF Observes, merged
  <2>2. report' = [kind |-> report.kind, step |-> report.step + 1, written |-> report.written,
                   observed |-> merged]
    BY <1>0, <2>1
  <2>3. /\ report'.kind = report.kind /\ report'.step = report.step + 1
        /\ report'.written = report.written /\ report'.observed = merged
    BY <2>2
  <2>4. IsReport(report')
    BY <1>0, <1>1, <2>2, <2>3 DEF IsReport
  <2>5. report' # NoReport
    BY <1>0, <2>3 DEF NoReport
  <2> QED BY <1>1, <2>3, <2>4, <2>5 DEF merged
<1>2. CASE ~(report.step < 4)
  BY <1>2 DEF Observes, merged
<1> QED BY <1>1, <1>2

\* The answer of whatever is up shows the steady server.
LEMMA UpIsSteady ==
  ASSUME TypeInv, AloneInv, steady # NoValue, NEW p \in Pids, Up(p)
  PROVE  p = steady /\ procs[steady] \in Servers
BY Kinds DEF Up, AloneInv, Serves

\* The process with the pid of the manifest shows the steady server, or nothing.
LEMMA EvidenceShows ==
  ASSUME TypeInv, AloneInv, steady # NoValue, NEW m \in Written,
         NEW argv, argv = IF procs[m.pid] = NoProcess THEN NoValue ELSE procs[m.pid].argv
  PROVE  /\ ShowsIt(procs[steady], ObservedFromEvidence(m, argv), Plain)
         /\ /\ m.pid = steady /\ m.fingerprint /\ m.argv = procs[steady].argv
            => LET observed == ObservedFromEvidence(m, argv)
               IN  /\ observed["eager"] # NoValue
                   /\ procs[steady].argv.tokens # NoValue => observed["tokens"] # NoValue
<1>0. m.pid \in Pids /\ steady \in Pids
  BY DEF Written, TypeInv
<1>s. /\ procs[steady] \in Servers /\ Serves(steady)
      /\ \A p \in Pids : Serves(p) => p = steady
  BY <1>0, UpIsSteady DEF AloneInv, Up
<1> DEFINE matches == argv # NoValue /\ argv.port = Profile.port /\ ArgvMatchesManifest(m, argv)
           shown == [ObservedFromArgv(argv) EXCEPT !.version = m.version, !.torch = m.version]
           observed == ObservedFromEvidence(m, argv)
<1>1. observed = IF matches THEN shown ELSE NothingObserved
  BY DEF ObservedFromEvidence
<1>2. ASSUME matches PROVE m.pid = steady
  <2>1. procs[m.pid] # NoProcess /\ argv = procs[m.pid].argv
    BY <1>2
  <2>2. procs[m.pid].is = "server"
    <3> SUFFICES ASSUME procs[m.pid].is # "server" PROVE FALSE
      OBVIOUS
    <3>1. argv = OtherArgv
      BY <1>0, <2>1, Kinds
    <3> QED BY <1>2, <3>1, OthersNeverMatch
  <2>3. Serves(m.pid)
    BY <1>2, <2>1, <2>2 DEF Serves
  <2> QED BY <1>0, <1>s, <2>3
<1>3. CASE matches
  <2>1. argv = procs[steady].argv
    BY <1>2, <1>3
  <2>2. /\ ShowsIt(procs[steady], shown, Plain)
        /\ shown["eager"] = procs[steady].argv.eager
        /\ shown["tokens"] = procs[steady].argv.tokens
    BY <1>s, <2>1, ArgvShows, ZenonT(30)
  <2>3. procs[steady].argv.eager # NoValue
    BY <1>s, AttestationAssumption DEF Servers, ArgvType
  <2> HIDE DEF shown, matches
  <2> QED BY <1>1, <1>3, <2>2, <2>3
<1>4. CASE ~matches
  <2>1. ShowsIt(procs[steady], observed, Plain)
    BY <1>1, <1>4, NothingShows DEF Plain, Fields
  <2>2. ~(m.pid = steady /\ m.fingerprint /\ m.argv = procs[steady].argv)
    <3> SUFFICES ASSUME m.pid = steady, m.fingerprint, m.argv = procs[steady].argv
                 PROVE  matches
      BY <1>4
    <3>1. procs[steady].is = "server" /\ procs[steady].argv.port = Profile.port
      BY <1>s DEF Serves
    <3>2. procs[steady] # NoProcess
      BY <3>1 DEF NoProcess
    <3>3. argv = procs[steady].argv
      BY <3>2
    <3>4. argv # NoValue
      BY <1>s, <3>3, AttestationAssumption DEF Servers
    <3> QED BY <3>1, <3>3, <3>4 DEF ArgvMatchesManifest
  <2> QED BY <2>1, <2>2
<1> QED BY <1>3, <1>4
\* A step of a report that shows the steady server leaves what was observed true.
LEMMA ObservesStep ==
  ASSUME AttestInv, report # NoReport, NEW later, Observes(later),
         UNCHANGED <<procs, manifest, starts>>, steady' \in {NoValue, steady},
         steady' # NoValue =>
           /\ ShowsIt(procs[steady], later, Plain)
           /\ report.kind = "doctor" /\ report.step = 3 =>
                later["version"] # NoValue /\ ShowsIt(procs[steady], later, {"version"})
           /\ OfLaunched /\ ~CmdlineRead /\ report.step < 4 /\ CmdlineRead' =>
                /\ later["eager"] # NoValue
                /\ procs[steady].argv.tokens # NoValue => later["tokens"] # NoValue
  PROVE  AttestInv'
<1> USE DEF AttestInv
<1>0. /\ "version" \in Fields /\ "eager" \in Fields /\ "tokens" \in Fields
      /\ Plain \in SUBSET Fields /\ {"version"} \in SUBSET Fields
  BY DEF Fields, Plain
<1>k. report.kind \in {"doctor", "health"} /\ report.step \in 1..4
  BY DEF TypeInv, IsReport
<1>1. CASE report.step < 4
  <2>1. /\ report' # NoReport /\ IsReport(report')
        /\ report'.kind = report.kind /\ report'.step = report.step + 1
        /\ report'.written = report.written
        /\ report'.observed = Merge(report.observed, later)
    BY <1>1, ObservesFields
  <2>2. TypeInv'
    BY <2>1 DEF TypeInv
  <2>3. AloneInv'
    BY DEF AloneInv, Up, Serves
  <2>4. StartsInv' /\ OriginInv'
    BY <2>1 DEF StartsInv, OriginInv, Origin
  <2>5. TrueInv'
    <3> SUFFICES ASSUME steady' # NoValue
                 PROVE  /\ ShowsIt(procs[steady], report'.observed, Plain)
                        /\ report'.kind = "doctor" /\ report'.step > 3 =>
                             ShowsIt(procs[steady], report'.observed, {"version"})
      BY DEF TrueInv, Reporting, ShowsIt, Shown
    <3>1. ShowsIt(procs[steady], report.observed, Plain)
      BY DEF TrueInv, Reporting
    <3>2. ShowsIt(procs[steady], report'.observed, Plain)
      BY <1>0, <2>1, <3>1, MergeShows
    <3>3. ASSUME report'.kind = "doctor", report'.step > 3
          PROVE  ShowsIt(procs[steady], report'.observed, {"version"})
      <4>1. report.kind = "doctor" /\ report.step = 3
        BY <1>k, <1>1, <2>1, <3>3
      <4>2. report'.observed["version"] = later["version"]
        BY <1>0, <2>1, <4>1, MergeTakes
      <4> QED BY <4>1, <4>2 DEF ShowsIt
    <3> QED BY <3>2, <3>3
  <2>6. KnownInv'
    <3> SUFFICES ASSUME steady' # NoValue, OfLaunched', CmdlineRead'
                 PROVE  /\ report'.observed["eager"] # NoValue
                        /\ procs[steady].argv.tokens # NoValue =>
                             report'.observed["tokens"] # NoValue
      BY DEF KnownInv, OfLaunched, Reporting
    <3>1. OfLaunched
      BY <2>1 DEF OfLaunched, Reporting
    <3>2. \A f \in {"eager", "tokens"} :
            report'.observed[f] = IF later[f] = NoValue THEN report.observed[f] ELSE later[f]
      BY <1>0, <2>1, MergeTakes
    <3>3. CASE CmdlineRead
      BY <3>1, <3>2, <3>3 DEF KnownInv
    <3>4. CASE ~CmdlineRead
      BY <1>1, <3>1, <3>2, <3>4
    <3> QED BY <3>3, <3>4
  <2> QED BY <2>2, <2>3, <2>4, <2>5, <2>6
<1>2. CASE ~(report.step < 4)
  <2>1. report' = NoReport
    BY <1>2, ObservesFields
  <2> QED BY <2>1 DEF TypeInv, AloneInv, Up, Serves, StartsInv, OriginInv, Origin, TrueInv,
                      KnownInv, OfLaunched, Reporting
<1> QED BY <1>1, <1>2

\* What each question of a report shows.
LEMMA ReportsStep ==
  ASSUME AttestInv,
         ReportBegins \/ ReadManifest \/ ReadCmdline \/ AskVersion \/ AskModels \/ AskInVain
  PROVE  AttestInv'
<1> USE DEF AttestInv
<1>1. CASE ReportBegins
  <2>1. PICK kind \in {"doctor", "health"} :
          report' = [kind |-> kind, step |-> 1, written |-> NoManifest,
                     observed |-> NothingObserved]
    BY <1>1 DEF ReportBegins
  <2>2. /\ report'.kind = kind /\ report'.step = 1 /\ report'.written = NoManifest
        /\ report'.observed = NothingObserved
    BY <2>1
  <2>3. IsReport(report')
    BY <2>1, <2>2 DEF IsReport
  <2>4. UNCHANGED <<procs, manifest, starts>>
    BY <1>1 DEF ReportBegins
  <2>5. /\ steady' \in Pids \cup {NoValue}
        /\ steady' # NoValue => Up(steady') /\ \A q \in Pids : Serves(q) => q = steady'
    <3> DEFINE alone == {p \in Pids : Up(p) /\ \A q \in Pids : Serves(q) => q = p}
    <3>1. steady' = IF alone = {} THEN NoValue ELSE CHOOSE p \in alone : TRUE
      BY <1>1 DEF ReportBegins
    <3>2. alone # {} => (CHOOSE p \in alone : TRUE) \in alone
      OBVIOUS
    <3> QED BY <3>1, <3>2
  <2>6. TypeInv'
    BY <2>3, <2>4, <2>5 DEF TypeInv
  <2>7. AloneInv'
    BY <2>4, <2>5 DEF AloneInv, Up, Serves
  <2>8. StartsInv' /\ OriginInv'
    BY <2>2, <2>4 DEF StartsInv, OriginInv, Origin
  <2>9. TrueInv'
    BY <2>2, NothingShows DEF TrueInv, Reporting, ShowsIt, NothingObserved, Plain, Fields
  <2>10. KnownInv'
    BY <2>2 DEF KnownInv, OfLaunched
  <2> QED BY <2>6, <2>7, <2>8, <2>9, <2>10
<1>2. CASE ReadManifest
  <2>0. report # NoReport /\ IsReport(report)
    BY <1>2 DEF ReadManifest, At, TypeInv
  <2>1. /\ report' = [report EXCEPT !.step = @ + 1, !.written = manifest]
        /\ UNCHANGED <<procs, manifest, steady, starts>>
        /\ report.step = IF report.kind = "doctor" THEN 1 ELSE 2
    BY <1>2, <2>0, Order DEF ReadManifest
  <2>2. report' = [kind |-> report.kind, step |-> report.step + 1, written |-> manifest,
                   observed |-> report.observed]
    BY <2>0, <2>1 DEF IsReport
  <2>3. /\ report'.kind = report.kind /\ report'.step = report.step + 1
        /\ report'.written = manifest /\ report'.observed = report.observed
    BY <2>2
  <2>4. IsReport(report') /\ report' # NoReport
    <3>1. report.kind \in {"doctor", "health"} /\ report.step + 1 \in 1..4
      BY <2>0, <2>1 DEF IsReport
    <3>2. manifest \in {NoManifest} \cup Written
      BY DEF TypeInv
    <3>3. IsReport(report')
      BY <2>2, <2>3, <3>1, <3>2, Zenon DEF IsReport
    <3>4. report' # NoReport
      BY <2>3, <3>1 DEF NoReport
    <3> QED BY <3>3, <3>4
  <2>5. TypeInv'
    BY <2>1, <2>4 DEF TypeInv
  <2>6. StartsInv' /\ OriginInv' /\ AloneInv'
    BY <2>1, <2>3 DEF StartsInv, OriginInv, Origin, AloneInv, Up, Serves
  <2>7. TrueInv'
    <3>1. ~(report'.step > 3)
      BY <2>1, <2>3
    <3> QED BY <2>0, <2>1, <2>3, <3>1 DEF TrueInv, Reporting, ShowsIt, Shown
  <2>8. KnownInv'
    BY <2>1, <2>3 DEF KnownInv, CmdlineRead
  <2> QED BY <2>5, <2>6, <2>7, <2>8
<1>3. CASE ReadCmdline
  <2> DEFINE pid == report.written.pid
             argv == IF procs[pid] = NoProcess THEN NoValue ELSE procs[pid].argv
             later == IF pid = NoValue THEN NothingObserved
                      ELSE ObservedFromEvidence(report.written, argv)
  <2>1. /\ report # NoReport /\ Observes(later)
        /\ UNCHANGED <<procs, manifest, steady, starts>>
    BY <1>3 DEF ReadCmdline, At
  <2>2. /\ report.step = IF report.kind = "doctor" THEN 2 ELSE 3
        /\ report.written \in {NoManifest} \cup Written
    BY <1>3, <2>1, Order DEF ReadCmdline, TypeInv, IsReport
  <2>3. ASSUME steady # NoValue
        PROVE  /\ ShowsIt(procs[steady], later, Plain)
               /\ OfLaunched =>
                    /\ later["eager"] # NoValue
                    /\ procs[steady].argv.tokens # NoValue => later["tokens"] # NoValue
    <3>1. CASE report.written = NoManifest
      <4>1. later = NothingObserved
        BY <3>1 DEF NoManifest
      <4> HIDE DEF later
      <4>2. ~OfLaunched
        BY <3>1 DEF OfLaunched
      <4> QED BY <4>1, <4>2, NothingShows DEF Plain, Fields
    <3>2. CASE report.written \in Written
      <4>1. pid # NoValue
        BY <3>2, AttestationAssumption DEF Written
      <4>2. later = ObservedFromEvidence(report.written, argv)
        BY <4>1
      <4>3. OfLaunched => /\ pid = steady /\ report.written.fingerprint
                          /\ report.written.argv = procs[steady].argv
        <5> SUFFICES ASSUME OfLaunched
                     PROVE  /\ pid = steady /\ report.written.fingerprint
                            /\ report.written.argv = procs[steady].argv
          OBVIOUS
        <5>1. /\ report.written # NoManifest /\ report.written.start = procs[steady].start
              /\ procs[steady].argv.head = "vllm"
          BY DEF OfLaunched
        <5>2. steady \in Pids /\ procs[steady].is = "server"
          BY <2>3 DEF TypeInv, AloneInv, Up, Serves
        <5>3. WrittenFor(report.written, steady, procs[steady])
          BY <2>1, <5>1, <5>2 DEF OriginInv, Origin, Begun
        <5> QED BY <5>1, <5>2, <5>3 DEF WrittenFor
      <4> HIDE DEF later
      <4> QED BY <2>3, <3>2, <4>2, <4>3, EvidenceShows
    <3> QED BY <2>2, <3>1, <3>2
  <2> HIDE DEF later
  <2>4. ~(report.kind = "doctor" /\ report.step = 3)
    BY <2>2
  <2> QED BY <2>1, <2>3, <2>4, ObservesStep
<1>4. CASE AskVersion
  <2>1. PICK p \in Pids :
          Up(p) /\ Observes([NothingObserved EXCEPT !.version = procs[p].version])
    BY <1>4 DEF AskVersion
  <2> DEFINE later == [NothingObserved EXCEPT !.version = procs[p].version]
  <2>2. report # NoReport /\ UNCHANGED <<procs, manifest, steady, starts>>
    BY <1>4 DEF AskVersion, At
  <2>3. report.step = IF report.kind = "doctor" THEN 3 ELSE 1
    BY <1>4, <2>2, Order DEF AskVersion
  <2>4. later["version"] = procs[p].version /\ \A f \in Plain : later[f] = NoValue
    BY DEF NothingObserved, Fields, Plain
  <2>b. Observes(later)
    BY <2>1
  <2> HIDE DEF later
  <2>5. ASSUME steady # NoValue
        PROVE  /\ ShowsIt(procs[steady], later, Plain)
               /\ later["version"] # NoValue /\ ShowsIt(procs[steady], later, {"version"})
    <3>1. p = steady /\ procs[steady] \in Servers
      BY <2>1, <2>5, UpIsSteady
    <3>2. procs[steady].version # NoValue
      BY <3>1, AttestationAssumption DEF Servers
    <3>3. Shown(procs[steady], "version") = procs[steady].version
      BY DEF Shown
    <3> QED BY <2>4, <3>1, <3>2, <3>3 DEF ShowsIt
  <2>6. report.step < 4 => ~CmdlineRead' \/ CmdlineRead
    <3> SUFFICES ASSUME report.step < 4 PROVE ~CmdlineRead' \/ CmdlineRead
      OBVIOUS
    <3>1. report'.kind = report.kind /\ report'.step = report.step + 1
      BY <2>2, <2>b, ObservesFields
    <3> QED BY <2>3, <3>1 DEF CmdlineRead
  <2> QED BY <2>2, <2>b, <2>5, <2>6, ObservesStep
<1>5. CASE AskModels
  <2>1. PICK p \in Pids : Up(p) /\ Observes(ObservedFromModels(procs[p].argv))
    BY <1>5 DEF AskModels
  <2> DEFINE later == ObservedFromModels(procs[p].argv)
  <2>2. report # NoReport /\ UNCHANGED <<procs, manifest, steady, starts>>
    BY <1>5 DEF AskModels, At
  <2>3. report.step = 4
    BY <1>5, <2>2, Order DEF AskModels
  <2>b. Observes(later)
    BY <2>1
  <2>5. steady # NoValue => ShowsIt(procs[steady], later, Plain)
    BY <2>1, UpIsSteady, ModelsShow
  <2> HIDE DEF later
  <2> QED BY <2>2, <2>3, <2>b, <2>5, ObservesStep
<1>6. CASE AskInVain
  BY <1>6, ObservesStep DEF AskInVain, At
<1> QED BY <1>1, <1>2, <1>3, <1>4, <1>5, <1>6

LEMMA NextAttestInv == AttestInv /\ [AttestNext]_attestVars => AttestInv'
<1> SUFFICES ASSUME AttestInv, [AttestNext]_attestVars PROVE AttestInv'
  OBVIOUS
<1>1. CASE UNCHANGED attestVars
  BY <1>1 DEF attestVars, AttestInv, TypeInv, AloneInv, Up, Serves, TrueInv, StartsInv,
              OriginInv, Origin, KnownInv, OfLaunched, Reporting, CmdlineRead
<1> QED BY <1>1, ProcessesStep, ReportsStep DEF AttestNext

LEMMA InitAttestInv == AttestInit => AttestInv
<1> SUFFICES ASSUME AttestInit PROVE AttestInv
  OBVIOUS
<1>1. /\ procs = [p \in Pids |-> NoProcess] /\ report = NoReport /\ steady = NoValue
      /\ starts = 0
      /\ manifest \in {NoManifest} \cup
           [pid : Pids, argv : Argvs, version : Versions, start : {0}, fingerprint : {FALSE}]
  BY DEF AttestInit
<1>2. manifest \in {NoManifest} \cup Written /\ (manifest # NoManifest => manifest.start = 0)
  <2>1. CASE manifest = NoManifest
    BY <2>1
  <2>2. CASE manifest # NoManifest
    <3>1. manifest \in [pid : Pids, argv : Argvs, version : Versions, start : {0},
                        fingerprint : {FALSE}]
      BY <1>1, <2>2
    <3>2. /\ manifest = [pid |-> manifest.pid, argv |-> manifest.argv,
                         version |-> manifest.version, start |-> manifest.start,
                         fingerprint |-> manifest.fingerprint]
          /\ manifest.pid \in Pids /\ manifest.argv \in ArgvType
          /\ manifest.version \in Versions /\ manifest.start = 0
          /\ manifest.fingerprint \in {FALSE}
      BY <3>1, AttestationAssumption
    <3>3. manifest.start \in Nat
      BY <3>2
    <3>4. {FALSE} \subseteq BOOLEAN
      OBVIOUS
    <3>5. manifest.fingerprint \in BOOLEAN
      BY <3>2, <3>4, Zenon
    <3>6. manifest \in Written
      BY <3>2, <3>3, <3>5, Zenon DEF Written
    <3> QED BY <3>2, <3>6
  <2> QED BY <2>1, <2>2
<1>3. \A p \in Pids : ~Begun(procs[p])
  BY <1>1 DEF Begun, NoProcess
<1>4. TypeInv
  BY <1>1, <1>2 DEF TypeInv, Processes
<1>5. AloneInv /\ TrueInv /\ KnownInv
  BY <1>1 DEF AloneInv, TrueInv, KnownInv, OfLaunched, Reporting
<1>6. StartsInv /\ OriginInv
  BY <1>1, <1>2, <1>3 DEF StartsInv, OriginInv, Origin
<1> QED BY <1>4, <1>5, <1>6 DEF AttestInv

-----------------------------------------------------------------------------
(* Theorems.                                                               *)

\* While a report is made: the steady server is alone on its port, what the report has
\* observed is that server's, and a manifest names the process it was written for.
THEOREM AttestInvariant == AttestSpec => []AttestInv
BY InitAttestInv, NextAttestInv, PTL DEF AttestSpec

\* The step that ends a report says of each field what its merged observations show.
LEMMA EndOfReport ==
  ASSUME AttestInv, AttestNext, ReportEnds
  PROVE  \E later :
           /\ \A f \in Fields : statuses'[f] = FieldStatus(f, Merge(report.observed, later)[f])
           /\ steady # NoValue => ShowsIt(procs[steady], later, Plain) /\ later["version"] = NoValue
           /\ report.step = 4
<1> USE DEF AttestInv
<1>0. report # NoReport /\ report' = NoReport /\ IsReport(report)
  BY DEF ReportEnds, TypeInv
<1>1. ASSUME NEW later, Observes(later)
      PROVE  /\ report.step = 4
             /\ \A f \in Fields : statuses'[f] = FieldStatus(f, Merge(report.observed, later)[f])
  BY <1>0, <1>1, ObservesFields DEF IsReport
<1>2. CASE AskModels
  <2>1. PICK p \in Pids : Up(p) /\ Observes(ObservedFromModels(procs[p].argv))
    BY <1>2 DEF AskModels
  <2>2. steady # NoValue =>
          /\ ShowsIt(procs[steady], ObservedFromModels(procs[p].argv), Plain)
          /\ ObservedFromModels(procs[p].argv)["version"] = NoValue
    BY <2>1, UpIsSteady, ModelsShow
  <2> QED BY <1>1, <2>1, <2>2
<1>3. CASE AskInVain
  <2>1. Observes(NothingObserved)
    BY <1>3 DEF AskInVain
  <2>2. ShowsIt(procs[steady], NothingObserved, Plain) /\ NothingObserved["version"] = NoValue
    BY NothingShows DEF NothingObserved, Fields, Plain
  <2> QED BY <1>1, <2>1, <2>2
<1>4. ASSUME ReadCmdline \/ AskVersion \/ ReadManifest PROVE FALSE
  <2>1. report.step < 4
    BY <1>0, <1>4, Order DEF ReadCmdline, AskVersion, ReadManifest, IsReport
  <2>2. CASE ReadManifest
    <3>1. report' = [report EXCEPT !.step = @ + 1, !.written = manifest]
      BY <2>2 DEF ReadManifest
    <3>2. report'.kind = report.kind
      BY <1>0, <3>1 DEF IsReport
    <3> QED BY <1>0, <3>2 DEF NoReport, IsReport
  <2>3. CASE ReadCmdline \/ AskVersion
    <3>1. PICK later : Observes(later)
      BY <2>3 DEF ReadCmdline, AskVersion
    <3> QED BY <1>0, <2>1, <3>1, ObservesFields
  <2> QED BY <1>4, <2>2, <2>3
<1>5. ASSUME NEW p \in Pids,
             \/ Launch(p) \/ OpensManifest(p) \/ WritesManifest(p) \/ Exec(p)
             \/ StartByHand(p) \/ StartOther(p) \/ Listens(p) \/ Exits(p)
      PROVE  FALSE
  BY <1>0, <1>5 DEF Launch, OpensManifest, WritesManifest, Exec, StartByHand, StartOther,
                    Listens, Exits
<1>6. ASSUME ReportBegins PROVE FALSE
  BY <1>0, <1>6 DEF ReportBegins
<1> QED BY <1>2, <1>3, <1>4, <1>5, <1>6 DEF AttestNext

\* Of one server that was up and alone on the port while a report was made, the report
\* calls a field that the profile sets verified only if the server has what the profile
\* wants, one that it leaves unset only if the server was given that option, and any
\* field mismatch only if the server has not what the profile wants, for any profile,
\* any processes that come and go, any reuse of their ids, and any manifest left behind.
THEOREM ReportsAreTrue == AttestSpec => StatusesAreTrue
<1>1. ASSUME AttestInv, [AttestNext]_attestVars, ReportEnds, steady # NoValue,
             NEW f \in IF report.kind = "health" THEN Fields \ {"version"} ELSE Fields
      PROVE  /\ statuses'[f] = "verified" => Verified(procs[steady], f)
             /\ statuses'[f] = "mismatch" => ~AsDesired(procs[steady], f)
  <2> USE DEF AttestInv
  <2>0. f \in Fields /\ (f = "version" => report.kind # "health")
    BY <1>1
  <2>1. AttestNext
    BY <1>1 DEF ReportEnds, attestVars
  <2>2. PICK later :
          /\ \A g \in Fields : statuses'[g] = FieldStatus(g, Merge(report.observed, later)[g])
          /\ ShowsIt(procs[steady], later, Plain) /\ later["version"] = NoValue
          /\ report.step = 4
    BY <1>1, <2>1, EndOfReport
  <2>3. procs[steady] \in Servers
    BY <1>1, UpIsSteady DEF AloneInv, TypeInv
  <2>4. ShowsIt(procs[steady], report.observed, Plain)
    BY <1>1 DEF TrueInv, Reporting, ReportEnds
  <2> DEFINE o == Merge(report.observed, later)[f]
  <2>5. f # "torch" => o \in {NoValue, Shown(procs[steady], f)}
    <3>1. CASE f \in Plain
      <4>1. Plain \in SUBSET Fields
        BY DEF Plain, Fields
      <4>2. ShowsIt(procs[steady], Merge(report.observed, later), Plain)
        BY <2>2, <2>4, <4>1, MergeShows
      <4> QED BY <3>1, <4>2 DEF ShowsIt
    <3>2. CASE f = "version"
      <4>1. report.kind = "doctor"
        BY <1>1, <2>0, <3>2 DEF TypeInv, IsReport, ReportEnds
      <4>2. ShowsIt(procs[steady], report.observed, {"version"})
        BY <1>1, <2>2, <4>1 DEF TrueInv, Reporting, ReportEnds
      <4>3. o = report.observed["version"]
        BY <2>0, <2>2, <3>2, MergeTakes
      <4> QED BY <3>2, <4>2, <4>3 DEF ShowsIt
    <3> QED BY <2>0, <3>1, <3>2 DEF Fields, Plain
  <2>6. statuses'[f] = FieldStatus(f, o)
    BY <2>0, <2>2
  <2> HIDE DEF o
  <2> QED BY <2>0, <2>3, <2>5, <2>6, StatusTells
<1>2. AttestInv /\ [AttestNext]_attestVars =>
        [ReportEnds /\ steady # NoValue =>
           \A f \in IF report.kind = "health" THEN Fields \ {"version"} ELSE Fields :
             /\ statuses'[f] = "verified" => Verified(procs[steady], f)
             /\ statuses'[f] = "mismatch" => ~AsDesired(procs[steady], f)]_attestVars
  BY <1>1
<1> QED BY <1>2, AttestInvariant, PTL DEF AttestSpec, StatusesAreTrue

\* Of a server that launch started and whose command line is still what launch passed,
\* a report that read its manifest knows whether it is eager, and its speculative tokens.
THEOREM LaunchedIsKnown == AttestSpec => LaunchedIsAttested
<1>1. ASSUME AttestInv, [AttestNext]_attestVars, ReportEnds, steady # NoValue,
             report.written # NoManifest, report.written.start = procs[steady].start,
             procs[steady].argv.head = "vllm"
      PROVE  /\ statuses'["eager"] # "unknown"
             /\ procs[steady].argv.tokens # NoValue => statuses'["tokens"] # "unknown"
  <2> USE DEF AttestInv
  <2>1. AttestNext
    BY <1>1 DEF ReportEnds, attestVars
  <2>2. PICK later :
          /\ \A g \in Fields : statuses'[g] = FieldStatus(g, Merge(report.observed, later)[g])
          /\ report.step = 4
    BY <1>1, <2>1, EndOfReport
  <2>3. OfLaunched /\ CmdlineRead
    BY <1>1, <2>2 DEF OfLaunched, Reporting, CmdlineRead, ReportEnds
  <2>4. /\ report.observed["eager"] # NoValue
        /\ procs[steady].argv.tokens # NoValue => report.observed["tokens"] # NoValue
    BY <1>1, <2>3 DEF KnownInv
  <2>5. "eager" \in Fields /\ "tokens" \in Fields
    BY DEF Fields
  <2>6. \A g \in {"eager", "tokens"} :
          report.observed[g] # NoValue => Merge(report.observed, later)[g] # NoValue
    BY <2>5, MergeTakes
  <2> QED BY <2>2, <2>4, <2>5, <2>6, StatusKnown
<1>2. AttestInv /\ [AttestNext]_attestVars =>
        [/\ ReportEnds /\ steady # NoValue
         /\ report.written # NoManifest /\ report.written.start = procs[steady].start
         /\ procs[steady].argv.head = "vllm"
         => /\ statuses'["eager"] # "unknown"
            /\ procs[steady].argv.tokens # NoValue => statuses'["tokens"] # "unknown"]_attestVars
  BY <1>1
<1> QED BY <1>2, AttestInvariant, PTL DEF AttestSpec, LaunchedIsAttested
=============================================================================
