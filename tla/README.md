# Verification of the Gemma 4 MTP vLLM server

This directory holds TLA+ models of the gateway, its request boundary, its readiness probe, its
streaming text filter, its runtime attestation, its cluster launcher and its benchmark experiment;
TLC configurations that check them on small instances; and theorems about them that TLAPS checks
for every value of the constants.
`PROJECT.json` maps every definition to the lines of `src/` it stands for, and lists the runs, the
mutants that show each property can fail, the hazards of the code and the findings.

    tlc -workers 2 -config MCGateway_openai.cfg MCGateway      # a run
    tlapm GatewayProofs.tla                                    # the proofs of a module

Paths below are relative to `src/src/gemma4_mtp_vllm/`.

## 1. The system

`vllm-mtp serve` starts a FastAPI gateway: one event loop, one process, in front of a private
`vllm serve`. A request passes the boundary middleware (body cap, bearer or API key, rate limit),
then an endpoint handler takes a generation slot, scrapes the backend's MTP counters, calls or
streams from the backend, passes the text through the thought sanitizer, counts the generation,
scrapes again and gives the slot back. `/health` and `/readyz` ask the backend four questions and
judge the answers together with the generation counters. Around the gateway stand command line
tools: `launch`, `doctor`, the benchmarks, the quality suite, and `cluster-serve`, which starts
Ray and vLLM on several nodes over SSH.

| Component | State | Operations | Interacts with |
| --- | --- | --- | --- |
| Runtime state (`server/runtime_state.py`) | active slots, counters, last MTP delta, last error | acquire, release, record generation / error / delta, snapshot | every handler; readiness; `/metrics` |
| Generation handlers (`server/app.py`) | per request: where it is suspended, what was delivered | chat completions, completions, messages, count_tokens, streamed or not | runtime state, vLLM client, sanitizer, adapter |
| MTP metrics (`mtp_metrics.py`) | none | parse one scrape, delta of two | handlers, readiness, benchmarks |
| Request boundary (`server/middleware.py`) | a deque of times per key | body cap, auth, rate limit, request id, CORS | in front of the handlers |
| Thought sanitizer (`backend/response_parser.py`) | buffer, hidden flag | feed, finish | streamed and JSON answers |
| vLLM client (`backend/vllm_client.py`) | none | health, version, models, metrics, completions, tokenize | the backend |
| Anthropic adapter (`anthropic_adapter.py`) | translator of one stream: sanitizer, content block, counts | convert requests, answers, streams | handlers, sanitizer |
| Readiness (`readiness.py`, `server/app.py`) | none of its own | one verdict per probe | vLLM client, runtime state, attestation |
| Runtime attestation (`runtime_config.py`, `launch.py`) | a manifest file | write at launch; read, compare with `/proc` and the server's answers | launch, readiness, doctor, benchmarks |
| Cluster launch (`cluster.py`, `cli.py`) | report of one run; Ray and vLLM on the nodes | preflight, start, three gates, rollback | SSH, Ray, vLLM |
| Benchmark runs (`benchmarking.py`, `cli.py`) | a json file that grows group by group, a pool of clients | measure streams, write, fail, be interrupted | the gateway or the backend |
| 2x2 comparison (`cli.py`) | none | the verdict on four benchmark files | benchmark runs, attestation |
| Statistical comparison (`cli.py`, `benchmarking.py`) | none | bootstrap intervals over two files | benchmark runs |
| Quality suite (`quality_suite.py`) | per task results | run tasks, validate in subprocesses | a server |
| CUDA graph observation, doctor, profiles, policy, validation, audit scripts | none | pure functions and sequential reports | the above |

What is hard about it, and which properties would show it going wrong:

* **Handlers interleave at every await and may be cancelled at any of them.** A slot must be given
  back exactly once on every path; the release method tests `active > 0` and would hide a second
  release. (`SlotAccounting`, `AdmissionBound`, `ImplementsAdmission`, `RefusedOnlyWhenFull`)
* **Errors inside streams.** An `except` clause records and yields, `finally` records again, and
  the client may leave between the two. (`CountersAgree`, `GenerationsCountedOnce`)
* **Evidence from counters one does not own.** MTP activity is the difference of two scrapes of a
  backend that others use, that may restart in between, and whose scrapes may fail.
  (`ActiveDeltaIsEvidence`, `DeltaFollowsGeneration`, `ImplementsGenerationLog`)
* **A probe reads its inputs at four different times.** (`ReadyIsTrue`, `NoFalseAlarm`,
  `WarmingNeverReturns`, `ProbesEnd`)
* **Chunks are cut anywhere.** A marker may be split at any character and may begin another one.
  (`NothingHiddenLeaves`, `ChunksDoNotMatter`, `HeldBack`, `CallsReturn`)
* **What is held back must leave before the end is told**, and the end is told in three places: with
  the `finish_reason`, with `[DONE]`, and in the events after the last chunk. (`ToldIsSent`)
* **A file says what no longer runs.** The launch manifest outlives its process, whose id may come
  round again, and a report reads it, `/proc` and two answers while servers are replaced.
  (`StatusesAreTrue`, `LaunchedIsAttested`)
* **Benchmark files are rewritten in place** by a process that may fail, be interrupted or killed at
  any await and in the middle of a write, over the file of an earlier launch. (`EndMatchesFile`,
  `ImplementsBenchRecord`)
* **A recommendation rests on evidence of four runs**: cut streams, ids counted twice, files that are
  incomplete, of the wrong server, or replaced while the comparison reads. (`ReadyIsWholeAnswer`,
  `AdoptIsEarned`, `FailureIsReal`, `EvidenceIsEnough`)
* **Boundaries of a sliding window**, and who pays for a request that is refused, judged between awaits.
  (`WindowBound`, `BucketIsWindow`, `SpentOnce`, `RefusedForOwn`)
* **A start that fails may still happen.** What an SSH connection reported and what its command
  did on the node are two things. (`RollbackMeetsEveryStart`, `PassedRollbackLeavesNoRay`,
  `StopsOnlyOnFailure`, `PreflightComesFirst`, `SuccessIsEarned`, `RunEnds`)

The full list, with the line where each one bites, is `hazards` in `PROJECT.json`.

## 2. The modules and the code

**`RuntimeState`** writes every method of the class as an operator from the old record to the new
one. No method awaits, so each is atomic in the event loop. Token and second totals, which no
decision reads, are left out.

**`MtpMetrics`** is one scrape (`ParseMtpMetrics`) and the delta of two (`MtpMetricDelta`). A scrape
ends in one of three ways: counters found; nothing (no answer, an HTTP error, no speculative counter
in the text); or a counter whose value is no finite number. One number stands for the draft-round
and the drafted-token counter, which the backend advances together.

**`Gateway`** composes the two with the handlers. A step is what a handler does between two awaits,
and `pc[r]` names the await request `r` is suspended at; the header of the module lists them. The
four generation endpoints follow one path: `Admit` or `RejectQueueFull`, `ScrapeBefore`, then either
the JSON branch (`GenerationReturns`, `...TimesOut`, `...Refused`, `...Fails`, `...Raises`) or the
stream branch (`StartStream` or `LoseStream`, `StreamDelivers`, `StreamCompletes`, `StreamStops`,
`StreamRefused` then `StreamClosed`), then `ScrapeAfter`. The conversion and the rendering of a JSON
answer come after the second scrape and may raise. Anthropic streams differ in that nothing is
sent before the upstream has ended (`StreamBuffered`). `CancelEarly` and `CancelAfter` are cancellations at the awaits.
The `finally` block is part of the step that ends a handler (`Finish`). `count_tokens` takes no slot
(`Tokenize`, `TokenizeEnds`). `/v1/completions` follows the path of a JSON chat completion and shares
its kind. The environment is a backend that drafts for anybody and restarts.

**`Admission`** and **`GenerationLog`** are the two promises of that composition. `Admission`: a
request enters only while fewer than `Slots` are inside, is turned away only when that many are, and
leaves once. `GenerationLog`: each generation is counted before its delta is recorded or given up, and
no delta says "active" unless the backend once drafted. `Gateway` is shown to implement both
(`ImplementsAdmission`, `ImplementsGenerationLog`), by TLC and by proof.

**`RateLimiter`** is `_allow_rate` with its clock made explicit: `Allow` and `Deny` evict first, as the
code does, and `accepted` keeps the history the property is about.

**`RequestBoundary`** puts it where it stands: a request `Arrives` and is answered at once (preflight, public
path, a declared length that is garbled or too large) or waits for its body, in which time the client may
leave and others are judged; then it is `TooLarge`, `RateLimited` or `Passes`, and after another await the
inner middleware `HandsOn` to the handler or answers 401. `RateKey` and `Authorized` read the same headers in
two places of the code. The limiter's own actions are conjuncts of the boundary's.

**`ThoughtSanitizer`** makes each iteration of the loop of `_drain` an action, guarded by the branch it
takes. `Shown` is what a text shows when it is read from left to right without chunks; it is the
definition the loop is compared with. From a place on, `HiddenFrom` and `VisibleFrom` say what is shown in
terms of what later places show, inside a hidden span and outside. The code searches in `buffer.lower()` and slices `buffer`, and so
does the model: `Lower` may map one character to several.

**`SanitizedStream`** composes it with the two streams it works in. Chunks of the backend arrive
(`ReadContent`, `ReadFinish`, `ReadDone`), are cut off (`ClosesEarly`) or fail (`StreamFails`); each is
sanitized, iteration by iteration (`Sanitizes`); and what the client is sent follows:
`/v1/chat/completions` passes chunks on and finishes the sanitizer with the `finish_reason` and again at
`[DONE]` (`FinishesChoice`, `SendChunk`, `SendDone`); `/v1/messages` reads the whole stream first
(`Buffered`) and makes events of it (`SendDelta`, `SendStop`). `got`, `block` and `told` are what the
client knows. One choice is modelled; each has a sanitizer of its own, made on first use.

**`Readiness`** is the evaluator: the configuration fields are reduced to the two classes the evidence
tells apart, and warnings, which change no verdict, are left out. **`HealthCheck`** is the probe, a
coroutine with four awaits, beside a backend that loads, stops, is started again with another
configuration and drafts. It does not repeat the handlers: generations are steps of `GenerationLog`,
which `Gateway` implements. The command line of the running process, the evidence of
`runtime_config.py`, is found or not found; when it is found it is that of the process that runs, which is
what `Attestation` shows. A body that is not JSON raises what nothing on the way catches, and the probe ends
in a 500 without a verdict (`Raises`).

**`Attestation`** is the life of the manifest. `Launch`, `OpensManifest`, `WritesManifest` and `Exec` are
`vllm-mtp launch`; `StartByHand`, `StartOther`, `Listens` and `Exits` are whatever else happens on the
machine, with process ids that are used again. A report of `doctor` or `/health` reads in the order of the
code (`StepsOf`), one step at a time, and ends in a status per field. The fields are one of each kind the
verdict tells apart: a path that may be redacted, the alias, a number, a flag, a number the command line
need not give, one of `OPTIONAL_PROFILE_FIELDS` that the profile need not set either (`OptionalFields`: what is
neither asked for nor observed is `not_applicable`), a version that is compared by order, and one that is never
asked for. `ArgvMatchesManifest`,
`ObservedFromArgv`, `ObservedFromModels`, `Merge` and `FieldStatus` are the functions of the code.

**`ClusterServe`** is one run of `cluster-serve`: `ProbeHost` per host, `StartSucceeds` / `StartFails` per
command, the gates `ready` (with its generation smoke test), `queue` and `continuity`, and `StopRay` per
node of a rollback. The nodes take their own steps: a failed start may have taken effect, may do so later
(`LateStart`) or never; vLLM loads, serves and dies; Ray dies; the port may belong to another server from
the beginning, and so may Ray on any node. A gate that is off is `skipped` in the report and one the run does not reach is
`not_checked`; the model keeps both as `not_checked`, since no property tells them apart.

**`StreamMeasure`** is what `_measure` keeps of one streamed answer: token ids from wherever a server puts
them, the usage, lines that could not be read, and from these the status that makes ids ready for a parity
check and rates ready for a report. **`BenchSingle`** is the process around it: scrape, request, stream,
tokenize and rescrape per answer (`Scrape` ... `Rescrape`), the file that is opened, which truncates it (`Open`),
and written after each group (`Flush`), a request that fails and is reported in the file before it is raised
(`RequestFails`, `Report`), a write that fails before it has opened the file and leaves it as it was (`OpenFails`)
or after (`WriteFails`), Ctrl-C at an await, a client pool whose closing fails, the final write, and a kill
anywhere. Each of the three writes has a place before the file is opened (`save`, `tell`, `finish`) and one after
(`flush`, `report`, `final`). **`BenchRecord`** is the promise it makes to a reader of the file, as an abstract
specification: absent, torn, or the first groups of one launch, all of them if it says complete.
`BenchSingle` implements it (`ImplementsBenchRecord`).

**`Compare2x2`** is the verdict of `bench-2x2-compare` as a pure function of four payloads, with the order of
its reasons: invalid, failed, insufficient, passed. **`Experiment`** composes it with four `BenchRecord`s, an
operator who measures one role after the other and makes mistakes, and a comparison that reads the files one
by one. It uses the abstract record and not `BenchSingle`, whose state it does not need.

## 3. What the runs check

| Run | Instance | States | Shows |
| --- | --- | --- | --- |
| `gateway_openai` | 3 requests, chat and chat stream, 2 slots, 1 draft round, 1 restart | 627 000 | slots, counters and MTP evidence agree with what became of each request; both abstract specifications are implemented |
| `gateway_anthropic` | 3 requests, chat, messages, message streams, count_tokens, 2 slots | 676 000 | the counters on the Anthropic paths; refused only when full, if no client leaves before its stream starts; every admitted JSON request ends |
| `gateway_leak` | as the first, clients may leave early | violation | finding 1 |
| `rate_limiter` | 2 connections, callers with and without the key, limit 2, window 3, 7 ticks | 4 870 000 | no window of any position exceeds the limit; the bucket is the window; a quota is spent once, and by its owner |
| `sanitizer_split` | all texts of 3 marker pieces and of 4 span pieces, every chunking, both endpoints | 328 000 | nothing hidden leaves, chunks do not matter, no more than the beginning of a marker or a tag that has not ended is held, who is told of the end has all of it, calls return |
| `sanitizer_wide` | texts with a character whose lower case is longer | violation | finding 2 |
| `cluster_serve` | 4 nodes, all 64 settings of the flags, Ray on any of them before the run, 2 polls of a gate | 672 000 | order of preflight and launch, when Ray is stopped, what rollback and exit code 0 mean, the run ends |
| `health_check` | 2 probes, 4 kinds of backend, 2 lives, 1 generation, 1 draft round | 867 000 | verdicts that let traffic in are true, no false alarm, warming does not return, probes end |
| `health_idle` | 1 probe | violation | finding 3 |
| `bench_single` | 3 servers (ids in two places read once, ids added up twice, none), 2 groups of 2 answers after a warmup, 2 launches, 2 faults | 5 470 000 | ready token ids are whole answers, the file agrees with how the command ended, the abstract record is implemented |
| `experiment` | 4 files of 2 groups of 2 answers, 5 launches, 2 things that go wrong | 6 340 000 | adopting MTP is earned, rejecting it is for a real divergence, good evidence is enough |
| `attestation` | 2 process ids, 3 command lines, 2 versions, 3 starts, 1 report, an optional field the profile leaves unset | 3 290 000 | verified and mismatch are true of the server that runs; what launch started is attested |

**Bounds.** Two slots and three requests are the smallest instance in which one request is refused while
another holds a slot and a third gives one back. One draft round and one restart reach every pair of
scrapes `MtpMetricDelta` tells apart: no growth, growth, and counters that went backwards. A limit of two
in a window of three ticks over seven gives windows that overlap in every way, and idle keys. The
sanitizer's pieces include markers, beginnings of markers, a name that begins another, capitals and
plain text; three of them make every marker that is cut and completed, four make nested spans. Four
nodes put two in the middle of each loop over the nodes. Two lives of the backend and two probes let
each await see another backend. Two faults of a benchmark are the fewest in which one
error meets another (a failed request and a failed close); two launches are those of a file that is written
over. Five launches and two mistakes of an experiment allow one role to be measured again after its bench
stopped early, with one thing still wrong in it. In `Experiment` a role is measured again only while its file
is not complete, and the comparison is started between two benches, though one may begin while it reads.
Three starts over two process ids let an id be that of two servers while the manifest names the first;
nothing is modelled after the last report (`MoreToSee`). `BenchSingle` has an output file, without which it
has no state to leave behind, and a server's launch manifest only in `Experiment`. Bounds on draft rounds, restarts, time, polls and lives are conjuncts of
the guards; the proofs hold for every value of them. Requests, connections, probes and process ids are symmetric;
symmetry is used in safety runs only.

**Deadlock** is not checked: requests are used once, streams and runs of commands end, and the clocks,
launches and reports are bounded.

**Fairness.** Each assumption is a timeout or a loop in the code. `Gateway.Fairness`: both scrapes run under
`asyncio.wait_for` with 0.5 s and a JSON generation under the generation timeout, when it is set; nothing
is assumed of streams, of clients or of the backend, whose read timeout is `None`. `HealthFairSpec`: every
question of a probe is under `asyncio.wait_for` with 0.5 s. `ClusterFairSpec`: every subprocess and HTTP
request of a run has a timeout and every gate a deadline; nothing is assumed of the nodes.
`StreamFairSpec` (and `SanitizerFairSpec`): a call of the sanitizer that has begun runs on; nothing is
assumed of the backend.

**Mutants.** For each property of each passing run, `mutants` names a plausible bug in a mapped definition
under which TLC finds that property violated: a release that is missing on one path, an off-by-one in the
admission test, a delta taken as an absolute value, `if` for `while` in the eviction, a rollback that stops
at the first node that fails. The mutated operators stand beside the definitions and are marked as such;
no specification uses them.

## 4. Findings

1. **A slot can be lost** (`gateway_leak`, `server/app.py:642`). The slot of a streamed request is taken before
   `StreamingResponse` is returned and given back in the `finally` block of its generator. If the client
   leaves before the generator is first iterated, that block never runs, and later requests are refused
   although fewer than `max_queue_size + 1` are being served (compare `runtime_state.py:43`). All counters and
   the gauge stay consistent: the gauge says the slot is held, and `SlotAccounting` counts it as such.
2. **Indexes of another string** (`sanitizer_wide`, `backend/response_parser.py:133`). Positions found in
   `buffer.lower()` are used in `buffer`. U+0130 is longer in lower case; after it the tag is missed and
   hidden text leaves (compare `docs/plans/p0-005-thought-channel-parser.md:31`).
3. **Idle counters after a generation** (`health_idle`, `readiness.py:117`). "Post-generation idle MTP metrics
   degrade with an explicit warning" (`docs/plans/p0-004-readiness-state-machine.md:33`). After a generation
   the code reads only the stored delta, and an active one returns before the metrics are considered; a
   backend that was restarted since is ready on the delta of the one it replaced.

Met while modelling, without a statement in the repository that a run could contradict, and therefore kept
out of the properties' preconditions by name:

* `/health` asks the backend for its version and then lets the package version of the manifest replace the
  answer (`server/app.py:993`); `doctor` does it the other way round. `StatusesAreTrue` leaves out the version
  of `/health`.
* A field the profile leaves unset is `verified` with whatever value is observed (`runtime_config.py:520`), though
  the profile wants none: a server run with `--max-num-seqs 1` is verified against a profile without it.
  `Verified` says what is left of the word there: the server was given the option. And `not_applicable` is the
  status of such a field whenever it was not observed, so it says nothing of a server whose command line was not
  read; no property speaks of it.
* If `vllm` is a script, the kernel puts its interpreter before the arguments, and the fingerprint of the
  manifest never matches the command line in `/proc` again: nothing wrong is said, but nothing is attested.
  `LaunchedIsAttested` requires the unchanged command line.
* A server that has not bound the port yet, or lost it to another, is still a process that the manifest
  names; `StatusesAreTrue` speaks of reports during which one server alone was on the port (`steady`).
* An upstream stream that ends without `[DONE]` is an ended answer with `message_stop` for a client of
  `/v1/messages`, and one without an end for a client of `/v1/chat/completions`.
* One caller has two quotas, `credential:bearer` and `credential:x-api-key`, according to the header it uses
  (`server/middleware.py:146`); `WindowBound` is per key.
* A launch of `bench-single` that is interrupted before its first group leaves the complete file of the launch
  before it in place, and an output length given twice makes two groups with one key, of which a comparison
  sees the later (`cli.py:3290`).

## 5. What is proved

The theorems hold for any finite set of requests, any queue size, limit, window and number of nodes, any
processes and command lines, any number of groups, answers, launches and faults, any bounds and every setting
of the switches, but for the theorems that name a condition of their own. The assumptions are the named
`ASSUME`s of the modules, which TLC evaluates on every run. Most give a constant its type: `MaxQueueSize` is a
positive integer, the set of requests is finite, a window is positive, a cluster has at least two nodes, an
answer is a sequence of token ids (`AnswersAssumption`). The others say that a value which stands for an absence
is none of those that may be present (`AttestationAssumption` of `NoValue`, `NoArgvAssumption`,
`NoCountAssumption`), that a profile asks for a number of speculative tokens (`ProfileAssumption`), without which
it is refused (`profiles.py:159`; optional fields may be unset), and what the markers of `response_parser.py:6` have in common: they are not
empty (`TextAssumption`); each has one `<`, at its beginning, which no other character becomes in lower case;
html markers are in lower case, and none that opens a span has a `>` (`ShapeAssumption`); and none begins
another, whatever the case, except among the names that open a span, after which the code does the same
(`ApartAssumption`).

* **`GatewayProofs`**: `TypeCorrect`, `GaugeIsExact` (`SlotAccounting`), `AdmissionIsBounded` (`AdmissionBound`),
  `SlotsImplementAdmission`. The inductive invariant `IInv` is the types, the equality of the gauge with the
  number of holders, and the bound. The bound alone is not inductive, since admission tests the gauge and not
  the requests; nor is release exact without the equality, since it must be known that the gauge is positive
  whenever a holder ends. For the refinement, `PhaseInv` says which outcomes and kinds go with which phase, so
  that a request that was turned away is never counted as having left. One lemma per way of moving
  (`FinishKeeps`, `AnswerKeeps`, `CountKeeps`, `MoveKeeps`) carries the 22 handler steps.
  `ActiveIsEvidence` (`ActiveDeltaIsEvidence`) and `CountersImplementLog` (`ImplementsGenerationLog`) are about
  what readiness is given. The counters fall back to zero at a restart and cannot be compared with what
  was read earlier, so `EvidenceInv` compares them with the history: since the first scrape of a request, if it
  found the counters, they have not advanced further than the backend drafted. `CountersAlwaysAgree`
  (`CountersAgree`), `GenerationsAreCountedOnce` (`GenerationsCountedOnce`) and `DeltaComesAfterGeneration`
  (`DeltaFollowsGeneration`) are about the counters of `/metrics`: each is the size of a set of requests, and
  `HandleTallies` says of all handler steps at once by how much it grows. `TallyInv` is needed because what a
  request was counted for is told by its phase and outcome together. `RefusalMeansServing`
  (`RefusedOnlyWhenFull`) assumes `EarlyDisconnect = FALSE`: then no slot is lost (`NoneLost`), and whoever
  holds one is served. Without the assumption it is false, which is finding 1.
* **`RequestBoundaryProofs`**: `RateInvariant`, `WindowIsBounded` (`WindowBound`), `BucketHoldsWindow`
  (`BucketIsWindow`) are about the limiter alone. `RateInv` ties the bucket to the history: the bucket is a tail
  of the acceptances, these are in order, and what precedes the tail has expired. That only the head of the
  deque is inspected is sound because of the order. `BoundaryImplementsRate` says that every step of the boundary
  is one of the limiter or leaves it alone, so the limiter's theorems hold around it (`BoundaryWindow`);
  `QuotaIsSpentOnce` (`SpentOnce`) and `RefusalsAreOwn` (`RefusedForOwn`) rest on `SpenderInv`: every entry under
  a key was made with the standing the key stands for. With `BucketIsWindow` it turns the length of the bucket
  into a number of own requests.
* **`HealthCheckProofs`**: `HealthInvariant`, `ReadyVerdictIsTrue` (`ReadyIsTrue`), `GoodBackendIsLetIn`
  (`NoFalseAlarm`), `WarmingIsOver` (`WarmingNeverReturns`), for any number of probes and any backends. A verdict
  is built from four answers read at four moments, so its truth is not a fact about the last step: `SteadyInv`
  says, per step a probe has reached, which of the backend's properties it has observed, as long as one backend
  answered it throughout. `LetsTrafficIn` and `NothingAgainst` are the two lemmas about the verdict itself.
* **`ClusterServeProofs`**: `ClusterTypeCorrect`, `PreflightFirst`, `RayStopsOnlyOnFailure`, `RollbackReachesEveryStart`,
  `RollbackIsThorough`, `SuccessEarned`, i.e. every safety property of the cluster run. `ClusterInv` says what
  each phase has achieved; at command number k of a rollback exactly the last k - 1 nodes were stopped, and Ray
  runs on one of them only if a start took effect late or a stop failed. `SuccessInv` adds what was earned
  before each gate.
* **`BenchSingleProofs`**: `BenchInvariant`, `ReadyIdsAreWhole` (`ReadyIsWholeAnswer`), `EndsAsTheFileSays`
  (`EndMatchesFile`), `BenchIsRecord` (`ImplementsBenchRecord`). Whether ids are the whole answer is decided when
  the stream has ended, of what was read chunk by chunk: `TakeInv` says what a server's way of reporting makes of
  the ids sent so far, all of them, none, or each twice, and that the usage came only after the last. `GroupInv`
  counts answers and groups. `WriteInv` says what the file is at each point of the command and after each kind of
  exception, since a later one (a failing close) must not make an earlier one look like success. A write that
  cannot open the file leaves that of the group before, or of the launch before; `unopened` keeps which write it
  was, and with it what the file may be (`LeftBehind`). The refinement
  maps a recorded answer to the evidence the record speaks of (`EvidenceOf`, `EvidenceFile`).
* **`ExperimentProofs`**: `FilesAreRecords`, `AdoptionIsEarned` (`AdoptIsEarned`), `FailuresAreReal`
  (`FailureIsReal`), `GoodEvidencePasses` (`EvidenceIsEnough`). What the verdict means is proved of the function
  `ExperimentStatus` first (`StatusMeans`), for any four files; `FilesInv` then says that the four that were read,
  one after the other while benches went on, are files a launch leaves behind, and that the verdict is the
  function of them. The command lines of two manifests are compared after the options that may differ are taken
  out: `CanonicalArgv` works out what is left of them, and `PairMeans` that they are equal if and only if the two
  servers agree on all that must not differ.
* **`AttestationProofs`**: `AttestInvariant`, `ReportsAreTrue` (`StatusesAreTrue`), `LaunchedIsKnown`
  (`LaunchedIsAttested`). A report reads the manifest, the process table and the API at different moments, and the
  pid it read may be that of another process by then. A server that is up is the steady one, alone on its port
  (`AloneInv`), and no other kind of process is taken for the one of the manifest (`OthersNeverMatch`); so what
  was read was read of the steady server (`TrueInv`). `KnownInv` is the converse for what launch started, and needs that the manifest
  is the server's own: by `StartsInv` a start number tells a process from all others, by `OriginInv` a manifest
  has the command line of the process it was written for. Which field has which status is then a fact about the
  merge of the observations (`StatusTells`, `EndOfReport`).
* **`SanitizerProofs`**: `OnlyMarkersAreHeld` (`HeldBack`), `LoopsEnd`, `ChunkInvariant`, `HiddenStaysHidden`
  (`NothingHiddenLeaves`), `ChunkingIsInvisible` (`ChunksDoNotMatter`), `StreamsUseSanitizer`, `EndMeansAllSent`
  (`ToldIsSent`), for texts of any length, any cut into chunks and any markers with the shape above. That what is held is the
  beginning of a marker rests on `KeptBegins` for the suffix the loop keeps, and on `NoneWholeHidden` and
  `NoneWholeVisible`: a whole marker would have been found before. `ChunkInv`
  says that the buffer is a window of the text and that what is out, followed by what the text shows from there
  on, is what the text shows. An iteration keeps it because it takes some characters and puts out exactly what
  they show (`Takes`, `Tells`; one lemma per branch of `_drain`): a marker in the buffer is one of the text
  (`WindowFinds`), and one that is not yet whole in the buffer begins in the suffix that `_safe_suffix_len` keeps
  (`BegunIsHeld`). The reference definition is a recursive function over the text. That it is
  defined at all (`ShowsIs`) and what it makes of a stretch without markers (`VisibleRun`) needs induction over
  the text, which is carried out on sets of numbers, of which one that is not empty has a least element
  (`Inductive`). The theorems about what is shown and what is held assume `Narrow`: no character is longer in lower case. Without
  it the first are false, which is finding 2; the alphabet of `sanitizer_split` satisfies it (`NarrowAssumption`).

Only model-checked: liveness (`JsonRequestsEnd`, `ProbesEnd`, `RunEnds`, `CallsReturn`), which is out of the
prover's reach under fairness. Of `CallsReturn` the part that is a fact about steps is proved: `LoopsEnd` says
that an iteration shortens the buffer or is the last.

## 6. Not modelled

* CORS headers and request ids, which are stamped on answers and decide nothing.
* Request and response bodies of the Anthropic adapter, and redaction: conversions of data.
* An api key that is the empty string. `RequestBoundary` has one `HasApiKey` for `api_key is None` (`server/app.py:960`)
  and `if api_key and` (`server/middleware.py:147`), which differ for that value only.
* The kind of error a stream ends in. `SanitizedStream.StreamFails` stands for an error status of the backend, after
  which the client is sent an error event and `[DONE]` (`server/app.py:612`), and for a transport error, after which
  it is sent nothing; either way it is not told of a regular end.
* A server that trickles its answer to the cluster's gates: the timeout of `httpx` is per read, so the fairness of
  `ClusterFairSpec` takes it that each request ends.
* `bench`, `bench-matrix` and `bench-quality`: they share `_measure` with `bench-single` and keep no file they
  could be interrupted in.
* `bench-compare`: bootstrap intervals over floating point samples; its pairing and token parity are those of
  `Compare2x2`. Of `bench-2x2-compare`, the token diagnostics, edit distances and hashes of the report, which
  decide nothing.
* The quality suite: verdicts of one answer at a time, and validators in subprocesses.
* CUDA graph observation, profiles, policy and validation, the audit and release scripts: pure functions or
  sequential reports over text.
* Of `doctor`, the lines that do not come from the attestation.

`components` gives the reason for each. Rendering of commands, wording and layout are data and appear nowhere.

## 7. Plan

Done, the behaviour the rest depends on first: runtime state and handlers with their abstract admission; rate
limiter; sanitizer; cluster launch; readiness with the generation log; their proofs; then attestation, the
streams the sanitizer works in, benchmark runs with their abstract record, the 2x2 comparison over it, and the
request boundary around the limiter; then the proofs of the counters, the benchmark runs, the experiment and the
attestation, and at last of the sanitizer and its streams, so that every safety property, action property and
refinement that a passing run checks is a theorem.

Next, in order:

1. The quality suite's verdicts with validators that time out.
