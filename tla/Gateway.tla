------------------------------ MODULE Gateway -------------------------------
(***************************************************************************)
(* The generation handlers of the gateway (server/app.py) running as       *)
(* coroutines of one event loop over one RuntimeState, against a backend   *)
(* whose MTP counters grow, and fall back to zero when it restarts.        *)
(*                                                                         *)
(* A step is what a handler does between two awaits.  pc[r] names the      *)
(* await request r is suspended at:                                        *)
(*   new         not yet handled                                           *)
(*   before      the MTP scrape that precedes the generation               *)
(*   generating  the upstream call of a request answered with one JSON     *)
(*   handoff     the streaming response is returned, its generator has not *)
(*               started                                                   *)
(*   streaming   reading the upstream stream                               *)
(*   emitting    sending the Anthropic events of a fully buffered stream   *)
(*   closing     sending the error event of a stream the backend refused   *)
(*   after       the MTP scrape that follows the generation                *)
(*   tokenizing  the upstream call of count_tokens                         *)
(*   lost        the generator was dropped without ever having started     *)
(*   done        the handler is over                                       *)
(***************************************************************************)
EXTENDS RuntimeState, MtpMetrics

CONSTANTS
  Requests,           \* the requests that pass the middleware
  Kinds,              \* the endpoints they use, a subset of AllKinds
  GenerationTimeout,  \* TRUE unless --generation-timeout-seconds is None
  EarlyDisconnect,    \* clients may go away before their stream has started
  MaxDrafts,          \* bound: draft rounds of the backend
  MaxRestarts         \* bound: restarts of the backend

JsonKinds   == {"chat", "messages"}
StreamKinds == {"chat_stream", "messages_stream"}
GenerationKinds == JsonKinds \cup StreamKinds
AllKinds == GenerationKinds \cup {"count_tokens"}

ASSUME RequestsAssumption == IsFiniteSet(Requests)
ASSUME KindsAssumption == Kinds \subseteq AllKinds
ASSUME SwitchAssumption == {GenerationTimeout, EarlyDisconnect} \subseteq BOOLEAN
ASSUME BoundAssumption == {MaxDrafts, MaxRestarts} \subseteq Nat

VARIABLES
  pc,         \* where each request is suspended
  kind,       \* the endpoint of each request
  outcome,    \* how its handler ends, or "none" while that is open
  delivered,  \* the handler holds output of a generation (completed, delta or usage)
  before,     \* the scrape made before its generation
  rt,         \* the RuntimeState of the process
  backend,    \* its counter since the last restart, its restarts
  drafts,     \* history: all the draft rounds the backend ever made
  since,      \* history: drafts at the scrape before each generation
  drafted     \* history: whether drafts grew in the window of the last delta

vars == <<pc, kind, outcome, delivered, before, rt, backend, drafts, since, drafted>>

Phases == {"new", "before", "generating", "handoff", "streaming", "emitting",
           "closing", "after", "tokenizing", "lost", "done"}

\* The phases in which a request's slot has not been released.
HoldingPhases == {"before", "generating", "handoff", "streaming", "emitting",
                  "closing", "after", "lost"}

\* Outcomes that went through record_backend_error.
ErrorOutcomes == {"timeout", "backend_error", "tokenizer_unavailable"}

Outcomes == {"none", "ok", "invalid", "queue_full", "upstream_4xx", "truncated",
             "failed", "cancelled"} \cup ErrorOutcomes

NoObservation == [state |-> "unavailable", drafts |-> 0]

Holders == {r \in Requests : pc[r] \in HoldingPhases}

Init ==
  /\ pc = [r \in Requests |-> "new"]
  /\ kind \in [Requests -> Kinds]
  /\ outcome = [r \in Requests |-> "none"]
  /\ delivered = [r \in Requests |-> FALSE]
  /\ before = [r \in Requests |-> NoObservation]
  /\ rt = InitRuntimeState
  /\ backend = [counter |-> 0, restarts |-> 0]
  /\ drafts = 0
  /\ since = [r \in Requests |-> 0]
  /\ drafted = FALSE

-----------------------------------------------------------------------------
(* Pieces the handlers share.                                              *)

Goto(r, phase) == pc' = [pc EXCEPT ![r] = phase]

Ends(r, how) == outcome' = [outcome EXCEPT ![r] = how]

\* Mutant: an except clause releases before finally does, and nothing guards zero.
FinishTwice(r, how, s) ==
  /\ Goto(r, "done")
  /\ Ends(r, how)
  /\ rt' = [s EXCEPT !.active = @ - 2]
  /\ before' = [before EXCEPT ![r] = NoObservation]
  /\ since' = [since EXCEPT ![r] = 0]

\* The handler is over: its finally block releases the slot, on top of what
\* the except clauses before it recorded in state s.
Finish(r, how, s) ==
  /\ Goto(r, "done")
  /\ Ends(r, how)
  /\ rt' = Release(s)
  /\ before' = [before EXCEPT ![r] = NoObservation]
  /\ since' = [since EXCEPT ![r] = 0]

\* The handler is over and never held a slot.
Answer(r, how, s) ==
  /\ Goto(r, "done")
  /\ Ends(r, how)
  /\ rt' = s
  /\ UNCHANGED <<before, since>>

\* Mutant: the second scrape begins before the generation is counted.
CountGenerationLater(r, how) ==
  /\ Goto(r, "after")
  /\ Ends(r, how)
  /\ UNCHANGED <<rt, before, since>>

\* A generation is counted, then the handler suspends at the second scrape.
CountGeneration(r, how) ==
  /\ Goto(r, "after")
  /\ Ends(r, how)
  /\ rt' = RecordGeneration(rt)
  /\ UNCHANGED <<before, since>>

backendVars == <<backend, drafts>>

-----------------------------------------------------------------------------
(* Entry.                                                                  *)

\* Bad JSON, an invalid or unsupported field, an unknown model.
RejectInvalid(r) ==
  /\ pc[r] = "new"
  /\ Answer(r, "invalid", rt)
  /\ UNCHANGED <<kind, delivered, backendVars, drafted>>

RejectQueueFull(r) ==
  /\ pc[r] = "new"
  /\ kind[r] \in GenerationKinds
  /\ Full(rt)
  /\ Answer(r, "queue_full", Refuse(rt))
  /\ UNCHANGED <<kind, delivered, backendVars, drafted>>

Admit(r) ==
  /\ pc[r] = "new"
  /\ kind[r] \in GenerationKinds
  /\ ~Full(rt)
  /\ Goto(r, "before")
  /\ rt' = Acquire(rt)
  /\ UNCHANGED <<kind, outcome, delivered, before, since, backendVars, drafted>>

\* The scrape before the generation answers, fails or times out; none of the
\* three is an error.
ScrapeBefore(r) ==
  /\ pc[r] = "before"
  /\ \E result \in ScrapeResults :
       before' = [before EXCEPT ![r] = ParseMtpMetrics(result, backend.counter)]
  /\ since' = [since EXCEPT ![r] = drafts]
  /\ Goto(r, IF kind[r] \in StreamKinds THEN "handoff" ELSE "generating")
  /\ UNCHANGED <<kind, outcome, delivered, rt, backendVars, drafted>>

-----------------------------------------------------------------------------
(* Requests answered with one JSON document.                               *)

GenerationReturns(r) ==
  /\ pc[r] = "generating"
  /\ delivered' = [delivered EXCEPT ![r] = TRUE]
  /\ CountGeneration(r, "ok")
  /\ UNCHANGED <<kind, backendVars, drafted>>

\* Mutant: only the OpenAI handler wraps its upstream call in the timeout.
GenerationTimesOutForChat(r) ==
  /\ GenerationTimeout
  /\ pc[r] = "generating"
  /\ kind[r] = "chat"
  /\ Finish(r, "timeout", RecordBackendError(rt, "generation_timeout"))
  /\ UNCHANGED <<kind, delivered, backendVars, drafted>>

GenerationTimesOut(r) ==
  /\ GenerationTimeout
  /\ pc[r] = "generating"
  /\ Finish(r, "timeout", RecordBackendError(rt, "generation_timeout"))
  /\ UNCHANGED <<kind, delivered, backendVars, drafted>>

\* Mutant: a passed-through 4xx counts as a backend error.
GenerationRefusedAsError(r) ==
  /\ pc[r] = "generating"
  /\ Finish(r, "upstream_4xx", RecordBackendError(rt, "vllm_http_error"))
  /\ UNCHANGED <<kind, delivered, backendVars, drafted>>

\* An upstream 4xx is passed through and is no backend error.
GenerationRefused(r) ==
  /\ pc[r] = "generating"
  /\ Finish(r, "upstream_4xx", rt)
  /\ UNCHANGED <<kind, delivered, backendVars, drafted>>

GenerationFails(r) ==
  /\ pc[r] = "generating"
  /\ Finish(r, "backend_error", RecordBackendError(rt, "vllm_http_error"))
  /\ UNCHANGED <<kind, delivered, backendVars, drafted>>

\* A transport error or an answer that is not the expected JSON propagates.
GenerationRaises(r) ==
  /\ pc[r] = "generating"
  /\ Finish(r, "failed", rt)
  /\ UNCHANGED <<kind, delivered, backendVars, drafted>>

\* Mutant: a stream's first scrape is not covered by the release.
CancelEarlyLeaks(r) ==
  /\ pc[r] \in {"before", "generating"}
  /\ IF pc[r] = "before" /\ kind[r] \in StreamKinds
       THEN Answer(r, "cancelled", rt)
       ELSE Finish(r, "cancelled", rt)
  /\ UNCHANGED <<kind, delivered, backendVars, drafted>>

\* The task is cancelled at the first scrape or in the upstream call.
CancelEarly(r) ==
  /\ pc[r] \in {"before", "generating"}
  /\ Finish(r, "cancelled", rt)
  /\ UNCHANGED <<kind, delivered, backendVars, drafted>>

-----------------------------------------------------------------------------
(* Requests answered with a stream.                                        *)

StartStream(r) ==
  /\ pc[r] = "handoff"
  /\ Goto(r, "streaming")
  /\ UNCHANGED <<kind, outcome, delivered, before, since, rt, backendVars, drafted>>

\* The client is gone before the first iteration.  A generator that never
\* started has no finally block to run, so nothing releases the slot.
LoseStream(r) ==
  /\ EarlyDisconnect
  /\ pc[r] = "handoff"
  /\ Goto(r, "lost")
  /\ Ends(r, "cancelled")
  /\ before' = [before EXCEPT ![r] = NoObservation]
  /\ since' = [since EXCEPT ![r] = 0]
  /\ UNCHANGED <<kind, delivered, rt, backendVars, drafted>>

\* The backend answers the stream with a status other than 200, 4xx included.
StreamRefused(r) ==
  /\ pc[r] = "streaming"
  /\ ~delivered[r]
  /\ Goto(r, "closing")
  /\ Ends(r, "backend_error")
  /\ rt' = RecordBackendError(rt, "vllm_http_error")
  /\ UNCHANGED <<kind, delivered, before, since, backendVars, drafted>>

\* Mutant: the error is counted again when the generator unwinds.
StreamClosedCountsAgain(r) ==
  /\ pc[r] = "closing"
  /\ Finish(r, outcome[r], RecordBackendError(rt, "vllm_http_error"))
  /\ UNCHANGED <<kind, delivered, backendVars, drafted>>

\* The error event is sent, or its client is gone.
StreamClosed(r) ==
  /\ pc[r] = "closing"
  /\ Finish(r, outcome[r], rt)
  /\ UNCHANGED <<kind, delivered, backendVars, drafted>>

\* A chunk with visible content or usage goes out; an Anthropic stream sends
\* nothing before the upstream has ended, whether or not it said [DONE].
StreamDelivers(r) ==
  /\ \/ pc[r] = "streaming" /\ kind[r] = "chat_stream"
     \/ pc[r] = "emitting"
  /\ delivered' = [delivered EXCEPT ![r] = TRUE]
  /\ UNCHANGED <<pc, kind, outcome, before, since, rt, backendVars, drafted>>

StreamBuffered(r) ==
  /\ pc[r] = "streaming"
  /\ kind[r] = "messages_stream"
  /\ Goto(r, "emitting")
  /\ UNCHANGED <<kind, outcome, delivered, before, since, rt, backendVars, drafted>>

\* [DONE], or message_stop.
StreamCompletes(r) ==
  /\ \/ pc[r] = "streaming" /\ kind[r] = "chat_stream"
     \/ pc[r] = "emitting"
  /\ delivered' = [delivered EXCEPT ![r] = TRUE]
  /\ CountGeneration(r, "ok")
  /\ UNCHANGED <<kind, backendVars, drafted>>

\* Mutant: a stream that breaks off is never counted.
StreamStopsUncounted(r) ==
  \E how \in {"truncated", "failed", "cancelled"} :
    /\ pc[r] \in {"streaming", "emitting"}
    /\ how = "truncated" => pc[r] = "streaming" /\ kind[r] = "chat_stream"
    /\ Finish(r, how, rt)
    /\ UNCHANGED <<kind, delivered, backendVars, drafted>>

\* The stream stops short: the upstream closes without [DONE] ("truncated"),
\* a read or a chunk fails ("failed"), or the client goes away ("cancelled").
\* What was delivered is still counted.
StreamStops(r) ==
  \E how \in {"truncated", "failed", "cancelled"} :
    /\ pc[r] \in {"streaming", "emitting"}
    /\ how = "truncated" => pc[r] = "streaming" /\ kind[r] = "chat_stream"
    /\ IF delivered[r] THEN CountGeneration(r, how) ELSE Finish(r, how, rt)
    /\ UNCHANGED <<kind, delivered, backendVars, drafted>>

-----------------------------------------------------------------------------
(* The end of every counted generation.                                    *)

\* Mutant: a delta that shows nothing is not recorded.
ScrapeAfterIfRegistered(r) ==
  /\ pc[r] = "after"
  /\ \E result \in ScrapeResults :
       LET delta == MtpMetricDelta(before[r], ParseMtpMetrics(result, backend.counter))
       IN  Finish(r, outcome[r],
                  IF delta = "unavailable" THEN rt ELSE RecordMtpDelta(rt, delta))
  /\ drafted' = (drafts > since[r])
  /\ UNCHANGED <<kind, delivered, backendVars>>

\* The second scrape; the conversion and the rendering of a JSON answer come after
\* it and may still raise.
ScrapeAfter(r) ==
  /\ pc[r] = "after"
  /\ \E result \in ScrapeResults :
       LET after == ParseMtpMetrics(result, backend.counter)
           delta == MtpMetricDelta(before[r], after)
       IN \E how \in {outcome[r]} \cup (IF kind[r] \in JsonKinds THEN {"failed"} ELSE {}) :
            Finish(r, how, RecordMtpDelta(rt, delta))
  /\ drafted' = (drafts > since[r])
  /\ UNCHANGED <<kind, delivered, backendVars>>

\* Cancelled at the second scrape: counted, but its delta is never recorded.
CancelAfter(r) ==
  /\ pc[r] = "after"
  /\ Finish(r, "cancelled", rt)
  /\ UNCHANGED <<kind, delivered, backendVars, drafted>>

-----------------------------------------------------------------------------
(* count_tokens takes no slot.                                             *)

\* Mutant: token counting acquires a slot it has no finally block to release.
TokenizeAcquires(r) ==
  /\ pc[r] = "new"
  /\ kind[r] = "count_tokens"
  /\ Goto(r, "tokenizing")
  /\ rt' = Acquire(rt)
  /\ UNCHANGED <<kind, outcome, delivered, before, since, backendVars, drafted>>

Tokenize(r) ==
  /\ pc[r] = "new"
  /\ kind[r] = "count_tokens"
  /\ Goto(r, "tokenizing")
  /\ UNCHANGED <<kind, outcome, delivered, before, since, rt, backendVars, drafted>>

TokenizeEnds(r) ==
  /\ pc[r] = "tokenizing"
  /\ \/ \E how \in {"ok", "upstream_4xx", "failed", "cancelled"} : Answer(r, how, rt)
     \/ Answer(r, "backend_error", RecordBackendError(rt, "vllm_http_error"))
     \/ Answer(r, "tokenizer_unavailable", RecordBackendError(rt, "tokenizer_unavailable"))
  /\ UNCHANGED <<kind, delivered, backendVars, drafted>>

-----------------------------------------------------------------------------
(* The backend, which also serves clients other than the gateway.          *)

BackendDrafts ==
  /\ drafts < MaxDrafts
  /\ drafts' = drafts + 1
  /\ backend' = [backend EXCEPT !.counter = @ + 1]
  /\ UNCHANGED <<pc, kind, outcome, delivered, before, since, rt, drafted>>

BackendRestarts ==
  /\ backend.restarts < MaxRestarts
  /\ backend' = [counter |-> 0, restarts |-> backend.restarts + 1]
  /\ UNCHANGED <<pc, kind, outcome, delivered, before, since, rt, drafts, drafted>>

-----------------------------------------------------------------------------

Handle(r) ==
  \/ RejectInvalid(r) \/ RejectQueueFull(r) \/ Admit(r) \/ ScrapeBefore(r)
  \/ GenerationReturns(r) \/ GenerationTimesOut(r) \/ GenerationRefused(r)
  \/ GenerationFails(r) \/ GenerationRaises(r) \/ CancelEarly(r)
  \/ StartStream(r) \/ LoseStream(r) \/ StreamRefused(r) \/ StreamClosed(r)
  \/ StreamDelivers(r) \/ StreamBuffered(r) \/ StreamCompletes(r) \/ StreamStops(r)
  \/ ScrapeAfter(r) \/ CancelAfter(r)
  \/ Tokenize(r) \/ TokenizeEnds(r)

Next == (\E r \in Requests : Handle(r)) \/ BackendDrafts \/ BackendRestarts

Spec == Init /\ [][Next]_vars

\* asyncio.wait_for ends both scrapes (0.5 s) and a JSON generation (the
\* generation timeout).  Nothing bounds a stream, its client or an arrival.
Fairness ==
  \A r \in Requests :
    /\ WF_vars(ScrapeBefore(r))
    /\ WF_vars(GenerationTimesOut(r))
    /\ WF_vars(ScrapeAfter(r))

FairSpec == Spec /\ Fairness

-----------------------------------------------------------------------------
(* Properties.                                                             *)

\* Every variable has its type.
TypeOK ==
  /\ pc \in [Requests -> Phases]
  /\ kind \in [Requests -> Kinds]
  /\ outcome \in [Requests -> Outcomes]
  /\ delivered \in [Requests -> BOOLEAN]
  /\ before \in [Requests -> Observations]
  /\ rt \in RuntimeStates
  /\ backend \in [counter : Nat, restarts : Nat]
  /\ drafts \in Nat
  /\ since \in [Requests -> Nat]
  /\ drafted \in BOOLEAN

\* The active gauge equals the number of requests whose slot is not released:
\* along every path of a handler, whatever it awaits and however it ends, each
\* acquire meets exactly one release, and _release_slot's "if active > 0" never
\* hides a second one.
SlotAccounting == rt.active = Cardinality(Holders)

\* However handlers interleave, no more than max_queue_size + 1 requests hold a
\* slot (acquire_generation_slot).
AdmissionBound == Cardinality(Holders) <= Capacity

Ending(S) == {r \in Requests : outcome[r] \in S}

\* The counters /metrics publishes agree with what became of the requests: each
\* admission, refusal and backend error is counted once, and an error counted on
\* one path is not counted again when its handler unwinds.
CountersAgree ==
  /\ rt.total = Cardinality({r \in Requests :
                   kind[r] \in GenerationKinds
                   /\ pc[r] # "new" /\ outcome[r] \notin {"invalid", "queue_full"}})
  /\ rt.rejected = Cardinality(Ending({"queue_full"}))
  /\ rt.backendErrors = Cardinality(Ending(ErrorOutcomes))

\* batch_requests_total counts a generation exactly when its handler got output
\* from the backend, once, whether the stream then completes, breaks off or loses
\* its client.
GenerationsCountedOnce ==
  rt.batchRequests = Cardinality({r \in Requests :
                        delivered[r] /\ pc[r] \notin {"streaming", "emitting"}})

\* A generation is counted before its MTP delta is known.  Readiness sees a
\* generation without a delta only while a second scrape is under way or after
\* one was cancelled; and it never sees a delta without a generation.
DeltaFollowsGeneration ==
  /\ rt.lastMtpDelta # "none" => rt.batchRequests > 0
  /\ rt.batchRequests > 0 /\ rt.lastMtpDelta = "none" =>
       \E r \in Requests : delivered[r] /\ (pc[r] = "after" \/ outcome[r] = "cancelled")

\* An "active" delta is evidence: the backend did make a draft round between the
\* two scrapes of that generation, even if it restarted and its counters went
\* back to zero in between.
ActiveDeltaIsEvidence == rt.lastMtpDelta = "active" => drafted

\* Without clients that leave early, a request is refused only while
\* max_queue_size + 1 admitted ones are still being served: "max_queue_size + 1
\* gives one active plus max_queue_size acceptable concurrent admissions before
\* the next call raises" (runtime_state.py:43).
Served == {r \in Requests : pc[r] \in HoldingPhases \ {"lost"}}

RefusedOnlyWhenFull ==
  [][rt'.rejected > rt.rejected => Cardinality(Served) = Capacity]_vars

\* With a generation timeout, every admitted JSON request ends and gives its slot
\* back, whatever the backend does.
JsonRequestsEnd ==
  \A r \in Requests : (pc[r] = "before" /\ kind[r] \in JsonKinds) ~> pc[r] = "done"

\* The slots behave as the abstract admission: Holders are inside, whoever was
\* answered queue_full was refused while Capacity of them were.
Abstract == INSTANCE Admission WITH
  Slots   <- Capacity,
  inside  <- Holders,
  refused <- Ending({"queue_full"}),
  gone    <- {r \in Requests : /\ pc[r] = "done"
                               /\ outcome[r] \notin {"invalid", "queue_full"}
                               /\ kind[r] \in GenerationKinds}

ImplementsAdmission == Abstract!AdmissionSpec

\* What readiness relies on: a generation is counted before its delta is recorded,
\* each counted one records at most one delta, in any order among generations, and
\* no delta says "active" unless the backend once made a draft round, whatever
\* scrapes fail, backends restart and clients leave in between.
Log == INSTANCE GenerationLog WITH
  Deltas    <- DeltaStates \ {"none"},
  counted   <- rt.batchRequests,
  pending   <- Cardinality({r \in Requests : pc[r] = "after"}),
  lastDelta <- rt.lastMtpDelta

ImplementsGenerationLog == Log!LogSpec
=============================================================================
