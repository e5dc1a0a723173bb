---------------------------- MODULE RuntimeState ----------------------------
(***************************************************************************)
(* The counters the gateway keeps in memory (server/runtime_state.py) and  *)
(* the methods that change them.  No method awaits, so each one is atomic  *)
(* with respect to the other coroutines of the event loop and is written   *)
(* here as an operator from the old state to the new one.                  *)
(* Token and second totals only accumulate what the backend reported; they *)
(* are read by no decision and are left out.                               *)
(***************************************************************************)
EXTENDS Naturals, FiniteSets

CONSTANT MaxQueueSize       \* --max-queue-size

ASSUME QueueAssumption == MaxQueueSize \in Nat \ {0}

\* What the MTP counters did across one generation, as record_mtp_delta
\* stores it; "none" before the first one.
DeltaStates == {"none", "active", "registered_but_idle", "unavailable", "parse_error"}

BackendErrors == {"none", "generation_timeout", "vllm_http_error", "tokenizer_unavailable"}

RuntimeStates ==
  [active : Nat, total : Nat, rejected : Nat, backendErrors : Nat,
   batchRequests : Nat, lastMtpDelta : DeltaStates, lastBackendError : BackendErrors]

InitRuntimeState ==
  [active |-> 0, total |-> 0, rejected |-> 0, backendErrors |-> 0,
   batchRequests |-> 0, lastMtpDelta |-> "none", lastBackendError |-> "none"]

\* One active generation plus max_queue_size more.
Capacity == MaxQueueSize + 1

\* Mutants: the comparison off by one, either way.
FullLate(s) == s.active > Capacity

FullEarly(s) == s.active >= MaxQueueSize

Full(s) == s.active >= Capacity

Acquire(s) == [s EXCEPT !.active = @ + 1, !.total = @ + 1]

Refuse(s) == [s EXCEPT !.rejected = @ + 1]

Release(s) == IF s.active > 0 THEN [s EXCEPT !.active = @ - 1] ELSE s

RecordGeneration(s) == [s EXCEPT !.batchRequests = @ + 1]

RecordBackendError(s, code) ==
  [s EXCEPT !.backendErrors = @ + 1, !.lastBackendError = code]

RecordMtpDelta(s, delta) == [s EXCEPT !.lastMtpDelta = delta]
=============================================================================
