--------------------------- MODULE GatewayProofs ----------------------------
(***************************************************************************)
(* Proofs about Gateway, for any finite set of requests, any queue size,   *)
(* either value of both switches and any bounds.                           *)
(*                                                                         *)
(* The invariant that carries everything is IInv: the types, the equality  *)
(* of the active gauge with the number of requests that hold a slot, and   *)
(* the bound on it.  The equality is what makes the bound inductive: the   *)
(* admission test reads the gauge, the promise is about the requests; and  *)
(* it is what makes release exact, whose test "active > 0" would otherwise *)
(* hide a missing acquire.                                                 *)
(*                                                                         *)
(* Then, what the generation counter and the MTP delta are to readiness:   *)
(* they implement GenerationLog, and an "active" delta is evidence of      *)
(* drafting.  The counters of the backend fall back to zero when it        *)
(* restarts, so they cannot be compared with what was read before.         *)
(* EvidenceInv compares them with the history instead: since the first     *)
(* scrape of a generation they never advanced further than the backend     *)
(* really drafted.                                                         *)
(*                                                                         *)
(* Last, the counters of /metrics agree with what became of the requests.  *)
(* Each is the size of a set of requests.  TallyInv says what the phase of *)
(* a request tells of its outcome and of what it delivered, so that the    *)
(* step which moves a counter is the one that brings its request into the  *)
(* set, and no later step brings it in again.                              *)
(***************************************************************************)
EXTENDS Gateway, FiniteSetTheorems, TLAPS

-----------------------------------------------------------------------------
(* The methods of RuntimeState.                                            *)

\* Every method of RuntimeState keeps the record well typed.
LEMMA RuntimeStateTypes ==
  ASSUME NEW s \in RuntimeStates
  PROVE  /\ Acquire(s) \in RuntimeStates
         /\ Refuse(s) \in RuntimeStates
         /\ Release(s) \in RuntimeStates
         /\ RecordGeneration(s) \in RuntimeStates
         /\ \A code \in BackendErrors : RecordBackendError(s, code) \in RuntimeStates
         /\ \A delta \in DeltaStates : RecordMtpDelta(s, delta) \in RuntimeStates
<1> USE DEF RuntimeStates
<1>1. Acquire(s) \in RuntimeStates
  <2>1. s.active + 1 \in Nat /\ s.total + 1 \in Nat
    OBVIOUS
  <2>2. [s EXCEPT !.active = s.active + 1] \in RuntimeStates
    BY <2>1
  <2>3. Acquire(s) = [[s EXCEPT !.active = s.active + 1] EXCEPT !.total = s.total + 1]
    BY DEF Acquire
  <2> QED BY <2>1, <2>2, <2>3
<1>2. Refuse(s) \in RuntimeStates
  BY DEF Refuse
<1>3. Release(s) \in RuntimeStates
  <2>1. CASE s.active > 0
    <3>1. s.active - 1 \in Nat
      BY <2>1
    <3> QED BY <2>1, <3>1 DEF Release
  <2>2. CASE ~(s.active > 0)
    BY <2>2 DEF Release
  <2> QED BY <2>1, <2>2
<1>4. RecordGeneration(s) \in RuntimeStates
  BY DEF RecordGeneration
<1>5. \A code \in BackendErrors : RecordBackendError(s, code) \in RuntimeStates
  <2> SUFFICES ASSUME NEW code \in BackendErrors
               PROVE  RecordBackendError(s, code) \in RuntimeStates
    OBVIOUS
  <2>1. [s EXCEPT !.backendErrors = s.backendErrors + 1] \in RuntimeStates
    OBVIOUS
  <2>2. RecordBackendError(s, code)
          = [[s EXCEPT !.backendErrors = s.backendErrors + 1] EXCEPT !.lastBackendError = code]
    BY DEF RecordBackendError
  <2> QED BY <2>1, <2>2
<1>6. \A delta \in DeltaStates : RecordMtpDelta(s, delta) \in RuntimeStates
  BY DEF RecordMtpDelta
<1> QED BY <1>1, <1>2, <1>3, <1>4, <1>5, <1>6

\* Only acquire and release touch the active gauge.
LEMMA ActiveEffects ==
  ASSUME NEW s \in RuntimeStates
  PROVE  /\ Acquire(s).active = s.active + 1
         /\ Refuse(s).active = s.active
         /\ s.active > 0 => Release(s).active = s.active - 1
         /\ RecordGeneration(s).active = s.active
         /\ \A code \in BackendErrors : RecordBackendError(s, code).active = s.active
         /\ \A delta \in DeltaStates : RecordMtpDelta(s, delta).active = s.active
BY DEF RuntimeStates, Acquire, Refuse, Release, RecordGeneration,
       RecordBackendError, RecordMtpDelta

\* A scrape always yields an observation, two observations a delta.
LEMMA MtpTypes ==
  /\ \A result \in ScrapeResults, n \in Nat : ParseMtpMetrics(result, n) \in Observations
  /\ \A b, a \in Observations : MtpMetricDelta(b, a) \in DeltaStates
<1>1. ASSUME NEW result \in ScrapeResults, NEW n \in Nat
      PROVE  ParseMtpMetrics(result, n) \in Observations
  BY DEF ParseMtpMetrics, Observations, MtpStates, ScrapeResults
<1>2. ASSUME NEW b \in Observations, NEW a \in Observations
      PROVE  MtpMetricDelta(b, a) \in DeltaStates
  <2>1. CASE "parse_error" \in {b.state, a.state}
    BY <2>1 DEF MtpMetricDelta, DeltaStates
  <2>2. CASE "parse_error" \notin {b.state, a.state}
    BY <2>2 DEF MtpMetricDelta, DeltaStates
  <2> QED BY <2>1, <2>2
<1> QED BY <1>1, <1>2

-----------------------------------------------------------------------------
(* Counting the holders of a slot when one request moves.                  *)

HoldersIn(f) == {r \in Requests : f[r] \in HoldingPhases}

LEMMA HoldersFinite ==
  ASSUME NEW f
  PROVE  /\ IsFiniteSet(HoldersIn(f))
         /\ Cardinality(HoldersIn(f)) \in Nat
<1>1. HoldersIn(f) \in SUBSET Requests
  BY DEF HoldersIn
<1> QED BY <1>1, RequestsAssumption, FS_Subset, FS_CardinalityType

LEMMA HoldersEnter ==
  ASSUME NEW f \in [Requests -> Phases], NEW r \in Requests, NEW ph \in HoldingPhases,
         f[r] \notin HoldingPhases
  PROVE  Cardinality(HoldersIn([f EXCEPT ![r] = ph])) = Cardinality(HoldersIn(f)) + 1
<1>1. HoldersIn([f EXCEPT ![r] = ph]) = HoldersIn(f) \cup {r}
  BY DEF HoldersIn
<1>2. r \notin HoldersIn(f)
  BY DEF HoldersIn
<1> QED BY <1>1, <1>2, HoldersFinite, FS_AddElement

LEMMA HoldersLeave ==
  ASSUME NEW f \in [Requests -> Phases], NEW r \in Requests, NEW ph \in Phases \ HoldingPhases,
         f[r] \in HoldingPhases
  PROVE  /\ Cardinality(HoldersIn([f EXCEPT ![r] = ph])) = Cardinality(HoldersIn(f)) - 1
         /\ Cardinality(HoldersIn(f)) > 0
<1>1. HoldersIn([f EXCEPT ![r] = ph]) = HoldersIn(f) \ {r}
  BY DEF HoldersIn
<1>2. r \in HoldersIn(f)
  BY DEF HoldersIn
<1>3. Cardinality(HoldersIn([f EXCEPT ![r] = ph])) = Cardinality(HoldersIn(f)) - 1
  BY <1>1, <1>2, HoldersFinite, FS_RemoveElement
<1>4. Cardinality(HoldersIn(f)) # 0
  BY <1>2, HoldersFinite, FS_EmptySet
<1> QED BY <1>3, <1>4, HoldersFinite

LEMMA HoldersMove ==
  ASSUME NEW f \in [Requests -> Phases], NEW r \in Requests, NEW ph \in Phases,
         f[r] \in HoldingPhases <=> ph \in HoldingPhases
  PROVE  HoldersIn([f EXCEPT ![r] = ph]) = HoldersIn(f)
BY DEF HoldersIn

-----------------------------------------------------------------------------
(* The inductive invariant.                                                *)

IInv == TypeOK /\ SlotAccounting /\ AdmissionBound

LEMMA Bound ==
  MaxQueueSize \in Nat /\ Capacity \in Nat /\ Capacity > 0
BY QueueAssumption DEF Capacity

\* A step that neither takes nor releases a slot.
LEMMA MoveKeeps ==
  ASSUME IInv, NEW r \in Requests, NEW ph \in Phases,
         pc[r] \in HoldingPhases <=> ph \in HoldingPhases,
         Goto(r, ph), rt'.active = rt.active
  PROVE  /\ pc' \in [Requests -> Phases]
         /\ SlotAccounting'
         /\ AdmissionBound'
<1>1. pc \in [Requests -> Phases] /\ pc' = [pc EXCEPT ![r] = ph]
  BY DEF IInv, TypeOK, Goto
<1>2. HoldersIn(pc') = HoldersIn(pc)
  BY <1>1, HoldersMove
<1>3. Holders = HoldersIn(pc) /\ Holders' = HoldersIn(pc')
  BY DEF Holders, HoldersIn
<1> QED BY <1>1, <1>2, <1>3 DEF IInv, SlotAccounting, AdmissionBound

\* A step of the backend, or of a handler that stays at its await.
LEMMA StayKeeps ==
  ASSUME IInv, pc' = pc, rt' = rt
  PROVE  SlotAccounting' /\ AdmissionBound'
BY DEF IInv, SlotAccounting, AdmissionBound, Holders

\* A handler that holds a slot and ends.
LEMMA FinishKeeps ==
  ASSUME IInv, NEW r \in Requests, pc[r] \in HoldingPhases,
         NEW how \in Outcomes, NEW s \in RuntimeStates, s.active = rt.active,
         Finish(r, how, s)
  PROVE  /\ pc' \in [Requests -> Phases]
         /\ outcome' \in [Requests -> Outcomes]
         /\ rt' \in RuntimeStates
         /\ before' \in [Requests -> Observations]
         /\ since' \in [Requests -> Nat]
         /\ SlotAccounting'
         /\ AdmissionBound'
<1>1. pc \in [Requests -> Phases] /\ pc' = [pc EXCEPT ![r] = "done"]
  BY DEF IInv, TypeOK, Finish, Goto
<1>2. "done" \in Phases \ HoldingPhases
  BY DEF Phases, HoldingPhases
<1>3. /\ Cardinality(HoldersIn(pc')) = Cardinality(HoldersIn(pc)) - 1
      /\ Cardinality(HoldersIn(pc)) > 0
  BY <1>1, <1>2, HoldersLeave
<1>4. Holders = HoldersIn(pc) /\ Holders' = HoldersIn(pc')
  BY DEF Holders, HoldersIn
<1>5. rt' = Release(s)
  BY DEF Finish
<1>6. rt' \in RuntimeStates
  BY <1>5, RuntimeStateTypes
<1>7. rt'.active = rt.active - 1
  BY <1>3, <1>4, <1>5, ActiveEffects DEF IInv, SlotAccounting
<1>8. SlotAccounting'
  BY <1>3, <1>4, <1>7 DEF IInv, SlotAccounting
<1>9. AdmissionBound'
  BY <1>3, <1>4, HoldersFinite, Bound DEF IInv, AdmissionBound
<1>10. NoObservation \in Observations
  BY DEF NoObservation, Observations, MtpStates
<1>11. /\ outcome' \in [Requests -> Outcomes]
       /\ before' \in [Requests -> Observations]
       /\ since' \in [Requests -> Nat]
  BY <1>10 DEF IInv, TypeOK, Finish, Ends
<1>12. pc' \in [Requests -> Phases]
  BY <1>1, <1>2
<1> QED BY <1>6, <1>8, <1>9, <1>11, <1>12

\* A handler that ends without ever having held a slot.
LEMMA AnswerKeeps ==
  ASSUME IInv, NEW r \in Requests, pc[r] \in Phases \ HoldingPhases,
         NEW how \in Outcomes, NEW s \in RuntimeStates, s.active = rt.active,
         Answer(r, how, s)
  PROVE  /\ pc' \in [Requests -> Phases]
         /\ outcome' \in [Requests -> Outcomes]
         /\ rt' \in RuntimeStates
         /\ before' \in [Requests -> Observations]
         /\ since' \in [Requests -> Nat]
         /\ SlotAccounting'
         /\ AdmissionBound'
<1>1. "done" \in Phases \ HoldingPhases
  BY DEF Phases, HoldingPhases
<1>2. Goto(r, "done") /\ rt' = s
  BY DEF Answer
<1>3. pc' \in [Requests -> Phases] /\ SlotAccounting' /\ AdmissionBound'
  BY <1>1, <1>2, MoveKeeps
<1>4. /\ outcome' \in [Requests -> Outcomes]
      /\ before' \in [Requests -> Observations]
      /\ since' \in [Requests -> Nat]
  BY DEF IInv, TypeOK, Answer, Ends
<1> QED BY <1>2, <1>3, <1>4

\* A generation is counted on the way to the second scrape.
LEMMA CountKeeps ==
  ASSUME IInv, NEW r \in Requests, pc[r] \in HoldingPhases,
         NEW how \in Outcomes, CountGeneration(r, how)
  PROVE  /\ pc' \in [Requests -> Phases]
         /\ outcome' \in [Requests -> Outcomes]
         /\ rt' \in RuntimeStates
         /\ before' \in [Requests -> Observations]
         /\ since' \in [Requests -> Nat]
         /\ SlotAccounting'
         /\ AdmissionBound'
<1>1. "after" \in Phases /\ "after" \in HoldingPhases
  BY DEF Phases, HoldingPhases
<1>2. rt \in RuntimeStates
  BY DEF IInv, TypeOK
<1>3. Goto(r, "after") /\ rt' = RecordGeneration(rt)
  BY DEF CountGeneration
<1>4. rt' \in RuntimeStates /\ rt'.active = rt.active
  BY <1>2, <1>3, RuntimeStateTypes, ActiveEffects
<1>5. pc' \in [Requests -> Phases] /\ SlotAccounting' /\ AdmissionBound'
  BY <1>1, <1>3, <1>4, MoveKeeps
<1>6. /\ outcome' \in [Requests -> Outcomes]
      /\ before' \in [Requests -> Observations]
      /\ since' \in [Requests -> Nat]
  BY DEF IInv, TypeOK, CountGeneration, Ends
<1> QED BY <1>4, <1>5, <1>6

-----------------------------------------------------------------------------
(* Every step preserves the invariant.                                     *)

LEMMA InitIInv == Init => IInv
<1> SUFFICES ASSUME Init PROVE IInv
  OBVIOUS
<1>1. NoObservation \in Observations
  BY DEF NoObservation, Observations, MtpStates
<1>2. InitRuntimeState \in RuntimeStates
  BY DEF InitRuntimeState, RuntimeStates, DeltaStates, BackendErrors
<1>3. TypeOK
  BY <1>1, <1>2 DEF Init, TypeOK, Phases, Outcomes, ErrorOutcomes
<1>4. Holders = {}
  BY DEF Init, Holders, HoldingPhases
<1>5. Cardinality(Holders) = 0
  BY <1>4, FS_EmptySet
<1>6. SlotAccounting
  BY <1>5 DEF Init, InitRuntimeState, SlotAccounting
<1>7. AdmissionBound
  BY <1>5, Bound DEF AdmissionBound
<1> QED BY <1>3, <1>6, <1>7 DEF IInv

LEMMA HandleIInv ==
  ASSUME IInv, NEW r \in Requests, Handle(r)
  PROVE  IInv'
<1> USE DEF IInv
<1> DEFINE Untouched == UNCHANGED <<kind, delivered, backendVars, drafted>>
<1>1. TypeOK /\ SlotAccounting /\ AdmissionBound
  OBVIOUS
<1>2. /\ rt \in RuntimeStates /\ pc[r] \in Phases /\ outcome[r] \in Outcomes
      /\ backend.counter \in Nat /\ drafts \in Nat
  BY DEF TypeOK
<1>3. \A code \in BackendErrors :
        /\ RecordBackendError(rt, code) \in RuntimeStates
        /\ RecordBackendError(rt, code).active = rt.active
  BY <1>2, RuntimeStateTypes, ActiveEffects
<1>4. Refuse(rt) \in RuntimeStates /\ Refuse(rt).active = rt.active
  BY <1>2, RuntimeStateTypes, ActiveEffects
<1>5. CASE RejectInvalid(r)
  <2>1. pc[r] \in Phases \ HoldingPhases
    BY <1>5 DEF RejectInvalid, Phases, HoldingPhases
  <2>2. "invalid" \in Outcomes
    BY DEF Outcomes
  <2>3. Answer(r, "invalid", rt) /\ Untouched
    BY <1>5 DEF RejectInvalid
  <2> HIDE DEF Untouched
  <2>4. /\ pc' \in [Requests -> Phases] /\ outcome' \in [Requests -> Outcomes]
        /\ rt' \in RuntimeStates /\ before' \in [Requests -> Observations]
        /\ since' \in [Requests -> Nat] /\ SlotAccounting' /\ AdmissionBound'
    BY <1>2, <1>4, <2>1, <2>2, <2>3, AnswerKeeps
  <2> QED BY <2>3, <2>4 DEF TypeOK, Untouched, backendVars
<1>6. CASE RejectQueueFull(r)
  <2>1. pc[r] \in Phases \ HoldingPhases
    BY <1>6 DEF RejectQueueFull, Phases, HoldingPhases
  <2>2. "queue_full" \in Outcomes
    BY DEF Outcomes
  <2>3. Answer(r, "queue_full", Refuse(rt)) /\ Untouched
    BY <1>6 DEF RejectQueueFull
  <2> HIDE DEF Untouched
  <2>4. /\ pc' \in [Requests -> Phases] /\ outcome' \in [Requests -> Outcomes]
        /\ rt' \in RuntimeStates /\ before' \in [Requests -> Observations]
        /\ since' \in [Requests -> Nat] /\ SlotAccounting' /\ AdmissionBound'
    BY <1>2, <1>4, <2>1, <2>2, <2>3, AnswerKeeps
  <2> QED BY <2>3, <2>4 DEF TypeOK, Untouched, backendVars
<1>7. CASE GenerationTimesOut(r)
  <2>1. pc[r] \in HoldingPhases
    BY <1>7 DEF GenerationTimesOut, HoldingPhases
  <2>2. "timeout" \in Outcomes
    BY DEF Outcomes, ErrorOutcomes
  <2>3. Finish(r, "timeout", RecordBackendError(rt, "generation_timeout")) /\ Untouched
    BY <1>7 DEF GenerationTimesOut
  <2>4. RecordBackendError(rt, "generation_timeout") \in RuntimeStates /\ RecordBackendError(rt, "generation_timeout").active = rt.active
    BY <1>2, <1>3 DEF BackendErrors
  <2> HIDE DEF Untouched
  <2>5. /\ pc' \in [Requests -> Phases] /\ outcome' \in [Requests -> Outcomes]
        /\ rt' \in RuntimeStates /\ before' \in [Requests -> Observations]
        /\ since' \in [Requests -> Nat] /\ SlotAccounting' /\ AdmissionBound'
    BY <2>1, <2>2, <2>3, <2>4, FinishKeeps
  <2> QED BY <2>3, <2>5 DEF TypeOK, Untouched, backendVars
<1>8. CASE GenerationRefused(r)
  <2>1. pc[r] \in HoldingPhases
    BY <1>8 DEF GenerationRefused, HoldingPhases
  <2>2. "upstream_4xx" \in Outcomes
    BY DEF Outcomes, ErrorOutcomes
  <2>3. Finish(r, "upstream_4xx", rt) /\ Untouched
    BY <1>8 DEF GenerationRefused
  <2>4. rt \in RuntimeStates /\ rt.active = rt.active
    BY <1>2, <1>3 DEF BackendErrors
  <2> HIDE DEF Untouched
  <2>5. /\ pc' \in [Requests -> Phases] /\ outcome' \in [Requests -> Outcomes]
        /\ rt' \in RuntimeStates /\ before' \in [Requests -> Observations]
        /\ since' \in [Requests -> Nat] /\ SlotAccounting' /\ AdmissionBound'
    BY <2>1, <2>2, <2>3, <2>4, FinishKeeps
  <2> QED BY <2>3, <2>5 DEF TypeOK, Untouched, backendVars
<1>9. CASE GenerationFails(r)
  <2>1. pc[r] \in HoldingPhases
    BY <1>9 DEF GenerationFails, HoldingPhases
  <2>2. "backend_error" \in Outcomes
    BY DEF Outcomes, ErrorOutcomes
  <2>3. Finish(r, "backend_error", RecordBackendError(rt, "vllm_http_error")) /\ Untouched
    BY <1>9 DEF GenerationFails
  <2>4. RecordBackendError(rt, "vllm_http_error") \in RuntimeStates /\ RecordBackendError(rt, "vllm_http_error").active = rt.active
    BY <1>2, <1>3 DEF BackendErrors
  <2> HIDE DEF Untouched
  <2>5. /\ pc' \in [Requests -> Phases] /\ outcome' \in [Requests -> Outcomes]
        /\ rt' \in RuntimeStates /\ before' \in [Requests -> Observations]
        /\ since' \in [Requests -> Nat] /\ SlotAccounting' /\ AdmissionBound'
    BY <2>1, <2>2, <2>3, <2>4, FinishKeeps
  <2> QED BY <2>3, <2>5 DEF TypeOK, Untouched, backendVars
<1>10. CASE GenerationRaises(r)
  <2>1. pc[r] \in HoldingPhases
    BY <1>10 DEF GenerationRaises, HoldingPhases
  <2>2. "failed" \in Outcomes
    BY DEF Outcomes, ErrorOutcomes
  <2>3. Finish(r, "failed", rt) /\ Untouched
    BY <1>10 DEF GenerationRaises
  <2>4. rt \in RuntimeStates /\ rt.active = rt.active
    BY <1>2, <1>3 DEF BackendErrors
  <2> HIDE DEF Untouched
  <2>5. /\ pc' \in [Requests -> Phases] /\ outcome' \in [Requests -> Outcomes]
        /\ rt' \in RuntimeStates /\ before' \in [Requests -> Observations]
        /\ since' \in [Requests -> Nat] /\ SlotAccounting' /\ AdmissionBound'
    BY <2>1, <2>2, <2>3, <2>4, FinishKeeps
  <2> QED BY <2>3, <2>5 DEF TypeOK, Untouched, backendVars
<1>11. CASE CancelEarly(r)
  <2>1. pc[r] \in HoldingPhases
    BY <1>11 DEF CancelEarly, HoldingPhases
  <2>2. "cancelled" \in Outcomes
    BY DEF Outcomes, ErrorOutcomes
  <2>3. Finish(r, "cancelled", rt) /\ Untouched
    BY <1>11 DEF CancelEarly
  <2>4. rt \in RuntimeStates /\ rt.active = rt.active
    BY <1>2, <1>3 DEF BackendErrors
  <2> HIDE DEF Untouched
  <2>5. /\ pc' \in [Requests -> Phases] /\ outcome' \in [Requests -> Outcomes]
        /\ rt' \in RuntimeStates /\ before' \in [Requests -> Observations]
        /\ since' \in [Requests -> Nat] /\ SlotAccounting' /\ AdmissionBound'
    BY <2>1, <2>2, <2>3, <2>4, FinishKeeps
  <2> QED BY <2>3, <2>5 DEF TypeOK, Untouched, backendVars
<1>12. CASE StreamClosed(r)
  <2>1. pc[r] \in HoldingPhases
    BY <1>12 DEF StreamClosed, HoldingPhases
  <2>2. outcome[r] \in Outcomes
    BY <1>2
  <2>3. Finish(r, outcome[r], rt) /\ Untouched
    BY <1>12 DEF StreamClosed
  <2>4. rt \in RuntimeStates /\ rt.active = rt.active
    BY <1>2, <1>3 DEF BackendErrors
  <2> HIDE DEF Untouched
  <2>5. /\ pc' \in [Requests -> Phases] /\ outcome' \in [Requests -> Outcomes]
        /\ rt' \in RuntimeStates /\ before' \in [Requests -> Observations]
        /\ since' \in [Requests -> Nat] /\ SlotAccounting' /\ AdmissionBound'
    BY <2>1, <2>2, <2>3, <2>4, FinishKeeps
  <2> QED BY <2>3, <2>5 DEF TypeOK, Untouched, backendVars
<1>13. CASE CancelAfter(r)
  <2>1. pc[r] \in HoldingPhases
    BY <1>13 DEF CancelAfter, HoldingPhases
  <2>2. "cancelled" \in Outcomes
    BY DEF Outcomes, ErrorOutcomes
  <2>3. Finish(r, "cancelled", rt) /\ Untouched
    BY <1>13 DEF CancelAfter
  <2>4. rt \in RuntimeStates /\ rt.active = rt.active
    BY <1>2, <1>3 DEF BackendErrors
  <2> HIDE DEF Untouched
  <2>5. /\ pc' \in [Requests -> Phases] /\ outcome' \in [Requests -> Outcomes]
        /\ rt' \in RuntimeStates /\ before' \in [Requests -> Observations]
        /\ since' \in [Requests -> Nat] /\ SlotAccounting' /\ AdmissionBound'
    BY <2>1, <2>2, <2>3, <2>4, FinishKeeps
  <2> QED BY <2>3, <2>5 DEF TypeOK, Untouched, backendVars
<1>14. CASE GenerationReturns(r)
  <2>1. pc[r] \in HoldingPhases
    BY <1>14 DEF GenerationReturns, HoldingPhases
  <2>2. "ok" \in Outcomes
    BY DEF Outcomes
  <2>3. CountGeneration(r, "ok")
    BY <1>14 DEF GenerationReturns
  <2>4. /\ pc' \in [Requests -> Phases] /\ outcome' \in [Requests -> Outcomes]
        /\ rt' \in RuntimeStates /\ before' \in [Requests -> Observations]
        /\ since' \in [Requests -> Nat] /\ SlotAccounting' /\ AdmissionBound'
    BY <2>1, <2>2, <2>3, CountKeeps
  <2> QED BY <1>14, <2>4 DEF GenerationReturns, TypeOK, backendVars
<1>15. CASE StreamCompletes(r)
  <2>1. pc[r] \in HoldingPhases
    BY <1>15 DEF StreamCompletes, HoldingPhases
  <2>2. "ok" \in Outcomes
    BY DEF Outcomes
  <2>3. CountGeneration(r, "ok")
    BY <1>15 DEF StreamCompletes
  <2>4. /\ pc' \in [Requests -> Phases] /\ outcome' \in [Requests -> Outcomes]
        /\ rt' \in RuntimeStates /\ before' \in [Requests -> Observations]
        /\ since' \in [Requests -> Nat] /\ SlotAccounting' /\ AdmissionBound'
    BY <2>1, <2>2, <2>3, CountKeeps
  <2> QED BY <1>15, <2>4 DEF StreamCompletes, TypeOK, backendVars
<1>16. CASE StartStream(r)
  <2>1. "streaming" \in Phases /\ (pc[r] \in HoldingPhases <=> "streaming" \in HoldingPhases)
    BY <1>16 DEF StartStream, Phases, HoldingPhases
  <2>2. Goto(r, "streaming") /\ rt' = rt
    BY <1>16 DEF StartStream
  <2>3. pc' \in [Requests -> Phases] /\ SlotAccounting' /\ AdmissionBound'
    BY <2>1, <2>2, MoveKeeps
  <2> QED BY <1>16, <2>3 DEF StartStream, TypeOK, backendVars
<1>17. CASE StreamBuffered(r)
  <2>1. "emitting" \in Phases /\ (pc[r] \in HoldingPhases <=> "emitting" \in HoldingPhases)
    BY <1>17 DEF StreamBuffered, Phases, HoldingPhases
  <2>2. Goto(r, "emitting") /\ rt' = rt
    BY <1>17 DEF StreamBuffered
  <2>3. pc' \in [Requests -> Phases] /\ SlotAccounting' /\ AdmissionBound'
    BY <2>1, <2>2, MoveKeeps
  <2> QED BY <1>17, <2>3 DEF StreamBuffered, TypeOK, backendVars
<1>18. CASE Tokenize(r)
  <2>1. "tokenizing" \in Phases /\ (pc[r] \in HoldingPhases <=> "tokenizing" \in HoldingPhases)
    BY <1>18 DEF Tokenize, Phases, HoldingPhases
  <2>2. Goto(r, "tokenizing") /\ rt' = rt
    BY <1>18 DEF Tokenize
  <2>3. pc' \in [Requests -> Phases] /\ SlotAccounting' /\ AdmissionBound'
    BY <2>1, <2>2, MoveKeeps
  <2> QED BY <1>18, <2>3 DEF Tokenize, TypeOK, backendVars
<1>19. CASE LoseStream(r)
  <2>1. "lost" \in Phases /\ (pc[r] \in HoldingPhases <=> "lost" \in HoldingPhases)
    BY <1>19 DEF LoseStream, Phases, HoldingPhases
  <2>2. Goto(r, "lost") /\ rt' = rt
    BY <1>19 DEF LoseStream
  <2>3. pc' \in [Requests -> Phases] /\ SlotAccounting' /\ AdmissionBound'
    BY <2>1, <2>2, MoveKeeps
  <2>4. NoObservation \in Observations
    BY DEF NoObservation, Observations, MtpStates
  <2>5. "cancelled" \in Outcomes
    BY DEF Outcomes
  <2>6. /\ outcome' \in [Requests -> Outcomes] /\ since' \in [Requests -> Nat]
        /\ before' \in [Requests -> Observations]
    BY <1>19, <2>4, <2>5 DEF LoseStream, Ends, TypeOK
  <2> QED BY <1>19, <2>3, <2>6 DEF LoseStream, TypeOK, backendVars
<1>20. CASE StreamDelivers(r)
  <2>1. SlotAccounting' /\ AdmissionBound'
    BY <1>20, StayKeeps DEF StreamDelivers
  <2> QED BY <1>20, <2>1 DEF StreamDelivers, TypeOK, backendVars
<1>21. CASE StreamRefused(r)
  <2>1. "closing" \in Phases /\ (pc[r] \in HoldingPhases <=> "closing" \in HoldingPhases)
    BY <1>21 DEF StreamRefused, Phases, HoldingPhases
  <2>2. Goto(r, "closing") /\ rt' = RecordBackendError(rt, "vllm_http_error")
    BY <1>21 DEF StreamRefused
  <2>3. rt' \in RuntimeStates /\ rt'.active = rt.active
    BY <1>3, <2>2 DEF BackendErrors
  <2>4. pc' \in [Requests -> Phases] /\ SlotAccounting' /\ AdmissionBound'
    BY <2>1, <2>2, <2>3, MoveKeeps
  <2>5. "backend_error" \in Outcomes
    BY DEF Outcomes, ErrorOutcomes
  <2>6. outcome' \in [Requests -> Outcomes]
    BY <1>21, <2>5 DEF StreamRefused, Ends, TypeOK
  <2> QED BY <1>21, <2>3, <2>4, <2>6 DEF StreamRefused, TypeOK, backendVars
<1>22. CASE Admit(r)
  <2>1. pc \in [Requests -> Phases] /\ pc' = [pc EXCEPT ![r] = "before"]
    BY <1>22 DEF Admit, Goto, TypeOK
  <2>2. "before" \in Phases /\ "before" \in HoldingPhases /\ pc[r] \notin HoldingPhases
    BY <1>22 DEF Admit, Phases, HoldingPhases
  <2>3. Cardinality(HoldersIn(pc')) = Cardinality(HoldersIn(pc)) + 1
    BY <2>1, <2>2, HoldersEnter
  <2>4. Holders = HoldersIn(pc) /\ Holders' = HoldersIn(pc')
    BY DEF Holders, HoldersIn
  <2>5. rt' = Acquire(rt) /\ ~Full(rt)
    BY <1>22 DEF Admit
  <2>6. rt' \in RuntimeStates /\ rt'.active = rt.active + 1
    BY <1>2, <2>5, RuntimeStateTypes, ActiveEffects
  <2>7. SlotAccounting'
    BY <2>3, <2>4, <2>6 DEF SlotAccounting
  <2>8. Cardinality(HoldersIn(pc)) < Capacity
    BY <2>4, <2>5, HoldersFinite, Bound DEF Full, SlotAccounting
  <2>9. AdmissionBound'
    BY <2>3, <2>4, <2>8, HoldersFinite, Bound DEF AdmissionBound
  <2>10. pc' \in [Requests -> Phases]
    BY <2>1, <2>2
  <2> QED BY <1>22, <2>6, <2>7, <2>9, <2>10 DEF Admit, TypeOK, backendVars
<1>23. CASE ScrapeBefore(r)
  <2> DEFINE ph == IF kind[r] \in StreamKinds THEN "handoff" ELSE "generating"
  <2>1. ph \in Phases /\ (pc[r] \in HoldingPhases <=> ph \in HoldingPhases)
    BY <1>23 DEF ScrapeBefore, Phases, HoldingPhases
  <2>2. Goto(r, ph) /\ rt' = rt
    BY <1>23 DEF ScrapeBefore
  <2> HIDE DEF ph
  <2>3. pc' \in [Requests -> Phases] /\ SlotAccounting' /\ AdmissionBound'
    BY <2>1, <2>2, MoveKeeps
  <2>4. PICK result \in ScrapeResults :
          before' = [before EXCEPT ![r] = ParseMtpMetrics(result, backend.counter)]
    BY <1>23 DEF ScrapeBefore
  <2>5. before' \in [Requests -> Observations]
    BY <1>2, <2>4, MtpTypes DEF TypeOK
  <2>6. since' \in [Requests -> Nat]
    BY <1>23, <1>2 DEF ScrapeBefore, TypeOK
  <2> QED BY <1>23, <2>3, <2>5, <2>6 DEF ScrapeBefore, TypeOK, backendVars
<1>24. CASE StreamStops(r)
  <2>1. PICK how \in {"truncated", "failed", "cancelled"} :
          /\ pc[r] \in {"streaming", "emitting"}
          /\ IF delivered[r] THEN CountGeneration(r, how) ELSE Finish(r, how, rt)
          /\ Untouched
    BY <1>24 DEF StreamStops
  <2>2. how \in Outcomes /\ pc[r] \in HoldingPhases
    BY <2>1 DEF Outcomes, HoldingPhases
  <2> HIDE DEF Untouched
  <2>3. /\ pc' \in [Requests -> Phases] /\ outcome' \in [Requests -> Outcomes]
        /\ rt' \in RuntimeStates /\ before' \in [Requests -> Observations]
        /\ since' \in [Requests -> Nat] /\ SlotAccounting' /\ AdmissionBound'
    <3>1. CASE delivered[r]
      BY <2>1, <2>2, <3>1, CountKeeps
    <3>2. CASE ~delivered[r]
      BY <1>2, <2>1, <2>2, <3>2, FinishKeeps
    <3> QED BY <3>1, <3>2
  <2> QED BY <2>1, <2>3 DEF TypeOK, Untouched, backendVars
<1>25. CASE ScrapeAfter(r)
  <2>1. PICK result \in ScrapeResults, how \in {outcome[r], "failed"} :
          Finish(r, how,
            RecordMtpDelta(rt, MtpMetricDelta(before[r], ParseMtpMetrics(result, backend.counter))))
    BY <1>25 DEF ScrapeAfter
  <2> DEFINE delta == MtpMetricDelta(before[r], ParseMtpMetrics(result, backend.counter))
  <2>2. ParseMtpMetrics(result, backend.counter) \in Observations
    BY <1>2, MtpTypes
  <2>3. before[r] \in Observations
    BY DEF TypeOK
  <2>4. delta \in DeltaStates
    BY <2>2, <2>3, MtpTypes
  <2>5. /\ RecordMtpDelta(rt, delta) \in RuntimeStates
        /\ RecordMtpDelta(rt, delta).active = rt.active
    BY <1>2, <2>4, RuntimeStateTypes, ActiveEffects
  <2>6. how \in Outcomes /\ pc[r] \in HoldingPhases
    BY <1>25, <1>2 DEF ScrapeAfter, Outcomes, HoldingPhases
  <2> HIDE DEF delta
  <2>7. Finish(r, how, RecordMtpDelta(rt, delta))
    BY <2>1 DEF delta
  <2>8. /\ pc' \in [Requests -> Phases] /\ outcome' \in [Requests -> Outcomes]
        /\ rt' \in RuntimeStates /\ before' \in [Requests -> Observations]
        /\ since' \in [Requests -> Nat] /\ SlotAccounting' /\ AdmissionBound'
    BY <2>5, <2>6, <2>7, FinishKeeps
  <2>9. drafted' \in BOOLEAN
    BY <1>25 DEF ScrapeAfter
  <2> QED BY <1>25, <2>8, <2>9 DEF ScrapeAfter, TypeOK, backendVars
<1>26. CASE TokenizeEnds(r)
  <2>1. pc[r] \in Phases \ HoldingPhases
    BY <1>26 DEF TokenizeEnds, Phases, HoldingPhases
  <2>2. PICK how \in Outcomes, s \in RuntimeStates :
          Answer(r, how, s) /\ s.active = rt.active
    BY <1>26, <1>2, <1>3 DEF TokenizeEnds, Outcomes, ErrorOutcomes, BackendErrors
  <2>3. /\ pc' \in [Requests -> Phases] /\ outcome' \in [Requests -> Outcomes]
        /\ rt' \in RuntimeStates /\ before' \in [Requests -> Observations]
        /\ since' \in [Requests -> Nat] /\ SlotAccounting' /\ AdmissionBound'
    BY <2>1, <2>2, AnswerKeeps
  <2> QED BY <1>26, <2>3 DEF TokenizeEnds, TypeOK, backendVars
<1> QED BY <1>5, <1>6, <1>7, <1>8, <1>9, <1>10, <1>11, <1>12, <1>13, <1>14, <1>15, <1>16, <1>17, <1>18, <1>19, <1>20, <1>21, <1>22, <1>23, <1>24, <1>25, <1>26 DEF Handle

LEMMA NextIInv == IInv /\ [Next]_vars => IInv'
<1> SUFFICES ASSUME IInv, [Next]_vars PROVE IInv'
  OBVIOUS
<1>1. CASE \E r \in Requests : Handle(r)
  BY <1>1, HandleIInv
<1>2. CASE BackendDrafts
  <2>1. SlotAccounting' /\ AdmissionBound'
    BY <1>2, StayKeeps DEF BackendDrafts
  <2> QED BY <1>2, <2>1 DEF BackendDrafts, IInv, TypeOK
<1>3. CASE BackendRestarts
  <2>1. SlotAccounting' /\ AdmissionBound'
    BY <1>3, StayKeeps DEF BackendRestarts
  <2> QED BY <1>3, <2>1 DEF BackendRestarts, IInv, TypeOK
<1>4. CASE UNCHANGED vars
  <2>1. SlotAccounting' /\ AdmissionBound'
    BY <1>4, StayKeeps DEF vars
  <2> QED BY <1>4, <2>1 DEF vars, IInv, TypeOK
<1> QED BY <1>1, <1>2, <1>3, <1>4 DEF Next

\* IInv holds in every reachable state.
THEOREM Invariant == Spec => []IInv
BY InitIInv, NextIInv, PTL DEF Spec

-----------------------------------------------------------------------------
(* What a reader wants to know.                                            *)

\* Every variable keeps its type.
THEOREM TypeCorrect == Spec => []TypeOK
<1>1. IInv => TypeOK
  BY DEF IInv
<1> QED BY <1>1, Invariant, PTL

\* The active gauge is the number of requests that hold a slot, in every
\* interleaving of any number of requests: no path of a handler forgets its
\* release or releases twice.
THEOREM GaugeIsExact == Spec => []SlotAccounting
<1>1. IInv => SlotAccounting
  BY DEF IInv
<1> QED BY <1>1, Invariant, PTL

\* No more than max_queue_size + 1 requests ever hold a slot.
THEOREM AdmissionIsBounded == Spec => []AdmissionBound
<1>1. IInv => AdmissionBound
  BY DEF IInv
<1> QED BY <1>1, Invariant, PTL

-----------------------------------------------------------------------------
(* The slots implement the abstract admission.                             *)

\* A new request is undecided; whoever holds a slot is a generation that was
\* not refused; only count_tokens tokenizes.
PhaseInv ==
  \A r \in Requests :
    /\ pc[r] \in {"new", "tokenizing"} => outcome[r] = "none"
    /\ pc[r] \in HoldingPhases =>
         kind[r] \in GenerationKinds /\ outcome[r] \notin {"invalid", "queue_full"}
    /\ pc[r] = "tokenizing" => kind[r] \notin GenerationKinds

LEMMA InitPhaseInv == Init => PhaseInv
BY DEF Init, PhaseInv, HoldingPhases

\* What one step of a handler does to the phase and the outcome of its request.
Moves(r, ph, how) ==
  /\ ph \in Phases /\ how \in Outcomes
  /\ pc' = [pc EXCEPT ![r] = ph]
  /\ outcome' = [outcome EXCEPT ![r] = how]

\* The steps a handler can make, up to what admission distinguishes.
Allowed(r, ph, how) ==
  \/ pc[r] = "new" /\ ph = "done" /\ how = "invalid"
  \/ pc[r] = "new" /\ ph = "done" /\ how = "queue_full" /\ Full(rt) /\ kind[r] \in GenerationKinds
  \/ pc[r] = "new" /\ ph = "before" /\ how = outcome[r] /\ ~Full(rt) /\ kind[r] \in GenerationKinds
  \/ pc[r] = "new" /\ ph = "tokenizing" /\ how = outcome[r] /\ kind[r] \notin GenerationKinds
  \/ pc[r] = "tokenizing" /\ ph = "done" /\ how \notin {"invalid", "queue_full"}
  \/ /\ pc[r] \in HoldingPhases
     /\ ph \in HoldingPhases \cup {"done"}
     /\ how = outcome[r] \/ how \notin {"invalid", "queue_full"}

LEMMA HandleMoves ==
  ASSUME TypeOK, NEW r \in Requests, Handle(r)
  PROVE  kind' = kind /\ \E ph, how : Moves(r, ph, how) /\ Allowed(r, ph, how)
<1>1. /\ pc \in [Requests -> Phases] /\ outcome \in [Requests -> Outcomes]
      /\ pc[r] \in Phases /\ outcome[r] \in Outcomes
  BY DEF TypeOK
<1> USE <1>1 DEF Goto, Ends, Phases, HoldingPhases, Outcomes, ErrorOutcomes, Moves, Allowed
<1>2. CASE RejectInvalid(r)
  <2>1. Moves(r, "done", "invalid") /\ Allowed(r, "done", "invalid")
    BY <1>2 DEF RejectInvalid, Answer
  <2> QED BY <1>2, <2>1 DEF RejectInvalid
<1>3. CASE RejectQueueFull(r)
  <2>1. Moves(r, "done", "queue_full") /\ Allowed(r, "done", "queue_full")
    BY <1>3 DEF RejectQueueFull, Answer
  <2> QED BY <1>3, <2>1 DEF RejectQueueFull
<1>4. CASE Admit(r)
  <2>1. Moves(r, "before", outcome[r]) /\ Allowed(r, "before", outcome[r])
    BY <1>4 DEF Admit
  <2> QED BY <1>4, <2>1 DEF Admit
<1>5. CASE GenerationReturns(r)
  <2>1. Moves(r, "after", "ok") /\ Allowed(r, "after", "ok")
    BY <1>5 DEF GenerationReturns, CountGeneration
  <2> QED BY <1>5, <2>1 DEF GenerationReturns
<1>6. CASE GenerationTimesOut(r)
  <2>1. Moves(r, "done", "timeout") /\ Allowed(r, "done", "timeout")
    BY <1>6 DEF GenerationTimesOut, Finish
  <2> QED BY <1>6, <2>1 DEF GenerationTimesOut
<1>7. CASE GenerationRefused(r)
  <2>1. Moves(r, "done", "upstream_4xx") /\ Allowed(r, "done", "upstream_4xx")
    BY <1>7 DEF GenerationRefused, Finish
  <2> QED BY <1>7, <2>1 DEF GenerationRefused
<1>8. CASE GenerationFails(r)
  <2>1. Moves(r, "done", "backend_error") /\ Allowed(r, "done", "backend_error")
    BY <1>8 DEF GenerationFails, Finish
  <2> QED BY <1>8, <2>1 DEF GenerationFails
<1>9. CASE GenerationRaises(r)
  <2>1. Moves(r, "done", "failed") /\ Allowed(r, "done", "failed")
    BY <1>9 DEF GenerationRaises, Finish
  <2> QED BY <1>9, <2>1 DEF GenerationRaises
<1>10. CASE CancelEarly(r)
  <2>1. Moves(r, "done", "cancelled") /\ Allowed(r, "done", "cancelled")
    BY <1>10 DEF CancelEarly, Finish
  <2> QED BY <1>10, <2>1 DEF CancelEarly
<1>11. CASE StartStream(r)
  <2>1. Moves(r, "streaming", outcome[r]) /\ Allowed(r, "streaming", outcome[r])
    BY <1>11 DEF StartStream
  <2> QED BY <1>11, <2>1 DEF StartStream
<1>12. CASE LoseStream(r)
  <2>1. Moves(r, "lost", "cancelled") /\ Allowed(r, "lost", "cancelled")
    BY <1>12 DEF LoseStream
  <2> QED BY <1>12, <2>1 DEF LoseStream
<1>13. CASE StreamRefused(r)
  <2>1. Moves(r, "closing", "backend_error") /\ Allowed(r, "closing", "backend_error")
    BY <1>13 DEF StreamRefused
  <2> QED BY <1>13, <2>1 DEF StreamRefused
<1>14. CASE StreamClosed(r)
  <2>1. Moves(r, "done", outcome[r]) /\ Allowed(r, "done", outcome[r])
    BY <1>14 DEF StreamClosed, Finish
  <2> QED BY <1>14, <2>1 DEF StreamClosed
<1>15. CASE StreamDelivers(r)
  <2>1. Moves(r, pc[r], outcome[r]) /\ Allowed(r, pc[r], outcome[r])
    BY <1>15 DEF StreamDelivers
  <2> QED BY <1>15, <2>1 DEF StreamDelivers
<1>16. CASE StreamBuffered(r)
  <2>1. Moves(r, "emitting", outcome[r]) /\ Allowed(r, "emitting", outcome[r])
    BY <1>16 DEF StreamBuffered
  <2> QED BY <1>16, <2>1 DEF StreamBuffered
<1>17. CASE StreamCompletes(r)
  <2>1. Moves(r, "after", "ok") /\ Allowed(r, "after", "ok")
    BY <1>17 DEF StreamCompletes, CountGeneration
  <2> QED BY <1>17, <2>1 DEF StreamCompletes
<1>18. CASE CancelAfter(r)
  <2>1. Moves(r, "done", "cancelled") /\ Allowed(r, "done", "cancelled")
    BY <1>18 DEF CancelAfter, Finish
  <2> QED BY <1>18, <2>1 DEF CancelAfter
<1>19. CASE Tokenize(r)
  <2>1. Moves(r, "tokenizing", outcome[r]) /\ Allowed(r, "tokenizing", outcome[r])
    BY <1>19 DEF Tokenize, GenerationKinds, JsonKinds, StreamKinds
  <2> QED BY <1>19, <2>1 DEF Tokenize
<1>20. CASE ScrapeBefore(r)
  <2> DEFINE next == IF kind[r] \in StreamKinds THEN "handoff" ELSE "generating"
  <2>1. Moves(r, next, outcome[r]) /\ Allowed(r, next, outcome[r])
    BY <1>20 DEF ScrapeBefore
  <2> QED BY <1>20, <2>1 DEF ScrapeBefore
<1>21. CASE StreamStops(r)
  <2>1. PICK how \in {"truncated", "failed", "cancelled"} :
          /\ pc[r] \in {"streaming", "emitting"}
          /\ IF delivered[r] THEN CountGeneration(r, how) ELSE Finish(r, how, rt)
          /\ kind' = kind
    BY <1>21 DEF StreamStops
  <2>2. CASE delivered[r]
    <3>1. Moves(r, "after", how) /\ Allowed(r, "after", how)
      BY <2>1, <2>2 DEF CountGeneration
    <3> QED BY <2>1, <3>1
  <2>3. CASE ~delivered[r]
    <3>1. Moves(r, "done", how) /\ Allowed(r, "done", how)
      BY <2>1, <2>3 DEF Finish
    <3> QED BY <2>1, <3>1
  <2> QED BY <2>2, <2>3
<1>22. CASE ScrapeAfter(r)
  <2>1. PICK how \in {outcome[r], "failed"} : \E s : Finish(r, how, s)
    BY <1>22 DEF ScrapeAfter
  <2>2. Moves(r, "done", how) /\ Allowed(r, "done", how)
    BY <1>22, <2>1 DEF ScrapeAfter, Finish
  <2> QED BY <1>22, <2>2 DEF ScrapeAfter
<1>23. CASE TokenizeEnds(r)
  <2>1. PICK how \in Outcomes \ {"invalid", "queue_full"} : \E s : Answer(r, how, s)
    BY <1>23 DEF TokenizeEnds
  <2>2. Moves(r, "done", how) /\ Allowed(r, "done", how)
    BY <1>23, <2>1 DEF TokenizeEnds, Answer
  <2> QED BY <1>23, <2>2 DEF TokenizeEnds
<1> QED BY <1>2, <1>3, <1>4, <1>5, <1>6, <1>7, <1>8, <1>9, <1>10, <1>11, <1>12, <1>13, <1>14, <1>15, <1>16, <1>17, <1>18, <1>19, <1>20, <1>21, <1>22, <1>23 DEF Handle

LEMMA NextPhaseInv == TypeOK /\ PhaseInv /\ [Next]_vars => PhaseInv'
<1> SUFFICES ASSUME TypeOK, PhaseInv, [Next]_vars PROVE PhaseInv'
  OBVIOUS
<1>1. ASSUME NEW r \in Requests, Handle(r)
      PROVE  PhaseInv'
  <2>1. kind' = kind
    BY <1>1, HandleMoves
  <2>2. PICK ph, how : Moves(r, ph, how) /\ Allowed(r, ph, how)
    BY <1>1, HandleMoves
  <2>3. pc \in [Requests -> Phases] /\ outcome \in [Requests -> Outcomes]
    BY DEF TypeOK
  <2> SUFFICES ASSUME NEW q \in Requests
               PROVE  /\ pc'[q] \in {"new", "tokenizing"} => outcome'[q] = "none"
                      /\ pc'[q] \in HoldingPhases =>
                           /\ kind[q] \in GenerationKinds
                           /\ outcome'[q] \notin {"invalid", "queue_full"}
                      /\ pc'[q] = "tokenizing" => kind[q] \notin GenerationKinds
    BY <2>1 DEF PhaseInv
  <2>4. CASE q = r
    <3>1. pc'[r] = ph /\ outcome'[r] = how
      BY <2>2, <2>3 DEF Moves
    <3> QED BY <2>2, <2>4, <3>1 DEF PhaseInv, Allowed, HoldingPhases
  <2>5. CASE q # r
    <3>1. pc'[q] = pc[q] /\ outcome'[q] = outcome[q]
      BY <2>2, <2>3, <2>5 DEF Moves
    <3> QED BY <3>1 DEF PhaseInv
  <2> QED BY <2>4, <2>5
<1>2. CASE BackendDrafts \/ BackendRestarts \/ UNCHANGED vars
  BY <1>2 DEF BackendDrafts, BackendRestarts, vars, PhaseInv
<1> QED BY <1>1, <1>2 DEF Next

LEMMA InitRefines == Init => Abstract!AdmissionInit
<1> SUFFICES ASSUME Init PROVE Abstract!AdmissionInit
  OBVIOUS
<1>1. Holders = {} /\ Ending({"queue_full"}) = {}
  BY DEF Init, Holders, HoldingPhases, Ending
<1>2. {r \in Requests : /\ pc[r] = "done" /\ outcome[r] \notin {"invalid", "queue_full"}
                        /\ kind[r] \in GenerationKinds} = {}
  BY DEF Init
<1> QED BY <1>1, <1>2 DEF Abstract!AdmissionInit

Gone == {r \in Requests : /\ pc[r] = "done"
                          /\ outcome[r] \notin {"invalid", "queue_full"}
                          /\ kind[r] \in GenerationKinds}

LEMMA SameCardinality == \A S : Abstract!Cardinality(S) = Cardinality(S)
BY DEF Abstract!Cardinality, Cardinality

\* Every step of a handler is a step of the abstract admission or leaves it alone.
LEMMA HandleRefines ==
  ASSUME IInv, PhaseInv, NEW r \in Requests, Handle(r)
  PROVE  Abstract!AdmissionNext \/ UNCHANGED Abstract!admissionVars
<1> DEFINE refused == Ending({"queue_full"})
<1>1. /\ pc \in [Requests -> Phases] /\ outcome \in [Requests -> Outcomes]
      /\ SlotAccounting /\ AdmissionBound
  BY DEF IInv, TypeOK
<1>2. kind' = kind
  BY HandleMoves DEF IInv
<1>3. PICK ph, how : Moves(r, ph, how) /\ Allowed(r, ph, how)
  BY HandleMoves DEF IInv
<1>4. /\ pc' = [pc EXCEPT ![r] = ph] /\ outcome' = [outcome EXCEPT ![r] = how]
      /\ ph \in Phases /\ how \in Outcomes
  BY <1>3 DEF Moves
<1>5. /\ (pc[r] \in {"new", "tokenizing"} => outcome[r] = "none")
      /\ (pc[r] \in HoldingPhases =>
            kind[r] \in GenerationKinds /\ outcome[r] \notin {"invalid", "queue_full"})
      /\ (pc[r] = "tokenizing" => kind[r] \notin GenerationKinds)
  BY DEF PhaseInv
<1>6. Full(rt) <=> Cardinality(Holders) = Capacity
  <2>1. Cardinality(Holders) \in Nat
    BY HoldersFinite DEF Holders, HoldersIn
  <2> QED BY <1>1, <2>1, Bound DEF Full, SlotAccounting, AdmissionBound
<1>7. CASE pc[r] = "new" /\ ph = "done" /\ how = "invalid"
  <2>1. Holders' = Holders /\ refused' = refused /\ Gone' = Gone
    BY <1>1, <1>2, <1>4, <1>5, <1>7 DEF Holders, HoldingPhases, Ending, Gone
  <2> QED BY <2>1 DEF Abstract!admissionVars, Gone
<1>8. CASE pc[r] = "new" /\ ph = "done" /\ how = "queue_full" /\ Full(rt) /\ kind[r] \in GenerationKinds
  <2>1. r \notin Holders /\ r \notin refused /\ r \notin Gone
    BY <1>5, <1>8 DEF Holders, HoldingPhases, Ending, Gone
  <2>2. Holders' = Holders /\ Gone' = Gone
    BY <1>1, <1>2, <1>4, <1>5, <1>8 DEF Holders, HoldingPhases, Gone
  <2>3. refused' = refused \cup {r}
    BY <1>1, <1>4, <1>8 DEF Ending
  <2>4. Abstract!TurnAway(r)
    BY <1>6, <1>8, <2>1, <2>2, <2>3, SameCardinality DEF Abstract!TurnAway, Abstract!Outside, Gone
  <2> QED BY <2>4 DEF Abstract!AdmissionNext
<1>9. CASE pc[r] = "new" /\ ph = "before" /\ how = outcome[r] /\ ~Full(rt) /\ kind[r] \in GenerationKinds
  <2>1. r \notin Holders /\ r \notin refused /\ r \notin Gone
    BY <1>5, <1>9 DEF Holders, HoldingPhases, Ending, Gone
  <2>2. refused' = refused /\ Gone' = Gone
    BY <1>1, <1>2, <1>4, <1>9 DEF Ending, Gone
  <2>3. Holders' = Holders \cup {r}
    BY <1>1, <1>4, <1>9 DEF Holders, HoldingPhases
  <2>4. Cardinality(Holders) \in Nat
    BY HoldersFinite DEF Holders, HoldersIn
  <2>5. Cardinality(Holders) < Capacity
    BY <1>1, <1>6, <1>9, <2>4, Bound DEF AdmissionBound
  <2>6. Abstract!Enter(r)
    BY <2>1, <2>2, <2>3, <2>5, SameCardinality DEF Abstract!Enter, Abstract!Outside, Gone
  <2> QED BY <2>6 DEF Abstract!AdmissionNext
<1>10. CASE /\ pc[r] \in {"new", "tokenizing"} /\ ph \in {"tokenizing", "done"}
            /\ kind[r] \notin GenerationKinds
            /\ how = outcome[r] \/ how \notin {"invalid", "queue_full"}
            /\ outcome[r] # "queue_full"
  <2>1. Holders' = Holders /\ Gone' = Gone
    BY <1>1, <1>2, <1>4, <1>10 DEF Holders, HoldingPhases, Gone
  <2>2. refused' = refused
    BY <1>1, <1>4, <1>10 DEF Ending
  <2> QED BY <2>1, <2>2 DEF Abstract!admissionVars, Gone
<1>11. CASE /\ pc[r] \in HoldingPhases /\ ph \in HoldingPhases \cup {"done"}
            /\ how = outcome[r] \/ how \notin {"invalid", "queue_full"}
  <2>1. refused' = refused
    BY <1>1, <1>4, <1>5, <1>11 DEF Ending
  <2>2. CASE ph \in HoldingPhases
    <3>1. Holders' = Holders /\ Gone' = Gone
      BY <1>1, <1>2, <1>4, <1>11, <2>2 DEF Holders, HoldingPhases, Gone
    <3> QED BY <2>1, <3>1 DEF Abstract!admissionVars, Gone
  <2>3. CASE ph = "done"
    <3>1. r \in Holders /\ Holders' = Holders \ {r}
      BY <1>1, <1>4, <1>11, <2>3 DEF Holders, HoldingPhases
    <3>2. Gone' = Gone \cup {r}
      BY <1>1, <1>2, <1>4, <1>5, <1>11, <2>3 DEF Gone
    <3>3. Abstract!Leave(r)
      BY <2>1, <3>1, <3>2 DEF Abstract!Leave, Gone
    <3> QED BY <3>3 DEF Abstract!AdmissionNext
  <2> QED BY <1>11, <2>2, <2>3
<1> QED BY <1>3, <1>5, <1>7, <1>8, <1>9, <1>10, <1>11 DEF Allowed

LEMMA NextRefines ==
  IInv /\ PhaseInv /\ [Next]_vars => [Abstract!AdmissionNext]_(Abstract!admissionVars)
<1> SUFFICES ASSUME IInv, PhaseInv, [Next]_vars
             PROVE  Abstract!AdmissionNext \/ UNCHANGED Abstract!admissionVars
  OBVIOUS
<1>1. ASSUME NEW r \in Requests, Handle(r)
      PROVE  Abstract!AdmissionNext \/ UNCHANGED Abstract!admissionVars
  BY <1>1, HandleRefines
<1>2. CASE BackendDrafts \/ BackendRestarts \/ UNCHANGED vars
  <2>1. pc' = pc /\ outcome' = outcome /\ kind' = kind
    BY <1>2 DEF BackendDrafts, BackendRestarts, vars
  <2> QED BY <2>1 DEF Abstract!admissionVars, Holders, Ending
<1> QED BY <1>1, <1>2 DEF Next

\* RuntimeState's counters and the handlers together implement bounded admission:
\* the requests that hold a slot enter, leave and are turned away as Admission
\* allows, for any number of requests and any queue size.
THEOREM SlotsImplementAdmission == Spec => ImplementsAdmission
<1>1. IInv => TypeOK
  BY DEF IInv
<1>2. Spec => [](IInv /\ PhaseInv)
  BY <1>1, InitIInv, NextIInv, InitPhaseInv, NextPhaseInv, PTL DEF Spec
<1>3. Spec => Abstract!AdmissionInit /\ [][Abstract!AdmissionNext]_(Abstract!admissionVars)
  BY <1>2, InitRefines, NextRefines, PTL DEF Spec
<1> QED BY <1>3 DEF ImplementsAdmission, Abstract!AdmissionSpec

-----------------------------------------------------------------------------
(* What a step of a handler does to the log.                               *)

SameLog == /\ rt'.batchRequests = rt.batchRequests
           /\ rt'.lastMtpDelta = rt.lastMtpDelta
           /\ drafted' = drafted

\* The step of r is not about a counted generation.
Passes(r) ==
  /\ pc[r] # "after"
  /\ \E phase \in Phases \ {"after"} : Goto(r, phase)
  /\ SameLog

Counts(r) ==
  /\ pc[r] # "after"
  /\ Goto(r, "after")
  /\ rt'.batchRequests = rt.batchRequests + 1
  /\ rt'.lastMtpDelta = rt.lastMtpDelta
  /\ drafted' = drafted

GivesUp(r) ==
  /\ pc[r] = "after"
  /\ Goto(r, "done")
  /\ SameLog

Records(r) ==
  /\ pc[r] = "after"
  /\ Goto(r, "done")
  /\ rt'.batchRequests = rt.batchRequests
  /\ \E result \in ScrapeResults :
       rt'.lastMtpDelta = MtpMetricDelta(before[r], ParseMtpMetrics(result, backend.counter))
  /\ drafted' = (drafts > since[r])

\* What r remembers of its first scrape: kept, forgotten, or just made.
Remembers(r) ==
  \/ UNCHANGED <<before, since>>
  \/ /\ before' = [before EXCEPT ![r] = NoObservation]
     /\ since' = [since EXCEPT ![r] = 0]
  \/ \E result \in ScrapeResults :
       /\ before' = [before EXCEPT ![r] = ParseMtpMetrics(result, backend.counter)]
       /\ since' = [since EXCEPT ![r] = drafts]

\* Only record_generation and record_mtp_delta touch what readiness reads.
LEMMA LogEffects ==
  ASSUME NEW s \in RuntimeStates
  PROVE  /\ Acquire(s).batchRequests = s.batchRequests
         /\ Acquire(s).lastMtpDelta = s.lastMtpDelta
         /\ Refuse(s).batchRequests = s.batchRequests
         /\ Refuse(s).lastMtpDelta = s.lastMtpDelta
         /\ Release(s).batchRequests = s.batchRequests
         /\ Release(s).lastMtpDelta = s.lastMtpDelta
         /\ RecordGeneration(s).batchRequests = s.batchRequests + 1
         /\ RecordGeneration(s).lastMtpDelta = s.lastMtpDelta
         /\ \A code \in BackendErrors :
              /\ RecordBackendError(s, code).batchRequests = s.batchRequests
              /\ RecordBackendError(s, code).lastMtpDelta = s.lastMtpDelta
         /\ \A delta \in DeltaStates :
              /\ RecordMtpDelta(s, delta).batchRequests = s.batchRequests
              /\ RecordMtpDelta(s, delta).lastMtpDelta = delta
<1> USE DEF RuntimeStates
<1>1. /\ Acquire(s).batchRequests = s.batchRequests
      /\ Acquire(s).lastMtpDelta = s.lastMtpDelta
      /\ Refuse(s).batchRequests = s.batchRequests
      /\ Refuse(s).lastMtpDelta = s.lastMtpDelta
  BY DEF Acquire, Refuse
<1>2. /\ Release(s).batchRequests = s.batchRequests
      /\ Release(s).lastMtpDelta = s.lastMtpDelta
  BY DEF Release
<1>3. /\ RecordGeneration(s).batchRequests = s.batchRequests + 1
      /\ RecordGeneration(s).lastMtpDelta = s.lastMtpDelta
  BY DEF RecordGeneration
<1>4. \A code \in BackendErrors :
        /\ RecordBackendError(s, code).batchRequests = s.batchRequests
        /\ RecordBackendError(s, code).lastMtpDelta = s.lastMtpDelta
  BY DEF RecordBackendError
<1>5. \A delta \in DeltaStates :
        /\ RecordMtpDelta(s, delta).batchRequests = s.batchRequests
        /\ RecordMtpDelta(s, delta).lastMtpDelta = delta
  BY DEF RecordMtpDelta
<1> QED BY <1>1, <1>2, <1>3, <1>4, <1>5

\* A handler that ends without a delta.
LEMMA FinishLog ==
  ASSUME TypeOK, NEW r \in Requests, NEW how, NEW s \in RuntimeStates,
         s.batchRequests = rt.batchRequests, s.lastMtpDelta = rt.lastMtpDelta,
         Finish(r, how, s), drafted' = drafted
  PROVE  (Passes(r) \/ GivesUp(r)) /\ Remembers(r)
<1>1. SameLog
  BY LogEffects DEF Finish, SameLog
<1>2. Goto(r, "done") /\ "done" \in Phases \ {"after"}
  BY DEF Finish, Phases
<1> QED BY <1>1, <1>2 DEF Finish, Passes, GivesUp, Remembers

LEMMA AnswerLog ==
  ASSUME TypeOK, NEW r \in Requests, pc[r] # "after", NEW how, NEW s \in RuntimeStates,
         s.batchRequests = rt.batchRequests, s.lastMtpDelta = rt.lastMtpDelta,
         Answer(r, how, s), drafted' = drafted
  PROVE  Passes(r) /\ Remembers(r)
<1>1. Goto(r, "done") /\ "done" \in Phases \ {"after"}
  BY DEF Answer, Phases
<1> QED BY <1>1 DEF Answer, Passes, SameLog, Remembers

LEMMA CountLog ==
  ASSUME TypeOK, NEW r \in Requests, pc[r] # "after", NEW how,
         CountGeneration(r, how), drafted' = drafted
  PROVE  Counts(r) /\ Remembers(r)
<1>1. rt \in RuntimeStates
  BY DEF TypeOK
<1> QED BY <1>1, LogEffects DEF CountGeneration, Counts, Remembers

\* Every step of a handler is one of the four, and leaves the backend alone.
LEMMA HandleLog ==
  ASSUME TypeOK, NEW r \in Requests, Handle(r)
  PROVE  /\ UNCHANGED <<backend, drafts>>
         /\ Passes(r) \/ Counts(r) \/ GivesUp(r) \/ Records(r)
         /\ Remembers(r)
<1> DEFINE Goal == /\ UNCHANGED <<backend, drafts>>
                   /\ Passes(r) \/ Counts(r) \/ GivesUp(r) \/ Records(r)
                   /\ Remembers(r)
<1>1. rt \in RuntimeStates /\ pc[r] \in Phases
  BY DEF TypeOK
<1>2. /\ \A code \in BackendErrors :
           /\ RecordBackendError(rt, code) \in RuntimeStates
           /\ RecordBackendError(rt, code).batchRequests = rt.batchRequests
           /\ RecordBackendError(rt, code).lastMtpDelta = rt.lastMtpDelta
      /\ Refuse(rt) \in RuntimeStates
      /\ Refuse(rt).batchRequests = rt.batchRequests
      /\ Refuse(rt).lastMtpDelta = rt.lastMtpDelta
  BY <1>1, RuntimeStateTypes, LogEffects
<1>3. {"generation_timeout", "vllm_http_error", "tokenizer_unavailable"} \subseteq BackendErrors
  BY DEF BackendErrors
<1>4. CASE RejectInvalid(r) \/ RejectQueueFull(r)
  <2>1. \E how, s : /\ pc[r] # "after" /\ s \in RuntimeStates /\ Answer(r, how, s)
                    /\ s.batchRequests = rt.batchRequests
                    /\ s.lastMtpDelta = rt.lastMtpDelta
    BY <1>1, <1>2, <1>4 DEF RejectInvalid, RejectQueueFull
  <2>2. drafted' = drafted /\ UNCHANGED <<backend, drafts>>
    BY <1>4 DEF RejectInvalid, RejectQueueFull, backendVars
  <2> QED BY <2>1, <2>2, AnswerLog
<1>5. CASE Admit(r)
  <2>1. Goto(r, "before") /\ "before" \in Phases \ {"after"} /\ pc[r] # "after"
    BY <1>5 DEF Admit, Phases
  <2>2. SameLog
    BY <1>1, <1>5, LogEffects DEF Admit, SameLog
  <2> QED BY <1>5, <2>1, <2>2 DEF Admit, Passes, Remembers, backendVars
<1>6. CASE ScrapeBefore(r)
  <2>1. \E phase \in Phases \ {"after"} : Goto(r, phase)
    BY <1>6 DEF ScrapeBefore, Phases
  <2>2. SameLog /\ pc[r] # "after"
    BY <1>6 DEF ScrapeBefore, SameLog
  <2> QED BY <1>6, <2>1, <2>2 DEF ScrapeBefore, Passes, Remembers, backendVars
<1>7. CASE GenerationReturns(r)
  <2>1. pc[r] # "after" /\ CountGeneration(r, "ok") /\ drafted' = drafted
    BY <1>7 DEF GenerationReturns
  <2> QED BY <1>7, <2>1, CountLog DEF GenerationReturns, backendVars
<1>8. CASE StreamCompletes(r)
  <2>1. pc[r] # "after" /\ CountGeneration(r, "ok") /\ drafted' = drafted
    BY <1>8 DEF StreamCompletes
  <2> QED BY <1>8, <2>1, CountLog DEF StreamCompletes, backendVars
<1>9. CASE \/ GenerationTimesOut(r) \/ GenerationRefused(r) \/ GenerationFails(r)
           \/ GenerationRaises(r) \/ CancelEarly(r) \/ StreamClosed(r) \/ CancelAfter(r)
  <2>1. \E how, s : /\ s \in RuntimeStates /\ Finish(r, how, s)
                    /\ s.batchRequests = rt.batchRequests
                    /\ s.lastMtpDelta = rt.lastMtpDelta
    BY <1>1, <1>2, <1>3, <1>9 DEF GenerationTimesOut, GenerationRefused, GenerationFails,
       GenerationRaises, CancelEarly, StreamClosed, CancelAfter
  <2>2. drafted' = drafted /\ UNCHANGED <<backend, drafts>>
    BY <1>9 DEF GenerationTimesOut, GenerationRefused, GenerationFails,
       GenerationRaises, CancelEarly, StreamClosed, CancelAfter, backendVars
  <2> QED BY <2>1, <2>2, FinishLog
<1>10. CASE StartStream(r)
  <2>1. Goto(r, "streaming") /\ "streaming" \in Phases \ {"after"} /\ pc[r] # "after"
    BY <1>10 DEF StartStream, Phases
  <2> QED BY <1>10, <2>1 DEF StartStream, Passes, SameLog, Remembers, backendVars
<1>11. CASE LoseStream(r)
  <2>1. Goto(r, "lost") /\ "lost" \in Phases \ {"after"} /\ pc[r] # "after"
    BY <1>11 DEF LoseStream, Phases
  <2> QED BY <1>11, <2>1 DEF LoseStream, Passes, SameLog, Remembers, backendVars
<1>12. CASE StreamRefused(r)
  <2>1. Goto(r, "closing") /\ "closing" \in Phases \ {"after"} /\ pc[r] # "after"
    BY <1>12 DEF StreamRefused, Phases
  <2>2. SameLog
    BY <1>2, <1>3, <1>12 DEF StreamRefused, SameLog
  <2> QED BY <1>12, <2>1, <2>2 DEF StreamRefused, Passes, Remembers, backendVars
<1>13. CASE StreamDelivers(r)
  <2>1. pc \in [Requests -> Phases] /\ pc' = pc /\ pc[r] # "after"
    BY <1>13 DEF StreamDelivers, TypeOK
  <2>2. Goto(r, pc[r]) /\ pc[r] \in Phases \ {"after"}
    BY <2>1 DEF Goto
  <2> QED BY <1>13, <2>1, <2>2 DEF StreamDelivers, Passes, SameLog, Remembers, backendVars
<1>14. CASE StreamBuffered(r)
  <2>1. Goto(r, "emitting") /\ "emitting" \in Phases \ {"after"} /\ pc[r] # "after"
    BY <1>14 DEF StreamBuffered, Phases
  <2> QED BY <1>14, <2>1 DEF StreamBuffered, Passes, SameLog, Remembers, backendVars
<1>15. CASE StreamStops(r)
  <2>1. PICK how : /\ pc[r] # "after" /\ drafted' = drafted
                   /\ IF delivered[r] THEN CountGeneration(r, how) ELSE Finish(r, how, rt)
    BY <1>15 DEF StreamStops
  <2>2. UNCHANGED <<backend, drafts>>
    BY <1>15 DEF StreamStops, backendVars
  <2>3. CASE delivered[r]
    BY <2>1, <2>2, <2>3, CountLog
  <2>4. CASE ~delivered[r]
    BY <1>1, <2>1, <2>2, <2>4, FinishLog
  <2> QED BY <2>3, <2>4
<1>16. CASE ScrapeAfter(r)
  <2>1. PICK result \in ScrapeResults : \E how :
          Finish(r, how, RecordMtpDelta(rt, MtpMetricDelta(before[r],
                                             ParseMtpMetrics(result, backend.counter))))
    BY <1>16 DEF ScrapeAfter
  <2> DEFINE delta == MtpMetricDelta(before[r], ParseMtpMetrics(result, backend.counter))
  <2>2. delta \in DeltaStates
    <3>1. before[r] \in Observations /\ backend.counter \in Nat
      BY DEF TypeOK
    <3> QED BY <3>1, MtpTypes
  <2> HIDE DEF delta
  <2>3. /\ rt' = Release(RecordMtpDelta(rt, delta)) /\ Goto(r, "done")
        /\ before' = [before EXCEPT ![r] = NoObservation] /\ since' = [since EXCEPT ![r] = 0]
    BY <2>1 DEF Finish, delta
  <2>4. RecordMtpDelta(rt, delta) \in RuntimeStates
    BY <1>1, <2>2, RuntimeStateTypes
  <2>5. rt'.batchRequests = rt.batchRequests /\ rt'.lastMtpDelta = delta
    BY <1>1, <2>2, <2>3, <2>4, LogEffects
  <2>6. /\ pc[r] = "after" /\ drafted' = (drafts > since[r]) /\ UNCHANGED <<backend, drafts>>
    BY <1>16 DEF ScrapeAfter, backendVars
  <2>7. Records(r)
    BY <2>3, <2>5, <2>6 DEF Records, delta
  <2> QED BY <2>3, <2>6, <2>7 DEF Remembers
<1>17. CASE Tokenize(r)
  <2>1. Goto(r, "tokenizing") /\ "tokenizing" \in Phases \ {"after"} /\ pc[r] # "after"
    BY <1>17 DEF Tokenize, Phases
  <2> QED BY <1>17, <2>1 DEF Tokenize, Passes, SameLog, Remembers, backendVars
<1>18. CASE TokenizeEnds(r)
  <2>1. \E how, s : /\ pc[r] # "after" /\ s \in RuntimeStates /\ Answer(r, how, s)
                    /\ s.batchRequests = rt.batchRequests
                    /\ s.lastMtpDelta = rt.lastMtpDelta
    BY <1>1, <1>2, <1>3, <1>18 DEF TokenizeEnds
  <2>2. drafted' = drafted /\ UNCHANGED <<backend, drafts>>
    BY <1>18 DEF TokenizeEnds, backendVars
  <2> QED BY <2>1, <2>2, AnswerLog
<1> QED BY <1>4, <1>5, <1>6, <1>7, <1>8, <1>9, <1>10, <1>11, <1>12, <1>13, <1>14, <1>15,
          <1>16, <1>17, <1>18 DEF Handle

-----------------------------------------------------------------------------
(* An active delta is evidence.                                            *)

\* The scrape of r did find the counters.
Scraped(r) == before[r].state \in {"active", "registered_but_idle"}

\* What the history is there for: since the first scrape of r the backend drafted at
\* least as often as its counter shows, and not before it was first started.
EvidenceInv ==
  /\ backend.counter <= drafts
  /\ \A r \in Requests :
       /\ since[r] <= drafts
       /\ Scraped(r) => backend.counter + since[r] <= before[r].drafts + drafts
  /\ ActiveDeltaIsEvidence

\* Two scrapes give "active" only if both found the counters and the second, made
\* when they stood at n, found more than the first.
LEMMA ActiveMeansProgress ==
  ASSUME NEW b \in Observations, NEW result \in ScrapeResults, NEW n \in Nat,
         MtpMetricDelta(b, ParseMtpMetrics(result, n)) = "active"
  PROVE  b.state \in {"active", "registered_but_idle"} /\ n > b.drafts
<1> DEFINE a == ParseMtpMetrics(result, n)
<1>1. a \in Observations /\ a.drafts \in {0, n} /\ b.drafts \in Nat
  BY DEF ParseMtpMetrics, Observations, MtpStates, ScrapeResults
<1> HIDE DEF a
<1>2. "parse_error" \notin {b.state, a.state}
  BY DEF MtpMetricDelta, a
<1>3. MetricsRegistered(b) /\ CounterDelta(b, a) > 0
  BY <1>2 DEF MtpMetricDelta, a
<1>4. a.drafts > b.drafts
  BY <1>1, <1>3 DEF CounterDelta
<1> QED BY <1>1, <1>2, <1>3, <1>4 DEF MetricsRegistered, Observations, MtpStates

\* A scrape that found the counters when they stood at n found n.
LEMMA ScrapeIsExact ==
  ASSUME NEW result \in ScrapeResults, NEW n \in Nat,
         ParseMtpMetrics(result, n).state \in {"active", "registered_but_idle"}
  PROVE  ParseMtpMetrics(result, n).drafts = n
BY DEF ParseMtpMetrics, ScrapeResults

LEMMA InitEvidence == Init => EvidenceInv
BY DEF Init, EvidenceInv, Scraped, NoObservation, ActiveDeltaIsEvidence, InitRuntimeState

\* A handler's step keeps what the requests remember true of the backend.
LEMMA HandleRemembers ==
  ASSUME TypeOK, EvidenceInv, NEW r \in Requests, Remembers(r),
         UNCHANGED <<backend, drafts>>, NEW q \in Requests
  PROVE  /\ since'[q] <= drafts'
         /\ Scraped(q)' => backend'.counter + since'[q] <= before'[q].drafts + drafts'
<1>1. /\ before \in [Requests -> Observations] /\ since \in [Requests -> Nat]
      /\ backend.counter \in Nat /\ drafts \in Nat
  BY DEF TypeOK
<1>2. /\ since[q] <= drafts
      /\ Scraped(q) => backend.counter + since[q] <= before[q].drafts + drafts
  BY DEF EvidenceInv
<1>3. CASE UNCHANGED <<before, since>>
  BY <1>2, <1>3 DEF Scraped
<1>4. CASE /\ before' = [before EXCEPT ![r] = NoObservation]
           /\ since' = [since EXCEPT ![r] = 0]
  BY <1>1, <1>2, <1>4 DEF Scraped, NoObservation
<1>5. ASSUME NEW result \in ScrapeResults,
             before' = [before EXCEPT ![r] = ParseMtpMetrics(result, backend.counter)],
             since' = [since EXCEPT ![r] = drafts]
      PROVE  /\ since'[q] <= drafts'
             /\ Scraped(q)' => backend'.counter + since'[q] <= before'[q].drafts + drafts'
  <2>1. CASE q = r
    <3>1. since'[q] = drafts /\ before'[q] = ParseMtpMetrics(result, backend.counter)
      BY <1>1, <1>5, <2>1
    <3>2. Scraped(q)' => before'[q].drafts = backend.counter
      BY <1>1, <3>1, ScrapeIsExact DEF Scraped
    <3> QED BY <1>1, <3>1, <3>2
  <2>2. CASE q # r
    BY <1>1, <1>2, <1>5, <2>2 DEF Scraped
  <2> QED BY <2>1, <2>2
<1> QED BY <1>3, <1>4, <1>5 DEF Remembers

LEMMA HandleEvidence ==
  ASSUME TypeOK, EvidenceInv, NEW r \in Requests, Handle(r)
  PROVE  EvidenceInv'
<1>1. UNCHANGED <<backend, drafts>> /\ Remembers(r)
  BY HandleLog
<1>2. \A q \in Requests :
        /\ since'[q] <= drafts'
        /\ Scraped(q)' => backend'.counter + since'[q] <= before'[q].drafts + drafts'
  BY <1>1, HandleRemembers
<1>3. backend'.counter <= drafts'
  BY <1>1 DEF EvidenceInv
<1>4. ActiveDeltaIsEvidence'
  <2>1. CASE Passes(r) \/ Counts(r) \/ GivesUp(r)
    BY <2>1 DEF Passes, Counts, GivesUp, SameLog, EvidenceInv, ActiveDeltaIsEvidence
  <2>2. CASE Records(r)
    <3> SUFFICES ASSUME rt'.lastMtpDelta = "active" PROVE drafted'
      BY DEF ActiveDeltaIsEvidence
    <3>1. PICK result \in ScrapeResults :
            MtpMetricDelta(before[r], ParseMtpMetrics(result, backend.counter)) = "active"
      BY <2>2 DEF Records
    <3>2. /\ before[r] \in Observations /\ since[r] \in Nat
          /\ backend.counter \in Nat /\ drafts \in Nat /\ before[r].drafts \in Nat
      BY DEF TypeOK, Observations
    <3>3. Scraped(r) /\ backend.counter > before[r].drafts
      BY <3>1, <3>2, ActiveMeansProgress DEF Scraped
    <3>4. drafts > since[r]
      BY <3>2, <3>3 DEF EvidenceInv
    <3> QED BY <2>2, <3>4 DEF Records
  <2> QED BY <2>1, <2>2, HandleLog
<1> QED BY <1>2, <1>3, <1>4 DEF EvidenceInv

LEMMA NextEvidence == TypeOK /\ EvidenceInv /\ [Next]_vars => EvidenceInv'
<1> SUFFICES ASSUME TypeOK, EvidenceInv, [Next]_vars PROVE EvidenceInv'
  OBVIOUS
<1>1. ASSUME NEW r \in Requests, Handle(r)
      PROVE  EvidenceInv'
  BY <1>1, HandleEvidence
<1>2. /\ before \in [Requests -> Observations] /\ since \in [Requests -> Nat]
      /\ backend \in [counter : Nat, restarts : Nat] /\ drafts \in Nat
  BY DEF TypeOK
<1>3. CASE BackendDrafts
  <2>1. backend'.counter = backend.counter + 1 /\ drafts' = drafts + 1
    BY <1>2, <1>3 DEF BackendDrafts
  <2>2. UNCHANGED <<before, since, rt, drafted>>
    BY <1>3 DEF BackendDrafts
  <2>3. \A q \in Requests : before[q].drafts \in Nat /\ since[q] \in Nat
    BY <1>2 DEF Observations
  <2> QED BY <1>2, <2>1, <2>2, <2>3 DEF EvidenceInv, Scraped, ActiveDeltaIsEvidence
<1>4. CASE BackendRestarts
  <2>1. backend'.counter = 0 /\ UNCHANGED <<before, since, rt, drafts, drafted>>
    BY <1>4 DEF BackendRestarts
  <2>2. \A q \in Requests : before[q].drafts \in Nat /\ since[q] \in Nat
    BY <1>2 DEF Observations
  <2> QED BY <1>2, <2>1, <2>2 DEF EvidenceInv, Scraped, ActiveDeltaIsEvidence
<1>5. CASE UNCHANGED vars
  BY <1>5 DEF vars, EvidenceInv, Scraped, ActiveDeltaIsEvidence
<1> QED BY <1>1, <1>3, <1>4, <1>5 DEF Next

\* "active" is never an artefact of the counters of a backend that others use and
\* that restarts: the generation whose delta says so did see it draft.
THEOREM ActiveIsEvidence == Spec => []ActiveDeltaIsEvidence
<1>1. IInv => TypeOK
  BY DEF IInv
<1>2. EvidenceInv => ActiveDeltaIsEvidence
  BY DEF EvidenceInv
<1> QED BY <1>1, <1>2, Invariant, InitEvidence, NextEvidence, PTL DEF Spec

-----------------------------------------------------------------------------
(* The counters implement the generation log.                              *)

PendingIn(f) == {r \in Requests : f[r] = "after"}

LEMMA PendingFinite ==
  ASSUME NEW f
  PROVE  IsFiniteSet(PendingIn(f)) /\ Cardinality(PendingIn(f)) \in Nat
<1>1. PendingIn(f) \in SUBSET Requests
  BY DEF PendingIn
<1> QED BY <1>1, RequestsAssumption, FS_Subset, FS_CardinalityType

LEMMA PendingGrows ==
  ASSUME NEW f \in [Requests -> Phases], NEW r \in Requests, f[r] # "after"
  PROVE  Cardinality(PendingIn([f EXCEPT ![r] = "after"])) = Cardinality(PendingIn(f)) + 1
<1>1. PendingIn([f EXCEPT ![r] = "after"]) = PendingIn(f) \cup {r} /\ r \notin PendingIn(f)
  BY DEF PendingIn
<1> QED BY <1>1, PendingFinite, FS_AddElement

LEMMA PendingShrinks ==
  ASSUME NEW f \in [Requests -> Phases], NEW r \in Requests, f[r] = "after"
  PROVE  /\ Cardinality(PendingIn([f EXCEPT ![r] = "done"])) = Cardinality(PendingIn(f)) - 1
         /\ Cardinality(PendingIn(f)) > 0
<1>1. PendingIn([f EXCEPT ![r] = "done"]) = PendingIn(f) \ {r} /\ r \in PendingIn(f)
  BY DEF PendingIn
<1>2. Cardinality(PendingIn([f EXCEPT ![r] = "done"])) = Cardinality(PendingIn(f)) - 1
  BY <1>1, PendingFinite, FS_RemoveElement
<1>3. Cardinality(PendingIn(f)) # 0
  BY <1>1, PendingFinite, FS_EmptySet
<1> QED BY <1>2, <1>3, PendingFinite

LEMMA DeltaIsNeverNone ==
  ASSUME NEW b, NEW a
  PROVE  MtpMetricDelta(b, a) \in DeltaStates \ {"none"}
<1>1. CASE "parse_error" \in {b.state, a.state}
  BY <1>1 DEF MtpMetricDelta, DeltaStates
<1>2. CASE "parse_error" \notin {b.state, a.state}
  BY <1>2 DEF MtpMetricDelta, DeltaStates
<1> QED BY <1>1, <1>2

LEMMA InitLogs == Init => Log!LogInit
<1> SUFFICES ASSUME Init PROVE Log!LogInit
  OBVIOUS
<1>1. {r \in Requests : pc[r] = "after"} = {}
  BY DEF Init
<1>2. Cardinality({r \in Requests : pc[r] = "after"}) = 0
  BY <1>1, FS_EmptySet
<1> QED BY <1>2 DEF Init, InitRuntimeState, Log!LogInit

\* Every step of a handler counts, records or gives up one generation, or none.
LEMMA HandleLogs ==
  ASSUME TypeOK, EvidenceInv, NEW r \in Requests, Handle(r)
  PROVE  Log!LogNext \/ UNCHANGED Log!logVars
<1> DEFINE n(f) == Cardinality({q \in Requests : f[q] = "after"})
<1>1. pc \in [Requests -> Phases]
  BY DEF TypeOK
<1>2. drafts' = drafts /\ backend' = backend
  BY HandleLog
<1>3. \A f : n(f) = Cardinality(PendingIn(f))
  BY DEF PendingIn
<1> HIDE DEF n
<1>4. CASE Passes(r)
  <2>1. PICK phase \in Phases \ {"after"} : pc' = [pc EXCEPT ![r] = phase]
    BY <1>4 DEF Passes, Goto
  <2>2. {q \in Requests : pc'[q] = "after"} = {q \in Requests : pc[q] = "after"}
    BY <1>1, <1>4, <2>1 DEF Passes
  <2> QED BY <1>2, <1>4, <2>2 DEF Passes, SameLog, Log!logVars
<1>5. CASE Counts(r)
  <2>1. n(pc') = n(pc) + 1
    BY <1>1, <1>3, <1>5, PendingGrows DEF Counts, Goto
  <2>2. Log!CountOne
    BY <1>2, <1>5, <2>1 DEF Counts, Log!CountOne, n
  <2> QED BY <2>2 DEF Log!LogNext
<1>6. CASE GivesUp(r)
  <2>1. n(pc') = n(pc) - 1 /\ n(pc) > 0
    BY <1>1, <1>3, <1>6, PendingShrinks DEF GivesUp, Goto
  <2>2. Log!GiveUpOne
    BY <1>2, <1>6, <2>1 DEF GivesUp, SameLog, Log!GiveUpOne, n
  <2> QED BY <2>2 DEF Log!LogNext
<1>7. CASE Records(r)
  <2>1. n(pc') = n(pc) - 1 /\ n(pc) > 0
    BY <1>1, <1>3, <1>7, PendingShrinks DEF Records, Goto
  <2>2. PICK result \in ScrapeResults :
          rt'.lastMtpDelta = MtpMetricDelta(before[r], ParseMtpMetrics(result, backend.counter))
    BY <1>7 DEF Records
  <2> DEFINE delta == MtpMetricDelta(before[r], ParseMtpMetrics(result, backend.counter))
  <2>3. delta \in DeltaStates \ {"none"}
    BY DeltaIsNeverNone
  <2>4. delta = "active" => drafts > 0
    <3>1. /\ before[r] \in Observations /\ before[r].drafts \in Nat
          /\ backend.counter \in Nat /\ drafts \in Nat
      BY DEF TypeOK, Observations
    <3>2. delta = "active" => backend.counter > before[r].drafts
      BY <3>1, ActiveMeansProgress
    <3> QED BY <3>1, <3>2 DEF EvidenceInv
  <2> HIDE DEF delta
  <2>5. Log!RecordOne(delta)
    BY <1>2, <1>7, <2>1, <2>2, <2>4 DEF Records, Log!RecordOne, n, delta
  <2> QED BY <2>3, <2>5 DEF Log!LogNext
<1> QED BY <1>4, <1>5, <1>6, <1>7, HandleLog

LEMMA NextLogs ==
  TypeOK /\ EvidenceInv /\ [Next]_vars => [Log!LogNext]_(Log!logVars)
<1> SUFFICES ASSUME TypeOK, EvidenceInv, [Next]_vars
             PROVE  Log!LogNext \/ UNCHANGED Log!logVars
  OBVIOUS
<1>1. ASSUME NEW r \in Requests, Handle(r)
      PROVE  Log!LogNext \/ UNCHANGED Log!logVars
  BY <1>1, HandleLogs
<1>2. CASE BackendDrafts
  <2>1. Log!DraftOne
    BY <1>2 DEF BackendDrafts, Log!DraftOne
  <2> QED BY <2>1 DEF Log!LogNext
<1>3. CASE BackendRestarts \/ UNCHANGED vars
  BY <1>3 DEF BackendRestarts, vars, Log!logVars
<1> QED BY <1>1, <1>2, <1>3 DEF Next

\* Whoever reads the counters, HealthCheck among them, may take them for a log in
\* which each generation is counted before its delta and "active" follows a draft.
THEOREM CountersImplementLog == Spec => ImplementsGenerationLog
<1>1. IInv => TypeOK
  BY DEF IInv
<1>2. Spec => [](TypeOK /\ EvidenceInv)
  BY <1>1, Invariant, InitEvidence, NextEvidence, PTL DEF Spec
<1>3. Spec => Log!LogInit /\ [][Log!LogNext]_(Log!logVars)
  BY <1>2, InitLogs, NextLogs, PTL DEF Spec
<1> QED BY <1>3 DEF ImplementsGenerationLog, Log!LogSpec

-----------------------------------------------------------------------------
(* The counters of /metrics: what the phase of a request tells.            *)

\* The four sets that are counted.
Admitted == {r \in Requests : /\ kind[r] \in GenerationKinds /\ pc[r] # "new"
                              /\ outcome[r] \notin {"invalid", "queue_full"}}
Refused  == Ending({"queue_full"})
Errored  == Ending(ErrorOutcomes)
Counted  == {r \in Requests : delivered[r] /\ pc[r] \notin {"streaming", "emitting"}}

Undecided == {"new", "tokenizing", "before", "generating", "handoff", "streaming", "emitting"}

\* Before a handler is decided its outcome is open; a counted generation is on its way
\* to its second scrape, and nothing is delivered outside of a stream that is not counted.
TallyInv ==
  \A r \in Requests :
    /\ pc[r] \in Undecided => outcome[r] = "none"
    /\ pc[r] \in HoldingPhases =>
         kind[r] \in GenerationKinds /\ outcome[r] \notin {"invalid", "queue_full"}
    /\ pc[r] = "tokenizing" => kind[r] \notin GenerationKinds
    /\ delivered[r] => pc[r] \in {"streaming", "emitting", "after", "done"}
    /\ pc[r] = "after" => delivered[r] /\ outcome[r] \notin ErrorOutcomes

TallyAgrees == CountersAgree /\ GenerationsCountedOnce

-----------------------------------------------------------------------------
(* What a step of a handler does to its request and to the counters.       *)

Steps(r, ph, how, del) ==
  /\ pc' = [pc EXCEPT ![r] = ph]
  /\ outcome' = [outcome EXCEPT ![r] = how]
  /\ delivered' = [delivered EXCEPT ![r] = del]

\* State s has that many more than the state before the step.
Plus(s, total, rejected, errors, generations) ==
  /\ s.total = rt.total + total
  /\ s.rejected = rt.rejected + rejected
  /\ s.backendErrors = rt.backendErrors + errors
  /\ s.batchRequests = rt.batchRequests + generations

Adds(total, rejected, errors, generations) == Plus(rt', total, rejected, errors, generations)

Harmless == Outcomes \ (ErrorOutcomes \cup {"none", "invalid", "queue_full"})

\* A request comes into one of the sets.
Admits(r, ph, how, del) ==
  /\ pc[r] = "new" /\ kind[r] \in GenerationKinds
  /\ ph = "before" /\ how = outcome[r] /\ del = delivered[r] /\ Adds(1, 0, 0, 0)

TurnsAway(r, ph, how, del) ==
  /\ pc[r] = "new" /\ kind[r] \in GenerationKinds
  /\ ph = "done" /\ how = "queue_full" /\ del = delivered[r] /\ Adds(0, 1, 0, 0)

Errs(r, ph, how, del) ==
  /\ pc[r] \in {"generating", "streaming", "tokenizing"} /\ ~delivered[r]
  /\ ph = (IF pc[r] = "streaming" THEN "closing" ELSE "done")
  /\ how \in ErrorOutcomes /\ del = delivered[r] /\ Adds(0, 0, 1, 0)

Tallies(r, ph, how, del) ==
  /\ pc[r] \in {"generating", "streaming", "emitting"}
  /\ ph = "after" /\ how \in Harmless /\ del = TRUE /\ Adds(0, 0, 0, 1)

\* Or it does not.
Walks(r, ph, how, del) ==
  /\ Adds(0, 0, 0, 0)
  /\ \/ pc[r] = "new" /\ ph = "done" /\ how = "invalid" /\ del = delivered[r]
     \/ /\ pc[r] = "new" /\ kind[r] \notin GenerationKinds /\ ph = "tokenizing"
        /\ how = outcome[r] /\ del = delivered[r]
     \/ /\ pc[r] = "before" /\ ph \in {"generating", "handoff"}
        /\ how = outcome[r] /\ del = delivered[r]
     \/ pc[r] = "handoff" /\ ph = "streaming" /\ how = outcome[r] /\ del = delivered[r]
     \/ pc[r] = "handoff" /\ ph = "lost" /\ how = "cancelled" /\ del = delivered[r]
     \/ /\ pc[r] \in {"streaming", "emitting"} /\ ph \in {"streaming", "emitting"}
        /\ how = outcome[r] /\ del \in {delivered[r], TRUE}
     \/ /\ pc[r] \in {"before", "generating", "tokenizing"} /\ ph = "done"
        /\ how \in Harmless /\ del = delivered[r]
     \/ /\ pc[r] \in {"streaming", "emitting"} /\ ~delivered[r] /\ ph = "done"
        /\ how \in Harmless /\ del = delivered[r]
     \/ pc[r] = "closing" /\ ph = "done" /\ how = outcome[r] /\ del = delivered[r]
     \/ /\ pc[r] = "after" /\ ph = "done" /\ how \in {outcome[r]} \cup Harmless
        /\ del = delivered[r]

StepsOf(r, ph, how, del) ==
  \/ Admits(r, ph, how, del) \/ TurnsAway(r, ph, how, del) \/ Errs(r, ph, how, del)
  \/ Tallies(r, ph, how, del) \/ Walks(r, ph, how, del)

\* What the methods of RuntimeState add.
LEMMA CounterEffects ==
  ASSUME NEW s \in RuntimeStates
  PROVE  /\ /\ Acquire(s).total = s.total + 1 /\ Acquire(s).rejected = s.rejected
            /\ Acquire(s).backendErrors = s.backendErrors
            /\ Acquire(s).batchRequests = s.batchRequests
         /\ /\ Refuse(s).total = s.total /\ Refuse(s).rejected = s.rejected + 1
            /\ Refuse(s).backendErrors = s.backendErrors
            /\ Refuse(s).batchRequests = s.batchRequests
         /\ /\ Release(s).total = s.total /\ Release(s).rejected = s.rejected
            /\ Release(s).backendErrors = s.backendErrors
            /\ Release(s).batchRequests = s.batchRequests
         /\ /\ RecordGeneration(s).total = s.total /\ RecordGeneration(s).rejected = s.rejected
            /\ RecordGeneration(s).backendErrors = s.backendErrors
            /\ RecordGeneration(s).batchRequests = s.batchRequests + 1
         /\ \A code \in BackendErrors :
              /\ RecordBackendError(s, code).total = s.total
              /\ RecordBackendError(s, code).rejected = s.rejected
              /\ RecordBackendError(s, code).backendErrors = s.backendErrors + 1
              /\ RecordBackendError(s, code).batchRequests = s.batchRequests
         /\ \A delta \in DeltaStates :
              /\ RecordMtpDelta(s, delta).total = s.total
              /\ RecordMtpDelta(s, delta).rejected = s.rejected
              /\ RecordMtpDelta(s, delta).backendErrors = s.backendErrors
              /\ RecordMtpDelta(s, delta).batchRequests = s.batchRequests
<1> USE DEF RuntimeStates
<1>1. /\ Acquire(s).total = s.total + 1 /\ Acquire(s).rejected = s.rejected
      /\ Acquire(s).backendErrors = s.backendErrors
      /\ Acquire(s).batchRequests = s.batchRequests
  BY DEF Acquire
<1>2. /\ Refuse(s).total = s.total /\ Refuse(s).rejected = s.rejected + 1
      /\ Refuse(s).backendErrors = s.backendErrors
      /\ Refuse(s).batchRequests = s.batchRequests
  BY DEF Refuse
<1>3. /\ Release(s).total = s.total /\ Release(s).rejected = s.rejected
      /\ Release(s).backendErrors = s.backendErrors
      /\ Release(s).batchRequests = s.batchRequests
  BY DEF Release
<1>4. /\ RecordGeneration(s).total = s.total /\ RecordGeneration(s).rejected = s.rejected
      /\ RecordGeneration(s).backendErrors = s.backendErrors
      /\ RecordGeneration(s).batchRequests = s.batchRequests + 1
  BY DEF RecordGeneration
<1>5. \A code \in BackendErrors :
        /\ RecordBackendError(s, code).total = s.total
        /\ RecordBackendError(s, code).rejected = s.rejected
        /\ RecordBackendError(s, code).backendErrors = s.backendErrors + 1
        /\ RecordBackendError(s, code).batchRequests = s.batchRequests
  BY DEF RecordBackendError
<1>6. \A delta \in DeltaStates :
        /\ RecordMtpDelta(s, delta).total = s.total
        /\ RecordMtpDelta(s, delta).rejected = s.rejected
        /\ RecordMtpDelta(s, delta).backendErrors = s.backendErrors
        /\ RecordMtpDelta(s, delta).batchRequests = s.batchRequests
  BY DEF RecordMtpDelta
<1> QED BY <1>1, <1>2, <1>3, <1>4, <1>5, <1>6

LEMMA PlusRt ==
  ASSUME TypeOK
  PROVE  /\ rt \in RuntimeStates
         /\ Plus(rt, 0, 0, 0, 0)
         /\ Plus(Acquire(rt), 1, 0, 0, 0)
         /\ Refuse(rt) \in RuntimeStates /\ Plus(Refuse(rt), 0, 1, 0, 0)
         /\ Plus(RecordGeneration(rt), 0, 0, 0, 1)
         /\ \A code \in BackendErrors : /\ RecordBackendError(rt, code) \in RuntimeStates
                                        /\ Plus(RecordBackendError(rt, code), 0, 0, 1, 0)
         /\ \A delta \in DeltaStates : /\ RecordMtpDelta(rt, delta) \in RuntimeStates
                                       /\ Plus(RecordMtpDelta(rt, delta), 0, 0, 0, 0)
<1>1. rt \in RuntimeStates
  BY DEF TypeOK
<1>2. /\ rt.total \in Nat /\ rt.rejected \in Nat /\ rt.backendErrors \in Nat
      /\ rt.batchRequests \in Nat
  BY <1>1 DEF RuntimeStates
<1>3. Plus(rt, 0, 0, 0, 0) /\ Plus(Acquire(rt), 1, 0, 0, 0)
  BY <1>1, <1>2, CounterEffects DEF Plus
<1>4. Plus(Refuse(rt), 0, 1, 0, 0) /\ Plus(RecordGeneration(rt), 0, 0, 0, 1)
  BY <1>1, <1>2, CounterEffects DEF Plus
<1>5. \A code \in BackendErrors : Plus(RecordBackendError(rt, code), 0, 0, 1, 0)
  BY <1>1, <1>2, CounterEffects DEF Plus
<1>6. \A delta \in DeltaStates : Plus(RecordMtpDelta(rt, delta), 0, 0, 0, 0)
  BY <1>1, <1>2, CounterEffects DEF Plus
<1> QED BY <1>1, <1>3, <1>4, <1>5, <1>6, RuntimeStateTypes

\* A handler that ends: its finally block counts nothing.
LEMMA FinishTally ==
  ASSUME TypeOK, NEW r \in Requests, NEW how, NEW s \in RuntimeStates,
         NEW n \in {0, 1}, Plus(s, 0, 0, n, 0),
         Finish(r, how, s), delivered' = delivered
  PROVE  Steps(r, "done", how, delivered[r]) /\ Adds(0, 0, n, 0)
<1>1. delivered' = [delivered EXCEPT ![r] = delivered[r]]
  BY DEF TypeOK
<1>2. rt' = Release(s)
  BY DEF Finish
<1>3. Adds(0, 0, n, 0)
  BY <1>2, CounterEffects DEF Adds, Plus
<1> QED BY <1>1, <1>3 DEF Finish, Goto, Ends, Steps

LEMMA AnswerTally ==
  ASSUME TypeOK, NEW r \in Requests, NEW how, NEW s, NEW m \in {0, 1}, NEW n \in {0, 1},
         Plus(s, 0, m, n, 0),
         Answer(r, how, s), delivered' = delivered
  PROVE  Steps(r, "done", how, delivered[r]) /\ Adds(0, m, n, 0)
<1>1. delivered' = [delivered EXCEPT ![r] = delivered[r]]
  BY DEF TypeOK
<1> QED BY <1>1 DEF Answer, Goto, Ends, Steps, Adds

LEMMA CountTally ==
  ASSUME TypeOK, NEW r \in Requests, NEW how, CountGeneration(r, how),
         delivered' = [delivered EXCEPT ![r] = TRUE]
  PROVE  Steps(r, "after", how, TRUE) /\ Adds(0, 0, 0, 1)
BY PlusRt DEF CountGeneration, Goto, Ends, Steps, Adds

\* A step that leaves RuntimeState alone, and perhaps outcome and what was delivered.
LEMMA WalkTally ==
  ASSUME TypeOK, NEW r \in Requests, NEW ph, Goto(r, ph), rt' = rt
  PROVE  /\ Adds(0, 0, 0, 0)
         /\ UNCHANGED <<outcome, delivered>> => Steps(r, ph, outcome[r], delivered[r])
<1>1. /\ outcome = [outcome EXCEPT ![r] = outcome[r]]
      /\ delivered = [delivered EXCEPT ![r] = delivered[r]]
  BY DEF TypeOK
<1> QED BY <1>1, PlusRt DEF Goto, Steps, Adds

LEMMA HandleTallies ==
  ASSUME TypeOK, TallyInv, NEW r \in Requests, Handle(r)
  PROVE  /\ kind' = kind
         /\ \E ph, how, del : Steps(r, ph, how, del) /\ StepsOf(r, ph, how, del)
<1>0. /\ pc \in [Requests -> Phases] /\ outcome \in [Requests -> Outcomes]
      /\ delivered \in [Requests -> BOOLEAN] /\ kind[r] \in AllKinds
      /\ delivered[r] => pc[r] \in {"streaming", "emitting", "after", "done"}
  BY KindsAssumption DEF TypeOK, TallyInv
<1>e. {"generation_timeout", "vllm_http_error", "tokenizer_unavailable"} \subseteq BackendErrors
  BY DEF BackendErrors
<1>h. {"ok", "upstream_4xx", "truncated", "failed", "cancelled"} \subseteq Harmless
  BY DEF Harmless, Outcomes, ErrorOutcomes
<1>x. {"timeout", "backend_error", "tokenizer_unavailable"} \subseteq ErrorOutcomes
  BY DEF ErrorOutcomes
<1>kind. kind' = kind
  BY HandleMoves
<1>1. CASE RejectInvalid(r)
  <2>1. Steps(r, "done", "invalid", delivered[r]) /\ Adds(0, 0, 0, 0) /\ pc[r] = "new"
    BY <1>1, PlusRt, AnswerTally DEF RejectInvalid
  <2> QED BY <1>kind, <2>1 DEF StepsOf, Walks
<1>2. CASE RejectQueueFull(r)
  <2>1. Steps(r, "done", "queue_full", delivered[r]) /\ Adds(0, 1, 0, 0)
    BY <1>2, PlusRt, AnswerTally DEF RejectQueueFull
  <2>2. TurnsAway(r, "done", "queue_full", delivered[r])
    BY <1>2, <2>1 DEF RejectQueueFull, TurnsAway
  <2> QED BY <1>kind, <2>1, <2>2 DEF StepsOf
<1>3. CASE Admit(r)
  <2>1. Adds(1, 0, 0, 0)
    BY <1>3, PlusRt DEF Admit, Adds
  <2>2. Steps(r, "before", outcome[r], delivered[r])
    BY <1>0, <1>3 DEF Admit, Goto, Steps
  <2>3. Admits(r, "before", outcome[r], delivered[r])
    BY <1>3, <2>1 DEF Admit, Admits
  <2> QED BY <1>kind, <2>2, <2>3 DEF StepsOf
<1>4. CASE ScrapeBefore(r)
  <2> DEFINE ph == IF kind[r] \in StreamKinds THEN "handoff" ELSE "generating"
  <2>1. /\ Goto(r, ph) /\ rt' = rt /\ UNCHANGED <<outcome, delivered>>
        /\ pc[r] = "before" /\ ph \in {"generating", "handoff"}
    BY <1>4 DEF ScrapeBefore
  <2> HIDE DEF ph
  <2>2. Steps(r, ph, outcome[r], delivered[r]) /\ Adds(0, 0, 0, 0)
    BY <2>1, WalkTally
  <2> QED BY <1>kind, <2>1, <2>2 DEF StepsOf, Walks
<1>5. CASE GenerationReturns(r)
  <2>1. pc[r] = "generating" /\ Steps(r, "after", "ok", TRUE) /\ Adds(0, 0, 0, 1)
    BY <1>5, CountTally DEF GenerationReturns
  <2> QED BY <1>kind, <1>h, <2>1 DEF StepsOf, Tallies
<1>6. CASE GenerationTimesOut(r)
  <2>1. /\ pc[r] = "generating" /\ Steps(r, "done", "timeout", delivered[r])
        /\ Adds(0, 0, 1, 0)
    BY <1>6, <1>e, PlusRt, FinishTally DEF GenerationTimesOut
  <2>2. Errs(r, "done", "timeout", delivered[r])
    BY <1>0, <1>x, <2>1 DEF Errs
  <2> QED BY <1>kind, <2>1, <2>2 DEF StepsOf
<1>7. CASE GenerationFails(r)
  <2>1. /\ pc[r] = "generating" /\ Steps(r, "done", "backend_error", delivered[r])
        /\ Adds(0, 0, 1, 0)
    BY <1>7, <1>e, PlusRt, FinishTally DEF GenerationFails
  <2>2. Errs(r, "done", "backend_error", delivered[r])
    BY <1>0, <1>x, <2>1 DEF Errs
  <2> QED BY <1>kind, <2>1, <2>2 DEF StepsOf
<1>8. CASE GenerationRefused(r) \/ GenerationRaises(r) \/ CancelEarly(r)
  <2>1. PICK how \in {"upstream_4xx", "failed", "cancelled"} :
          /\ Finish(r, how, rt) /\ delivered' = delivered
          /\ pc[r] \in {"before", "generating"}
    BY <1>8 DEF GenerationRefused, GenerationRaises, CancelEarly
  <2>2. Steps(r, "done", how, delivered[r]) /\ Adds(0, 0, 0, 0)
    BY <2>1, PlusRt, FinishTally
  <2>3. Walks(r, "done", how, delivered[r])
    BY <1>h, <2>1, <2>2 DEF Walks
  <2> QED BY <1>kind, <2>2, <2>3 DEF StepsOf
<1>9. CASE StartStream(r)
  <2>1. /\ Goto(r, "streaming") /\ rt' = rt /\ UNCHANGED <<outcome, delivered>>
        /\ pc[r] = "handoff"
    BY <1>9 DEF StartStream
  <2>2. Steps(r, "streaming", outcome[r], delivered[r]) /\ Adds(0, 0, 0, 0)
    BY <2>1, WalkTally
  <2> QED BY <1>kind, <2>1, <2>2 DEF StepsOf, Walks
<1>10. CASE LoseStream(r)
  <2>1. Adds(0, 0, 0, 0) /\ pc[r] = "handoff"
    BY <1>10, WalkTally DEF LoseStream
  <2>2. Steps(r, "lost", "cancelled", delivered[r])
    BY <1>0, <1>10 DEF LoseStream, Goto, Ends, Steps
  <2> QED BY <1>kind, <2>1, <2>2 DEF StepsOf, Walks
<1>11. CASE StreamRefused(r)
  <2>1. Adds(0, 0, 1, 0)
    BY <1>11, <1>e, PlusRt DEF StreamRefused, Adds
  <2>2. Steps(r, "closing", "backend_error", delivered[r])
    BY <1>0, <1>11 DEF StreamRefused, Goto, Ends, Steps
  <2>3. Errs(r, "closing", "backend_error", delivered[r])
    BY <1>x, <1>11, <2>1 DEF StreamRefused, Errs
  <2> QED BY <1>kind, <2>2, <2>3 DEF StepsOf
<1>12. CASE StreamClosed(r)
  <2>1. /\ pc[r] = "closing" /\ Steps(r, "done", outcome[r], delivered[r])
        /\ Adds(0, 0, 0, 0)
    BY <1>12, PlusRt, FinishTally DEF StreamClosed
  <2> QED BY <1>kind, <2>1 DEF StepsOf, Walks
<1>13. CASE StreamDelivers(r)
  <2>1. /\ pc[r] \in {"streaming", "emitting"} /\ pc' = pc /\ outcome' = outcome /\ rt' = rt
        /\ delivered' = [delivered EXCEPT ![r] = TRUE]
    BY <1>13 DEF StreamDelivers
  <2>2. pc' = [pc EXCEPT ![r] = pc[r]] /\ outcome' = [outcome EXCEPT ![r] = outcome[r]]
    BY <1>0, <2>1
  <2>3. Steps(r, pc[r], outcome[r], TRUE) /\ Adds(0, 0, 0, 0)
    BY <2>1, <2>2, PlusRt DEF Steps, Adds
  <2> QED BY <1>kind, <2>1, <2>3 DEF StepsOf, Walks
<1>14. CASE StreamBuffered(r)
  <2>1. /\ Goto(r, "emitting") /\ rt' = rt /\ UNCHANGED <<outcome, delivered>>
        /\ pc[r] = "streaming"
    BY <1>14 DEF StreamBuffered
  <2>2. Steps(r, "emitting", outcome[r], delivered[r]) /\ Adds(0, 0, 0, 0)
    BY <2>1, WalkTally
  <2> QED BY <1>kind, <2>1, <2>2 DEF StepsOf, Walks
<1>15. CASE StreamCompletes(r)
  <2>1. /\ pc[r] \in {"streaming", "emitting"}
        /\ Steps(r, "after", "ok", TRUE) /\ Adds(0, 0, 0, 1)
    BY <1>15, CountTally DEF StreamCompletes
  <2> QED BY <1>kind, <1>h, <2>1 DEF StepsOf, Tallies
<1>16. CASE StreamStops(r)
  <2>1. PICK how \in {"truncated", "failed", "cancelled"} :
          /\ pc[r] \in {"streaming", "emitting"} /\ delivered' = delivered
          /\ IF delivered[r] THEN CountGeneration(r, how) ELSE Finish(r, how, rt)
    BY <1>16 DEF StreamStops
  <2>2. CASE delivered[r]
    <3>1. delivered' = [delivered EXCEPT ![r] = TRUE]
      BY <1>0, <2>1, <2>2
    <3>2. Steps(r, "after", how, TRUE) /\ Adds(0, 0, 0, 1)
      BY <2>1, <2>2, <3>1, CountTally
    <3> QED BY <1>kind, <1>h, <2>1, <3>2 DEF StepsOf, Tallies
  <2>3. CASE ~delivered[r]
    <3>1. Steps(r, "done", how, delivered[r]) /\ Adds(0, 0, 0, 0)
      BY <2>1, <2>3, PlusRt, FinishTally
    <3> QED BY <1>kind, <1>h, <2>1, <2>3, <3>1 DEF StepsOf, Walks
  <2> QED BY <2>2, <2>3
<1>17. CASE ScrapeAfter(r)
  <2>1. PICK result \in ScrapeResults : \E how \in {outcome[r], "failed"} :
          Finish(r, how, RecordMtpDelta(rt, MtpMetricDelta(before[r],
                                             ParseMtpMetrics(result, backend.counter))))
    BY <1>17 DEF ScrapeAfter
  <2> DEFINE delta == MtpMetricDelta(before[r], ParseMtpMetrics(result, backend.counter))
  <2>2. delta \in DeltaStates
    BY DeltaIsNeverNone
  <2> HIDE DEF delta
  <2>3. PICK how \in {outcome[r], "failed"} : Finish(r, how, RecordMtpDelta(rt, delta))
    BY <2>1 DEF delta
  <2>4. pc[r] = "after" /\ delivered' = delivered
    BY <1>17 DEF ScrapeAfter
  <2>5. Steps(r, "done", how, delivered[r]) /\ Adds(0, 0, 0, 0)
    BY <2>2, <2>3, <2>4, PlusRt, FinishTally
  <2> QED BY <1>kind, <1>h, <2>4, <2>5 DEF StepsOf, Walks
<1>18. CASE CancelAfter(r)
  <2>1. /\ pc[r] = "after" /\ Steps(r, "done", "cancelled", delivered[r])
        /\ Adds(0, 0, 0, 0)
    BY <1>18, PlusRt, FinishTally DEF CancelAfter
  <2> QED BY <1>kind, <1>h, <2>1 DEF StepsOf, Walks
<1>19. CASE Tokenize(r)
  <2>1. /\ Goto(r, "tokenizing") /\ rt' = rt /\ UNCHANGED <<outcome, delivered>>
        /\ pc[r] = "new" /\ kind[r] = "count_tokens"
    BY <1>19 DEF Tokenize
  <2>2. Steps(r, "tokenizing", outcome[r], delivered[r]) /\ Adds(0, 0, 0, 0)
    BY <2>1, WalkTally
  <2>3. kind[r] \notin GenerationKinds
    BY <2>1 DEF GenerationKinds, JsonKinds, StreamKinds
  <2> QED BY <1>kind, <2>1, <2>2, <2>3 DEF StepsOf, Walks
<1>20. CASE TokenizeEnds(r)
  <2>0. pc[r] = "tokenizing" /\ delivered' = delivered
    BY <1>20 DEF TokenizeEnds
  <2>1. CASE \E how \in {"ok", "upstream_4xx", "failed", "cancelled"} : Answer(r, how, rt)
    <3>1. PICK how \in {"ok", "upstream_4xx", "failed", "cancelled"} : Answer(r, how, rt)
      BY <2>1
    <3>2. Steps(r, "done", how, delivered[r]) /\ Adds(0, 0, 0, 0)
      BY <2>0, <3>1, PlusRt, AnswerTally
    <3>3. Walks(r, "done", how, delivered[r])
      BY <1>h, <2>0, <3>2 DEF Walks
    <3> QED BY <1>kind, <3>2, <3>3 DEF StepsOf
  <2>2. ASSUME NEW how \in ErrorOutcomes, NEW code \in BackendErrors,
               Answer(r, how, RecordBackendError(rt, code))
        PROVE  \E ph, h, del : Steps(r, ph, h, del) /\ StepsOf(r, ph, h, del)
    <3>1. Steps(r, "done", how, delivered[r]) /\ Adds(0, 0, 1, 0)
      BY <2>0, <2>2, PlusRt, AnswerTally
    <3>2. Errs(r, "done", how, delivered[r])
      BY <1>0, <2>0, <3>1 DEF Errs
    <3> QED BY <3>1, <3>2 DEF StepsOf
  <2> QED BY <1>20, <1>kind, <1>e, <1>x, <2>1, <2>2 DEF TokenizeEnds
<1> QED BY <1>1, <1>2, <1>3, <1>4, <1>5, <1>6, <1>7, <1>8, <1>9, <1>10, <1>11, <1>12,
          <1>13, <1>14, <1>15, <1>16, <1>17, <1>18, <1>19, <1>20 DEF Handle

-----------------------------------------------------------------------------
(* TallyInv is inductive.                                                  *)

LEMMA InitTally == Init => TallyInv
BY DEF Init, TallyInv, Undecided, HoldingPhases

LEMMA HandleTallyInv ==
  ASSUME TypeOK, TallyInv, NEW r \in Requests, Handle(r)
  PROVE  TallyInv'
<1>1. PICK ph, how, del : Steps(r, ph, how, del) /\ StepsOf(r, ph, how, del)
  BY HandleTallies
<1>2. /\ pc \in [Requests -> Phases] /\ outcome \in [Requests -> Outcomes]
      /\ delivered \in [Requests -> BOOLEAN] /\ kind' = kind
  BY HandleTallies DEF TypeOK
<1>3. pc'[r] = ph /\ outcome'[r] = how /\ delivered'[r] = del
  BY <1>1, <1>2 DEF Steps
<1> DEFINE Sound(k, p, o, d) ==
             /\ p \in Undecided => o = "none"
             /\ p \in HoldingPhases =>
                  k \in GenerationKinds /\ o \notin {"invalid", "queue_full"}
             /\ p = "tokenizing" => k \notin GenerationKinds
             /\ d => p \in {"streaming", "emitting", "after", "done"}
             /\ p = "after" => d /\ o \notin ErrorOutcomes
<1>4. \A q \in Requests : Sound(kind[q], pc[q], outcome[q], delivered[q])
  BY DEF TallyInv
<1>5. Sound(kind[r], ph, how, del)
  <2> USE <1>4 DEF Undecided, HoldingPhases, Harmless, Outcomes, ErrorOutcomes
  <2>1. CASE Admits(r, ph, how, del)
    BY <2>1 DEF Admits
  <2>2. CASE TurnsAway(r, ph, how, del)
    BY <2>2 DEF TurnsAway
  <2>3. CASE Errs(r, ph, how, del)
    BY <2>3 DEF Errs
  <2>4. CASE Tallies(r, ph, how, del)
    BY <2>4 DEF Tallies
  <2>5. CASE Walks(r, ph, how, del)
    BY <2>5 DEF Walks
  <2> QED BY <1>1, <2>1, <2>2, <2>3, <2>4, <2>5 DEF StepsOf
<1>6. ASSUME NEW q \in Requests, q # r
      PROVE  Sound(kind'[q], pc'[q], outcome'[q], delivered'[q])
  <2>1. pc'[q] = pc[q] /\ outcome'[q] = outcome[q] /\ delivered'[q] = delivered[q]
    BY <1>1, <1>2, <1>6 DEF Steps
  <2> HIDE DEF Sound
  <2> QED BY <1>2, <1>4, <2>1
<1>7. \A q \in Requests : Sound(kind'[q], pc'[q], outcome'[q], delivered'[q])
  <2> HIDE DEF Sound
  <2> QED BY <1>2, <1>3, <1>5, <1>6
<1> QED BY <1>7 DEF TallyInv

-----------------------------------------------------------------------------
(* The sets grow as the counters do.                                       *)

\* T has n requests more than S: none, or r.
Grows(S, T, r, n) == \/ n = 0 /\ T = S
                     \/ n = 1 /\ r \notin S /\ T = S \cup {r}

LEMMA GrowsByOne ==
  ASSUME NEW S \in SUBSET Requests, NEW T \in SUBSET Requests, NEW r \in Requests,
         \A q \in Requests : q # r => (q \in T <=> q \in S)
  PROVE  /\ (r \in S <=> r \in T) => Grows(S, T, r, 0)
         /\ (r \notin S /\ r \in T) => Grows(S, T, r, 1)
BY DEF Grows

LEMMA GrownSize ==
  ASSUME NEW S \in SUBSET Requests, NEW T, NEW r \in Requests, NEW n, Grows(S, T, r, n)
  PROVE  /\ Cardinality(S) \in Nat /\ n \in {0, 1}
         /\ Cardinality(T) = Cardinality(S) + n
<1>1. IsFiniteSet(S) /\ Cardinality(S) \in Nat
  BY RequestsAssumption, FS_Subset, FS_CardinalityType
<1>2. CASE n = 0 /\ T = S
  BY <1>1, <1>2
<1>3. CASE n = 1 /\ r \notin S /\ T = S \cup {r}
  BY <1>1, <1>3, FS_AddElement
<1> QED BY <1>1, <1>2, <1>3 DEF Grows

LEMMA HandleGrows ==
  ASSUME TypeOK, TallyInv, NEW r \in Requests, Handle(r)
  PROVE  \E a, b, c, d \in {0, 1} :
           /\ Adds(a, b, c, d)
           /\ Grows(Admitted, Admitted', r, a)
           /\ Grows(Refused, Refused', r, b)
           /\ Grows(Errored, Errored', r, c)
           /\ Grows(Counted, Counted', r, d)
<1>1. PICK ph, how, del : Steps(r, ph, how, del) /\ StepsOf(r, ph, how, del)
  BY HandleTallies
<1>2. /\ pc \in [Requests -> Phases] /\ outcome \in [Requests -> Outcomes]
      /\ delivered \in [Requests -> BOOLEAN] /\ kind' = kind
  BY HandleTallies DEF TypeOK
<1>3. pc'[r] = ph /\ outcome'[r] = how /\ delivered'[r] = del
  BY <1>1, <1>2 DEF Steps
<1>4. \A q \in Requests : q # r =>
        pc'[q] = pc[q] /\ outcome'[q] = outcome[q] /\ delivered'[q] = delivered[q]
  BY <1>1, <1>2 DEF Steps
<1> DEFINE In(k, p, o)  == k \in GenerationKinds /\ p # "new" /\ o \notin {"invalid", "queue_full"}
           Done(p, d)   == d /\ p \notin {"streaming", "emitting"}
<1>5. /\ Admitted \in SUBSET Requests /\ Admitted' \in SUBSET Requests
      /\ r \in Admitted <=> In(kind[r], pc[r], outcome[r])
      /\ r \in Admitted' <=> In(kind[r], ph, how)
      /\ \A q \in Requests : q # r => (q \in Admitted' <=> q \in Admitted)
  BY <1>2, <1>3, <1>4 DEF Admitted
<1>6. /\ Refused \in SUBSET Requests /\ Refused' \in SUBSET Requests
      /\ r \in Refused <=> outcome[r] = "queue_full"
      /\ r \in Refused' <=> how = "queue_full"
      /\ \A q \in Requests : q # r => (q \in Refused' <=> q \in Refused)
  BY <1>2, <1>3, <1>4 DEF Refused, Ending
<1>7. /\ Errored \in SUBSET Requests /\ Errored' \in SUBSET Requests
      /\ r \in Errored <=> outcome[r] \in ErrorOutcomes
      /\ r \in Errored' <=> how \in ErrorOutcomes
      /\ \A q \in Requests : q # r => (q \in Errored' <=> q \in Errored)
  BY <1>2, <1>3, <1>4 DEF Errored, Ending
<1>8. /\ Counted \in SUBSET Requests /\ Counted' \in SUBSET Requests
      /\ r \in Counted <=> Done(pc[r], delivered[r])
      /\ r \in Counted' <=> Done(ph, del)
      /\ \A q \in Requests : q # r => (q \in Counted' <=> q \in Counted)
  BY <1>2, <1>3, <1>4 DEF Counted
<1>9. /\ outcome[r] \in Outcomes /\ delivered[r] \in BOOLEAN
      /\ pc[r] \in Undecided => outcome[r] = "none"
      /\ pc[r] \in HoldingPhases =>
           kind[r] \in GenerationKinds /\ outcome[r] \notin {"invalid", "queue_full"}
      /\ pc[r] = "tokenizing" => kind[r] \notin GenerationKinds
      /\ delivered[r] => pc[r] \in {"streaming", "emitting", "after", "done"}
      /\ pc[r] = "after" => delivered[r] /\ outcome[r] \notin ErrorOutcomes
  BY <1>2 DEF TallyInv
\* Whether r comes into a set is a matter of its phase, its outcome and what it delivered.
<1> DEFINE Same1 == In(kind[r], pc[r], outcome[r]) <=> In(kind[r], ph, how)
           Same2 == outcome[r] = "queue_full" <=> how = "queue_full"
           Same3 == outcome[r] \in ErrorOutcomes <=> how \in ErrorOutcomes
           Same4 == Done(pc[r], delivered[r]) <=> Done(ph, del)
<1>10. CASE Admits(r, ph, how, del)
  <2>1. ~In(kind[r], pc[r], outcome[r]) /\ In(kind[r], ph, how) /\ Same2 /\ Same3 /\ Same4
    BY <1>9, <1>10 DEF Admits, Undecided
  <2> HIDE DEF In, Done
  <2>2. /\ Grows(Admitted, Admitted', r, 1) /\ Grows(Refused, Refused', r, 0)
        /\ Grows(Errored, Errored', r, 0) /\ Grows(Counted, Counted', r, 0)
    BY <1>5, <1>6, <1>7, <1>8, <2>1, GrowsByOne
  <2> QED BY <1>10, <2>2 DEF Admits
<1>11. CASE TurnsAway(r, ph, how, del)
  <2>1. outcome[r] # "queue_full" /\ how = "queue_full" /\ Same1 /\ Same3 /\ Same4
    BY <1>9, <1>11 DEF TurnsAway, Undecided, ErrorOutcomes
  <2> HIDE DEF In, Done
  <2>2. /\ Grows(Admitted, Admitted', r, 0) /\ Grows(Refused, Refused', r, 1)
        /\ Grows(Errored, Errored', r, 0) /\ Grows(Counted, Counted', r, 0)
    BY <1>5, <1>6, <1>7, <1>8, <2>1, GrowsByOne
  <2> QED BY <1>11, <2>2 DEF TurnsAway
<1>12. CASE Errs(r, ph, how, del)
  <2>1. outcome[r] \notin ErrorOutcomes /\ how \in ErrorOutcomes /\ Same1 /\ Same2 /\ Same4
    BY <1>9, <1>12 DEF Errs, Undecided, HoldingPhases, ErrorOutcomes
  <2> HIDE DEF In, Done
  <2>2. /\ Grows(Admitted, Admitted', r, 0) /\ Grows(Refused, Refused', r, 0)
        /\ Grows(Errored, Errored', r, 1) /\ Grows(Counted, Counted', r, 0)
    BY <1>5, <1>6, <1>7, <1>8, <2>1, GrowsByOne
  <2> QED BY <1>12, <2>2 DEF Errs
<1>13. CASE Tallies(r, ph, how, del)
  <2>1. ~Done(pc[r], delivered[r]) /\ Done(ph, del) /\ Same1 /\ Same2 /\ Same3
    BY <1>9, <1>13 DEF Tallies, Undecided, HoldingPhases, Harmless, Outcomes, ErrorOutcomes
  <2> HIDE DEF In, Done
  <2>2. /\ Grows(Admitted, Admitted', r, 0) /\ Grows(Refused, Refused', r, 0)
        /\ Grows(Errored, Errored', r, 0) /\ Grows(Counted, Counted', r, 1)
    BY <1>5, <1>6, <1>7, <1>8, <2>1, GrowsByOne
  <2> QED BY <1>13, <2>2 DEF Tallies
<1>14. CASE Walks(r, ph, how, del)
  <2>1. Same1
    BY <1>9, <1>14 DEF Walks, Undecided, HoldingPhases, Harmless, Outcomes
  <2>2. Same2
    BY <1>9, <1>14 DEF Walks, Undecided, HoldingPhases, Harmless, Outcomes
  <2>3. Same3
    BY <1>9, <1>14 DEF Walks, Undecided, HoldingPhases, Harmless, Outcomes, ErrorOutcomes
  <2>4. Same4
    BY <1>9, <1>14 DEF Walks
  <2> HIDE DEF In, Done
  <2>5. /\ Grows(Admitted, Admitted', r, 0) /\ Grows(Refused, Refused', r, 0)
        /\ Grows(Errored, Errored', r, 0) /\ Grows(Counted, Counted', r, 0)
    BY <1>5, <1>6, <1>7, <1>8, <2>1, <2>2, <2>3, <2>4, GrowsByOne
  <2> QED BY <1>14, <2>5 DEF Walks
<1> QED BY <1>1, <1>10, <1>11, <1>12, <1>13, <1>14 DEF StepsOf

-----------------------------------------------------------------------------
(* The counters agree.                                                     *)

LEMMA InitAgrees == Init => TallyAgrees
<1> SUFFICES ASSUME Init PROVE TallyAgrees
  OBVIOUS
<1>1. Admitted = {} /\ Refused = {} /\ Errored = {} /\ Counted = {}
  BY DEF Init, Admitted, Refused, Errored, Counted, Ending, ErrorOutcomes
<1>2. /\ Cardinality(Admitted) = 0 /\ Cardinality(Refused) = 0
      /\ Cardinality(Errored) = 0 /\ Cardinality(Counted) = 0
  BY <1>1, FS_EmptySet
<1> QED BY <1>2 DEF Init, InitRuntimeState, TallyAgrees, CountersAgree,
           GenerationsCountedOnce, Admitted, Refused, Errored, Counted

LEMMA HandleAgrees ==
  ASSUME TypeOK, TallyInv, TallyAgrees, NEW r \in Requests, Handle(r)
  PROVE  TallyAgrees'
<1>1. /\ rt.total = Cardinality(Admitted) /\ rt.rejected = Cardinality(Refused)
      /\ rt.backendErrors = Cardinality(Errored) /\ rt.batchRequests = Cardinality(Counted)
  BY DEF TallyAgrees, CountersAgree, GenerationsCountedOnce, Admitted, Refused, Errored, Counted
<1>2. PICK a, b, c, d \in {0, 1} :
        /\ Adds(a, b, c, d)
        /\ Grows(Admitted, Admitted', r, a)
        /\ Grows(Refused, Refused', r, b)
        /\ Grows(Errored, Errored', r, c)
        /\ Grows(Counted, Counted', r, d)
  BY HandleGrows
<1>3. /\ Admitted \in SUBSET Requests /\ Refused \in SUBSET Requests
      /\ Errored \in SUBSET Requests /\ Counted \in SUBSET Requests
  BY DEF Admitted, Refused, Errored, Counted, Ending
<1>4. /\ Cardinality(Admitted') = Cardinality(Admitted) + a
      /\ Cardinality(Refused') = Cardinality(Refused) + b
      /\ Cardinality(Errored') = Cardinality(Errored) + c
      /\ Cardinality(Counted') = Cardinality(Counted) + d
  BY <1>2, <1>3, GrownSize
<1>5. /\ rt'.total = Cardinality(Admitted') /\ rt'.rejected = Cardinality(Refused')
      /\ rt'.backendErrors = Cardinality(Errored') /\ rt'.batchRequests = Cardinality(Counted')
  BY <1>1, <1>2, <1>4 DEF Adds, Plus
<1> QED BY <1>5 DEF TallyAgrees, CountersAgree, GenerationsCountedOnce,
           Admitted, Refused, Errored, Counted

-----------------------------------------------------------------------------
(* A delta follows its generation.                                         *)

\* A request at its second scrape records a delta, or it was cancelled there.
LEMMA AfterEnds ==
  ASSUME TypeOK, NEW r \in Requests, Handle(r), pc[r] = "after"
  PROVE  \/ rt'.lastMtpDelta # "none"
         \/ outcome'[r] = "cancelled" /\ delivered' = delivered
<1>1. CASE ScrapeAfter(r)
  <2>1. PICK result \in ScrapeResults : \E how :
          Finish(r, how, RecordMtpDelta(rt, MtpMetricDelta(before[r],
                                             ParseMtpMetrics(result, backend.counter))))
    BY <1>1 DEF ScrapeAfter
  <2> DEFINE delta == MtpMetricDelta(before[r], ParseMtpMetrics(result, backend.counter))
  <2>2. delta \in DeltaStates \ {"none"}
    BY DeltaIsNeverNone
  <2> HIDE DEF delta
  <2>3. rt' = Release(RecordMtpDelta(rt, delta))
    BY <2>1 DEF Finish, delta
  <2>4. rt \in RuntimeStates /\ RecordMtpDelta(rt, delta) \in RuntimeStates
    BY <2>2, RuntimeStateTypes DEF TypeOK
  <2>5. rt'.lastMtpDelta = delta
    BY <2>2, <2>3, <2>4, LogEffects
  <2> QED BY <2>2, <2>5
<1>2. CASE CancelAfter(r)
  BY <1>2 DEF CancelAfter, Finish, Ends, TypeOK
<1>3. \/ ScrapeAfter(r) \/ CancelAfter(r)
      \/ pc[r] \in Phases \ {"after"}
  BY DEF Handle, RejectInvalid, RejectQueueFull, Admit, ScrapeBefore, GenerationReturns,
     GenerationTimesOut, GenerationRefused, GenerationFails, GenerationRaises, CancelEarly,
     StartStream, LoseStream, StreamRefused, StreamClosed, StreamDelivers, StreamBuffered,
     StreamCompletes, StreamStops, Tokenize, TokenizeEnds, Phases
<1> QED BY <1>1, <1>2, <1>3

\* r explains why readiness sees a generation and no delta.
Explains(r) == delivered[r] /\ (pc[r] = "after" \/ outcome[r] = "cancelled")

LEMMA HandleExplains ==
  ASSUME TypeOK, TallyInv, TallyAgrees, DeltaFollowsGeneration, NEW r \in Requests, Handle(r)
  PROVE  DeltaFollowsGeneration'
<1>1. PICK ph, how, del : Steps(r, ph, how, del) /\ StepsOf(r, ph, how, del)
  BY HandleTallies
<1>2. /\ pc \in [Requests -> Phases] /\ outcome \in [Requests -> Outcomes]
      /\ delivered \in [Requests -> BOOLEAN] /\ rt.batchRequests \in Nat
  BY DEF TypeOK, RuntimeStates
<1>3. /\ \A q \in Requests : q # r =>
           pc'[q] = pc[q] /\ outcome'[q] = outcome[q] /\ delivered'[q] = delivered[q]
      /\ pc[r] # "done"
  BY <1>1, <1>2 DEF Steps, StepsOf, Admits, TurnsAway, Errs, Tallies, Walks
<1>4. \A q \in Requests \ {r} : Explains(q) => Explains(q)'
  BY <1>3 DEF Explains
<1>5. pc[r] # "after" => ~Explains(r)
  BY <1>3 DEF TallyInv, Explains, Undecided
<1>6. /\ rt.lastMtpDelta # "none" => rt.batchRequests > 0
      /\ rt.batchRequests > 0 /\ rt.lastMtpDelta = "none" => \E q \in Requests : Explains(q)
  BY DEF DeltaFollowsGeneration, Explains
<1>7. TallyInv'
  BY HandleTallyInv
<1> DEFINE Goal == /\ rt'.lastMtpDelta # "none" => rt'.batchRequests > 0
                   /\ rt'.batchRequests > 0 /\ rt'.lastMtpDelta = "none" =>
                        \E q \in Requests : Explains(q)'
<1> SUFFICES Goal
  BY DEF DeltaFollowsGeneration, Explains
<1>8. CASE Passes(r)
  BY <1>4, <1>5, <1>6, <1>8 DEF Passes, SameLog
<1>9. CASE Counts(r)
  <2>1. pc'[r] = "after"
    BY <1>2, <1>9 DEF Counts, Goto
  <2>2. Explains(r)'
    BY <1>7, <2>1 DEF TallyInv, Explains
  <2>3. rt'.batchRequests > 0
    BY <1>2, <1>9 DEF Counts
  <2> QED BY <2>2, <2>3
<1>10. CASE GivesUp(r)
  <2>1. Explains(r) => Explains(r)' \/ rt'.lastMtpDelta # "none"
    BY <1>10, AfterEnds DEF GivesUp, Explains
  <2> QED BY <1>4, <1>6, <1>10, <2>1 DEF GivesUp, SameLog
<1>11. CASE Records(r)
  <2>1. r \in Counted
    BY <1>11 DEF Records, TallyInv, Counted
  <2>2. Counted \in SUBSET Requests
    BY DEF Counted
  <2>3. IsFiniteSet(Counted) /\ Cardinality(Counted) # 0
    BY <2>1, <2>2, RequestsAssumption, FS_Subset, FS_EmptySet
  <2>4. rt.batchRequests = Cardinality(Counted)
    BY DEF TallyAgrees, GenerationsCountedOnce, Counted
  <2>5. rt'.batchRequests > 0
    BY <1>2, <1>11, <2>3, <2>4 DEF Records
  <2>6. rt'.lastMtpDelta # "none"
    BY <1>11, DeltaIsNeverNone DEF Records
  <2> QED BY <2>5, <2>6
<1> HIDE DEF Goal
<1> QED BY <1>8, <1>9, <1>10, <1>11, HandleLog

-----------------------------------------------------------------------------
(* The theorems.                                                           *)

CounterInv == TallyInv /\ TallyAgrees /\ DeltaFollowsGeneration

LEMMA InitCounterInv == Init => CounterInv
<1>1. Init => DeltaFollowsGeneration
  BY DEF Init, InitRuntimeState, DeltaFollowsGeneration
<1> QED BY <1>1, InitTally, InitAgrees DEF CounterInv

LEMMA NextCounterInv == TypeOK /\ CounterInv /\ [Next]_vars => CounterInv'
<1> SUFFICES ASSUME TypeOK, CounterInv, [Next]_vars PROVE CounterInv'
  OBVIOUS
<1>1. ASSUME NEW r \in Requests, Handle(r)
      PROVE  CounterInv'
  BY <1>1, HandleTallyInv, HandleAgrees, HandleExplains DEF CounterInv
<1>2. CASE UNCHANGED <<pc, kind, outcome, delivered, rt>>
  <2>1. TallyInv'
    BY <1>2 DEF CounterInv, TallyInv
  <2>2. TallyAgrees'
    BY <1>2 DEF CounterInv, TallyAgrees, CountersAgree, GenerationsCountedOnce, Ending
  <2>3. DeltaFollowsGeneration'
    BY <1>2 DEF CounterInv, DeltaFollowsGeneration
  <2> QED BY <2>1, <2>2, <2>3 DEF CounterInv
<1>3. BackendDrafts \/ BackendRestarts \/ UNCHANGED vars =>
        UNCHANGED <<pc, kind, outcome, delivered, rt>>
  BY DEF BackendDrafts, BackendRestarts, vars
<1> QED BY <1>1, <1>2, <1>3 DEF Next

\* The inductive invariant of the counters: what the phase of each request tells, the
\* four counters equal to the sizes of the sets they count, and a delta never without a
\* generation.
THEOREM CounterInvariant == Spec => []CounterInv
<1>1. IInv => TypeOK
  BY DEF IInv
<1> QED BY <1>1, Invariant, InitCounterInv, NextCounterInv, PTL DEF Spec

\* The counters of /metrics are the numbers of requests admitted, refused and ended by
\* a backend error, however handlers interleave and wherever they are cancelled.
THEOREM CountersAlwaysAgree == Spec => []CountersAgree
<1>1. CounterInv => CountersAgree
  BY DEF CounterInv, TallyAgrees
<1> QED BY <1>1, CounterInvariant, PTL

\* A generation whose output reached its handler is counted once, on whichever of the
\* paths out of the generation it leaves by.
THEOREM GenerationsAreCountedOnce == Spec => []GenerationsCountedOnce
<1>1. CounterInv => GenerationsCountedOnce
  BY DEF CounterInv, TallyAgrees
<1> QED BY <1>1, CounterInvariant, PTL

\* Readiness never sees a delta without a generation, and a generation without a delta
\* only while a second scrape is under way or after one was cancelled.
THEOREM DeltaComesAfterGeneration == Spec => []DeltaFollowsGeneration
<1>1. CounterInv => DeltaFollowsGeneration
  BY DEF CounterInv
<1> QED BY <1>1, CounterInvariant, PTL

-----------------------------------------------------------------------------
(* Without clients that leave early, a refusal means that all slots serve. *)

NoneLost == \A r \in Requests : pc[r] # "lost"

LEMMA RejectsOnlyWhenFull ==
  ASSUME TypeOK, TallyInv, NEW r \in Requests, Handle(r), rt'.rejected > rt.rejected
  PROVE  RejectQueueFull(r)
<1>1. PICK ph, how, del : Steps(r, ph, how, del) /\ StepsOf(r, ph, how, del)
  BY HandleTallies
<1>2. rt.rejected \in Nat /\ pc \in [Requests -> Phases] /\ outcome \in [Requests -> Outcomes]
  BY DEF TypeOK, RuntimeStates
<1>3. TurnsAway(r, ph, how, del)
  <2>1. ~Adds(1, 0, 0, 0) /\ ~Adds(0, 0, 1, 0) /\ ~Adds(0, 0, 0, 1) /\ ~Adds(0, 0, 0, 0)
    BY <1>2 DEF Adds, Plus
  <2> QED BY <1>1, <2>1 DEF StepsOf, Admits, Errs, Tallies, Walks
<1>4. pc[r] = "new" /\ pc'[r] = "done" /\ outcome'[r] = "queue_full"
  BY <1>1, <1>2, <1>3 DEF TurnsAway, Steps
<1>5. ~RejectInvalid(r)
  BY <1>2, <1>4 DEF RejectInvalid, Answer, Ends
<1>6. ~Admit(r) /\ ~Tokenize(r)
  BY <1>2, <1>4 DEF Admit, Tokenize, Goto
<1> QED BY <1>4, <1>5, <1>6 DEF Handle, ScrapeBefore, GenerationReturns,
     GenerationTimesOut, GenerationRefused, GenerationFails, GenerationRaises, CancelEarly,
     StartStream, LoseStream, StreamRefused, StreamClosed, StreamDelivers, StreamBuffered,
     StreamCompletes, StreamStops, ScrapeAfter, CancelAfter, TokenizeEnds

LEMMA NextNoneLost ==
  ASSUME EarlyDisconnect = FALSE, TypeOK, TallyInv, NoneLost, [Next]_vars
  PROVE  NoneLost'
<1>1. ASSUME NEW r \in Requests, Handle(r)
      PROVE  NoneLost'
  <2>1. PICK ph, how, del : Steps(r, ph, how, del) /\ StepsOf(r, ph, how, del)
    BY <1>1, HandleTallies
  <2>2. pc \in [Requests -> Phases]
    BY DEF TypeOK
  <2>3. ph = "lost" => pc[r] = "handoff" /\ pc'[r] = "lost"
    BY <2>1, <2>2 DEF Steps, StepsOf, Admits, TurnsAway, Errs, Tallies, Walks
  <2>4. CASE pc[r] = "handoff" /\ pc'[r] = "lost"
    <3>1. ~StartStream(r)
      BY <2>2, <2>4 DEF StartStream, Goto
    <3> QED BY <1>1, <2>4, <3>1 DEF Handle, RejectInvalid, RejectQueueFull, Admit,
         ScrapeBefore, GenerationReturns, GenerationTimesOut, GenerationRefused,
         GenerationFails, GenerationRaises, CancelEarly, LoseStream, StreamRefused,
         StreamClosed, StreamDelivers, StreamBuffered, StreamCompletes, StreamStops,
         ScrapeAfter, CancelAfter, Tokenize, TokenizeEnds
  <2>5. CASE ph # "lost"
    BY <2>1, <2>2, <2>5 DEF NoneLost, Steps
  <2> QED BY <2>3, <2>4, <2>5
<1>2. BackendDrafts \/ BackendRestarts \/ UNCHANGED vars => pc' = pc
  BY DEF BackendDrafts, BackendRestarts, vars
<1> QED BY <1>1, <1>2 DEF Next, NoneLost

LEMMA RefusalFindsFull ==
  ASSUME IInv, TallyInv, NoneLost, [Next]_vars, rt'.rejected > rt.rejected
  PROVE  Cardinality(Served) = Capacity
<1>1. rt.rejected \in Nat
  BY DEF IInv, TypeOK, RuntimeStates
<1>2. BackendDrafts \/ BackendRestarts \/ UNCHANGED vars => rt' = rt
  BY DEF BackendDrafts, BackendRestarts, vars
<1>3. PICK r \in Requests : Handle(r)
  BY <1>1, <1>2 DEF Next
<1>4. Full(rt)
  BY <1>3, RejectsOnlyWhenFull DEF RejectQueueFull, IInv
<1>5. Served = Holders
  BY DEF NoneLost, Served, Holders, HoldingPhases
<1>6. Cardinality(Holders) \in Nat
  BY HoldersFinite DEF Holders, HoldersIn
<1> QED BY <1>4, <1>5, <1>6, Bound DEF Full, IInv, SlotAccounting, AdmissionBound

\* As long as every stream that is handed over also starts, a request is refused only
\* while max_queue_size + 1 others are being served.  The assumption is needed: a client
\* that leaves earlier keeps its slot for good, as the run MCGateway_leak shows.
THEOREM RefusalMeansServing ==
  ASSUME EarlyDisconnect = FALSE
  PROVE  Spec => RefusedOnlyWhenFull
<1>1. Init => NoneLost
  BY DEF Init, NoneLost
<1>2. IInv => TypeOK
  BY DEF IInv
<1>3. CounterInv => TallyInv
  BY DEF CounterInv
<1>4. TypeOK /\ TallyInv /\ NoneLost /\ [Next]_vars => NoneLost'
  BY NextNoneLost
<1>5. IInv /\ TallyInv /\ NoneLost /\ [Next]_vars =>
        [rt'.rejected > rt.rejected => Cardinality(Served) = Capacity]_vars
  BY RefusalFindsFull
<1>6. Spec => [][rt'.rejected > rt.rejected => Cardinality(Served) = Capacity]_vars
  BY <1>1, <1>2, <1>3, <1>4, <1>5, Invariant, CounterInvariant, PTL DEF Spec
<1> QED BY <1>6 DEF RefusedOnlyWhenFull
=============================================================================
