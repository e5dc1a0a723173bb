----------------------------- MODULE Admission ------------------------------
(***************************************************************************)
(* What bounded admission promises, without counters: at most Slots        *)
(* requests are inside at a time, a request is refused only while that     *)
(* many are inside, it enters at most once and never after a refusal.      *)
(***************************************************************************)
EXTENDS Naturals, FiniteSets

CONSTANTS Requests, Slots

VARIABLES inside, refused, gone

admissionVars == <<inside, refused, gone>>

AdmissionInit == inside = {} /\ refused = {} /\ gone = {}

Outside == Requests \ (inside \cup refused \cup gone)

Enter(r) ==
  /\ r \in Outside
  /\ Cardinality(inside) < Slots
  /\ inside' = inside \cup {r}
  /\ UNCHANGED <<refused, gone>>

TurnAway(r) ==
  /\ r \in Outside
  /\ Cardinality(inside) = Slots
  /\ refused' = refused \cup {r}
  /\ UNCHANGED <<inside, gone>>

Leave(r) ==
  /\ r \in inside
  /\ inside' = inside \ {r}
  /\ gone' = gone \cup {r}
  /\ UNCHANGED refused

AdmissionNext == \E r \in Requests : Enter(r) \/ TurnAway(r) \/ Leave(r)

AdmissionSpec == AdmissionInit /\ [][AdmissionNext]_admissionVars
=============================================================================
