----------------------------- MODULE Compare2x2 -----------------------------
(***************************************************************************)
(* bench-2x2-compare (cli.py): the verdict on four bench-single files,     *)
(*     A  eager, no MTP      B  eager, MTP                                 *)
(*     C  graph, no MTP      D  graph, MTP                                 *)
(* A payload has the fields complete, profile, eager, mtp, argv (a         *)
(* sequence of <<option, value>>, or NoArgv), fields (the rest of the      *)
(* configuration) and groups, a sequence of [key, body, observations].  An *)
(* observation is the sequence of its token ids, empty if they are not     *)
(* parity ready.  Reasons are sets, told apart by kind and role.           *)
(***************************************************************************)
EXTENDS Naturals, Sequences, FiniteSets

CONSTANT NoArgv

Roles == {"A", "B", "C", "D"}

ExpectedEager(role)   == role \in {"A", "B"}
ExpectedMtp(role)     == role \in {"B", "D"}
ExpectedProfile(role) == IF ExpectedEager(role) THEN "eager" ELSE "graph"

Pairs ==
  {[left |-> "A", right |-> "B", relation |-> "same_mode_mtp"],
   [left |-> "C", right |-> "D", relation |-> "same_mode_mtp"],
   [left |-> "A", right |-> "C", relation |-> "cross_mode_eager"],
   [left |-> "B", right |-> "D", relation |-> "cross_mode_eager"]}

\* Mutant: the diagnostic pairs are gates too.
EveryPairIsGate(pair) == TRUE

GateRequired(pair) == pair.relation = "same_mode_mtp"

-----------------------------------------------------------------------------
(* Configurations.                                                         *)

HasOption(argv, option) == \E i \in DOMAIN argv : argv[i][1] = option

\* A role's file is complete, claims what the role is, and its argv agrees.
RoleConfigured(payload, role) ==
  /\ payload.complete
  /\ payload.profile = ExpectedProfile(role)
  /\ payload.eager = ExpectedEager(role)
  /\ payload.mtp = ExpectedMtp(role)
  /\ payload.argv # NoArgv =>
       /\ HasOption(payload.argv, "--enforce-eager") = ExpectedEager(role)
       /\ HasOption(payload.argv, "--speculative-config") = ExpectedMtp(role)

\* What the two sides of a pair may differ in.
AllowedOptions(pair) ==
  IF pair.relation = "same_mode_mtp"
    THEN {"--port", "--speculative-config"}
    ELSE {"--port", "--enforce-eager"}

Kept(argv, allowed) == {i \in DOMAIN argv : argv[i][1] \notin allowed}

\* The options that are kept, in their order.
Canonicalize(argv, allowed) ==
  LET kept   == Kept(argv, allowed)
      Nth(n) == CHOOSE i \in kept : Cardinality({j \in kept : j <= i}) = n
  IN  [n \in 1..Cardinality(kept) |-> argv[Nth(n)]]

PairConfigured(payloads, pair) ==
  LET left  == payloads[pair.left]
      right == payloads[pair.right]
  IN  /\ left.fields = right.fields
      /\ left.argv # NoArgv /\ right.argv # NoArgv =>
           Canonicalize(left.argv, AllowedOptions(pair)) =
             Canonicalize(right.argv, AllowedOptions(pair))

-----------------------------------------------------------------------------
(* Groups.                                                                 *)

Keys(payload) == {payload.groups[i].key : i \in DOMAIN payload.groups}

\* The groups by their key: one that comes later takes the place of an earlier.
GroupsByKey(payload) ==
  [k \in Keys(payload) |->
     LET mine == {i \in DOMAIN payload.groups : payload.groups[i].key = k}
     IN  payload.groups[CHOOSE i \in mine : \A j \in mine : j <= i]]

\* Mutant: only the groups that all roles have are compared.
GroupMatrixMatchesInCommon(groups) ==
  \A k \in {key \in DOMAIN groups["A"] : \A r \in Roles : key \in DOMAIN groups[r]} :
    \A r \in Roles : groups[r][k].body = groups["A"][k].body

\* Every role has the groups of every other, with the request bodies of A.
GroupMatrixMatches(groups) ==
  /\ DOMAIN groups["A"] # {}
  /\ \A r \in Roles :
       /\ DOMAIN groups[r] = DOMAIN groups["A"]
       /\ \A k \in DOMAIN groups["A"] : groups[r][k].body = groups["A"][k].body

Ready(observation) == observation # <<>>

GroupRepeatability(group) ==
  LET seen == {group.observations[i] : i \in DOMAIN group.observations}
  IN  IF seen = {} \/ (\E o \in seen : ~Ready(o))
        THEN "missing"
        ELSE IF Cardinality(seen) = 1 THEN "passed" ELSE "failed"

RoleRepeatability(groups) ==
  LET statuses == {GroupRepeatability(groups[k]) : k \in DOMAIN groups}
  IN  CASE "failed" \in statuses    -> "failed"
        [] statuses = {"passed"}    -> "passed"
        [] OTHER                    -> "missing"

\* Mutant: sequences are compared whether or not they are ready.
GroupTokenParityOfAnything(left, right) ==
  IF left.observations = right.observations
    THEN "token_ids_match" ELSE "deterministic_parity_failed"

\* The observations are compared run by run, up to the first that is not ready on
\* both sides, or differs.
GroupTokenParity(left, right) ==
  LET l        == left.observations
      r        == right.observations
      BothReady(i) == Ready(l[i]) /\ Ready(r[i])
      bad      == {i \in DOMAIN l : ~BothReady(i) \/ l[i] # r[i]}
      first    == CHOOSE i \in bad : \A j \in bad : i <= j
  IN  CASE Len(l) # Len(r)                                     -> "observation_count_mismatch"
        [] Len(l) = Len(r) /\ bad = {}                         -> "token_ids_match"
        [] Len(l) = Len(r) /\ bad # {} /\ BothReady(first)     -> "deterministic_parity_failed"
        [] Len(l) = Len(r) /\ bad # {} /\ ~BothReady(first)    -> "token_parity_unavailable"

PairGateReason(left, right) ==
  LET reasons == {GroupTokenParity(left[k], right[k]) : k \in DOMAIN left \cap DOMAIN right}
  IN  CASE reasons = {}                                  -> "no_comparable_groups"
        [] reasons = {"token_ids_match"}                 -> "token_ids_match"
        [] "deterministic_parity_failed" \in reasons     -> "deterministic_parity_failed"
        [] OTHER                                         -> "token_parity_unavailable"

-----------------------------------------------------------------------------
(* The verdict.                                                            *)

RoleGroups(payloads) == [r \in Roles |-> GroupsByKey(payloads[r])]

ValidExperiment(payloads) ==
  /\ \A r \in Roles : RoleConfigured(payloads[r], r)
  /\ GroupMatrixMatches(RoleGroups(payloads))
  /\ \A p \in Pairs : PairConfigured(payloads, p)

Repeatabilities(payloads) == {RoleRepeatability(RoleGroups(payloads)[r]) : r \in Roles}

GateReasons(payloads) ==
  {PairGateReason(RoleGroups(payloads)[p.left], RoleGroups(payloads)[p.right]) :
     p \in {q \in Pairs : GateRequired(q)}}

\* experiment_status: a bad experiment before a failure, a failure before what is
\* missing.  Only "passed" recommends to adopt MTP.
ExperimentStatus(payloads) ==
  IF ~ValidExperiment(payloads) THEN "invalid_experiment"
  ELSE IF \/ "failed" \in Repeatabilities(payloads)
          \/ "deterministic_parity_failed" \in GateReasons(payloads)
         THEN "failed"
  ELSE IF \/ "missing" \in Repeatabilities(payloads)
          \/ GateReasons(payloads) # {"token_ids_match"}
         THEN "insufficient_evidence"
  ELSE "passed"
=============================================================================
