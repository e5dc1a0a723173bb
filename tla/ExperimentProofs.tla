-------------------------- MODULE ExperimentProofs --------------------------
(***************************************************************************)
(* Proofs about the 2x2 experiment, for any number of groups and of runs,  *)
(* any number of launches and any number of faults.                        *)
(*                                                                         *)
(* The verdict is a function of four files.  What it means is therefore    *)
(* proved about the function first, for any four files that bench-single   *)
(* can have written; the invariant FilesInv then says that the files which *)
(* were read, one after the other, while benches were running, are such    *)
(* files, and that the verdict is the function of them.                    *)
(***************************************************************************)
EXTENDS Experiment, FiniteSetTheorems, SequenceTheorems, WellFoundedInduction, TLAPS

-----------------------------------------------------------------------------
(* What a file may hold.                                                   *)

Evidence == {<<1>>, <<2>>, <<3>>}

Group == [1..Runs -> Evidence \cup {<<>>}]

RecordFile == [kind : {"partial", "complete"}, setup : Setup, groups : Seq(Group),
               failed : BOOLEAN]

WholeFile(f) == /\ f \in RecordFile
                /\ f.kind = "complete" => Len(f.groups) = NumGroups

LEMMA GroupIsSequence ==
  ASSUME NEW g \in Group
  PROVE  /\ g \in Seq(Evidence \cup {<<>>}) /\ Len(g) = Runs /\ DOMAIN g = 1..Runs
         /\ Runs \in Nat \ {0}
BY ExperimentAssumption DEF Group

\* The observations of one group, and whether they are ready.
Values(g) == {g[n] : n \in DOMAIN g}

LEMMA ValuesFinite ==
  ASSUME NEW g \in Group
  PROVE  /\ IsFiniteSet(Values(g)) /\ Cardinality(Values(g)) \in Nat
         /\ Values(g) # {} /\ Values(g) \subseteq Evidence \cup {<<>>}
<1>1. DOMAIN g = 1..Runs /\ Runs \in Nat \ {0}
  BY GroupIsSequence
<1>2. g \in Surjection(1..Runs, Values(g))
  BY <1>1 DEF Group, Values, Surjection
<1>3. IsFiniteSet(1..Runs)
  BY <1>1, FS_Interval
<1>4. IsFiniteSet(Values(g))
  BY <1>2, <1>3, FS_Surjection
<1>5. 1 \in DOMAIN g
  BY <1>1
<1> QED BY <1>1, <1>4, <1>5, FS_CardinalityType DEF Values, Group

LEMMA EvidenceReady ==
  /\ \A o \in Evidence \cup {<<>>} : Ready(o) <=> o \in Evidence
  /\ <<>> \notin Evidence
BY DEF Evidence, Ready

-----------------------------------------------------------------------------
(* Groups of a payload.                                                    *)

LEMMA PayloadGroups ==
  ASSUME NEW r \in Roles, NEW f \in RecordFile
  PROVE  LET g == GroupsByKey(Payload(r, f))
             t == f.setup.target
         IN  /\ DOMAIN g = {<<i, t>> : i \in DOMAIN f.groups}
             /\ \A i \in DOMAIN f.groups :
                  /\ g[<<i, t>>].body = <<i, t>>
                  /\ g[<<i, t>>].observations = f.groups[i]
<1> DEFINE p == Payload(r, f)
           t == f.setup.target
<1> DEFINE record(i) == [key |-> <<i, t>>, body |-> <<i, t>>, observations |-> f.groups[i]]
<1>0. p.groups = [i \in DOMAIN f.groups |-> record(i)]
  BY DEF Payload
<1> HIDE DEF p
<1>1. /\ DOMAIN p.groups = DOMAIN f.groups
      /\ \A i \in DOMAIN f.groups :
           /\ p.groups[i] = record(i)
           /\ p.groups[i].key = <<i, t>> /\ p.groups[i].body = <<i, t>>
           /\ p.groups[i].observations = f.groups[i]
  BY <1>0
<1>2. Keys(p) = {<<i, t>> : i \in DOMAIN f.groups}
  BY <1>1 DEF Keys
<1>3. ASSUME NEW i \in DOMAIN f.groups
      PROVE  GroupsByKey(p)[<<i, t>>] = p.groups[i]
  <2> DEFINE mine == {j \in DOMAIN p.groups : p.groups[j].key = <<i, t>>}
  <2>1. mine = {i}
    <3>1. \A j \in DOMAIN p.groups : p.groups[j].key = <<i, t>> <=> j = i
      <4>1. \A j : <<j, t>> = <<i, t>> <=> j = i
        OBVIOUS
      <4>2. \A j \in DOMAIN p.groups : p.groups[j].key = <<j, t>>
        BY <1>1
      <4> HIDE DEF t
      <4> QED BY <4>1, <4>2
    <3> QED BY <1>1, <3>1
  <2>2. i \in Nat
    BY DEF RecordFile
  <2>3. (CHOOSE j \in mine : \A k \in mine : k <= j) = i
    BY <2>1, <2>2
  <2>4. <<i, t>> \in Keys(p)
    BY <1>2
  <2> QED BY <2>3, <2>4 DEF GroupsByKey
<1>4. DOMAIN GroupsByKey(p) = Keys(p)
  BY DEF GroupsByKey
<1>5. /\ DOMAIN GroupsByKey(p) = {<<i, t>> : i \in DOMAIN f.groups}
      /\ \A i \in DOMAIN f.groups :
           /\ GroupsByKey(p)[<<i, t>>].body = <<i, t>>
           /\ GroupsByKey(p)[<<i, t>>].observations = f.groups[i]
  BY <1>1, <1>2, <1>3, <1>4
<1> QED BY <1>5 DEF p

-----------------------------------------------------------------------------
(* What the verdicts on groups and on roles mean.                          *)

LEMMA RepeatabilityMeans ==
  ASSUME NEW group, group.observations \in Group
  PROVE  LET seen == Values(group.observations)
         IN  /\ GroupRepeatability(group) = "passed" <=> \E o \in Evidence : seen = {o}
             /\ GroupRepeatability(group) = "failed" =>
                  seen \subseteq Evidence /\ Cardinality(seen) > 1
             /\ GroupRepeatability(group) \in {"passed", "failed", "missing"}
<1> DEFINE seen == Values(group.observations)
<1>1. /\ IsFiniteSet(seen) /\ Cardinality(seen) \in Nat
      /\ seen # {} /\ seen \subseteq Evidence \cup {<<>>}
  BY ValuesFinite
<1>2. seen = {group.observations[i] : i \in DOMAIN group.observations}
  BY DEF Values
<1> HIDE DEF seen
<1>3. Cardinality(seen) # 0 /\ (Cardinality(seen) = 1 <=> \E o : seen = {o})
  BY <1>1, FS_EmptySet, FS_Singleton
<1>4. (\E o \in seen : ~Ready(o)) <=> ~(seen \subseteq Evidence)
  BY <1>1, EvidenceReady
<1>5. GroupRepeatability(group) =
        IF seen = {} \/ (\E o \in seen : ~Ready(o))
          THEN "missing"
          ELSE IF Cardinality(seen) = 1 THEN "passed" ELSE "failed"
  BY <1>2 DEF GroupRepeatability
<1>6. /\ GroupRepeatability(group) = "passed" <=> \E o \in Evidence : seen = {o}
      /\ GroupRepeatability(group) = "failed" =>
           seen \subseteq Evidence /\ Cardinality(seen) > 1
      /\ GroupRepeatability(group) \in {"passed", "failed", "missing"}
  <2>1. CASE ~(seen \subseteq Evidence)
    <3>1. ~ \E o \in Evidence : seen = {o}
      BY <2>1
    <3>2. GroupRepeatability(group) = "missing"
      BY <1>4, <1>5, <2>1
    <3> QED BY <3>1, <3>2
  <2>2. CASE seen \subseteq Evidence /\ Cardinality(seen) = 1
    <3>1. \E o \in Evidence : seen = {o}
      BY <1>3, <2>2
    <3>2. GroupRepeatability(group) = "passed"
      BY <1>1, <1>4, <1>5, <2>2
    <3> QED BY <3>1, <3>2
  <2>3. CASE seen \subseteq Evidence /\ Cardinality(seen) # 1
    <3>1. ~ \E o \in Evidence : seen = {o}
      BY <1>3, <2>3
    <3>2. \A n \in Nat : n # 0 /\ n # 1 => n > 1
      OBVIOUS
    <3>3. Cardinality(seen) > 1
      BY <1>1, <1>3, <2>3, <3>2
    <3>4. GroupRepeatability(group) = "failed"
      BY <1>1, <1>4, <1>5, <2>3
    <3> QED BY <2>3, <3>1, <3>3, <3>4
  <2> QED BY <2>1, <2>2, <2>3
<1> QED BY <1>6 DEF seen

LEMMA RoleRepeatabilityMeans ==
  ASSUME NEW groups, \A k \in DOMAIN groups : groups[k].observations \in Group
  PROVE  /\ RoleRepeatability(groups) = "passed" <=>
              /\ DOMAIN groups # {}
              /\ \A k \in DOMAIN groups : GroupRepeatability(groups[k]) = "passed"
         /\ RoleRepeatability(groups) = "failed" =>
              \E k \in DOMAIN groups : GroupRepeatability(groups[k]) = "failed"
         /\ RoleRepeatability(groups) \in {"passed", "failed", "missing"}
<1> DEFINE statuses == {GroupRepeatability(groups[k]) : k \in DOMAIN groups}
<1>1. RoleRepeatability(groups) =
        CASE "failed" \in statuses    -> "failed"
          [] statuses = {"passed"}    -> "passed"
          [] OTHER                    -> "missing"
  BY DEF RoleRepeatability
<1>2. statuses = {"passed"} <=>
        /\ DOMAIN groups # {}
        /\ \A k \in DOMAIN groups : GroupRepeatability(groups[k]) = "passed"
  OBVIOUS
<1>3. "failed" \in statuses <=> \E k \in DOMAIN groups : GroupRepeatability(groups[k]) = "failed"
  OBVIOUS
<1> HIDE DEF statuses
<1>4. "failed" \in statuses => statuses # {"passed"}
  OBVIOUS
<1> QED BY <1>1, <1>2, <1>3, <1>4

\* Of a nonempty set of runs one comes first.
LEMMA FirstOf ==
  ASSUME NEW S, S \subseteq Nat, S # {}
  PROVE  LET first == CHOOSE i \in S : \A j \in S : i <= j
         IN  first \in S /\ \A j \in S : first <= j
<1>1. \E i \in S : \A j \in S : ~(<<j, i>> \in OpToRel(<, Nat))
  BY WFMin, NatLessThanWellFounded
<1>2. PICK i \in S : \A j \in S : ~(j < i)
  BY <1>1 DEF OpToRel
<1>3. \A j \in S : i <= j
  BY <1>2
<1> QED BY <1>3

LEMMA ParityMeans ==
  ASSUME NEW left, NEW right, left.observations \in Group, right.observations \in Group
  PROVE  LET l == left.observations
             r == right.observations
         IN  /\ GroupTokenParity(left, right) = "token_ids_match" <=>
                  \A n \in 1..Runs : l[n] \in Evidence /\ l[n] = r[n]
             /\ GroupTokenParity(left, right) = "deterministic_parity_failed" =>
                  \E n \in 1..Runs : l[n] \in Evidence /\ r[n] \in Evidence /\ l[n] # r[n]
<1> DEFINE l == left.observations
           r == right.observations
           BothReady(i) == Ready(l[i]) /\ Ready(r[i])
           bad == {i \in DOMAIN l : ~BothReady(i) \/ l[i] # r[i]}
           first == CHOOSE i \in bad : \A j \in bad : i <= j
<1>1. /\ DOMAIN l = 1..Runs /\ Len(l) = Runs /\ Len(r) = Runs /\ Runs \in Nat
      /\ \A n \in 1..Runs : l[n] \in Evidence \cup {<<>>} /\ r[n] \in Evidence \cup {<<>>}
  BY GroupIsSequence DEF Group
<1>2. GroupTokenParity(left, right) =
        CASE Len(l) # Len(r)                                     -> "observation_count_mismatch"
          [] Len(l) = Len(r) /\ bad = {}                         -> "token_ids_match"
          [] Len(l) = Len(r) /\ bad # {} /\ BothReady(first)     -> "deterministic_parity_failed"
          [] Len(l) = Len(r) /\ bad # {} /\ ~BothReady(first)    -> "token_parity_unavailable"
  BY DEF GroupTokenParity
<1>3. bad = {} <=> \A n \in 1..Runs : l[n] \in Evidence /\ l[n] = r[n]
  BY <1>1, EvidenceReady
<1>4. bad # {} => first \in bad
  <2>1. bad \subseteq Nat
    BY <1>1
  <2> HIDE DEF bad
  <2> QED BY <2>1, FirstOf
<1>5. bad # {} /\ BothReady(first) =>
        \E n \in 1..Runs : l[n] \in Evidence /\ r[n] \in Evidence /\ l[n] # r[n]
  BY <1>1, <1>4, EvidenceReady
<1>6. /\ bad = {} => GroupTokenParity(left, right) = "token_ids_match"
      /\ bad # {} /\ BothReady(first) =>
           GroupTokenParity(left, right) = "deterministic_parity_failed"
      /\ bad # {} /\ ~BothReady(first) =>
           GroupTokenParity(left, right) = "token_parity_unavailable"
  <2> HIDE DEF bad, first, BothReady, l, r
  <2> QED BY <1>1, <1>2
<1>7. /\ GroupTokenParity(left, right) = "token_ids_match" <=> bad = {}
      /\ GroupTokenParity(left, right) = "deterministic_parity_failed" =>
           bad # {} /\ BothReady(first)
  <2> HIDE DEF bad, first, BothReady, l, r
  <2> QED BY <1>6
<1> QED BY <1>3, <1>5, <1>7

LEMMA GateReasonMeans ==
  ASSUME NEW left, NEW right
  PROVE  LET common == DOMAIN left \cap DOMAIN right
         IN  /\ PairGateReason(left, right) = "token_ids_match" <=>
                  /\ common # {}
                  /\ \A k \in common : GroupTokenParity(left[k], right[k]) = "token_ids_match"
             /\ PairGateReason(left, right) = "deterministic_parity_failed" =>
                  \E k \in common :
                    GroupTokenParity(left[k], right[k]) = "deterministic_parity_failed"
<1> DEFINE common == DOMAIN left \cap DOMAIN right
           reasons == {GroupTokenParity(left[k], right[k]) : k \in common}
<1>1. PairGateReason(left, right) =
        CASE reasons = {}                                  -> "no_comparable_groups"
          [] reasons = {"token_ids_match"}                 -> "token_ids_match"
          [] "deterministic_parity_failed" \in reasons     -> "deterministic_parity_failed"
          [] OTHER                                         -> "token_parity_unavailable"
  BY DEF PairGateReason
<1>2. reasons = {"token_ids_match"} <=>
        /\ common # {}
        /\ \A k \in common : GroupTokenParity(left[k], right[k]) = "token_ids_match"
  OBVIOUS
<1>3. "deterministic_parity_failed" \in reasons <=>
        \E k \in common : GroupTokenParity(left[k], right[k]) = "deterministic_parity_failed"
  OBVIOUS
<1>4. /\ reasons = {"token_ids_match"} =>
           reasons # {} /\ "deterministic_parity_failed" \notin reasons
      /\ "deterministic_parity_failed" \in reasons => reasons # {}
  OBVIOUS
<1>5. /\ PairGateReason(left, right) = "token_ids_match" <=> reasons = {"token_ids_match"}
      /\ PairGateReason(left, right) = "deterministic_parity_failed" =>
           "deterministic_parity_failed" \in reasons
  <2> HIDE DEF reasons
  <2> QED BY <1>1, <1>4
<1> QED BY <1>2, <1>3, <1>5

-----------------------------------------------------------------------------
(* Argument lists.                                                         *)

LEMMA ArgvIs ==
  ASSUME NEW r \in Roles, NEW s \in Server
  PROVE  LET argv == Argv(r, s)
         IN  /\ DOMAIN argv = 1..(3 + (IF s.eager THEN 1 ELSE 0) + (IF s.mtp THEN 1 ELSE 0))
             /\ argv[1] = <<"serve", 1>> /\ argv[2] = <<"--port", r>>
             /\ argv[3] = <<"--max-model-len", s.context>>
             /\ s.eager => argv[4] = <<"--enforce-eager", 1>>
             /\ s.mtp => argv[IF s.eager THEN 5 ELSE 4] = <<"--speculative-config", 1>>
<1> DEFINE serve   == <<"serve", 1>>
           port    == <<"--port", r>>
           context == <<"--max-model-len", s.context>>
           eager   == <<"--enforce-eager", 1>>
           spec    == <<"--speculative-config", 1>>
           T       == {serve, port, context, eager, spec}
           a       == <<serve, port, context>>
           e       == IF s.eager THEN <<eager>> ELSE <<>>
           m       == IF s.mtp THEN <<spec>> ELSE <<>>
<1>1. Argv(r, s) = (a \o e) \o m
  BY DEF Argv
<1> HIDE DEF serve, port, context, eager, spec
<1>2. /\ a \in Seq(T) /\ Len(a) = 3 /\ a[1] = serve /\ a[2] = port /\ a[3] = context
  OBVIOUS
<1>3. /\ e \in Seq(T) /\ Len(e) = IF s.eager THEN 1 ELSE 0
      /\ s.eager => e[1] = eager
  <2>1. CASE s.eager
    <3>1. e = <<eager>> /\ eager \in T
      BY <2>1
    <3> HIDE DEF T, e
    <3> QED BY <2>1, <3>1
  <2>2. CASE ~s.eager
    BY <2>2
  <2> QED BY <2>1, <2>2
<1>4. /\ m \in Seq(T) /\ Len(m) = IF s.mtp THEN 1 ELSE 0
      /\ s.mtp => m[1] = spec
  <2>1. CASE s.mtp
    <3>1. m = <<spec>> /\ spec \in T
      BY <2>1
    <3> HIDE DEF T, m
    <3> QED BY <2>1, <3>1
  <2>2. CASE ~s.mtp
    BY <2>2
  <2> QED BY <2>1, <2>2
<1> HIDE DEF T, a, e, m
<1>5. /\ a \o e \in Seq(T) /\ Len(a \o e) = 3 + (IF s.eager THEN 1 ELSE 0)
      /\ (a \o e)[1] = serve /\ (a \o e)[2] = port /\ (a \o e)[3] = context
      /\ s.eager => (a \o e)[4] = eager
  <2>1. /\ a \o e \in Seq(T) /\ Len(a \o e) = Len(a) + Len(e)
        /\ \A i \in 1..Len(a) + Len(e) :
             (a \o e)[i] = IF i <= Len(a) THEN a[i] ELSE e[i - Len(a)]
    BY <1>2, <1>3, ConcatProperties
  <2> QED BY <1>2, <1>3, <2>1
<1> DEFINE b == a \o e
<1> HIDE DEF b
<1>6. /\ b \in Seq(T) /\ Len(b) = 3 + (IF s.eager THEN 1 ELSE 0)
      /\ b[1] = serve /\ b[2] = port /\ b[3] = context
      /\ s.eager => b[4] = eager
  BY <1>5 DEF b
<1>7. /\ b \o m \in Seq(T) /\ Len(b \o m) = Len(b) + Len(m)
      /\ \A i \in 1..Len(b) + Len(m) :
           (b \o m)[i] = IF i <= Len(b) THEN b[i] ELSE m[i - Len(b)]
  BY <1>4, <1>6, ConcatProperties
<1>8. DOMAIN (b \o m) = 1..(3 + (IF s.eager THEN 1 ELSE 0) + (IF s.mtp THEN 1 ELSE 0))
  BY <1>4, <1>6, <1>7
<1>9. /\ (b \o m)[1] = serve /\ (b \o m)[2] = port /\ (b \o m)[3] = context
      /\ s.eager => (b \o m)[4] = eager
  BY <1>4, <1>6, <1>7
<1>10. s.mtp => (b \o m)[IF s.eager THEN 5 ELSE 4] = spec
  BY <1>4, <1>6, <1>7
<1> QED BY <1>1, <1>8, <1>9, <1>10 DEF b, serve, port, context, eager, spec

LEMMA ArgvOptions ==
  ASSUME NEW r \in Roles, NEW s \in Server
  PROVE  /\ HasOption(Argv(r, s), "--enforce-eager") = s.eager
         /\ HasOption(Argv(r, s), "--speculative-config") = s.mtp
<1>1. s.eager \in BOOLEAN /\ s.mtp \in BOOLEAN
  BY DEF Server
<1>2. HasOption(Argv(r, s), "--enforce-eager") <=> s.eager
  BY <1>1, ArgvIs DEF HasOption
<1>3. HasOption(Argv(r, s), "--speculative-config") <=> s.mtp
  BY <1>1, ArgvIs DEF HasOption
<1>4. /\ HasOption(Argv(r, s), "--enforce-eager") \in BOOLEAN
      /\ HasOption(Argv(r, s), "--speculative-config") \in BOOLEAN
  BY DEF HasOption
<1> QED BY <1>1, <1>2, <1>3, <1>4

\* The options that are kept, when they are two or three.
LEMMA CanonicalTwo ==
  ASSUME NEW argv, NEW allowed, NEW a \in Nat, NEW b \in Nat, a < b,
         Kept(argv, allowed) = {a, b}
  PROVE  Canonicalize(argv, allowed) = <<argv[a], argv[b]>>
<1> DEFINE kept == {a, b}
           upTo(i) == {j \in kept : j <= i}
           Nth(n) == CHOOSE i \in kept : Cardinality(upTo(i)) = n
<1>1. upTo(a) = {a} /\ upTo(b) = {a} \cup {b} /\ kept = {a} \cup {b} /\ b \notin {a}
  OBVIOUS
<1>2. Cardinality({a}) = 1 /\ IsFiniteSet({a})
  BY FS_Singleton
<1>c. Cardinality({a} \cup {b}) = 2
  BY <1>1, <1>2, FS_AddElement
<1>3. Cardinality(kept) = 2 /\ Nth(1) = a /\ Nth(2) = b
  BY <1>1, <1>2, <1>c
<1>4. Canonicalize(argv, allowed) = [n \in 1..Cardinality(kept) |-> argv[Nth(n)]]
  BY DEF Canonicalize
<1> HIDE DEF kept, Nth
<1> QED BY <1>3, <1>4

LEMMA CanonicalThree ==
  ASSUME NEW argv, NEW allowed, NEW a \in Nat, NEW b \in Nat, NEW c \in Nat, a < b, b < c,
         Kept(argv, allowed) = {a, b, c}
  PROVE  Canonicalize(argv, allowed) = <<argv[a], argv[b], argv[c]>>
<1> DEFINE kept == {a, b, c}
           upTo(i) == {j \in kept : j <= i}
           Nth(n) == CHOOSE i \in kept : Cardinality(upTo(i)) = n
<1>1. /\ upTo(a) = {a} /\ upTo(b) = {a} \cup {b} /\ upTo(c) = ({a} \cup {b}) \cup {c}
      /\ kept = ({a} \cup {b}) \cup {c} /\ b \notin {a} /\ c \notin {a} \cup {b}
  OBVIOUS
<1>2. Cardinality({a}) = 1 /\ IsFiniteSet({a})
  BY FS_Singleton
<1>3. Cardinality({a} \cup {b}) = 2 /\ IsFiniteSet({a} \cup {b})
  BY <1>1, <1>2, FS_AddElement
<1>4. Cardinality(({a} \cup {b}) \cup {c}) = 3
  BY <1>1, <1>3, FS_AddElement
<1>5. Cardinality(kept) = 3 /\ Nth(1) = a /\ Nth(2) = b /\ Nth(3) = c
  BY <1>1, <1>2, <1>3, <1>4
<1>6. Canonicalize(argv, allowed) = [n \in 1..Cardinality(kept) |-> argv[Nth(n)]]
  BY DEF Canonicalize
<1> HIDE DEF kept, Nth
<1> QED BY <1>5, <1>6

SameModeOptions  == {"--port", "--speculative-config"}
CrossModeOptions == {"--port", "--enforce-eager"}

\* What remains of the arguments of a server, for a pair that may differ in MTP and for
\* one that may differ in the execution mode.
LEMMA CanonicalArgv ==
  ASSUME NEW r \in Roles, NEW s \in Server
  PROVE  LET serve   == <<"serve", 1>>
             context == <<"--max-model-len", s.context>>
             eager   == <<"--enforce-eager", 1>>
             spec    == <<"--speculative-config", 1>>
         IN  /\ Canonicalize(Argv(r, s), SameModeOptions)
                  = IF s.eager THEN <<serve, context, eager>> ELSE <<serve, context>>
             /\ Canonicalize(Argv(r, s), CrossModeOptions)
                  = IF s.mtp THEN <<serve, context, spec>> ELSE <<serve, context>>
<1> DEFINE serve   == <<"serve", 1>>
           context == <<"--max-model-len", s.context>>
           eager   == <<"--enforce-eager", 1>>
           spec    == <<"--speculative-config", 1>>
           argv    == Argv(r, s)
<1>0. s.eager \in BOOLEAN /\ s.mtp \in BOOLEAN
  BY DEF Server
<1>1. /\ argv[1] = serve /\ argv[3] = context
      /\ s.eager => argv[4] = eager
      /\ s.mtp => argv[IF s.eager THEN 5 ELSE 4] = spec
  BY <1>0, ArgvIs
<1>2. Kept(argv, SameModeOptions) = IF s.eager THEN {1, 3, 4} ELSE {1, 3}
  BY <1>0, ArgvIs DEF Kept, SameModeOptions
<1>3. Kept(argv, CrossModeOptions) =
        IF s.mtp THEN {1, 3, IF s.eager THEN 5 ELSE 4} ELSE {1, 3}
  BY <1>0, ArgvIs DEF Kept, CrossModeOptions
<1> HIDE DEF serve, context, eager, spec, argv
<1>4. Canonicalize(argv, SameModeOptions)
        = IF s.eager THEN <<serve, context, eager>> ELSE <<serve, context>>
  <2>1. CASE s.eager
    <3>1. /\ Kept(argv, SameModeOptions) = {1, 3, 4}
          /\ 1 < 3 /\ 3 < 4 /\ 1 \in Nat /\ 3 \in Nat /\ 4 \in Nat
      BY <1>2, <2>1
    <3>2. Canonicalize(argv, SameModeOptions) = <<argv[1], argv[3], argv[4]>>
      BY <3>1, CanonicalThree, Zenon
    <3> QED BY <1>1, <2>1, <3>2
  <2>2. CASE ~s.eager
    <3>1. /\ Kept(argv, SameModeOptions) = {1, 3}
          /\ 1 < 3 /\ 1 \in Nat /\ 3 \in Nat
      BY <1>2, <2>2
    <3>2. Canonicalize(argv, SameModeOptions) = <<argv[1], argv[3]>>
      BY <3>1, CanonicalTwo, Zenon
    <3> QED BY <1>1, <2>2, <3>2
  <2> QED BY <2>1, <2>2
<1>5. Canonicalize(argv, CrossModeOptions)
        = IF s.mtp THEN <<serve, context, spec>> ELSE <<serve, context>>
  <2>1. ASSUME s.mtp, NEW n \in {4, 5}, n = (IF s.eager THEN 5 ELSE 4)
        PROVE  Canonicalize(argv, CrossModeOptions) = <<serve, context, spec>>
    <3>1. /\ Kept(argv, CrossModeOptions) = {1, 3, n}
          /\ 1 < 3 /\ 3 < n /\ 1 \in Nat /\ 3 \in Nat /\ n \in Nat
      BY <1>3, <2>1
    <3>2. Canonicalize(argv, CrossModeOptions) = <<argv[1], argv[3], argv[n]>>
      BY <3>1, CanonicalThree, Zenon
    <3> QED BY <1>1, <2>1, <3>2
  <2>2. CASE ~s.mtp
    <3>1. /\ Kept(argv, CrossModeOptions) = {1, 3}
          /\ 1 < 3 /\ 1 \in Nat /\ 3 \in Nat
      BY <1>3, <2>2
    <3>2. Canonicalize(argv, CrossModeOptions) = <<argv[1], argv[3]>>
      BY <3>1, CanonicalTwo, Zenon
    <3> QED BY <1>1, <2>2, <3>2
  <2> QED BY <2>1, <2>2
<1> QED BY <1>4, <1>5 DEF serve, context, eager, spec, argv

-----------------------------------------------------------------------------
(* What a valid experiment is, in terms of the four files.                 *)

FourFiles(files) == files \in [Roles -> RecordFile] /\ \A r \in Roles : WholeFile(files[r])

PayloadsOf(files) == [r \in Roles |-> Payload(r, files[r])]

GroupsIn(files, r) == GroupsByKey(Payload(r, files[r]))

\* The launch behind a file was for this role, as far as the file can tell.
Fits(f, r) ==
  /\ f.kind = "complete"
  /\ f.setup.profile = ExpectedProfile(r) /\ f.setup.mtp = ExpectedMtp(r)
  /\ f.setup.manifest => f.setup.server.eager = ExpectedEager(r)
                         /\ f.setup.server.mtp = ExpectedMtp(r)

LEMMA FileTypes ==
  ASSUME NEW f \in RecordFile
  PROVE  /\ f.setup \in Setup /\ f.setup.server \in Server
         /\ f.setup.manifest \in BOOLEAN /\ f.setup.mtp \in BOOLEAN
         /\ f.setup.profile \in {"eager", "graph"}
         /\ f.setup.server.eager \in BOOLEAN /\ f.setup.server.mtp \in BOOLEAN
         /\ f.groups \in Seq(Group) /\ Len(f.groups) \in Nat
         /\ DOMAIN f.groups = 1..Len(f.groups)
<1>1. f.setup \in Setup /\ f.groups \in Seq(Group)
  BY DEF RecordFile
<1>2. /\ f.setup.server \in Server /\ f.setup.manifest \in BOOLEAN /\ f.setup.mtp \in BOOLEAN
      /\ f.setup.profile \in {"eager", "graph"}
  BY <1>1 DEF Setup
<1>3. f.setup.server.eager \in BOOLEAN /\ f.setup.server.mtp \in BOOLEAN
  BY <1>2 DEF Server
<1>4. Len(f.groups) \in Nat /\ DOMAIN f.groups = 1..Len(f.groups)
  BY <1>1
<1> QED BY <1>1, <1>2, <1>3, <1>4

LEMMA RoleMeans ==
  ASSUME NEW r \in Roles, NEW f \in RecordFile
  PROVE  RoleConfigured(Payload(r, f), r) <=> Fits(f, r)
<1> DEFINE p == Payload(r, f)
           s == f.setup
<1>1. /\ p.complete = (f.kind = "complete") /\ p.profile = s.profile
      /\ p.eager = (s.profile = "eager") /\ p.mtp = s.mtp
      /\ p.argv = IF s.manifest THEN Argv(r, s.server) ELSE NoArgv
  BY DEF Payload
<1>2. /\ s.server \in Server /\ s.manifest \in BOOLEAN /\ s.profile \in {"eager", "graph"}
  BY FileTypes
<1>3. Argv(r, s.server) # NoArgv
  BY <1>2, NoArgvAssumption
<1>4. /\ HasOption(Argv(r, s.server), "--enforce-eager") = s.server.eager
      /\ HasOption(Argv(r, s.server), "--speculative-config") = s.server.mtp
  BY <1>2, ArgvOptions
<1>5. s.profile = ExpectedProfile(r) => (s.profile = "eager") = ExpectedEager(r)
  BY DEF ExpectedProfile, ExpectedEager
<1> SUFFICES RoleConfigured(p, r) <=> Fits(f, r)
  OBVIOUS
<1> HIDE DEF p, s
<1>6. RoleConfigured(p, r) <=>
        /\ p.complete /\ p.profile = ExpectedProfile(r)
        /\ p.eager = ExpectedEager(r) /\ p.mtp = ExpectedMtp(r)
        /\ p.argv # NoArgv =>
             /\ HasOption(p.argv, "--enforce-eager") = ExpectedEager(r)
             /\ HasOption(p.argv, "--speculative-config") = ExpectedMtp(r)
  BY DEF RoleConfigured
<1>7. CASE s.manifest
  <2>1. p.argv = Argv(r, s.server)
    BY <1>1, <1>7
  <2> QED BY <1>1, <1>3, <1>4, <1>5, <1>6, <1>7, <2>1 DEF Fits, s
<1>8. CASE ~s.manifest
  <2>1. p.argv = NoArgv
    BY <1>1, <1>8
  <2> QED BY <1>1, <1>5, <1>6, <1>8, <2>1 DEF Fits, s
<1> QED BY <1>7, <1>8

\* Two launches differ in what their pair is about, as far as manifests tell.
Comparable(s, t, relation) ==
  \/ ~s.manifest /\ ~t.manifest
  \/ /\ s.manifest /\ t.manifest
     /\ s.server.build = t.server.build
     /\ s.server.context = t.server.context
     /\ relation = "same_mode_mtp" => s.server.eager = t.server.eager
     /\ relation # "same_mode_mtp" => s.server.mtp = t.server.mtp

LEMMA PairMeans ==
  ASSUME NEW files, FourFiles(files), NEW pair \in Pairs
  PROVE  PairConfigured(PayloadsOf(files), pair) <=>
           Comparable(files[pair.left].setup, files[pair.right].setup, pair.relation)
<1>1. /\ pair.left \in Roles /\ pair.right \in Roles
      /\ pair.relation \in {"same_mode_mtp", "cross_mode_eager"}
  BY DEF Pairs, Roles
<1> DEFINE l == files[pair.left].setup
           r == files[pair.right].setup
           L == PayloadsOf(files)[pair.left]
           R == PayloadsOf(files)[pair.right]
           allowed == AllowedOptions(pair)
<1>2. /\ L.fields = IF l.manifest THEN {l.server.build} ELSE {}
      /\ L.argv = IF l.manifest THEN Argv(pair.left, l.server) ELSE NoArgv
      /\ R.fields = IF r.manifest THEN {r.server.build} ELSE {}
      /\ R.argv = IF r.manifest THEN Argv(pair.right, r.server) ELSE NoArgv
  BY <1>1 DEF PayloadsOf, Payload
<1>3. /\ l.server \in Server /\ l.manifest \in BOOLEAN
      /\ l.server.eager \in BOOLEAN /\ l.server.mtp \in BOOLEAN
  BY <1>1, FileTypes DEF FourFiles
<1>4. /\ r.server \in Server /\ r.manifest \in BOOLEAN
      /\ r.server.eager \in BOOLEAN /\ r.server.mtp \in BOOLEAN
  BY <1>1, FileTypes DEF FourFiles
<1>5. Argv(pair.left, l.server) # NoArgv /\ Argv(pair.right, r.server) # NoArgv
  BY <1>1, <1>3, <1>4, NoArgvAssumption
<1>6. PairConfigured(PayloadsOf(files), pair) <=>
        /\ L.fields = R.fields
        /\ L.argv # NoArgv /\ R.argv # NoArgv =>
             Canonicalize(L.argv, allowed) = Canonicalize(R.argv, allowed)
  BY DEF PairConfigured
<1>7. allowed = IF pair.relation = "same_mode_mtp" THEN SameModeOptions ELSE CrossModeOptions
  BY DEF AllowedOptions, SameModeOptions, CrossModeOptions
<1> HIDE DEF l, r, L, R, allowed
\* The two canonical argument lists are equal if and only if the servers agree.
<1>8. Canonicalize(Argv(pair.left, l.server), allowed) =
        Canonicalize(Argv(pair.right, r.server), allowed)
      <=> /\ l.server.context = r.server.context
          /\ pair.relation = "same_mode_mtp" => l.server.eager = r.server.eager
          /\ pair.relation # "same_mode_mtp" => l.server.mtp = r.server.mtp
  <2> DEFINE Short(s)       == <<<<"serve", 1>>, <<"--max-model-len", s.context>>>>
             Long(s, option) == <<<<"serve", 1>>, <<"--max-model-len", s.context>>,
                                  <<option, 1>>>>
  <2>0. \A s, t, option :
          /\ Short(s) = Short(t) <=> s.context = t.context
          /\ Long(s, option) = Long(t, option) <=> s.context = t.context
          /\ Long(s, option) # Short(t)
    OBVIOUS
  <2>1. CASE pair.relation = "same_mode_mtp"
    <3>1. Canonicalize(Argv(pair.left, l.server), allowed) =
            IF l.server.eager THEN Long(l.server, "--enforce-eager") ELSE Short(l.server)
      BY <1>1, <1>3, <1>7, <2>1, CanonicalArgv
    <3>2. Canonicalize(Argv(pair.right, r.server), allowed) =
            IF r.server.eager THEN Long(r.server, "--enforce-eager") ELSE Short(r.server)
      BY <1>1, <1>4, <1>7, <2>1, CanonicalArgv
    <3> HIDE DEF Short, Long
    <3> QED BY <1>3, <1>4, <2>0, <2>1, <3>1, <3>2
  <2>2. CASE pair.relation # "same_mode_mtp"
    <3>1. Canonicalize(Argv(pair.left, l.server), allowed) =
            IF l.server.mtp THEN Long(l.server, "--speculative-config") ELSE Short(l.server)
      BY <1>1, <1>3, <1>7, <2>2, CanonicalArgv
    <3>2. Canonicalize(Argv(pair.right, r.server), allowed) =
            IF r.server.mtp THEN Long(r.server, "--speculative-config") ELSE Short(r.server)
      BY <1>1, <1>4, <1>7, <2>2, CanonicalArgv
    <3> HIDE DEF Short, Long
    <3> QED BY <1>3, <1>4, <2>0, <2>2, <3>1, <3>2
  <2> QED BY <2>1, <2>2
<1>9. CASE l.manifest /\ r.manifest
  BY <1>2, <1>5, <1>6, <1>8, <1>9 DEF Comparable, l, r
<1>10. CASE (l.manifest /\ ~r.manifest) \/ (~l.manifest /\ r.manifest)
  BY <1>2, <1>6, <1>10 DEF Comparable, l, r
<1>11. CASE ~l.manifest /\ ~r.manifest
  BY <1>2, <1>6, <1>11 DEF Comparable, l, r
<1> QED BY <1>9, <1>10, <1>11

LEMMA RoleGroupIs ==
  ASSUME NEW files, FourFiles(files), NEW r \in Roles
  PROVE  /\ DOMAIN GroupsIn(files, r) =
              {<<i, files[r].setup.target>> : i \in DOMAIN files[r].groups}
         /\ \A i \in DOMAIN files[r].groups :
              LET k == <<i, files[r].setup.target>>
              IN  /\ k \in DOMAIN GroupsIn(files, r)
                  /\ GroupsIn(files, r)[k].body = k
                  /\ GroupsIn(files, r)[k].observations = files[r].groups[i]
                  /\ files[r].groups[i] \in Group
<1>1. files[r] \in RecordFile
  BY DEF FourFiles
<1> DEFINE f == files[r]
           t == f.setup.target
           g == GroupsByKey(Payload(r, f))
<1>2. \A i \in DOMAIN f.groups : f.groups[i] \in Group
  BY <1>1, FileTypes
<1>3. /\ DOMAIN g = {<<i, t>> : i \in DOMAIN f.groups}
      /\ \A i \in DOMAIN f.groups :
           /\ g[<<i, t>>].body = <<i, t>>
           /\ g[<<i, t>>].observations = f.groups[i]
  BY <1>1, PayloadGroups
<1>4. g = GroupsIn(files, r)
  BY DEF GroupsIn
<1> HIDE DEF g
<1> QED BY <1>2, <1>3, <1>4

LEMMA RoleGroupsAre ==
  ASSUME NEW files, FourFiles(files)
  PROVE  /\ RoleGroups(PayloadsOf(files)) = [r \in Roles |-> GroupsIn(files, r)]
         /\ \A r \in Roles :
              /\ DOMAIN GroupsIn(files, r) =
                   {<<i, files[r].setup.target>> : i \in DOMAIN files[r].groups}
              /\ \A i \in DOMAIN files[r].groups :
                   LET k == <<i, files[r].setup.target>>
                   IN  /\ k \in DOMAIN GroupsIn(files, r)
                       /\ GroupsIn(files, r)[k].body = k
                       /\ GroupsIn(files, r)[k].observations = files[r].groups[i]
                       /\ files[r].groups[i] \in Group
<1>1. RoleGroups(PayloadsOf(files)) = [r \in Roles |-> GroupsIn(files, r)]
  BY DEF RoleGroups, PayloadsOf, GroupsIn
<1> QED BY <1>1, RoleGroupIs

\* The four files are about the same requests.
SameRequests(files) ==
  /\ DOMAIN files["A"].groups # {}
  /\ \A r \in Roles : /\ DOMAIN files[r].groups = DOMAIN files["A"].groups
                      /\ files[r].setup.target = files["A"].setup.target

LEMMA MatrixMeans ==
  ASSUME NEW files, FourFiles(files)
  PROVE  GroupMatrixMatches(RoleGroups(PayloadsOf(files))) <=> SameRequests(files)
<1> DEFINE G(r) == GroupsIn(files, r)
           D(r) == DOMAIN files[r].groups
           t(r) == files[r].setup.target
<1>0. "A" \in Roles
  BY DEF Roles
<1>1. /\ \A r \in Roles : DOMAIN G(r) = {<<i, t(r)>> : i \in D(r)}
      /\ \A r \in Roles : \A i \in D(r) : G(r)[<<i, t(r)>>].body = <<i, t(r)>>
  BY RoleGroupsAre
<1>2. GroupMatrixMatches(RoleGroups(PayloadsOf(files))) <=>
        /\ DOMAIN G("A") # {}
        /\ \A r \in Roles :
             /\ DOMAIN G(r) = DOMAIN G("A")
             /\ \A k \in DOMAIN G("A") : G(r)[k].body = G("A")[k].body
  <2>1. RoleGroups(PayloadsOf(files)) = [r \in Roles |-> G(r)]
    BY RoleGroupsAre
  <2> HIDE DEF G
  <2> QED BY <1>0, <2>1 DEF GroupMatrixMatches
<1> HIDE DEF G, D, t
<1>3. ASSUME NEW r \in Roles, D("A") # {}, DOMAIN G(r) = DOMAIN G("A")
      PROVE  t(r) = t("A") /\ D(r) = D("A")
  <2>1. {<<i, t(r)>> : i \in D(r)} = {<<i, t("A")>> : i \in D("A")}
    BY <1>0, <1>1, <1>3
  <2>2. t(r) = t("A")
    <3>1. PICK i \in D("A") : TRUE
      BY <1>3
    <3>2. PICK j \in D(r) : <<j, t(r)>> = <<i, t("A")>>
      BY <2>1
    <3> QED BY <3>2
  <2>3. ASSUME NEW j \in D(r) PROVE j \in D("A")
    <3>1. PICK i \in D("A") : <<j, t(r)>> = <<i, t("A")>>
      BY <2>1
    <3> QED BY <3>1
  <2>4. ASSUME NEW j \in D("A") PROVE j \in D(r)
    <3>1. PICK i \in D(r) : <<i, t(r)>> = <<j, t("A")>>
      BY <2>1
    <3> QED BY <3>1
  <2> QED BY <2>2, <2>3, <2>4
<1>4. DOMAIN G("A") # {} <=> D("A") # {}
  BY <1>0, <1>1
<1>5. ASSUME NEW r \in Roles, D(r) = D("A"), t(r) = t("A")
      PROVE  /\ DOMAIN G(r) = DOMAIN G("A")
             /\ \A k \in DOMAIN G("A") : G(r)[k].body = G("A")[k].body
  <2>1. DOMAIN G(r) = DOMAIN G("A")
    BY <1>0, <1>1, <1>5
  <2>2. ASSUME NEW k \in DOMAIN G("A")
        PROVE  G(r)[k].body = G("A")[k].body
    <3>1. PICK i \in D("A") : k = <<i, t("A")>>
      BY <1>0, <1>1, <2>2
    <3> QED BY <1>0, <1>1, <1>5, <3>1
  <2> QED BY <2>1, <2>2
<1>6. GroupMatrixMatches(RoleGroups(PayloadsOf(files))) <=>
        /\ D("A") # {}
        /\ \A r \in Roles : D(r) = D("A") /\ t(r) = t("A")
  BY <1>2, <1>3, <1>4, <1>5
<1> QED BY <1>6 DEF SameRequests, D, t

-----------------------------------------------------------------------------
(* What the verdict means.                                                 *)

\* Each group of each file holds one answer, recorded whole, again and again.
Repeats(files) ==
  \A r \in Roles : \A i \in DOMAIN files[r].groups :
    \E o \in Evidence : Values(files[r].groups[i]) = {o}

\* Answers i of both sides of a pair are whole and the same, run by run.
AgreeOn(files, p, i) ==
  \A n \in 1..Runs : /\ files[p[1]].groups[i][n] \in Evidence
                     /\ files[p[1]].groups[i][n] = files[p[2]].groups[i][n]

LEMMA RepeatsMeans ==
  ASSUME NEW files, FourFiles(files), SameRequests(files)
  PROVE  /\ (\A r \in Roles : RoleRepeatability(GroupsIn(files, r)) = "passed") <=> Repeats(files)
         /\ \A r \in Roles :
              /\ RoleRepeatability(GroupsIn(files, r)) = "failed" =>
                   \E i \in DOMAIN files[r].groups :
                     LET seen == Values(files[r].groups[i])
                     IN  seen \subseteq Evidence /\ Cardinality(seen) > 1
              /\ RoleRepeatability(GroupsIn(files, r)) \in {"passed", "failed", "missing"}
<1>1. ASSUME NEW r \in Roles
      PROVE  /\ RoleRepeatability(GroupsIn(files, r)) = "passed" <=>
                  \A i \in DOMAIN files[r].groups :
                    \E o \in Evidence : Values(files[r].groups[i]) = {o}
             /\ RoleRepeatability(GroupsIn(files, r)) = "failed" =>
                  \E i \in DOMAIN files[r].groups :
                    LET seen == Values(files[r].groups[i])
                    IN  seen \subseteq Evidence /\ Cardinality(seen) > 1
             /\ RoleRepeatability(GroupsIn(files, r)) \in {"passed", "failed", "missing"}
  <2> DEFINE g == GroupsIn(files, r)
             D == DOMAIN files[r].groups
             k(i) == <<i, files[r].setup.target>>
  <2>1. /\ DOMAIN g = {k(i) : i \in D}
        /\ \A i \in D : g[k(i)].observations = files[r].groups[i] /\ files[r].groups[i] \in Group
    BY RoleGroupIs
  <2>2. D # {}
    BY DEF SameRequests
  <2> HIDE DEF g, D, k
  <2>3. \A key \in DOMAIN g : g[key].observations \in Group
    BY <2>1
  <2>4. /\ DOMAIN g # {}
        /\ \A i \in D : k(i) \in DOMAIN g
    BY <2>1, <2>2
  <2>5. \A i \in D :
          LET seen == Values(files[r].groups[i])
          IN  /\ GroupRepeatability(g[k(i)]) = "passed" <=> \E o \in Evidence : seen = {o}
              /\ GroupRepeatability(g[k(i)]) = "failed" =>
                   seen \subseteq Evidence /\ Cardinality(seen) > 1
    BY <2>1, RepeatabilityMeans
  <2>6. /\ RoleRepeatability(g) = "passed" <=>
             \A key \in DOMAIN g : GroupRepeatability(g[key]) = "passed"
        /\ RoleRepeatability(g) = "failed" =>
             \E key \in DOMAIN g : GroupRepeatability(g[key]) = "failed"
        /\ RoleRepeatability(g) \in {"passed", "failed", "missing"}
    BY <2>3, <2>4, RoleRepeatabilityMeans
  <2>7. RoleRepeatability(g) = "passed" <=>
          \A i \in D : \E o \in Evidence : Values(files[r].groups[i]) = {o}
    BY <2>1, <2>4, <2>5, <2>6
  <2>8. ASSUME RoleRepeatability(g) = "failed"
        PROVE  \E i \in D : LET seen == Values(files[r].groups[i])
                            IN  seen \subseteq Evidence /\ Cardinality(seen) > 1
    <3>1. PICK i \in D : GroupRepeatability(g[k(i)]) = "failed"
      BY <2>1, <2>6, <2>8
    <3> QED BY <2>5, <3>1
  <2> QED BY <2>6, <2>7, <2>8 DEF g, D
<1>2. (\A r \in Roles : RoleRepeatability(GroupsIn(files, r)) = "passed") <=> Repeats(files)
  BY <1>1 DEF Repeats
<1> QED BY <1>1, <1>2

LEMMA GateMeans ==
  ASSUME NEW files, FourFiles(files), SameRequests(files), NEW p \in SameMode
  PROVE  LET reason == PairGateReason(GroupsIn(files, p[1]), GroupsIn(files, p[2]))
             D == DOMAIN files["A"].groups
         IN  /\ reason = "token_ids_match" <=> \A i \in D : AgreeOn(files, p, i)
             /\ reason = "deterministic_parity_failed" =>
                  \E i \in D : \E n \in 1..Runs :
                    /\ files[p[1]].groups[i][n] \in Evidence
                    /\ files[p[2]].groups[i][n] \in Evidence
                    /\ files[p[1]].groups[i][n] # files[p[2]].groups[i][n]
<1>0. p[1] \in Roles /\ p[2] \in Roles
  BY DEF SameMode, Roles
<1> DEFINE g == GroupsIn(files, p[1])
           h == GroupsIn(files, p[2])
           D == DOMAIN files["A"].groups
           k(i) == <<i, files["A"].setup.target>>
           l(i) == files[p[1]].groups[i]
           r(i) == files[p[2]].groups[i]
<1>q. ASSUME NEW q \in Roles
      PROVE  /\ DOMAIN GroupsIn(files, q) = {k(i) : i \in D}
             /\ \A i \in D : /\ GroupsIn(files, q)[k(i)].observations = files[q].groups[i]
                             /\ files[q].groups[i] \in Group
  <2>1. DOMAIN files[q].groups = D /\ files[q].setup.target = files["A"].setup.target
    BY DEF SameRequests
  <2>2. /\ DOMAIN GroupsIn(files, q) =
             {<<i, files[q].setup.target>> : i \in DOMAIN files[q].groups}
        /\ \A i \in DOMAIN files[q].groups :
             /\ GroupsIn(files, q)[<<i, files[q].setup.target>>].observations =
                  files[q].groups[i]
             /\ files[q].groups[i] \in Group
    BY RoleGroupIs
  <2> QED BY <2>1, <2>2
<1>1. /\ DOMAIN g = {k(i) : i \in D}
      /\ \A i \in D : g[k(i)].observations = l(i) /\ l(i) \in Group
  BY <1>0, <1>q
<1>2. /\ DOMAIN h = {k(i) : i \in D}
      /\ \A i \in D : h[k(i)].observations = r(i) /\ r(i) \in Group
  BY <1>0, <1>q
<1>3. D # {}
  BY DEF SameRequests
<1> HIDE DEF g, h, D, k
<1>4. DOMAIN g \cap DOMAIN h # {} /\ DOMAIN g \cap DOMAIN h = {k(i) : i \in D}
  BY <1>1, <1>2, <1>3
<1> DEFINE Matches(i) == GroupTokenParity(g[k(i)], h[k(i)]) = "token_ids_match"
           Fails(i) == GroupTokenParity(g[k(i)], h[k(i)]) = "deterministic_parity_failed"
           Same(i) == \A n \in 1..Runs : l(i)[n] \in Evidence /\ l(i)[n] = r(i)[n]
           Differ(i) == \E n \in 1..Runs :
                          l(i)[n] \in Evidence /\ r(i)[n] \in Evidence /\ l(i)[n] # r(i)[n]
<1>5. \A i \in D : /\ Matches(i) <=> Same(i)
                   /\ Fails(i) => Differ(i)
  <2> TAKE i \in D
  <2>1. /\ g[k(i)].observations = l(i) /\ l(i) \in Group
        /\ h[k(i)].observations = r(i) /\ r(i) \in Group
    BY <1>1, <1>2
  <2> HIDE DEF l, r
  <2> QED BY <2>1, ParityMeans
<1>6. /\ PairGateReason(g, h) = "token_ids_match" <=> \A i \in D : Matches(i)
      /\ PairGateReason(g, h) = "deterministic_parity_failed" => \E i \in D : Fails(i)
  <2>1. /\ PairGateReason(g, h) = "token_ids_match" <=>
             \A key \in DOMAIN g \cap DOMAIN h :
               GroupTokenParity(g[key], h[key]) = "token_ids_match"
        /\ PairGateReason(g, h) = "deterministic_parity_failed" =>
             \E key \in DOMAIN g \cap DOMAIN h :
               GroupTokenParity(g[key], h[key]) = "deterministic_parity_failed"
    BY <1>4, GateReasonMeans
  <2> QED BY <1>4, <2>1
<1>a. \A i : Same(i) <=> AgreeOn(files, p, i)
  BY DEF AgreeOn
<1> HIDE DEF Same, Differ, Matches, Fails
<1>b. \A i \in D : Matches(i) <=> AgreeOn(files, p, i)
  BY <1>5, <1>a
<1>c. (\E i \in D : Fails(i)) => \E i \in D : Differ(i)
  BY <1>5
<1>7. PairGateReason(g, h) = "token_ids_match" <=> \A i \in D : AgreeOn(files, p, i)
  BY <1>6, <1>b
<1>8. PairGateReason(g, h) = "deterministic_parity_failed" => \E i \in D : Differ(i)
  BY <1>6, <1>c
<1> QED BY <1>7, <1>8 DEF g, h, D, Differ

\* A valid experiment.
Valid(files) ==
  /\ \A r \in Roles : Fits(files[r], r)
  /\ SameRequests(files)
  /\ \A pair \in Pairs :
       Comparable(files[pair.left].setup, files[pair.right].setup, pair.relation)

LEMMA ValidMeans ==
  ASSUME NEW files, FourFiles(files)
  PROVE  ValidExperiment(PayloadsOf(files)) <=> Valid(files)
<1>1. ASSUME NEW r \in Roles
      PROVE  RoleConfigured(PayloadsOf(files)[r], r) <=> Fits(files[r], r)
  <2>1. files[r] \in RecordFile /\ PayloadsOf(files)[r] = Payload(r, files[r])
    BY DEF FourFiles, PayloadsOf
  <2> QED BY <2>1, RoleMeans
<1>2. GroupMatrixMatches(RoleGroups(PayloadsOf(files))) <=> SameRequests(files)
  BY MatrixMeans
<1>3. \A pair \in Pairs :
        PairConfigured(PayloadsOf(files), pair) <=>
          Comparable(files[pair.left].setup, files[pair.right].setup, pair.relation)
  BY PairMeans
<1> QED BY <1>1, <1>2, <1>3 DEF ValidExperiment, Valid

\* What the two gates and the four roles say.
LEMMA ReasonsAre ==
  ASSUME NEW files, FourFiles(files)
  PROVE  /\ GateReasons(PayloadsOf(files)) =
              {PairGateReason(GroupsIn(files, p[1]), GroupsIn(files, p[2])) : p \in SameMode}
         /\ Repeatabilities(PayloadsOf(files)) =
              {RoleRepeatability(GroupsIn(files, r)) : r \in Roles}
<1> DEFINE G == RoleGroups(PayloadsOf(files))
<1>1. /\ G = [r \in Roles |-> GroupsIn(files, r)]
      /\ \A r \in Roles : G[r] = GroupsIn(files, r)
  BY RoleGroupsAre
<1>2. Repeatabilities(PayloadsOf(files)) = {RoleRepeatability(G[r]) : r \in Roles}
  BY DEF Repeatabilities
<1>3. GateReasons(PayloadsOf(files)) =
        {PairGateReason(G[q.left], G[q.right]) : q \in {q \in Pairs : GateRequired(q)}}
  BY DEF GateReasons
<1> HIDE DEF G
<1> DEFINE eager == [left |-> "A", right |-> "B", relation |-> "same_mode_mtp"]
           graph == [left |-> "C", right |-> "D", relation |-> "same_mode_mtp"]
<1>4. {q \in Pairs : GateRequired(q)} = {eager, graph}
  BY DEF Pairs, GateRequired
<1>a. eager.left = "A" /\ eager.right = "B" /\ graph.left = "C" /\ graph.right = "D"
  OBVIOUS
<1> HIDE DEF eager, graph
<1>5. GateReasons(PayloadsOf(files)) =
        {PairGateReason(G["A"], G["B"]), PairGateReason(G["C"], G["D"])}
  BY <1>3, <1>4, <1>a
<1>6. /\ G["A"] = GroupsIn(files, "A") /\ G["B"] = GroupsIn(files, "B")
      /\ G["C"] = GroupsIn(files, "C") /\ G["D"] = GroupsIn(files, "D")
  BY <1>1 DEF Roles
<1>7. {PairGateReason(GroupsIn(files, p[1]), GroupsIn(files, p[2])) : p \in SameMode} =
        {PairGateReason(GroupsIn(files, "A"), GroupsIn(files, "B")),
         PairGateReason(GroupsIn(files, "C"), GroupsIn(files, "D"))}
  BY DEF SameMode
<1> QED BY <1>1, <1>2, <1>5, <1>6, <1>7

\* Two recorded answers to one request, of one role or of the two of a mode, differ.
TwoAnswers(files) ==
  \/ \E r \in Roles : \E i \in DOMAIN files[r].groups :
       LET seen == Values(files[r].groups[i])
       IN  seen \subseteq Evidence /\ Cardinality(seen) > 1
  \/ \E p \in SameMode : \E i \in DOMAIN files["A"].groups : \E n \in 1..Runs :
       /\ files[p[1]].groups[i][n] \in Evidence
       /\ files[p[2]].groups[i][n] \in Evidence
       /\ files[p[1]].groups[i][n] # files[p[2]].groups[i][n]

LEMMA StatusMeans ==
  ASSUME NEW files, FourFiles(files)
  PROVE  LET status == ExperimentStatus(PayloadsOf(files))
         IN  /\ status = "passed" <=>
                  /\ Valid(files)
                  /\ Repeats(files)
                  /\ \A p \in SameMode : \A i \in DOMAIN files["A"].groups :
                       AgreeOn(files, p, i)
             /\ status = "failed" => Valid(files) /\ TwoAnswers(files)
             /\ status \notin {"none", "refused"}
<1> DEFINE payloads == PayloadsOf(files)
           status == ExperimentStatus(payloads)
           Rep(r) == RoleRepeatability(GroupsIn(files, r))
           Gate(p) == PairGateReason(GroupsIn(files, p[1]), GroupsIn(files, p[2]))
           Agree(p) == \A i \in DOMAIN files["A"].groups : AgreeOn(files, p, i)
<1>1. ValidExperiment(payloads) <=> Valid(files)
  BY ValidMeans
<1>2. /\ GateReasons(payloads) = {Gate(p) : p \in SameMode}
      /\ Repeatabilities(payloads) = {Rep(r) : r \in Roles}
  BY ReasonsAre
<1>3. status = IF ~ValidExperiment(payloads) THEN "invalid_experiment"
               ELSE IF \/ "failed" \in Repeatabilities(payloads)
                       \/ "deterministic_parity_failed" \in GateReasons(payloads)
                      THEN "failed"
               ELSE IF \/ "missing" \in Repeatabilities(payloads)
                       \/ GateReasons(payloads) # {"token_ids_match"}
                      THEN "insufficient_evidence"
               ELSE "passed"
  BY DEF ExperimentStatus
<1>4. CASE ~Valid(files)
  BY <1>1, <1>3, <1>4
<1>5. CASE Valid(files)
  <2>1. SameRequests(files)
    BY <1>5 DEF Valid
  <2>2. /\ (\A r \in Roles : Rep(r) = "passed") <=> Repeats(files)
        /\ \A r \in Roles : Rep(r) \in {"passed", "failed", "missing"}
    BY <2>1, RepeatsMeans
  <2>3. \A p \in SameMode : Gate(p) = "token_ids_match" <=> Agree(p)
    BY <2>1, GateMeans
  <2>4. ASSUME status = "failed" PROVE TwoAnswers(files)
    <3>1. \/ \E r \in Roles : Rep(r) = "failed"
          \/ \E p \in SameMode : Gate(p) = "deterministic_parity_failed"
      <4> HIDE DEF Rep, Gate, payloads
      <4> QED BY <1>1, <1>2, <1>3, <1>5, <2>4
    <3>2. ASSUME NEW r \in Roles, Rep(r) = "failed" PROVE TwoAnswers(files)
      <4>1. \E i \in DOMAIN files[r].groups :
              LET seen == Values(files[r].groups[i])
              IN  seen \subseteq Evidence /\ Cardinality(seen) > 1
        BY <2>1, <3>2, RepeatsMeans
      <4> QED BY <4>1 DEF TwoAnswers
    <3>3. ASSUME NEW p \in SameMode, Gate(p) = "deterministic_parity_failed"
          PROVE  TwoAnswers(files)
      <4>1. \E i \in DOMAIN files["A"].groups : \E n \in 1..Runs :
              /\ files[p[1]].groups[i][n] \in Evidence
              /\ files[p[2]].groups[i][n] \in Evidence
              /\ files[p[1]].groups[i][n] # files[p[2]].groups[i][n]
        BY <2>1, <3>3, GateMeans
      <4> QED BY <4>1 DEF TwoAnswers
    <3> QED BY <3>1, <3>2, <3>3
  <2> HIDE DEF Rep, Gate, Agree, payloads
  <2>5. {Gate(p) : p \in SameMode} = {"token_ids_match"} <=>
          \A p \in SameMode : Gate(p) = "token_ids_match"
    BY DEF SameMode
  <2>6. status = "passed" <=>
          /\ \A r \in Roles : Rep(r) = "passed"
          /\ \A p \in SameMode : Gate(p) = "token_ids_match"
    <3>1. CASE {Gate(p) : p \in SameMode} = {"token_ids_match"}
      <4>1. "deterministic_parity_failed" \notin GateReasons(payloads)
        BY <1>2, <3>1
      <4>2. "failed" \in Repeatabilities(payloads) <=> \E r \in Roles : Rep(r) = "failed"
        BY <1>2
      <4>3. "missing" \in Repeatabilities(payloads) <=> \E r \in Roles : Rep(r) = "missing"
        BY <1>2
      <4> QED BY <1>1, <1>2, <1>3, <1>5, <2>2, <2>5, <3>1, <4>1, <4>2, <4>3
    <3>2. CASE {Gate(p) : p \in SameMode} # {"token_ids_match"}
      BY <1>1, <1>2, <1>3, <1>5, <2>5, <3>2
    <3> QED BY <3>1, <3>2
  <2>7. status = "passed" <=> Repeats(files) /\ \A p \in SameMode : Agree(p)
    BY <2>2, <2>3, <2>6
  <2>8. status \notin {"none", "refused"}
    BY <1>3
  <2> QED BY <1>5, <2>4, <2>7, <2>8 DEF Agree, payloads
<1> QED BY <1>4, <1>5

-----------------------------------------------------------------------------
(* The files that are read.                                                *)

\* What a file may be when nobody looks: absent, torn, or the record of a launch.
AnyFile == {[kind |-> "absent"], [kind |-> "torn"]} \cup {f \in RecordFile : WholeFile(f)}

BenchState == [file : AnyFile, running : BOOLEAN, setup : Setup, groups : Seq(Group)]

FilesRead == [r \in Roles |-> Copy(r)]

\* Every file is one that a launch of bench-single leaves behind, what was read of
\* it is a whole record, and a verdict is the function of the four that were read.
FilesInv ==
  /\ manifests \in BOOLEAN
  /\ bench \in [Roles -> BenchState]
  /\ copies \in Seq(RecordFile) /\ Len(copies) <= 4
  /\ \A i \in DOMAIN copies : WholeFile(copies[i])
  /\ verdict \notin {"none", "refused"} =>
       Len(copies) = 4 /\ verdict = ExperimentStatus(PayloadsOf(FilesRead))

LEMMA DesignedTypes ==
  ASSUME NEW role \in Roles, NEW m \in BOOLEAN
  PROVE  Designed(role, m) \in Setup /\ Mistaken(role, m) \subseteq Setup
<1> DEFINE d == Designed(role, m)
<1>1. /\ ExpectedEager(role) \in BOOLEAN /\ ExpectedMtp(role) \in BOOLEAN
      /\ ExpectedProfile(role) \in {"eager", "graph"}
  BY DEF ExpectedEager, ExpectedMtp, ExpectedProfile
<1>2. d \in Setup
  BY <1>1 DEF Designed, Setup, Server
<1>3. /\ [d EXCEPT !.server.eager = ~@] \in Setup /\ [d EXCEPT !.server.mtp = ~@] \in Setup
      /\ [d EXCEPT !.server.context = 2] \in Setup /\ [d EXCEPT !.server.build = 2] \in Setup
  BY <1>1 DEF Designed, Setup, Server
<1>4. /\ [d EXCEPT !.profile = IF @ = "eager" THEN "graph" ELSE "eager"] \in Setup
      /\ [d EXCEPT !.mtp = ~@] \in Setup /\ [d EXCEPT !.target = 2] \in Setup
  BY <1>1 DEF Designed, Setup, Server
<1> QED BY <1>2, <1>3, <1>4 DEF Mistaken

LEMMA SuccessorIsBench ==
  ASSUME NEW role \in Roles, NEW b \in BenchState, NEW c \in File(role)!Successors(b)
  PROVE  c \in BenchState
<1> DEFINE setups == UNION {{Designed(role, m)} \cup Mistaken(role, m) : m \in BOOLEAN}
           answers(s) == [1..Runs -> {Answer(s.server), Divergent, <<>>}]
<1>1. /\ b.file \in AnyFile /\ b.running \in BOOLEAN /\ b.setup \in Setup
      /\ b.groups \in Seq(Group)
      /\ b = [file |-> b.file, running |-> b.running, setup |-> b.setup, groups |-> b.groups]
  BY DEF BenchState
<1>2. setups \subseteq Setup
  BY DesignedTypes
<1>3. \A s : answers(s) \subseteq Group
  BY DEF Group, Answer, Divergent, Evidence
<1>4. /\ File(role)!Torn \in AnyFile
      /\ \A failed \in BOOLEAN : File(role)!Whole(b, "partial", failed) \in AnyFile
      /\ Len(b.groups) = NumGroups => File(role)!Whole(b, "complete", FALSE) \in AnyFile
  BY <1>1 DEF File!Torn, File!Whole, AnyFile, RecordFile, WholeFile
<1>5. \/ /\ b.running
         /\ \/ c = File(role)!Opened(b)
            \/ c = File(role)!Flushed(b, TRUE)
            \/ c = File(role)!Flushed(b, FALSE)
            \/ c = File(role)!Stopped(b)
            \/ Len(b.groups) = NumGroups /\ c = File(role)!Completed(b)
            \/ \E g \in answers(b.setup) : c = File(role)!Measured(b, g)
      \/ \E s \in setups : c = File(role)!Launched(b, s)
  BY <1>1 DEF File!Successors
<1> HIDE DEF setups, answers
<1>6. CASE c = File(role)!Opened(b)
  BY <1>1, <1>4, <1>6 DEF File!Opened, BenchState
<1>7. CASE c = File(role)!Flushed(b, TRUE) \/ c = File(role)!Flushed(b, FALSE)
  BY <1>1, <1>4, <1>7 DEF File!Flushed, BenchState
<1>8. CASE c = File(role)!Stopped(b)
  BY <1>1, <1>8 DEF File!Stopped, BenchState
<1>9. CASE Len(b.groups) = NumGroups /\ c = File(role)!Completed(b)
  BY <1>1, <1>4, <1>9 DEF File!Completed, BenchState
<1>10. ASSUME NEW g \in answers(b.setup), c = File(role)!Measured(b, g)
       PROVE  c \in BenchState
  <2>1. Append(b.groups, g) \in Seq(Group)
    BY <1>1, <1>3
  <2> QED BY <1>1, <1>4, <1>10, <2>1 DEF File!Measured, BenchState
<1>11. ASSUME NEW s \in setups, c = File(role)!Launched(b, s)
       PROVE  c \in BenchState
  <2>1. <<>> \in Seq(Group)
    OBVIOUS
  <2>2. c = [file |-> b.file, running |-> TRUE, setup |-> s, groups |-> <<>>]
    BY <1>1, <1>11 DEF File!Launched
  <2>3. s \in Setup
    BY <1>2
  <2> QED BY <1>1, <2>1, <2>2, <2>3, Zenon DEF BenchState
<1> QED BY <1>5, <1>6, <1>7, <1>8, <1>9, <1>10, <1>11

LEMMA FilesInit == ExperimentInit => FilesInv
<1> SUFFICES ASSUME ExperimentInit PROVE FilesInv
  OBVIOUS
<1>1. \A r \in Roles : [file |-> File(r)!Absent, running |-> FALSE,
                        setup |-> Designed(r, FALSE), groups |-> <<>>] \in BenchState
  <2> TAKE r \in Roles
  <2>1. File(r)!Absent \in AnyFile
    BY DEF File!Absent, AnyFile
  <2>2. Designed(r, FALSE) \in Setup
    BY DesignedTypes
  <2>3. <<>> \in Seq(Group)
    OBVIOUS
  <2> QED BY <2>1, <2>2, <2>3, Zenon DEF BenchState
<1>2. bench \in [Roles -> BenchState]
  BY <1>1 DEF ExperimentInit
<1>3. copies \in Seq(RecordFile) /\ Len(copies) <= 4 /\ \A i \in DOMAIN copies : WholeFile(copies[i])
  BY DEF ExperimentInit
<1>4. manifests \in BOOLEAN /\ verdict = "none"
  BY DEF ExperimentInit
<1> QED BY <1>2, <1>3, <1>4 DEF FilesInv

LEMMA FilesStep == FilesInv /\ [ExperimentNext]_experimentVars => FilesInv'
<1> SUFFICES ASSUME FilesInv, [ExperimentNext]_experimentVars PROVE FilesInv'
  OBVIOUS
<1>0. Len(Order) = 4 /\ DOMAIN Order = 1..4 /\ \A i \in 1..4 : Order[i] \in Roles
  BY DEF Order, Roles
<1>1. ASSUME NEW role \in Roles, Measure(role)
      PROVE  FilesInv'
  <2>1. PICK c \in File(role)!Successors(bench[role]) : bench' = [bench EXCEPT ![role] = c]
    BY <1>1 DEF Measure
  <2>2. bench[role] \in BenchState
    BY DEF FilesInv
  <2>3. c \in BenchState
    BY <2>1, <2>2, SuccessorIsBench
  <2>4. bench' \in [Roles -> BenchState]
    BY <2>1, <2>3 DEF FilesInv
  <2>5. verdict' = "none" /\ UNCHANGED <<manifests, copies>>
    BY <1>1 DEF Measure
  <2> QED BY <2>4, <2>5 DEF FilesInv
<1>2. CASE Load
  <2> DEFINE file == bench[Order[Len(copies) + 1]].file
  <2>1. Len(copies) < 4 /\ Len(copies) \in Nat /\ verdict = "none"
    BY <1>0, <1>2 DEF Load, FilesInv
  <2>2. file \in AnyFile
    <3>1. Order[Len(copies) + 1] \in Roles
      BY <1>0, <2>1
    <3> QED BY <3>1 DEF FilesInv, BenchState
  <2>3. UNCHANGED <<manifests, bench>>
    BY <1>2 DEF Load
  <2>4. \/ verdict' = "refused" /\ UNCHANGED copies
        \/ file.kind \notin {"absent", "torn"} /\ copies' = Append(copies, file)
           /\ verdict' = "none"
    BY <1>2, <2>1 DEF Load
  <2> HIDE DEF file
  <2>5. CASE verdict' = "refused" /\ UNCHANGED copies
    BY <2>3, <2>5 DEF FilesInv
  <2>6. CASE file.kind \notin {"absent", "torn"} /\ copies' = Append(copies, file)
             /\ verdict' = "none"
    <3>1. file \in RecordFile /\ WholeFile(file)
      BY <2>2, <2>6 DEF AnyFile
    <3>2. /\ copies' \in Seq(RecordFile) /\ Len(copies') = Len(copies) + 1
          /\ \A i \in DOMAIN copies' : WholeFile(copies'[i])
      BY <2>6, <3>1 DEF FilesInv
    <3> QED BY <2>1, <2>3, <2>6, <3>2 DEF FilesInv, WholeFile
  <2> QED BY <2>4, <2>5, <2>6
<1>3. CASE Compare
  <2>1. /\ verdict' = ExperimentStatus(PayloadsOf(FilesRead)) /\ Len(copies) = 4
        /\ UNCHANGED <<manifests, bench, copies>>
    BY <1>0, <1>3 DEF Compare, PayloadsOf, FilesRead
  <2>2. PayloadsOf(FilesRead)' = PayloadsOf(FilesRead)
    BY <2>1 DEF PayloadsOf, FilesRead, Copy
  <2> QED BY <2>1, <2>2 DEF FilesInv
<1>4. CASE UNCHANGED experimentVars
  BY <1>4 DEF FilesInv, experimentVars, FilesRead, Copy
<1> QED BY <1>1, <1>2, <1>3, <1>4 DEF ExperimentNext

\* Whatever was launched, mistaken, interrupted and repeated, and whenever the files
\* were read, the files are records of launches and the verdict is about the four that
\* were read.
THEOREM FilesAreRecords == ExperimentSpec => []FilesInv
<1>1. ExperimentInit => FilesInv
  BY FilesInit
<1>2. FilesInv /\ [ExperimentNext]_experimentVars => FilesInv'
  BY FilesStep
<1> QED BY <1>1, <1>2, PTL DEF ExperimentSpec

-----------------------------------------------------------------------------
(* What the verdicts mean.                                                 *)

\* The positions of the files that were read.
LEMMA CopiesAre ==
  ASSUME FilesInv, Len(copies) = 4
  PROVE  FourFiles(FilesRead) /\ \A r \in Roles : FilesRead[r] = Copy(r)
<1>1. \A r \in Roles : \E i \in DOMAIN Order : Order[i] = r
  <2>1. /\ 1 \in DOMAIN Order /\ Order[1] = "A" /\ 2 \in DOMAIN Order /\ Order[2] = "B"
        /\ 3 \in DOMAIN Order /\ Order[3] = "C" /\ 4 \in DOMAIN Order /\ Order[4] = "D"
    BY DEF Order
  <2> QED BY <2>1 DEF Roles
<1>2. DOMAIN Order = 1..4 /\ DOMAIN copies = 1..4
  BY DEF Order, FilesInv
<1>3. ASSUME NEW r \in Roles PROVE Copy(r) \in RecordFile /\ WholeFile(Copy(r))
  <2> DEFINE i == CHOOSE i \in DOMAIN Order : Order[i] = r
  <2>1. i \in DOMAIN Order
    BY <1>1
  <2>2. Copy(r) = copies[i]
    BY DEF Copy
  <2> HIDE DEF i
  <2>a. copies \in Seq(RecordFile) /\ \A j \in DOMAIN copies : WholeFile(copies[j])
    BY DEF FilesInv
  <2>4. i \in 1..Len(copies) /\ i \in DOMAIN copies
    BY <1>2, <2>1
  <2>3. copies[i] \in RecordFile
    BY <2>a, <2>4, ElementOfSeq
  <2> QED BY <2>2, <2>3, <2>4, <2>a
<1>4. FilesRead = [r \in Roles |-> Copy(r)]
  BY DEF FilesRead
<1> QED BY <1>3, <1>4 DEF FourFiles

LEMMA SeenIsValues ==
  ASSUME NEW r, NEW i
  PROVE  Seen(r, i) = Values(Copy(r).groups[i])
BY DEF Seen, Values

LEMMA VerdictMeans ==
  ASSUME FilesInv, verdict \notin {"none", "refused"}
  PROVE  /\ FourFiles(FilesRead)
         /\ \A r \in Roles : FilesRead[r] = Copy(r)
         /\ verdict = "passed" <=>
              /\ Valid(FilesRead)
              /\ Repeats(FilesRead)
              /\ \A p \in SameMode : \A i \in DOMAIN FilesRead["A"].groups :
                   AgreeOn(FilesRead, p, i)
         /\ verdict = "failed" => Valid(FilesRead) /\ TwoAnswers(FilesRead)
<1>1. Len(copies) = 4 /\ verdict = ExperimentStatus(PayloadsOf(FilesRead))
  BY DEF FilesInv
<1>2. FourFiles(FilesRead) /\ \A r \in Roles : FilesRead[r] = Copy(r)
  BY <1>1, CopiesAre
<1> QED BY <1>1, <1>2, StatusMeans

LEMMA GroupsAreAll ==
  ASSUME NEW f \in RecordFile, WholeFile(f), f.kind = "complete"
  PROVE  DOMAIN f.groups = 1..NumGroups /\ \A i \in 1..NumGroups : f.groups[i] \in Group
<1>1. Len(f.groups) = NumGroups
  BY DEF WholeFile
<1> QED BY <1>1, FileTypes

LEMMA PassedIsEarned == FilesInv => AdoptIsEarned
<1> SUFFICES ASSUME FilesInv, verdict = "passed"
             PROVE  /\ \A r \in Roles : Copy(r).kind = "complete"
                    /\ \A r \in Roles : Copy(r).setup.target = Copy("A").setup.target
                    /\ \A p \in SameMode : \A i \in 1..NumGroups :
                         \E tokens \in {<<1>>, <<2>>, <<3>>} :
                           Seen(p[1], i) \cup Seen(p[2], i) = {tokens}
                    /\ \/ \A r \in Roles : ~Copy(r).setup.manifest
                       \/ \A r \in Roles : LET server == Copy(r).setup.server
                                           IN  /\ server.eager = ExpectedEager(r)
                                               /\ server.mtp = ExpectedMtp(r)
                                               /\ server.context = Copy("A").setup.server.context
                                               /\ server.build = Copy("A").setup.server.build
  BY DEF AdoptIsEarned
<1>0. "A" \in Roles /\ "B" \in Roles /\ "C" \in Roles /\ "D" \in Roles
  BY DEF Roles
<1>1. /\ FourFiles(FilesRead)
      /\ \A r \in Roles : FilesRead[r] = Copy(r)
      /\ Valid(FilesRead) /\ Repeats(FilesRead)
      /\ \A p \in SameMode : \A i \in DOMAIN FilesRead["A"].groups : AgreeOn(FilesRead, p, i)
  BY VerdictMeans
<1>2. \A r \in Roles : Fits(Copy(r), r) /\ Copy(r) \in RecordFile /\ WholeFile(Copy(r))
  BY <1>1 DEF Valid, FourFiles
<1>3. \A r \in Roles : Copy(r).kind = "complete"
  BY <1>2 DEF Fits
<1>4. \A r \in Roles : Copy(r).setup.target = Copy("A").setup.target
  BY <1>0, <1>1 DEF Valid, SameRequests
<1>5. \A r \in Roles : /\ DOMAIN Copy(r).groups = 1..NumGroups
                       /\ \A i \in 1..NumGroups : Copy(r).groups[i] \in Group
  BY <1>2, <1>3, GroupsAreAll
<1>6. ASSUME NEW p \in SameMode, NEW i \in 1..NumGroups
      PROVE  \E tokens \in {<<1>>, <<2>>, <<3>>} : Seen(p[1], i) \cup Seen(p[2], i) = {tokens}
  <2>1. p[1] \in Roles /\ p[2] \in Roles
    BY DEF SameMode, Roles
  <2> DEFINE g == Copy(p[1]).groups[i]
             h == Copy(p[2]).groups[i]
  <2>2. FilesRead[p[1]].groups[i] = g /\ FilesRead[p[2]].groups[i] = h
    BY <1>1, <2>1
  <2>3. /\ i \in DOMAIN FilesRead[p[1]].groups /\ i \in DOMAIN FilesRead[p[2]].groups
        /\ i \in DOMAIN FilesRead["A"].groups
    BY <1>0, <1>1, <1>5, <2>1
  <2>a. \A r \in Roles : \A j \in DOMAIN FilesRead[r].groups :
          \E o \in Evidence : Values(FilesRead[r].groups[j]) = {o}
    BY <1>1 DEF Repeats
  <2>b. /\ \E o \in Evidence : Values(FilesRead[p[1]].groups[i]) = {o}
        /\ \E o \in Evidence : Values(FilesRead[p[2]].groups[i]) = {o}
    BY <2>1, <2>3, <2>a
  <2>4. PICK o \in Evidence : Values(g) = {o}
    BY <2>2, <2>b
  <2>5. PICK q \in Evidence : Values(h) = {q}
    BY <2>2, <2>b
  <2>6. g \in Group /\ h \in Group
    BY <1>5, <2>1
  <2>7. 1 \in DOMAIN g /\ 1 \in DOMAIN h /\ 1 \in 1..Runs
    BY <2>6, GroupIsSequence
  <2>8. g[1] = h[1]
    BY <1>1, <2>2, <2>3, <2>7 DEF AgreeOn
  <2>9. Seen(p[1], i) = Values(g) /\ Seen(p[2], i) = Values(h)
    BY SeenIsValues
  <2>10. g[1] \in Values(g) /\ h[1] \in Values(h)
    BY <2>7 DEF Values
  <2> HIDE DEF g, h
  <2>11. o = q
    BY <2>4, <2>5, <2>8, <2>10
  <2>12. Seen(p[1], i) \cup Seen(p[2], i) = {o}
    BY <2>4, <2>5, <2>9, <2>11
  <2> QED BY <2>12 DEF Evidence
<1>7. \/ \A r \in Roles : ~Copy(r).setup.manifest
      \/ \A r \in Roles : LET server == Copy(r).setup.server
                          IN  /\ server.eager = ExpectedEager(r)
                              /\ server.mtp = ExpectedMtp(r)
                              /\ server.context = Copy("A").setup.server.context
                              /\ server.build = Copy("A").setup.server.build
  <2> DEFINE s(r) == Copy(r).setup
             Alike(l, r) == \/ ~s(l).manifest /\ ~s(r).manifest
                            \/ /\ s(l).manifest /\ s(r).manifest
                               /\ s(l).server.build = s(r).server.build
                               /\ s(l).server.context = s(r).server.context
  <2>1. ASSUME NEW pair \in Pairs PROVE Alike(pair.left, pair.right)
    <3>1. Comparable(FilesRead[pair.left].setup, FilesRead[pair.right].setup, pair.relation)
      BY <1>1 DEF Valid
    <3>2. pair.left \in Roles /\ pair.right \in Roles
      BY DEF Pairs, Roles
    <3>3. Comparable(s(pair.left), s(pair.right), pair.relation)
      BY <1>1, <3>1, <3>2
    <3> QED BY <3>3 DEF Comparable
  <2> HIDE DEF Alike
  <2>2. Alike("A", "B") /\ Alike("C", "D") /\ Alike("A", "C") /\ Alike("B", "D")
    <3>1. \A l, r, q : [left |-> l, right |-> r, relation |-> q] \in Pairs => Alike(l, r)
      BY <2>1
    <3> QED BY <3>1 DEF Pairs
  <2>3. \A r \in Roles : s(r).manifest => /\ s(r).server.eager = ExpectedEager(r)
                                          /\ s(r).server.mtp = ExpectedMtp(r)
    BY <1>2 DEF Fits
  <2>4. CASE s("A").manifest
    <3>1. \A r \in Roles : /\ s(r).manifest
                           /\ s(r).server.context = s("A").server.context
                           /\ s(r).server.build = s("A").server.build
      BY <2>2, <2>4 DEF Alike, Roles
    <3> QED BY <2>3, <3>1
  <2>5. CASE ~s("A").manifest
    <3>1. \A r \in Roles : ~s(r).manifest
      BY <2>2, <2>5 DEF Alike, Roles
    <3> QED BY <3>1
  <2> QED BY <2>4, <2>5
<1> QED BY <1>3, <1>4, <1>6, <1>7

\* Two different members of a set make it larger than one.
LEMMA MoreThanOne ==
  ASSUME NEW S, IsFiniteSet(S), NEW x \in S, NEW y \in S, x # y
  PROVE  Cardinality(S) > 1
<1>1. Cardinality(S) \in Nat /\ Cardinality(S) # 0
  BY FS_CardinalityType, FS_EmptySet
<1>2. Cardinality(S) # 1
  <2>1. SUFFICES ASSUME Cardinality(S) = 1 PROVE FALSE
    OBVIOUS
  <2>2. \E z : S = {z}
    BY <2>1, FS_Singleton
  <2> QED BY <2>2
<1> QED BY <1>1, <1>2

LEMMA FailedIsReal == FilesInv => FailureIsReal
<1> SUFFICES ASSUME FilesInv, verdict = "failed"
             PROVE  \E p \in SameMode \cup {<<r, r>> : r \in Roles} :
                      \E i \in (DOMAIN Copy(p[1]).groups) \cap (DOMAIN Copy(p[2]).groups) :
                        Cardinality((Seen(p[1], i) \cup Seen(p[2], i)) \ {<<>>}) > 1
  BY DEF FailureIsReal
<1>1. /\ FourFiles(FilesRead)
      /\ \A r \in Roles : FilesRead[r] = Copy(r)
      /\ Valid(FilesRead) /\ TwoAnswers(FilesRead)
  BY VerdictMeans
<1>2. ASSUME NEW r \in Roles, NEW i \in DOMAIN FilesRead[r].groups,
             Values(FilesRead[r].groups[i]) \subseteq Evidence,
             Cardinality(Values(FilesRead[r].groups[i])) > 1
      PROVE  \E p \in SameMode \cup {<<q, q>> : q \in Roles} :
               \E j \in (DOMAIN Copy(p[1]).groups) \cap (DOMAIN Copy(p[2]).groups) :
                 Cardinality((Seen(p[1], j) \cup Seen(p[2], j)) \ {<<>>}) > 1
  <2> DEFINE p == <<r, r>>
  <2>1. Seen(r, i) = Values(FilesRead[r].groups[i])
    BY <1>1, SeenIsValues
  <2>2. (Seen(r, i) \cup Seen(r, i)) \ {<<>>} = Values(FilesRead[r].groups[i])
    BY <1>2, <2>1, EvidenceReady
  <2>3. p[1] = r /\ p[2] = r /\ p \in SameMode \cup {<<q, q>> : q \in Roles}
    OBVIOUS
  <2>4. i \in DOMAIN Copy(r).groups
    BY <1>1, <1>2
  <2> HIDE DEF p
  <2> QED BY <1>2, <2>2, <2>3, <2>4
<1>3. ASSUME NEW p \in SameMode, NEW i \in DOMAIN FilesRead["A"].groups, NEW n \in 1..Runs,
             FilesRead[p[1]].groups[i][n] \in Evidence,
             FilesRead[p[2]].groups[i][n] \in Evidence,
             FilesRead[p[1]].groups[i][n] # FilesRead[p[2]].groups[i][n]
      PROVE  /\ i \in (DOMAIN Copy(p[1]).groups) \cap (DOMAIN Copy(p[2]).groups)
             /\ Cardinality((Seen(p[1], i) \cup Seen(p[2], i)) \ {<<>>}) > 1
  <2>1. p[1] \in Roles /\ p[2] \in Roles
    BY DEF SameMode, Roles
  <2> DEFINE g == Copy(p[1]).groups[i]
             h == Copy(p[2]).groups[i]
             S == (Seen(p[1], i) \cup Seen(p[2], i)) \ {<<>>}
  <2>2. FilesRead[p[1]].groups[i] = g /\ FilesRead[p[2]].groups[i] = h
    BY <1>1, <2>1
  <2>3. i \in DOMAIN Copy(p[1]).groups /\ i \in DOMAIN Copy(p[2]).groups
    BY <1>1, <2>1 DEF Valid, SameRequests
  <2>4. Copy(p[1]) \in RecordFile /\ Copy(p[2]) \in RecordFile
    BY <1>1, <2>1 DEF FourFiles
  <2>5. g \in Group /\ h \in Group
    BY <2>3, <2>4, FileTypes
  <2>6. n \in DOMAIN g /\ n \in DOMAIN h
    BY <2>5, GroupIsSequence
  <2>7. Seen(p[1], i) = Values(g) /\ Seen(p[2], i) = Values(h)
    BY SeenIsValues
  <2>8. g[n] \in Values(g) /\ h[n] \in Values(h)
    BY <2>6 DEF Values
  <2>9. g[n] \in Evidence /\ h[n] \in Evidence /\ g[n] # h[n]
    BY <1>3, <2>2
  <2>10. IsFiniteSet(S)
    <3>1. IsFiniteSet(Values(g)) /\ IsFiniteSet(Values(h))
      BY <2>5, ValuesFinite
    <3>2. IsFiniteSet(Values(g) \cup Values(h))
      BY <3>1, FS_Union
    <3>3. S \subseteq Values(g) \cup Values(h)
      BY <2>7
    <3> QED BY <3>2, <3>3, FS_Subset
  <2> HIDE DEF g, h
  <2>11. g[n] \in S /\ h[n] \in S
    BY <2>7, <2>8, <2>9, EvidenceReady
  <2> HIDE DEF S
  <2>12. Cardinality(S) > 1
    BY <2>9, <2>10, <2>11, MoreThanOne
  <2> QED BY <2>3, <2>12 DEF S
<1> QED BY <1>1, <1>2, <1>3 DEF TwoAnswers

LEMMA EvidencePasses == FilesInv => EvidenceIsEnough
<1> SUFFICES ASSUME FilesInv, verdict \notin {"none", "refused"},
                    \A r \in Roles : Copy(r).setup = Designed(r, manifests),
                    \A r \in Roles :
                      /\ Copy(r).kind = "complete"
                      /\ \A i \in 1..NumGroups :
                           Seen(r, i) = {Answer(Copy(r).setup.server)}
             PROVE  verdict = "passed"
  BY DEF EvidenceIsEnough
<1> DEFINE files == FilesRead
           answer(r) == IF ExpectedEager(r) THEN <<1>> ELSE <<2>>
<1>0. "A" \in Roles
  BY DEF Roles
<1>1. FourFiles(files) /\ \A r \in Roles : files[r] = Copy(r)
  BY VerdictMeans
<1> HIDE DEF files
<1>2. \A r \in Roles : /\ files[r].setup = Designed(r, manifests) /\ files[r].kind = "complete"
                       /\ files[r] \in RecordFile /\ WholeFile(files[r])
  BY <1>1 DEF FourFiles
<1>3. \A r \in Roles : /\ DOMAIN files[r].groups = 1..NumGroups
                       /\ \A i \in 1..NumGroups : files[r].groups[i] \in Group
  BY <1>2, GroupsAreAll
<1>4. ASSUME NEW r \in Roles, NEW i \in 1..NumGroups
      PROVE  Values(files[r].groups[i]) = {answer(r)}
  <2>1. Values(files[r].groups[i]) = {Answer(Designed(r, manifests).server)}
    BY <1>1, <1>2, SeenIsValues
  <2>2. Answer(Designed(r, manifests).server) = answer(r)
    BY DEF Answer, Designed
  <2> QED BY <2>1, <2>2
<1>5. \A r \in Roles : answer(r) \in Evidence
  BY DEF Evidence
<1>d. \A r : LET d == Designed(r, manifests)
             IN  /\ d.profile = ExpectedProfile(r) /\ d.mtp = ExpectedMtp(r)
                 /\ d.server.eager = ExpectedEager(r) /\ d.server.mtp = ExpectedMtp(r)
                 /\ d.target = 1
  BY DEF Designed
<1>6. ASSUME NEW r \in Roles PROVE Fits(files[r], r)
  <2>1. files[r].setup = Designed(r, manifests) /\ files[r].kind = "complete"
    BY <1>2
  <2> QED BY <1>d, <2>1 DEF Fits
<1>7. SameRequests(files)
  <2>1. 1..NumGroups # {}
    BY ExperimentAssumption
  <2>2. \A r \in Roles : files[r].setup.target = 1
    BY <1>2, <1>d
  <2> QED BY <1>0, <1>3, <2>1, <2>2 DEF SameRequests
<1>8. ASSUME NEW pair \in Pairs
      PROVE  Comparable(files[pair.left].setup, files[pair.right].setup, pair.relation)
  <2>1. pair.left \in Roles /\ pair.right \in Roles
    BY DEF Pairs, Roles
  <2>2. /\ pair.relation = "same_mode_mtp" => ExpectedEager(pair.left) = ExpectedEager(pair.right)
        /\ pair.relation # "same_mode_mtp" => ExpectedMtp(pair.left) = ExpectedMtp(pair.right)
    BY DEF Pairs, ExpectedEager, ExpectedMtp
  <2>3. /\ files[pair.left].setup = Designed(pair.left, manifests)
        /\ files[pair.right].setup = Designed(pair.right, manifests)
    BY <1>2, <2>1
  <2>4. manifests \in BOOLEAN
    BY DEF FilesInv
  <2>5. Comparable(Designed(pair.left, manifests), Designed(pair.right, manifests), pair.relation)
    BY <2>2, <2>4 DEF Comparable, Designed
  <2> QED BY <2>3, <2>5
<1>9. Repeats(files)
  BY <1>3, <1>4, <1>5 DEF Repeats
<1>10. ASSUME NEW p \in SameMode, NEW i \in DOMAIN files["A"].groups
       PROVE  AgreeOn(files, p, i)
  <2>1. /\ p[1] \in Roles /\ p[2] \in Roles /\ answer(p[1]) = answer(p[2])
    BY DEF SameMode, Roles, ExpectedEager
  <2>2. i \in 1..NumGroups
    BY <1>0, <1>3
  <2> DEFINE g == files[p[1]].groups[i]
             h == files[p[2]].groups[i]
  <2>3. Values(g) = {answer(p[1])} /\ Values(h) = {answer(p[2])}
    BY <1>4, <2>1, <2>2
  <2>4. g \in Group /\ h \in Group
    BY <1>3, <2>1, <2>2
  <2>5. answer(p[1]) \in Evidence
    BY <1>5, <2>1
  <2> HIDE DEF g, h, answer
  <2>6. ASSUME NEW n \in 1..Runs PROVE g[n] \in Evidence /\ g[n] = h[n]
    <3>1. n \in DOMAIN g /\ n \in DOMAIN h
      BY <2>4, GroupIsSequence
    <3>2. g[n] \in Values(g) /\ h[n] \in Values(h)
      BY <3>1 DEF Values
    <3> QED BY <2>1, <2>3, <2>5, <3>2
  <2> QED BY <2>6 DEF AgreeOn, g, h
<1>11. Valid(files)
  BY <1>6, <1>7, <1>8 DEF Valid
<1> QED BY <1>9, <1>10, <1>11, VerdictMeans DEF files

-----------------------------------------------------------------------------
(* The theorems.                                                           *)

\* However the launches went, MTP is recommended only on four complete files about the
\* same requests, with one whole answer per request and execution mode, from the four
\* servers of the experiment where manifests tell.
THEOREM AdoptionIsEarned == ExperimentSpec => []AdoptIsEarned
BY FilesAreRecords, PassedIsEarned, PTL

\* MTP is rejected only for two recorded answers to one request that differ within one
\* execution mode.
THEOREM FailuresAreReal == ExperimentSpec => []FailureIsReal
BY FilesAreRecords, FailedIsReal, PTL

\* Four files as they are meant, whose answers neither diverged nor went missing, pass,
\* whatever happened before they were written.
THEOREM GoodEvidencePasses == ExperimentSpec => []EvidenceIsEnough
BY FilesAreRecords, EvidencePasses, PTL
=============================================================================
