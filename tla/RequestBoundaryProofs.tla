----------------------- MODULE RequestBoundaryProofs ------------------------
(***************************************************************************)
(* Proofs about the rate limiter and the request boundary around it, for   *)
(* any keys, connections, requests, limit, window and bounds.              *)
(*                                                                         *)
(* RateInv says how the bucket relates to the history: it is the tail of   *)
(* the accepted times, what precedes the tail has expired, and times never *)
(* decrease.  WindowBound alone is not inductive, since it says nothing of *)
(* the bucket the limiter decides by.                                      *)
(*                                                                         *)
(* The boundary takes the steps of the limiter or none, so what is shown   *)
(* of the limiter holds of it.  SpenderInv ties each entry of the history  *)
(* to the kind of its key, and SpentOnce is inductive with the types.      *)
(***************************************************************************)
EXTENDS RequestBoundary, FiniteSetTheorems, SequenceTheorems, WellFoundedInduction, TLAPS

\* A nonempty set of naturals has a least element.
LEMMA LeastNatural ==
  ASSUME NEW S \in SUBSET Nat, S # {}
  PROVE  \E x \in S : \A y \in S : x <= y
<1> DEFINE R == {ss \in Nat \X Nat : ss[1] < ss[2]}
<1>1. IsWellFoundedOn(R, Nat)
  BY NatLessThanWellFounded DEF OpToRel
<1>2. PICK x \in S : \A y \in S : ~(<<y, x>> \in R)
  BY <1>1, WFMin
<1>3. ASSUME NEW y \in S
      PROVE  x <= y
  <2>1. <<y, x>> \in Nat \X Nat /\ <<y, x>>[1] = y /\ <<y, x>>[2] = x
    OBVIOUS
  <2>2. ~(y < x)
    BY <1>2, <2>1
  <2> QED BY <2>2
<1> QED BY <1>3

Sorted(s) == \A i, j \in 1..Len(s) : i <= j => s[i] <= s[j]

\* Eviction drops exactly the expired entries of a sorted bucket.
LEMMA EvictSorted ==
  ASSUME now \in Nat, NEW b \in Seq(Nat), Sorted(b)
  PROVE  \E d \in 0..Len(b) :
           /\ Evict(b) = SubSeq(b, d + 1, Len(b))
           /\ \A i \in 1..Len(b) : Expired(b[i]) <=> i <= d
<1> DEFINE fresh == {i \in 1..Len(b) : ~Expired(b[i])}
<1>1. \A i \in 1..Len(b) : b[i] \in Nat
  OBVIOUS
<1>2. CASE fresh = {}
  <2>1. Evict(b) = SubSeq(b, Len(b) + 1, Len(b))
    BY <1>2 DEF Evict
  <2>2. \A i \in 1..Len(b) : Expired(b[i]) <=> i <= Len(b)
    BY <1>2
  <2> QED BY <2>1, <2>2
<1>3. CASE fresh # {}
  <2> DEFINE first == CHOOSE i \in fresh : \A j \in fresh : i <= j
  <2>0. fresh \in SUBSET Nat
    OBVIOUS
  <2>1. \E i \in fresh : \A j \in fresh : i <= j
    <3> HIDE DEF fresh
    <3> QED BY <1>3, <2>0, LeastNatural
  <2>2. first \in fresh /\ \A j \in fresh : first <= j
    BY <2>1
  <2>3. Evict(b) = SubSeq(b, first, Len(b))
    BY <1>3 DEF Evict
  <2> HIDE DEF first
  <2>4. first - 1 \in 0..Len(b) /\ (first - 1) + 1 = first
    BY <2>2
  <2>5. ASSUME NEW i \in 1..Len(b)
        PROVE  Expired(b[i]) <=> i <= first - 1
    <3>1. CASE i < first
      <4>1. i \notin fresh
        BY <2>2, <3>1
      <4>2. Expired(b[i]) /\ i <= first - 1
        BY <2>2, <3>1, <4>1
      <4> QED BY <4>2
    <3>2. CASE i >= first
      <4>1. first \in 1..Len(b) /\ b[first] <= b[i] /\ ~Expired(b[first])
        BY <2>2, <3>2 DEF Sorted
      <4>2. b[first] \in Nat /\ b[i] \in Nat /\ Window \in Nat
        BY <1>1, <4>1, LimitAssumption
      <4>3. ~Expired(b[i]) /\ ~(i <= first - 1)
        BY <3>2, <4>1, <4>2 DEF Expired
      <4> QED BY <4>3
    <3> QED BY <2>2, <3>1, <3>2
  <2> QED BY <2>3, <2>4, <2>5
<1> QED BY <1>2, <1>3

-----------------------------------------------------------------------------
(* The inductive invariant, for one key and for all.                       *)

\* No RpmLimit + 1 acceptances lie within one window.
Spread(a) ==
  \A i \in 1..Len(a) : i + RpmLimit <= Len(a) => a[i + RpmLimit] - a[i] > Window

\* b is the tail of the accepted times a that may still count.
TailOf(b, a) ==
  /\ Len(b) <= Len(a)
  /\ \A i \in 1..Len(b) : b[i] = a[Len(a) - Len(b) + i]
  /\ \A i \in 1..Len(a) : i <= Len(a) - Len(b) => Expired(a[i])

KeyInv(b, a) ==
  /\ b \in Seq(Nat) /\ a \in Seq(Nat)
  /\ Sorted(a) /\ \A i \in 1..Len(a) : a[i] <= now
  /\ TailOf(b, a)
  /\ Spread(a)

RateInv == RateTypeOK /\ \A k \in Keys : KeyInv(bucket[k], accepted[k])

LEMMA TailSorted ==
  ASSUME NEW b, NEW a, KeyInv(b, a)
  PROVE  Sorted(b)
<1>1. /\ b \in Seq(Nat) /\ a \in Seq(Nat) /\ Len(b) \in Nat /\ Len(a) \in Nat
      /\ Len(b) <= Len(a) /\ Sorted(a)
      /\ \A i \in 1..Len(b) : b[i] = a[Len(a) - Len(b) + i]
  BY DEF KeyInv, TailOf
<1> SUFFICES ASSUME NEW i \in 1..Len(b), NEW j \in 1..Len(b), i <= j
             PROVE  b[i] <= b[j]
  BY DEF Sorted
<1> DEFINE m == Len(a) - Len(b) + i
           n == Len(a) - Len(b) + j
<1>2. m \in 1..Len(a) /\ n \in 1..Len(a) /\ m <= n
  <2>1. Len(b) \in Nat /\ Len(a) \in Nat /\ Len(b) <= Len(a) /\ i \in Int /\ j \in Int
    BY <1>1
  <2>2. 1 <= i /\ i <= Len(b) /\ 1 <= j /\ j <= Len(b)
    BY <1>1
  <2> QED BY <2>1, <2>2
<1>3. a[m] <= a[n]
  BY <1>1, <1>2 DEF Sorted
<1> QED BY <1>1, <1>3

\* Eviction keeps the invariant, and leaves nothing that has expired.
LEMMA EvictKeeps ==
  ASSUME now \in Nat, NEW b, NEW a, KeyInv(b, a)
  PROVE  /\ KeyInv(Evict(b), a)
         /\ \A i \in 1..Len(Evict(b)) : ~Expired(Evict(b)[i])
<1>1. /\ b \in Seq(Nat) /\ a \in Seq(Nat) /\ Len(b) \in Nat /\ Len(a) \in Nat
      /\ Len(b) <= Len(a)
      /\ \A i \in 1..Len(b) : b[i] = a[Len(a) - Len(b) + i]
      /\ \A i \in 1..Len(a) : i <= Len(a) - Len(b) => Expired(a[i])
  BY DEF KeyInv, TailOf
<1>2. PICK d \in 0..Len(b) :
        /\ Evict(b) = SubSeq(b, d + 1, Len(b))
        /\ \A i \in 1..Len(b) : Expired(b[i]) <=> i <= d
  BY <1>1, TailSorted, EvictSorted
<1>3. \A i \in (d + 1)..Len(b) : b[i] \in Nat
  BY <1>1
<1>4. /\ Evict(b) \in Seq(Nat) /\ Len(Evict(b)) = Len(b) - d
      /\ \A i \in 1..(Len(b) - d) : Evict(b)[i] = b[d + i]
  <2> DEFINE m == d + 1
             n == Len(b)
  <2>1. m \in Int /\ n \in Int /\ \A i \in m..n : b[i] \in Nat
    BY <1>1, <1>3
  <2> HIDE DEF m, n
  <2>2. /\ SubSeq(b, m, n) \in Seq(Nat)
        /\ Len(SubSeq(b, m, n)) = IF m <= n THEN n - m + 1 ELSE 0
        /\ \A i \in 1..(n - m + 1) : SubSeq(b, m, n)[i] = b[m + i - 1]
    BY <2>1, SubSeqProperties
  <2> USE DEF m, n
  <2>3. Len(SubSeq(b, m, n)) = Len(b) - d
    BY <1>1, <2>2
  <2>4. \A i \in 1..(Len(b) - d) : SubSeq(b, m, n)[i] = b[d + i]
    <3> SUFFICES ASSUME NEW i \in 1..(Len(b) - d) PROVE SubSeq(b, m, n)[i] = b[d + i]
      OBVIOUS
    <3>1. i \in 1..(n - m + 1) /\ m + i - 1 = d + i
      BY <1>1
    <3> QED BY <2>2, <3>1
  <2> QED BY <1>2, <2>2, <2>3, <2>4
<1>5. ASSUME NEW i \in 1..Len(Evict(b))
      PROVE  ~Expired(Evict(b)[i]) /\ Evict(b)[i] = a[Len(a) - Len(Evict(b)) + i]
  <2>1. d + i \in 1..Len(b) /\ ~(d + i <= d)
    BY <1>1, <1>4
  <2>2. Evict(b)[i] = b[d + i] /\ ~Expired(b[d + i])
    BY <1>2, <1>4, <2>1
  <2>3. b[d + i] = a[Len(a) - Len(b) + (d + i)]
    BY <1>1, <2>1
  <2>4. Len(a) - Len(b) + (d + i) = Len(a) - Len(Evict(b)) + i
    BY <1>1, <1>4
  <2> QED BY <2>2, <2>3, <2>4
<1>6. ASSUME NEW i \in 1..Len(a), i <= Len(a) - Len(Evict(b))
      PROVE  Expired(a[i])
  <2>1. CASE i <= Len(a) - Len(b)
    BY <1>1, <2>1
  <2>2. CASE i > Len(a) - Len(b)
    <3> DEFINE j == i - (Len(a) - Len(b))
    <3>1. j \in 1..Len(b) /\ j <= d /\ Len(a) - Len(b) + j = i
      BY <1>1, <1>4, <1>6, <2>2
    <3>2. Expired(b[j]) /\ b[j] = a[i]
      BY <1>1, <1>2, <3>1
    <3> QED BY <3>2
  <2> QED BY <1>1, <2>1, <2>2
<1>7. TailOf(Evict(b), a)
  BY <1>1, <1>4, <1>5, <1>6 DEF TailOf
<1> QED BY <1>4, <1>5, <1>7 DEF KeyInv

\* A request accepted at time now keeps the invariant.
LEMMA AppendKeeps ==
  ASSUME now \in Nat, NEW b, NEW a, KeyInv(b, a), RpmLimit > 0, Len(b) < RpmLimit
  PROVE  KeyInv(Append(b, now), Append(a, now))
<1> DEFINE bb == Append(b, now)
           aa == Append(a, now)
<1>1. /\ b \in Seq(Nat) /\ a \in Seq(Nat) /\ Len(b) \in Nat /\ Len(a) \in Nat
      /\ Len(b) <= Len(a) /\ Sorted(a)
      /\ \A i \in 1..Len(a) : a[i] <= now /\ a[i] \in Nat
      /\ \A i \in 1..Len(b) : b[i] = a[Len(a) - Len(b) + i]
      /\ \A i \in 1..Len(a) : i <= Len(a) - Len(b) => Expired(a[i])
      /\ Spread(a)
  BY DEF KeyInv, TailOf
<1>2. /\ aa \in Seq(Nat) /\ Len(aa) = Len(a) + 1 /\ aa[Len(a) + 1] = now
      /\ \A i \in 1..Len(a) : aa[i] = a[i]
  BY <1>1
<1>3. /\ bb \in Seq(Nat) /\ Len(bb) = Len(b) + 1 /\ bb[Len(b) + 1] = now
      /\ \A i \in 1..Len(b) : bb[i] = b[i]
  BY <1>1
<1> HIDE DEF aa, bb
<1>lens. /\ Len(a) \in Nat /\ Len(b) \in Nat /\ Len(b) <= Len(a)
        /\ Len(aa) = Len(a) + 1 /\ Len(bb) = Len(b) + 1
  BY <1>1, <1>2, <1>3
<1>4. Sorted(aa) /\ \A i \in 1..Len(aa) : aa[i] <= now
  <2>1. ASSUME NEW i \in 1..Len(aa)
        PROVE  aa[i] \in Nat /\ aa[i] <= now /\ (i \in 1..Len(a) \/ aa[i] = now)
    <3>1. i \in 1..Len(a) \/ i = Len(a) + 1
      BY <1>lens
    <3>2. CASE i \in 1..Len(a)
      <4>1. aa[i] = a[i] /\ a[i] \in Nat /\ a[i] <= now
        BY <1>1, <1>2, <3>2
      <4> QED BY <3>2, <4>1
    <3>3. CASE i = Len(a) + 1
      <4>1. aa[i] = now
        BY <1>2, <3>3
      <4> QED BY <4>1
    <3> QED BY <3>1, <3>2, <3>3
  <2>2. ASSUME NEW i \in 1..Len(aa), NEW j \in 1..Len(aa), i <= j
        PROVE  aa[i] <= aa[j]
    <3>1. CASE j \in 1..Len(a)
      <4>1. i \in 1..Len(a)
        BY <1>lens, <1>2, <2>2, <3>1
      <4>2. aa[i] = a[i] /\ aa[j] = a[j]
        BY <1>2, <3>1, <4>1
      <4>3. a[i] <= a[j]
        BY <1>1, <2>2, <3>1, <4>1 DEF Sorted
      <4> QED BY <4>2, <4>3
    <3>2. CASE aa[j] = now
      BY <2>1, <3>2
    <3> QED BY <2>1, <3>1, <3>2
  <2> QED BY <2>1, <2>2 DEF Sorted
<1>5. ASSUME NEW i \in 1..Len(bb)
      PROVE  bb[i] = aa[Len(aa) - Len(bb) + i]
  <2>1. CASE i = Len(b) + 1
    BY <1>1, <1>2, <1>3, <2>1
  <2>2. CASE i # Len(b) + 1
    <3>1. i \in 1..Len(b) /\ Len(aa) - Len(bb) + i = Len(a) - Len(b) + i
      BY <1>1, <1>2, <1>3, <2>2
    <3>2. Len(a) - Len(b) + i \in 1..Len(a)
      BY <1>1, <3>1
    <3> QED BY <1>1, <1>2, <1>3, <3>1, <3>2
  <2> QED BY <2>1, <2>2
<1>6. ASSUME NEW i \in 1..Len(aa), i <= Len(aa) - Len(bb)
      PROVE  Expired(aa[i])
  <2>1. i \in 1..Len(a) /\ i <= Len(a) - Len(b)
    <3>1. Len(aa) = Len(a) + 1 /\ Len(bb) = Len(b) + 1
      BY <1>2, <1>3
    <3>2. i \in Nat /\ 1 <= i /\ i <= Len(a) - Len(b)
      BY <1>lens, <1>6, <3>1
    <3> QED BY <1>lens, <3>2
  <2> QED BY <1>1, <1>2, <2>1
<1>7. TailOf(bb, aa)
  BY <1>1, <1>2, <1>3, <1>5, <1>6 DEF TailOf
<1>8. RpmLimit \in Nat /\ Window \in Nat
  BY LimitAssumption
<1>9. ASSUME NEW i \in 1..Len(aa), i + RpmLimit <= Len(aa)
      PROVE  aa[i + RpmLimit] - aa[i] > Window
  <2>1. i \in 1..Len(a) /\ aa[i] = a[i]
    BY <1>1, <1>2, <1>8, <1>9, SMTT(30)
  <2>2. CASE i + RpmLimit = Len(aa)
    <3>1. i <= Len(a) - Len(b)
      BY <1>1, <1>2, <1>8, <2>2
    <3>2. now - a[i] > Window
      BY <1>1, <2>1, <3>1 DEF Expired
    <3> QED BY <1>2, <2>1, <2>2, <3>2
  <2>3. CASE i + RpmLimit # Len(aa)
    <3>1. i + RpmLimit \in 1..Len(a) /\ i + RpmLimit <= Len(a)
      <4>1. i \in Nat /\ 1 <= i /\ i + RpmLimit < Len(a) + 1
        BY <1>lens, <1>8, <1>9, <2>3
      <4> QED BY <1>lens, <1>8, <4>1
    <3>2. a[i + RpmLimit] - a[i] > Window
      BY <1>1, <2>1, <3>1 DEF Spread
    <3> QED BY <1>2, <2>1, <3>1, <3>2
  <2> QED BY <2>2, <2>3
<1>10. Spread(aa)
  BY <1>9 DEF Spread
<1> QED BY <1>2, <1>3, <1>4, <1>7, <1>10 DEF KeyInv, aa, bb

-----------------------------------------------------------------------------
(* Every step preserves the invariant.                                     *)

LEMMA InitRateInv == RateInit => RateInv
<1> SUFFICES ASSUME RateInit PROVE RateInv
  OBVIOUS
<1>1. RateTypeOK
  BY DEF RateInit, RateTypeOK
<1>2. ASSUME NEW k \in Keys
      PROVE  KeyInv(bucket[k], accepted[k])
  <2>1. bucket[k] = <<>> /\ accepted[k] = <<>> /\ Len(<<>>) = 0 /\ <<>> \in Seq(Nat)
    BY DEF RateInit
  <2> QED BY <2>1 DEF KeyInv, TailOf, Sorted, Spread
<1> QED BY <1>1, <1>2 DEF RateInv

LEMMA NextRateInv == RateInv /\ [RateNext]_rateVars => RateInv'
<1> SUFFICES ASSUME RateInv, [RateNext]_rateVars PROVE RateInv'
  OBVIOUS
<1>1. /\ now \in Nat /\ bucket \in [Keys -> Seq(Nat)] /\ accepted \in [Keys -> Seq(Nat)]
      /\ \A k \in Keys : KeyInv(bucket[k], accepted[k])
  BY DEF RateInv, RateTypeOK
<1>3. ASSUME NEW k \in Keys, Allow(k)
      PROVE  RateInv'
  <2> DEFINE left == Evict(bucket[k])
  <2>1. /\ RpmLimit > 0 /\ Len(left) < RpmLimit /\ now' = now
        /\ bucket' = [bucket EXCEPT ![k] = Append(left, now)]
        /\ accepted' = [accepted EXCEPT ![k] = Append(accepted[k], now)]
    BY <1>3 DEF Allow
  <2>2. KeyInv(left, accepted[k])
    BY <1>1, EvictKeeps
  <2> HIDE DEF left
  <2>3. KeyInv(Append(left, now), Append(accepted[k], now))
    BY <1>1, <2>1, <2>2, AppendKeeps
  <2>4. /\ Append(left, now) \in Seq(Nat) /\ Append(accepted[k], now) \in Seq(Nat)
    BY <2>3 DEF KeyInv
  <2>5. RateTypeOK'
    BY <1>1, <2>1, <2>4 DEF RateTypeOK
  <2>6. ASSUME NEW j \in Keys
        PROVE  KeyInv(bucket[j], accepted[j])'
    <3>1. KeyInv(bucket'[j], accepted'[j])
      BY <1>1, <2>1, <2>3
    <3> QED BY <2>1, <3>1 DEF KeyInv, TailOf, Expired, Sorted, Spread
  <2> QED BY <2>5, <2>6 DEF RateInv
<1>4. ASSUME NEW k \in Keys, Deny(k)
      PROVE  RateInv'
  <2> DEFINE left == Evict(bucket[k])
  <2>1. now' = now /\ accepted' = accepted /\ bucket' = [bucket EXCEPT ![k] = left]
    BY <1>4 DEF Deny
  <2>2. KeyInv(left, accepted[k])
    BY <1>1, EvictKeeps
  <2> HIDE DEF left
  <2>3. left \in Seq(Nat)
    BY <2>2 DEF KeyInv
  <2>4. RateTypeOK'
    BY <1>1, <2>1, <2>3 DEF RateTypeOK
  <2>5. ASSUME NEW j \in Keys
        PROVE  KeyInv(bucket[j], accepted[j])'
    <3>1. KeyInv(bucket'[j], accepted'[j])
      BY <1>1, <2>1, <2>2
    <3> QED BY <2>1, <3>1 DEF KeyInv, TailOf, Expired, Sorted, Spread
  <2> QED BY <2>4, <2>5 DEF RateInv
<1>5. CASE Tick
  <2>1. now' = now + 1 /\ bucket' = bucket /\ accepted' = accepted
    BY <1>5 DEF Tick
  <2>2. RateTypeOK'
    BY <1>1, <2>1 DEF RateTypeOK
  <2>3. ASSUME NEW j \in Keys
        PROVE  KeyInv(bucket[j], accepted[j])'
    <3> DEFINE a == accepted[j]
               b == bucket[j]
    <3>1. /\ b \in Seq(Nat) /\ a \in Seq(Nat) /\ Sorted(a) /\ Spread(a) /\ TailOf(b, a)
          /\ \A i \in 1..Len(a) : a[i] \in Nat /\ a[i] <= now
      BY <1>1 DEF KeyInv
    <3>2. b' = b /\ a' = a
      BY <2>1
    <3>3. \A i \in 1..Len(a) : a[i] <= now'
      BY <1>1, <2>1, <3>1
    <3>4. Window \in Nat
      BY LimitAssumption
    <3>5. \A i \in 1..Len(a) : Expired(a[i]) => now' - a[i] > Window
      BY <1>1, <2>1, <3>1, <3>4 DEF Expired
    <3> HIDE DEF a, b
    <3>6. TailOf(b, a)'
      BY <3>1, <3>2, <3>5 DEF TailOf, Expired
    <3>7. Sorted(a)' /\ Spread(a)'
      BY <3>1, <3>2 DEF Sorted, Spread
    <3>8. KeyInv(b, a)'
      BY <3>1, <3>2, <3>3, <3>6, <3>7 DEF KeyInv
    <3> QED BY <3>8 DEF a, b
  <2> QED BY <2>2, <2>3 DEF RateInv
<1>6. CASE UNCHANGED rateVars
  <2>1. now' = now /\ bucket' = bucket /\ accepted' = accepted
    BY <1>6 DEF rateVars
  <2> QED BY <1>1, <2>1 DEF RateInv, RateTypeOK, KeyInv, TailOf, Expired, Sorted, Spread
<1> QED BY <1>3, <1>4, <1>5, <1>6 DEF RateNext

\* RateInv holds in every reachable state.
THEOREM RateInvariant == RateSpec => []RateInv
BY InitRateInv, NextRateInv, PTL DEF RateSpec

\* For every limit and window: no window of Window seconds, wherever it starts, ever
\* sees more than RpmLimit accepted requests of one key.
THEOREM WindowIsBounded == RateSpec => []WindowBound
<1>1. RateInv => WindowBound
  BY DEF RateInv, KeyInv, Spread, WindowBound
<1> QED BY <1>1, RateInvariant, PTL

LEMMA InvGivesWindow == RateInv => BucketIsWindow
<1> SUFFICES ASSUME RateInv, NEW k \in Keys
             PROVE  LET left    == Evict(bucket[k])
                        n       == Len(accepted[k])
                        dropped == n - Len(left)
                    IN  /\ left = SubSeq(accepted[k], dropped + 1, n)
                        /\ \A i \in 1..n : Expired(accepted[k][i]) <=> i <= dropped
  BY DEF BucketIsWindow
<1> DEFINE left    == Evict(bucket[k])
           a       == accepted[k]
           n       == Len(a)
           dropped == n - Len(left)
<1>1. KeyInv(left, a) /\ \A i \in 1..Len(left) : ~Expired(left[i])
  BY EvictKeeps DEF RateInv, RateTypeOK
<1>2. /\ left \in Seq(Nat) /\ a \in Seq(Nat) /\ Len(left) <= n
      /\ \A i \in 1..Len(left) : left[i] = a[n - Len(left) + i]
      /\ \A i \in 1..n : i <= n - Len(left) => Expired(a[i])
  BY <1>1 DEF KeyInv, TailOf
<1> HIDE DEF left, a
<1>3. Len(left) \in Nat /\ n \in Nat /\ dropped \in Nat
  BY <1>2
<1>4. left = SubSeq(a, dropped + 1, n)
  <2> DEFINE m == dropped + 1
  <2>1. m \in Int /\ n \in Int /\ \A i \in m..n : a[i] \in Nat
    BY <1>2, <1>3
  <2> HIDE DEF m, n
  <2>2. /\ SubSeq(a, m, n) \in Seq(Nat)
        /\ Len(SubSeq(a, m, n)) = IF m <= n THEN n - m + 1 ELSE 0
        /\ \A i \in 1..(n - m + 1) : SubSeq(a, m, n)[i] = a[m + i - 1]
    BY <2>1, SubSeqProperties
  <2>3. n - m + 1 = Len(left) /\ (m <= n <=> Len(left) > 0)
    BY <1>3 DEF m
  <2>4. Len(SubSeq(a, m, n)) = Len(left)
    BY <1>3, <2>2, <2>3
  <2>5. ASSUME NEW i \in 1..Len(left)
        PROVE  left[i] = SubSeq(a, m, n)[i]
    <3>1. left[i] = a[dropped + i]
      BY <1>2 DEF n
    <3>2. m + i - 1 = dropped + i
      BY <1>3 DEF m
    <3>3. SubSeq(a, m, n)[i] = a[m + i - 1]
      BY <2>2, <2>3
    <3> QED BY <3>1, <3>2, <3>3
  <2>6. left = SubSeq(a, m, n)
    BY <1>2, <2>2, <2>4, <2>5, SeqEqual
  <2> QED BY <2>6 DEF m
<1>5. ASSUME NEW i \in 1..n
      PROVE  Expired(a[i]) <=> i <= dropped
  <2>1. CASE i <= dropped
    BY <1>2, <2>1
  <2>2. CASE i > dropped
    <3> DEFINE j == i - dropped
    <3>1. j \in 1..Len(left) /\ n - Len(left) + j = i
      BY <1>3, <2>2
    <3>2. left[j] = a[i]
      BY <1>2, <3>1
    <3>3. ~Expired(left[j])
      BY <1>1, <3>1
    <3> QED BY <1>3, <2>2, <3>2, <3>3
  <2> QED BY <1>3, <2>1, <2>2
<1> QED BY <1>4, <1>5 DEF left, a

\* For every limit and window: the limiter refuses for the acceptances of the last
\* window alone, and forgets none of them.
THEOREM BucketHoldsWindow == RateSpec => []BucketIsWindow
BY InvGivesWindow, RateInvariant, PTL

-----------------------------------------------------------------------------
(* The boundary.                                                           *)

BoundaryTypeOK ==
  /\ waits \in [Conns -> {"nothing", "reading", "passed"}]
  /\ request \in [Conns -> Requests \cup {NoRequest}]
  /\ \A c \in Conns : waits[c] # "nothing" => request[c] \in Requests
  /\ spenders \in [Keys -> Seq(BOOLEAN)]
  /\ handedOn \in [Keys -> Nat]

\* A key of a credential is spent by those who have it, a client's by the others.
KnowsKey(k) == HasApiKey => k \in CredentialKeys

SpenderInv ==
  \A k \in Keys : /\ Len(spenders[k]) = Len(accepted[k])
                  /\ \A i \in 1..Len(spenders[k]) : spenders[k][i] = KnowsKey(k)

Passed(k) == {c \in Conns : waits[c] = "passed" /\ RateKey(request[c]) = k}

LEMMA RateKeyKind ==
  ASSUME NEW q \in Requests
  PROVE  RateKey(q) \in Keys /\ Authorized(q) \in BOOLEAN /\ Authorized(q) = KnowsKey(RateKey(q))
<1>1. /\ q.client \in Keys \ CredentialKeys
      /\ q.bearer \in BOOLEAN /\ q.xApiKey \in BOOLEAN
      /\ HasApiKey \in BOOLEAN /\ CredentialKeys \subseteq Keys
  BY BoundaryAssumption DEF RequestType
<1> QED BY <1>1 DEF RateKey, Authorized, KnowsKey, CredentialKeys

\* The boundary implements the rate limiter: each of its steps is one of the limiter, or
\* leaves the clock, the buckets and the history alone.
LEMMA RateStep ==
  ASSUME BoundaryTypeOK, [BoundaryNext]_boundaryVars
  PROVE  [RateNext]_rateVars
<1>1. ASSUME NEW c \in Conns, Passes(c)
      PROVE  [RateNext]_rateVars
  <2>1. RateKey(request[c]) \in Keys
    BY <1>1, RateKeyKind DEF Passes, BoundaryTypeOK
  <2> QED BY <1>1, <2>1 DEF Passes, RateNext
<1>2. ASSUME NEW c \in Conns, RateLimited(c)
      PROVE  [RateNext]_rateVars
  <2>1. RateKey(request[c]) \in Keys
    BY <1>2, RateKeyKind DEF RateLimited, BoundaryTypeOK
  <2> QED BY <1>2, <2>1 DEF RateLimited, RateNext
<1>3. ASSUME NEW c \in Conns, Arrives(c) \/ Disconnects(c) \/ TooLarge(c) \/ HandsOn(c)
      PROVE  UNCHANGED rateVars
  BY <1>3 DEF Arrives, Disconnects, TooLarge, HandsOn
<1>4. TimePasses => RateNext
  BY DEF TimePasses, RateNext
<1>5. UNCHANGED boundaryVars => UNCHANGED rateVars
  BY DEF boundaryVars
<1> QED BY <1>1, <1>2, <1>3, <1>4, <1>5 DEF BoundaryNext

LEMMA TypeStep ==
  ASSUME BoundaryTypeOK, [BoundaryNext]_boundaryVars
  PROVE  BoundaryTypeOK'
<1> USE DEF BoundaryTypeOK
<1>1. ASSUME NEW c \in Conns, NEW how, Answers(c, how)
      PROVE  /\ waits' \in [Conns -> {"nothing", "reading", "passed"}]
             /\ request' \in [Conns -> Requests \cup {NoRequest}]
             /\ \A d \in Conns : waits'[d] # "nothing" => request'[d] \in Requests
  BY <1>1 DEF Answers
<1>2. ASSUME NEW c \in Conns, Arrives(c)
      PROVE  BoundaryTypeOK'
  <2>1. PICK q \in Requests :
          IF AtOnce(q) = "unread"
            THEN /\ waits' = [waits EXCEPT ![c] = "reading"]
                 /\ request' = [request EXCEPT ![c] = q]
                 /\ UNCHANGED answer
            ELSE Answers(c, AtOnce(q))
    BY <1>2 DEF Arrives
  <2>2. UNCHANGED <<spenders, handedOn>>
    BY <1>2 DEF Arrives
  <2>3. CASE AtOnce(q) = "unread"
    BY <2>1, <2>2, <2>3
  <2>4. CASE AtOnce(q) # "unread"
    BY <2>1, <2>2, <2>4, <1>1
  <2> QED BY <2>3, <2>4
<1>3. ASSUME NEW c \in Conns, Disconnects(c) \/ TooLarge(c) \/ RateLimited(c)
      PROVE  BoundaryTypeOK'
  BY <1>3, <1>1 DEF Disconnects, TooLarge, RateLimited
<1>4. ASSUME NEW c \in Conns, Passes(c)
      PROVE  BoundaryTypeOK'
  <2>1. Authorized(request[c]) \in BOOLEAN /\ RateKey(request[c]) \in Keys
    BY <1>4, RateKeyKind DEF Passes
  <2>2. spenders' \in [Keys -> Seq(BOOLEAN)]
    <3>1. CASE RpmLimit = 0
      BY <1>4, <3>1 DEF Passes
    <3>2. CASE RpmLimit # 0
      <4>1. spenders' = [spenders EXCEPT ![RateKey(request[c])] =
                           Append(@, Authorized(request[c]))]
        BY <1>4, <3>2 DEF Passes
      <4>2. Append(spenders[RateKey(request[c])], Authorized(request[c])) \in Seq(BOOLEAN)
        BY <2>1
      <4> QED BY <4>1, <4>2
    <3> QED BY <3>1, <3>2
  <2> QED BY <1>4, <2>2 DEF Passes
<1>5. ASSUME NEW c \in Conns, HandsOn(c)
      PROVE  BoundaryTypeOK'
  <2>1. RateKey(request[c]) \in Keys
    BY <1>5, RateKeyKind DEF HandsOn
  <2>2. handedOn' \in [Keys -> Nat] /\ UNCHANGED spenders
    BY <1>5, <2>1 DEF HandsOn
  <2> QED BY <1>5, <1>1, <2>2 DEF HandsOn
<1>6. CASE TimePasses \/ UNCHANGED boundaryVars
  BY <1>6 DEF TimePasses, boundaryVars, connVars
<1> QED BY <1>2, <1>3, <1>4, <1>5, <1>6 DEF BoundaryNext

LEMMA SpenderStep ==
  ASSUME RateTypeOK, BoundaryTypeOK, SpenderInv, [BoundaryNext]_boundaryVars
  PROVE  SpenderInv'
<1>1. ASSUME UNCHANGED <<accepted, spenders>>
      PROVE  SpenderInv'
  BY <1>1 DEF SpenderInv
<1>2. ASSUME NEW c \in Conns, Passes(c), RpmLimit # 0
      PROVE  SpenderInv'
  <2> DEFINE q == request[c]
             k == RateKey(q)
  <2>1. q \in Requests /\ k \in Keys /\ Authorized(q) \in BOOLEAN /\ Authorized(q) = KnowsKey(k)
    BY <1>2, RateKeyKind DEF Passes, BoundaryTypeOK
  <2>2. /\ spenders' = [spenders EXCEPT ![k] = Append(@, Authorized(q))]
        /\ accepted' = [accepted EXCEPT ![k] = Append(@, now)]
    BY <1>2 DEF Passes, Allow
  <2> HIDE DEF q, k
  <2> SUFFICES ASSUME NEW j \in Keys
               PROVE  /\ Len(spenders'[j]) = Len(accepted'[j])
                      /\ \A i \in 1..Len(spenders'[j]) : spenders'[j][i] = KnowsKey(j)
    BY DEF SpenderInv, KnowsKey
  <2>3. /\ spenders[j] \in Seq(BOOLEAN) /\ accepted[j] \in Seq(Nat)
        /\ Len(spenders[j]) = Len(accepted[j])
        /\ \A i \in 1..Len(spenders[j]) : spenders[j][i] = KnowsKey(j)
    BY DEF SpenderInv, BoundaryTypeOK, RateTypeOK
  <2>4. CASE j # k
    BY <2>2, <2>3, <2>4 DEF BoundaryTypeOK, RateTypeOK
  <2>5. CASE j = k
    <3>1. spenders'[j] = Append(spenders[j], Authorized(q)) /\ accepted'[j] = Append(accepted[j], now)
      BY <2>1, <2>2, <2>5 DEF BoundaryTypeOK, RateTypeOK
    <3>2. now \in Nat
      BY DEF RateTypeOK
    <3>3. Len(spenders'[j]) = Len(spenders[j]) + 1 /\ Len(accepted'[j]) = Len(accepted[j]) + 1
      BY <2>1, <2>3, <3>1, <3>2
    <3>4. ASSUME NEW i \in 1..Len(spenders'[j])
          PROVE  spenders'[j][i] = KnowsKey(j)
      <4>1. CASE i <= Len(spenders[j])
        BY <2>1, <2>3, <3>1, <3>3, <4>1
      <4>2. CASE i > Len(spenders[j])
        <5>1. i = Len(spenders[j]) + 1
          BY <2>3, <3>3, <4>2
        <5>2. spenders'[j][i] = Authorized(q)
          BY <2>1, <2>3, <3>1, <5>1
        <5> QED BY <2>1, <2>5, <5>2
      <4> QED BY <2>3, <3>3, <4>1, <4>2
    <3> QED BY <2>3, <3>3, <3>4
  <2> QED BY <2>4, <2>5
<1>3. ASSUME NEW c \in Conns, Passes(c), RpmLimit = 0
      PROVE  UNCHANGED <<accepted, spenders>>
  BY <1>3 DEF Passes, rateVars
<1>4. ASSUME NEW c \in Conns,
             Arrives(c) \/ Disconnects(c) \/ TooLarge(c) \/ RateLimited(c) \/ HandsOn(c)
      PROVE  UNCHANGED <<accepted, spenders>>
  BY <1>4 DEF Arrives, Disconnects, TooLarge, RateLimited, HandsOn, Deny, rateVars
<1>5. CASE TimePasses \/ UNCHANGED boundaryVars
  BY <1>5, <1>1 DEF TimePasses, Tick, boundaryVars, connVars, rateVars
<1> QED BY <1>1, <1>2, <1>3, <1>4, <1>5 DEF BoundaryNext

LEMMA PassedIsFinite ==
  ASSUME NEW k
  PROVE  IsFiniteSet(Passed(k)) /\ Cardinality(Passed(k)) \in Nat
<1>1. Passed(k) \subseteq Conns
  BY DEF Passed
<1> QED BY <1>1, BoundaryAssumption, FS_Subset, FS_CardinalityType

\* A request that is handed on moves from one addend to the other.
LEMMA OneMoves ==
  ASSUME NEW total \in Nat, NEW handed \in Nat, NEW passed \in Nat, total = handed + passed
  PROVE  total = (handed + 1) + (passed - 1)
OBVIOUS

LEMMA SpentStep ==
  ASSUME RateTypeOK, BoundaryTypeOK, SpentOnce, [BoundaryNext]_boundaryVars
  PROVE  SpentOnce'
<1> SUFFICES ASSUME RpmLimit > 0, NEW k \in Keys
             PROVE  Len(accepted'[k]) = handedOn'[k] + Cardinality(Passed(k)')
  BY DEF SpentOnce, Passed
<1>0. /\ Len(accepted[k]) = handedOn[k] + Cardinality(Passed(k))
      /\ accepted[k] \in Seq(Nat) /\ handedOn[k] \in Nat
      /\ Len(accepted[k]) \in Nat /\ Cardinality(Passed(k)) \in Nat
  <2>1. /\ Len(accepted[k]) = handedOn[k] + Cardinality(Passed(k))
        /\ accepted[k] \in Seq(Nat) /\ handedOn[k] \in Nat
    BY DEF SpentOnce, Passed, RateTypeOK, BoundaryTypeOK
  <2>2. Cardinality(Passed(k)) \in Nat
    BY PassedIsFinite
  <2> QED BY <2>1, <2>2
<1>1. ASSUME UNCHANGED <<accepted, handedOn>>, Passed(k)' = Passed(k)
      PROVE  Len(accepted'[k]) = handedOn'[k] + Cardinality(Passed(k)')
  BY <1>0, <1>1
<1>2. ASSUME NEW c \in Conns, Arrives(c) \/ Disconnects(c) \/ TooLarge(c) \/ RateLimited(c)
      PROVE  UNCHANGED <<accepted, handedOn>> /\ Passed(k)' = Passed(k)
  <2>1. UNCHANGED <<accepted, handedOn>>
    BY <1>2 DEF Arrives, Disconnects, TooLarge, RateLimited, Deny, rateVars
  <2>2. waits[c] # "passed" /\ waits'[c] # "passed"
    BY <1>2 DEF Arrives, Disconnects, TooLarge, RateLimited, Answers, BoundaryTypeOK
  <2>3. ASSUME NEW d \in Conns, d # c
        PROVE  waits'[d] = waits[d] /\ request'[d] = request[d]
    BY <1>2, <2>3 DEF Arrives, Disconnects, TooLarge, RateLimited, Answers, BoundaryTypeOK
  <2>4. \A d \in Conns : d \in Passed(k)' <=> d \in Passed(k)
    BY <2>2, <2>3 DEF Passed, RateKey
  <2>5. Passed(k) \subseteq Conns /\ Passed(k)' \subseteq Conns
    BY DEF Passed
  <2> QED BY <2>1, <2>4, <2>5
<1>3. ASSUME NEW c \in Conns, Passes(c)
      PROVE  Len(accepted'[k]) = handedOn'[k] + Cardinality(Passed(k)')
  <2>1. /\ waits[c] = "reading" /\ waits' = [waits EXCEPT ![c] = "passed"]
        /\ UNCHANGED <<request, handedOn>>
        /\ accepted' = [accepted EXCEPT ![RateKey(request[c])] = Append(@, now)]
    BY <1>3, LimitAssumption DEF Passes, Allow
  <2>2. CASE k = RateKey(request[c])
    <3>1. Passed(k)' = Passed(k) \cup {c} /\ c \notin Passed(k)
      BY <2>1, <2>2 DEF Passed, BoundaryTypeOK, RateKey
    <3>2. Cardinality(Passed(k)') = Cardinality(Passed(k)) + 1
      BY <3>1, PassedIsFinite, FS_AddElement
    <3>3. accepted'[k] = Append(accepted[k], now) /\ now \in Nat
      BY <2>1, <2>2 DEF RateTypeOK
    <3>4. Len(accepted'[k]) = Len(accepted[k]) + 1 /\ handedOn'[k] = handedOn[k]
      BY <1>0, <2>1, <3>3
    <3> QED BY <1>0, <3>2, <3>4
  <2>3. CASE k # RateKey(request[c])
    <3>1. Passed(k)' = Passed(k)
      BY <2>1, <2>3 DEF Passed, BoundaryTypeOK, RateKey
    <3>2. accepted'[k] = accepted[k]
      BY <2>1, <2>3 DEF RateTypeOK
    <3> QED BY <1>0, <2>1, <3>1, <3>2
  <2> QED BY <2>2, <2>3
<1>4. ASSUME NEW c \in Conns, HandsOn(c)
      PROVE  Len(accepted'[k]) = handedOn'[k] + Cardinality(Passed(k)')
  <2>1. /\ waits[c] = "passed" /\ waits' = [waits EXCEPT ![c] = "nothing"]
        /\ request' = [request EXCEPT ![c] = NoRequest]
        /\ handedOn' = [handedOn EXCEPT ![RateKey(request[c])] = @ + 1]
        /\ UNCHANGED accepted
    BY <1>4 DEF HandsOn, Answers, rateVars
  <2>2. CASE k = RateKey(request[c])
    <3>1. Passed(k)' = Passed(k) \ {c} /\ c \in Passed(k)
      BY <2>1, <2>2 DEF Passed, BoundaryTypeOK, RateKey
    <3>2. Cardinality(Passed(k)') = Cardinality(Passed(k)) - 1
      BY <3>1, PassedIsFinite, FS_RemoveElement
    <3>3. handedOn'[k] = handedOn[k] + 1
      BY <2>1, <2>2 DEF BoundaryTypeOK
    <3>4. Len(accepted'[k]) = Len(accepted[k])
      BY <2>1
    <3>5. Len(accepted[k]) = (handedOn[k] + 1) + (Cardinality(Passed(k)) - 1)
      BY <1>0, OneMoves
    <3> QED BY <3>2, <3>3, <3>4, <3>5
  <2>3. CASE k # RateKey(request[c])
    <3>1. Passed(k)' = Passed(k)
      BY <2>1, <2>3 DEF Passed, BoundaryTypeOK, RateKey
    <3>2. handedOn'[k] = handedOn[k]
      BY <2>1, <2>3 DEF BoundaryTypeOK
    <3> QED BY <1>0, <2>1, <3>1, <3>2
  <2> QED BY <2>2, <2>3
<1>5. CASE TimePasses \/ UNCHANGED boundaryVars
  <2>1. UNCHANGED <<accepted, handedOn, waits, request>>
    BY <1>5 DEF TimePasses, Tick, boundaryVars, connVars, rateVars
  <2> QED BY <2>1, <1>1 DEF Passed, RateKey
<1> QED BY <1>1, <1>2, <1>3, <1>4, <1>5 DEF BoundaryNext

BoundaryInv == RateInv /\ BoundaryTypeOK /\ SpenderInv /\ SpentOnce

LEMMA BoundaryInitInv == BoundaryInit => BoundaryInv
<1> SUFFICES ASSUME BoundaryInit
             PROVE  BoundaryInv
  OBVIOUS
<1>1. RateInv
  BY InitRateInv DEF BoundaryInit
<1>2. BoundaryTypeOK
  BY DEF BoundaryInit, BoundaryTypeOK
<1>3. SpenderInv
  <2>1. \A k \in Keys : spenders[k] = <<>> /\ accepted[k] = <<>>
    BY DEF BoundaryInit, RateInit
  <2>2. Len(<<>>) = 0 /\ 1..0 = {}
    OBVIOUS
  <2> QED BY <2>1, <2>2 DEF SpenderInv
<1>4. SpentOnce
  <2> SUFFICES ASSUME NEW k \in Keys
               PROVE  Len(accepted[k]) = handedOn[k] + Cardinality(Passed(k))
    BY DEF SpentOnce, Passed
  <2>1. Passed(k) = {}
    BY DEF Passed, BoundaryInit
  <2>2. accepted[k] = <<>> /\ handedOn[k] = 0
    BY DEF BoundaryInit, RateInit
  <2>3. Len(<<>>) = 0 /\ Cardinality({}) = 0
    BY FS_EmptySet
  <2> QED BY <2>1, <2>2, <2>3
<1> QED BY <1>1, <1>2, <1>3, <1>4 DEF BoundaryInv

LEMMA BoundaryNextInv == BoundaryInv /\ [BoundaryNext]_boundaryVars => BoundaryInv'
<1> SUFFICES ASSUME BoundaryInv, [BoundaryNext]_boundaryVars
             PROVE  BoundaryInv'
  OBVIOUS
<1>1. RateInv'
  BY RateStep, NextRateInv DEF BoundaryInv
<1>2. RateTypeOK
  BY DEF BoundaryInv, RateInv
<1> QED BY <1>1, <1>2, TypeStep, SpenderStep, SpentStep DEF BoundaryInv

\* The inductive invariant of the boundary: that of the rate limiter, the types, who
\* spent which quota, and how often.
THEOREM BoundaryInvariant == BoundarySpec => []BoundaryInv
BY BoundaryInitInv, BoundaryNextInv, PTL DEF BoundarySpec

\* Around the limiter, nothing else touches its buckets: the boundary implements it, and
\* inherits what was shown of it.
THEOREM BoundaryImplementsRate == BoundarySpec => RateSpec
<1>1. BoundaryInit => RateInit
  BY DEF BoundaryInit
<1>2. BoundaryInv /\ [BoundaryNext]_boundaryVars => [RateNext]_rateVars
  BY RateStep DEF BoundaryInv
<1> QED BY <1>1, <1>2, BoundaryInvariant, PTL DEF BoundarySpec, RateSpec

\* No window sees more than RpmLimit accepted requests of one caller, whatever connections
\* do around the judgement.
THEOREM BoundaryWindow == BoundarySpec => [](WindowBound /\ BucketIsWindow)
BY BoundaryImplementsRate, WindowIsBounded, BucketHoldsWindow, PTL

\* Each request that is handed on has spent its quota once, and no other has.
THEOREM QuotaIsSpentOnce == BoundarySpec => []SpentOnce
BY BoundaryInvariant, PTL DEF BoundaryInv

\* The acceptances of the last window are as many as the bucket holds.
LEMMA RecentIsBucket ==
  ASSUME BoundaryInv, NEW k \in Keys
  PROVE  Cardinality(Recent(k, KnowsKey(k))) = Len(Evict(bucket[k]))
<1> DEFINE left    == Evict(bucket[k])
           n       == Len(accepted[k])
           dropped == n - Len(left)
<1>1. BucketIsWindow
  BY InvGivesWindow DEF BoundaryInv
<1>2. \A i \in 1..n : Expired(accepted[k][i]) <=> i <= dropped
  BY <1>1 DEF BucketIsWindow
<1>3. /\ accepted[k] \in Seq(Nat) /\ n \in Nat
      /\ left \in Seq(Nat) /\ Len(left) \in Nat /\ Len(left) <= n
  <2>1. RateTypeOK /\ KeyInv(bucket[k], accepted[k])
    BY DEF BoundaryInv, RateInv
  <2>2. KeyInv(left, accepted[k])
    BY EvictKeeps DEF BoundaryInv, RateInv, RateTypeOK
  <2>3. accepted[k] \in Seq(Nat) /\ left \in Seq(Nat) /\ Len(left) <= Len(accepted[k])
    BY <2>1, <2>2 DEF RateTypeOK, KeyInv, TailOf
  <2> QED BY <2>3
<1>4. /\ Len(spenders[k]) = n
      /\ \A i \in 1..n : spenders[k][i] = KnowsKey(k)
  BY DEF BoundaryInv, SpenderInv
<1>5. Recent(k, KnowsKey(k)) = (dropped + 1)..n
  <2>1. DOMAIN accepted[k] = 1..n
    BY <1>3
  <2> HIDE DEF left
  <2>2. \A i : i \in Recent(k, KnowsKey(k)) <=> i \in 1..n /\ ~(i <= dropped)
    BY <1>2, <1>4, <2>1 DEF Recent
  <2>3. \A i : i \in 1..n /\ ~(i <= dropped) <=> i \in (dropped + 1)..n
    BY <1>3
  <2> QED BY <2>2, <2>3
<1> HIDE DEF left, n
<1>6. Cardinality((dropped + 1)..n) = Len(left)
  <2>1. dropped + 1 \in Int /\ n \in Int
    BY <1>3
  <2>2. Cardinality((dropped + 1)..n) =
          IF dropped + 1 > n THEN 0 ELSE n - (dropped + 1) + 1
    BY <2>1, FS_Interval
  <2> QED BY <1>3, <2>2
<1> QED BY <1>5, <1>6 DEF left

\* Nobody is refused for the requests of others: 429 means that the caller's own
\* kind of requests, with the api key or without it, filled the window.
THEOREM RefusalsAreOwn == BoundarySpec => RefusedForOwn
<1>1. ASSUME BoundaryInv, [BoundaryNext]_boundaryVars, NEW c \in Conns,
             waits[c] = "reading", waits'[c] = "nothing", answer' = "429"
      PROVE  Cardinality(Recent(RateKey(request[c]), Authorized(request[c]))) >= RpmLimit
  <2>0. BoundaryTypeOK
    BY <1>1 DEF BoundaryInv
  <2>1. RateLimited(c)
    <3>1. waits' # waits
      BY <1>1
    <3>2. PICK d \in Conns : \/ Arrives(d) \/ Disconnects(d) \/ TooLarge(d)
                             \/ Passes(d) \/ RateLimited(d) \/ HandsOn(d)
      BY <1>1, <3>1 DEF BoundaryNext, TimePasses, boundaryVars, connVars
    <3>3. \A e \in Conns : e # d => waits'[e] = waits[e]
      BY <2>0, <3>2 DEF Arrives, Disconnects, TooLarge, Passes, RateLimited, HandsOn, Answers,
                        BoundaryTypeOK
    <3>4. d = c
      BY <1>1, <3>3
    <3>5. ~Arrives(c) /\ ~HandsOn(c)
      BY <1>1 DEF Arrives, HandsOn
    <3>6. ~Disconnects(c) /\ ~TooLarge(c)
      BY <1>1 DEF Disconnects, TooLarge, Answers
    <3>7. ~Passes(c)
      BY <1>1, <2>0 DEF Passes, BoundaryTypeOK
    <3> QED BY <3>2, <3>4, <3>5, <3>6, <3>7
  <2> DEFINE k == RateKey(request[c])
  <2>2. request[c] \in Requests
    BY <1>1, <2>0 DEF BoundaryTypeOK
  <2>3. k \in Keys /\ Authorized(request[c]) = KnowsKey(k)
    BY <2>2, RateKeyKind
  <2>4. Len(Evict(bucket[k])) >= RpmLimit
    BY <2>1 DEF RateLimited, Deny
  <2> QED BY <1>1, <2>3, <2>4, RecentIsBucket
<1>2. BoundaryInv /\ [BoundaryNext]_boundaryVars =>
        [\A c \in Conns :
           waits[c] = "reading" /\ waits'[c] = "nothing" /\ answer' = "429" =>
             Cardinality(Recent(RateKey(request[c]), Authorized(request[c]))) >= RpmLimit
        ]_boundaryVars
  BY <1>1
<1> QED BY <1>2, BoundaryInvariant, PTL DEF BoundarySpec, RefusedForOwn
=============================================================================
