---------------------------- MODULE RateLimiter -----------------------------
(***************************************************************************)
(* The in-memory rate limiter of the request boundary                      *)
(* (server/middleware.py): one deque of acceptance times per rate key.  A  *)
(* request is judged after its body has been read, in one step of the      *)
(* event loop, at the time time.monotonic() then shows.                    *)
(***************************************************************************)
EXTENDS Naturals, Sequences

CONSTANTS
  Keys,        \* credential:bearer, credential:x-api-key, client:<host>...
  RpmLimit,    \* --rate-limit-rpm; 0 disables the limiter
  Window,      \* _RATE_WINDOW_SECONDS
  MaxTime,     \* bound: ticks of the clock
  MaxAccepts   \* bound: acceptances per key

ASSUME LimitAssumption == RpmLimit \in Nat /\ Window \in Nat \ {0}
ASSUME ClockAssumption == {MaxTime, MaxAccepts} \subseteq Nat

VARIABLES
  now,        \* time.monotonic()
  bucket,     \* rate_buckets
  accepted    \* history: the time of every acceptance, per key

rateVars == <<now, bucket, accepted>>

RateInit ==
  /\ now = 0
  /\ bucket = [k \in Keys |-> <<>>]
  /\ accepted = [k \in Keys |-> <<>>]

\* Mutant: an entry expires when it is exactly a window old.
ExpiredAtBound(t) == now - t >= Window

Expired(t) == now - t > Window

\* Mutant: "if" for "while", one entry leaves at most.
EvictOne(b) == IF b # <<>> /\ Expired(Head(b)) THEN Tail(b) ELSE b

\* popleft while the head has expired: what is left starts at the first entry
\* that has not.
Evict(b) ==
  LET fresh == {i \in 1..Len(b) : ~Expired(b[i])}
      first == IF fresh = {} THEN Len(b) + 1
               ELSE CHOOSE i \in fresh : \A j \in fresh : i <= j
  IN  SubSeq(b, first, Len(b))

Allow(k) ==
  LET left == Evict(bucket[k])
  IN  /\ RpmLimit > 0
      /\ Len(left) < RpmLimit
      /\ Len(accepted[k]) < MaxAccepts
      /\ bucket' = [bucket EXCEPT ![k] = Append(left, now)]
      /\ accepted' = [accepted EXCEPT ![k] = Append(@, now)]
      /\ UNCHANGED now

\* 429 rate_limited; the expired entries are gone all the same.
Deny(k) ==
  LET left == Evict(bucket[k])
  IN  /\ RpmLimit > 0
      /\ Len(left) >= RpmLimit
      /\ bucket' = [bucket EXCEPT ![k] = left]
      /\ UNCHANGED <<now, accepted>>

\* The clock is read with a resolution far below the window.
Tick == now < MaxTime /\ now' = now + 1 /\ UNCHANGED <<bucket, accepted>>

RateNext == (\E k \in Keys : Allow(k) \/ Deny(k)) \/ Tick

RateSpec == RateInit /\ [][RateNext]_rateVars

-----------------------------------------------------------------------------
(* Properties.                                                             *)

\* Every variable has its type.
RateTypeOK ==
  /\ now \in Nat
  /\ bucket \in [Keys -> Seq(Nat)]
  /\ accepted \in [Keys -> Seq(Nat)]

\* The promise of _allow_rate over every window, not only the current one: two
\* acceptances RpmLimit apart in the history of a key are more than a window
\* apart, so no closed interval of Window seconds ever saw more than RpmLimit.
WindowBound ==
  \A k \in Keys : \A i \in 1..Len(accepted[k]) :
    i + RpmLimit <= Len(accepted[k]) =>
      accepted[k][i + RpmLimit] - accepted[k][i] > Window

\* What _allow_rate judges is neither stale nor forgetful: once the expired head is
\* dropped, the bucket holds the acceptances of the last Window seconds, all of them
\* and no other, so a request is refused only for RpmLimit of those.
BucketIsWindow ==
  \A k \in Keys :
    LET left    == Evict(bucket[k])
        n       == Len(accepted[k])
        dropped == n - Len(left)
    IN  /\ left = SubSeq(accepted[k], dropped + 1, n)
        /\ \A i \in 1..n : Expired(accepted[k][i]) <=> i <= dropped
=============================================================================
