-------------------------- MODULE RequestBoundary ---------------------------
(***************************************************************************)
(* What a request passes before a handler sees it: the boundary middleware *)
(* (server/middleware.py), which reads the body and judges the rate, and   *)
(* inside of it the authentication (server/app.py).  A step is what runs   *)
(* between two awaits; a request waits                                     *)
(*   reading   for the rest of its body                                    *)
(*   passed    for call_next to hand it on                                 *)
(* and leaves with an answer: a status, "handled", or "gone" with its      *)
(* client.  Request ids and CORS headers decide nothing.                   *)
(***************************************************************************)
EXTENDS RateLimiter, FiniteSets

CONSTANTS
  Conns,        \* connections, with one request at a time
  Requests,     \* what may be sent, see RequestType
  HasApiKey     \* whether the gateway was given an api key

CredentialKeys == {"credential:bearer", "credential:x-api-key"}

\* The key of a client, "client:" and its address, is never that of a credential.
\* Without a declared length a body is sent in chunks; with one it is as long.
RequestType ==
  [preflight : BOOLEAN, public : BOOLEAN, declared : {"absent", "number", "garbled"},
   fits : BOOLEAN, bearer : BOOLEAN, xApiKey : BOOLEAN, client : Keys \ CredentialKeys]

ASSUME BoundaryAssumption ==
  /\ IsFiniteSet(Conns)
  /\ Requests \subseteq RequestType /\ HasApiKey \in BOOLEAN
  /\ CredentialKeys \subseteq Keys

VARIABLES
  waits,       \* of each connection: "nothing", "reading" or "passed"
  request,     \* the request that waits, or NoRequest
  answer,      \* the last answer that was given
  spenders,    \* history: whether each of accepted knew the api key
  handedOn     \* history: of each key, how many requests were judged and handed on

connVars == <<waits, request, answer, spenders, handedOn>>
boundaryVars == <<rateVars, connVars>>

NoRequest == [client |-> "none"]

BoundaryInit ==
  /\ RateInit
  /\ waits = [c \in Conns |-> "nothing"]
  /\ request = [c \in Conns |-> NoRequest]
  /\ answer = "none"
  /\ spenders = [k \in Keys |-> <<>>]
  /\ handedOn = [k \in Keys |-> 0]

\* _auth_error finds none.
Authorized(q) == HasApiKey => q.bearer \/ q.xApiKey

\* Mutant: requests are limited by the address they come from.
RateKeyOfAddress(q) == q.client

RateKey(q) ==
  IF HasApiKey /\ q.bearer THEN "credential:bearer"
  ELSE IF HasApiKey /\ q.xApiKey THEN "credential:x-api-key"
  ELSE q.client

-----------------------------------------------------------------------------

Answers(c, how) ==
  /\ waits' = [waits EXCEPT ![c] = "nothing"]
  /\ request' = [request EXCEPT ![c] = NoRequest]
  /\ answer' = how

\* What a request is answered before its body is read, or "unread".
AtOnce(q) ==
  CASE q.preflight                                            -> "204"
    [] ~q.preflight /\ q.public                               -> "handled"
    [] ~q.preflight /\ ~q.public /\ q.declared = "garbled"    -> "400"
    [] ~q.preflight /\ ~q.public /\ q.declared = "number"
                    /\ ~q.fits                                -> "413"
    [] OTHER                                                  -> "unread"

Arrives(c) ==
  /\ waits[c] = "nothing"
  /\ \E q \in Requests :
       IF AtOnce(q) = "unread"
         THEN /\ waits' = [waits EXCEPT ![c] = "reading"]
              /\ request' = [request EXCEPT ![c] = q]
              /\ UNCHANGED answer
         ELSE Answers(c, AtOnce(q))
  /\ UNCHANGED <<rateVars, spenders, handedOn>>

\* The client leaves while its body is read.
Disconnects(c) ==
  /\ waits[c] = "reading"
  /\ Answers(c, "gone")
  /\ UNCHANGED <<rateVars, spenders, handedOn>>

\* Mutant: the rate is judged before the body is.
TooLargeCharged(c) ==
  /\ waits[c] = "reading" /\ ~request[c].fits
  /\ Allow(RateKey(request[c]))
  /\ spenders' = [spenders EXCEPT ![RateKey(request[c])] =
                    Append(@, Authorized(request[c]))]
  /\ Answers(c, "413")
  /\ UNCHANGED handedOn

TooLarge(c) ==
  /\ waits[c] = "reading" /\ ~request[c].fits
  /\ Answers(c, "413")
  /\ UNCHANGED <<rateVars, spenders, handedOn>>

\* The body is read, and the rate judged at the time it then is.
Passes(c) ==
  /\ waits[c] = "reading" /\ request[c].fits
  /\ LET k == RateKey(request[c])
     IN  IF RpmLimit = 0
           THEN UNCHANGED <<rateVars, spenders>>
           ELSE /\ Allow(k)
                /\ spenders' = [spenders EXCEPT ![k] = Append(@, Authorized(request[c]))]
  /\ waits' = [waits EXCEPT ![c] = "passed"]
  /\ UNCHANGED <<request, answer, handedOn>>

RateLimited(c) ==
  /\ waits[c] = "reading" /\ request[c].fits
  /\ Deny(RateKey(request[c]))
  /\ Answers(c, "429")
  /\ UNCHANGED <<spenders, handedOn>>

\* auth_middleware hands the request to its handler, or answers 401.
HandsOn(c) ==
  /\ waits[c] = "passed"
  /\ Answers(c, IF Authorized(request[c]) THEN "handled" ELSE "401")
  /\ handedOn' = [handedOn EXCEPT ![RateKey(request[c])] = @ + 1]
  /\ UNCHANGED <<rateVars, spenders>>

\* The clock goes on while requests wait.
TimePasses == Tick /\ UNCHANGED connVars

BoundaryNext ==
  \/ \E c \in Conns : \/ Arrives(c) \/ Disconnects(c) \/ TooLarge(c)
                      \/ Passes(c) \/ RateLimited(c) \/ HandsOn(c)
  \/ TimePasses

BoundarySpec == BoundaryInit /\ [][BoundaryNext]_boundaryVars

-----------------------------------------------------------------------------
(* Properties.                                                             *)

\* The acceptances of the last window whose requests knew the api key, or did not.
Recent(k, authorized) ==
  {i \in DOMAIN accepted[k] : ~Expired(accepted[k][i]) /\ spenders[k][i] = authorized}

\* Who is refused has used up a quota of its own: a request with the api key is
\* answered 429 only if RpmLimit requests of the last window had it too, and one
\* without it only for those without, though all may come from one address.
RefusedForOwn ==
  [][\A c \in Conns :
       waits[c] = "reading" /\ waits'[c] = "nothing" /\ answer' = "429" =>
         Cardinality(Recent(RateKey(request[c]), Authorized(request[c]))) >= RpmLimit
    ]_boundaryVars

\* A quota is spent once by each request that is handed on, and by no other: not by
\* one whose body is too large, that leaves before it is read, that is refused, or
\* that needs no judgement ("preflight bypasses auth and rate limit", "public paths
\* bypass rate limit and body cap", test_middleware.py).
SpentOnce ==
  RpmLimit > 0 =>
    \A k \in Keys :
      Len(accepted[k]) = handedOn[k] + Cardinality({c \in Conns : /\ waits[c] = "passed"
                                                                 /\ RateKey(request[c]) = k})
=============================================================================
