------------------------- MODULE MCRequestBoundary --------------------------
(***************************************************************************)
(* Callers with the api key and without it, behind one address; a body in  *)
(* chunks that is too large; and one of each request that is answered at   *)
(* once.                                                                   *)
(***************************************************************************)
EXTENDS RequestBoundary, TLC

MCKeys == CredentialKeys \cup {"client:host"}

MCPlain ==
  [preflight |-> FALSE, public |-> FALSE, declared |-> "number", fits |-> TRUE,
   bearer |-> FALSE, xApiKey |-> FALSE, client |-> "client:host"]

MCRequests ==
  {MCPlain,
   [MCPlain EXCEPT !.bearer = TRUE],
   [MCPlain EXCEPT !.declared = "absent", !.fits = FALSE, !.bearer = TRUE],
   [MCPlain EXCEPT !.fits = FALSE],
   [MCPlain EXCEPT !.declared = "garbled"],
   [MCPlain EXCEPT !.preflight = TRUE],
   [MCPlain EXCEPT !.public = TRUE]}

MCConns == Permutations(Conns)
=============================================================================
