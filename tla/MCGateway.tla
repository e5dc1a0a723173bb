----------------------------- MODULE MCGateway ------------------------------
(***************************************************************************)
(* Instances of Gateway for TLC.  Requests are interchangeable, so the     *)
(* safety runs are reduced by their symmetry; the liveness run is not.     *)
(***************************************************************************)
EXTENDS Gateway, TLC

\* One openai path and one stream, over one slot more than the queue.
MCTwoKinds == {"chat", "chat_stream"}

\* The JSON paths of both APIs, the Anthropic stream, and token counting, which takes no
\* slot.
MCAnthropicKinds == {"chat", "messages", "messages_stream", "count_tokens"}

MCSymmetry == Permutations(Requests)
=============================================================================
