--------------------------- MODULE MCAttestation ----------------------------
EXTENDS Attestation, TLC

MCPids == Permutations(Pids)

MCProfile ==
  [head |-> "vllm", model |-> "/home/m", port |-> 1, alias |-> TRUE, length |-> 2,
   eager |-> TRUE, tokens |-> 2, seqs |-> NoValue]

\* As the profile, which leaves max_num_seqs unset; another model under another private
\* path, with an option of its own, as somebody started it by hand; one without
\* speculation on another port.
MCArgvs ==
  {MCProfile,
   [MCProfile EXCEPT !.model = "/home/n", !.alias = FALSE, !.length = 1, !.eager = FALSE,
                     !.seqs = 1],
   [MCProfile EXCEPT !.port = 2, !.eager = FALSE, !.tokens = NoValue]}
=============================================================================
