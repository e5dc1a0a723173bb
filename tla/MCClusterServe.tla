--------------------------- MODULE MCClusterServe ---------------------------
(* An instance of ClusterServe for TLC: four nodes, two of them in the middle of every
   loop. *)
EXTENDS ClusterServe, TLC
=============================================================================
