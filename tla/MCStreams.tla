----------------------------- MODULE MCStreams -----------------------------
(* Two streams opened by the client, or one by each side.                  *)
EXTENDS Streams, TLC
CONSTANTS o1, o2, none
MCOpeners ==
    {f \in [Opens -> Peers] : f[o1] # f[o2] \/ \A o \in Opens : f[o] = "client"}
MCSymmetry == Permutations(Opens)
=============================================================================
