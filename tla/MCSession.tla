----------------------------- MODULE MCSession -----------------------------
(* Session over both profiles, both directions of the handshake and equal  *)
(* roles, frame sizes on either side of each other, beyond 16 bits and too *)
(* small for an ACCEPT, and seeds of two bits, which can cancel out.       *)
EXTENDS Session

CONSTANT nobit

Setup(framed, c, s, sizeC, sizeS) ==
    [framed |-> framed, logical |-> [client |-> c, server |-> s],
     size |-> [client |-> sizeC, server |-> sizeS],
     interval |-> [client |-> 2, server |-> 1],
     entropy |-> [client |-> {0}, server |-> {1}]]

MCConfigs ==
    {Setup(TRUE, "server", "client", 64, 128),
     Setup(TRUE, "client", "server", 128, 64),
     Setup(FALSE, "server", "client", 64, 64),
     Setup(TRUE, "server", "server", 64, 64),
     Setup(TRUE, "server", "client", 65536, 64),  \* rejected
     Setup(TRUE, "server", "client", 20, 64),     \* accepted in vain
     Setup(TRUE, "client", "server", 20, 64)}     \* and in session all the same
=============================================================================
