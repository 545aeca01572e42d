---------------------------- MODULE MCMessagePool ----------------------------
(* Small instances of MessagePool for TLC.                                *)
EXTENDS MessagePool, TLC

CONSTANTS a1, a2, c1, c2

MCAddrs == {a1, a2}
MCClients == {c1, c2}
MCOneClient == {c1}
MCOneAddr == {a1}

(* Symmetry of the senders and of the callers.                            *)
MCSymmetry == Permutations(MCAddrs)
=============================================================================
