----------------------------- MODULE MCMbxPool -----------------------------
(***************************************************************************)
(* Small instances of MbxPool for TLC: the channels of two boards, so that *)
(* there are more channels than connections.                               *)
(***************************************************************************)
EXTENDS MbxPool, TLC

CONSTANTS w1, w2, c1, c2, c3, b1, b2, ip1, ip2

MCBoardOf == [c \in Channels |-> IF c = c3 THEN b2 ELSE b1]
Symmetric == Permutations({w1, w2})
=============================================================================
