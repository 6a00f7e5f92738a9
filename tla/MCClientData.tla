---------------------------- MODULE MCClientData ----------------------------
(***************************************************************************)
(* Instances of ClientData: a peer is idle, sends or receives one byte a   *)
(* second.                                                                 *)
(***************************************************************************)
EXTENDS ClientData, TLC

CONSTANTS h1, h2, a1, a2, p

R(d, u) == [down |-> d, up |-> u]
MCRate == {R(0, 0), R(1, 0), R(0, 1)}
OneWay == {R(0, 0), R(1, 0)}

Symmetry == Permutations(Addr)
=============================================================================
