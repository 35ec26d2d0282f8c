---------------------------- MODULE MCSimulator ----------------------------
(* Two entrances, two exits, three allowed plates and one other for TLC. *)
EXTENDS Simulator

CONSTANTS e1, e2, x1, x2, a, b, c, d
=============================================================================
