----------------------------- MODULE MCDisplay -----------------------------
(* A car park with a display and just enough room for TLC. *)
EXTENDS Display

CONSTANTS e1, e2, x1, a, b, stranger
=============================================================================
