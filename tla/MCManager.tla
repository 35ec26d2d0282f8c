----------------------------- MODULE MCManager -----------------------------
(***************************************************************************)
(* Small car parks for TLC.                                                *)
(***************************************************************************)
EXTENDS Manager, TLC

CONSTANTS e1, e2, x1, a, b, c

Cars == {a, b, c}

(* Cars on the allow list are interchangeable, and so are entrances. *)
Interchangeable == Permutations(Cars) \union Permutations({e1, e2})
=============================================================================
