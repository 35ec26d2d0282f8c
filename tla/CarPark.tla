------------------------------ MODULE CarPark ------------------------------
(***************************************************************************)
(* What the manager promises about each car, without threads, locks or     *)
(* level numbers.  A stay of a car goes through four stages:               *)
(*                                                                         *)
(*   out  --Assign-->  assigned  --OpenBill-->  parked                     *)
(*                                                 |                       *)
(*   out  <--Settle--  leaving   <---Vacate--------+                       *)
(*                                                                         *)
(* Only cars of the allow list are assigned a park, there are never more   *)
(* assigned cars than parks, and every stay is billed exactly once, after  *)
(* its park was given back.                                                *)
(***************************************************************************)
EXTENDS Integers, FiniteSets

CONSTANTS
  Regos,      \* every licence plate that may show up
  AllowList,  \* the plates of plates.txt
  Parks       \* parks of the whole car park

VARIABLE stage

Holding == {r \in Regos : stage[r] \in {"assigned", "parked"}}

Init == stage = [r \in Regos |-> "out"]

Step(r, from, to) == stage[r] = from /\ stage' = [stage EXCEPT ![r] = to]

Assign(r) ==
  /\ r \in AllowList
  /\ Cardinality(Holding) < Parks
  /\ Step(r, "out", "assigned")

OpenBill(r) == Step(r, "assigned", "parked")
Vacate(r) == Step(r, "parked", "leaving")
Settle(r) == Step(r, "leaving", "out")

Next == \E r \in Regos : Assign(r) \/ OpenBill(r) \/ Vacate(r) \/ Settle(r)

Spec == Init /\ [][Next]_stage

=============================================================================
