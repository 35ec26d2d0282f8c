------------------------------- MODULE Trips -------------------------------
(***************************************************************************)
(* The way of a car, as manager and simulator both have to see it:         *)
(*                                                                         *)
(*   outside  --DriveUp-->  entering  --DriveIn-->  inside                 *)
(*      ^  ^                   |                      |                    *)
(*      |  +----TurnAway-------+                      |                    *)
(*      +-----DriveOff-----  exiting  <----Leave------+                    *)
(*                                                                         *)
(* One car moves at a time, and only allowed cars drive in.  Before it is  *)
(* in front of an entrance, and after it was taken out at an exit, a car   *)
(* is outside; from the entrance to the front of an exit it is inside.     *)
(***************************************************************************)
CONSTANTS
  Cars,      \* every licence plate that may show up
  AllowList  \* the plates of plates.txt

VARIABLE place

Init == place = [r \in Cars |-> "outside"]

Move(r, from, to) == place[r] = from /\ place' = [place EXCEPT ![r] = to]

DriveUp(r) == Move(r, "outside", "entering")
TurnAway(r) == Move(r, "entering", "outside")
DriveIn(r) == r \in AllowList /\ Move(r, "entering", "inside")
Leave(r) == Move(r, "inside", "exiting")
DriveOff(r) == Move(r, "exiting", "outside")

Next ==
  \E r \in Cars : DriveUp(r) \/ TurnAway(r) \/ DriveIn(r) \/ Leave(r) \/ DriveOff(r)

Spec == Init /\ [][Next]_place
=============================================================================
