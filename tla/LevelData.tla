----------------------------- MODULE LevelData -----------------------------
(***************************************************************************)
(* The level table of the manager (libs/leveldata.c): for every level, the *)
(* cars that are assigned to it.  The C table is an array of hash maps     *)
(* keyed by rego whose values are unused, so a level is the set of its     *)
(* keys and get_count is the cardinality of that set.  All operations run  *)
(* under level_m; this module holds them as functions of the table, and    *)
(* module Manager says which thread applies which one, and when.           *)
(***************************************************************************)
EXTENDS Integers, FiniteSets

CONSTANTS
  LEVELS,          \* number of levels (types.h: 5)
  LEVEL_CAPACITY   \* parks on each level (types.h: 20)

ASSUME LevelsAssumption == LEVELS \in Nat \ {0}
ASSUME CapacityAssumption == LEVEL_CAPACITY \in Nat \ {0}

Levels == 1 .. LEVELS
Total == LEVELS * LEVEL_CAPACITY

init_level_data == [l \in Levels |-> {}]

cars_in_level(ld, l) == Cardinality(ld[l])

free_parks(ld, l) == LEVEL_CAPACITY - cars_in_level(ld, l)

exists_in_level(ld, l, r) == r \in ld[l]

(***************************************************************************)
(* The loop of get_available_level keeps the first level whose free parks  *)
(* exceed the largest number seen so far; 0 stands for "no level has a     *)
(* free park".  The threads use its result in closed form, and the two are *)
(* compared in every table of a small car park.                            *)
(***************************************************************************)

(* Mutant: the last of the largest instead of the first. *)
scan_levels_last(ld) ==
  LET best[i \in 0 .. LEVELS] ==
        IF i = 0 THEN 1
        ELSE IF free_parks(ld, i) >= free_parks(ld, best[i - 1])
             THEN i ELSE best[i - 1]
  IN  IF free_parks(ld, best[LEVELS]) = 0 THEN 0 ELSE best[LEVELS]

scan_levels(ld) ==
  LET best[i \in 0 .. LEVELS] ==
        IF i = 0 THEN 1
        ELSE IF free_parks(ld, i) > free_parks(ld, best[i - 1])
             THEN i ELSE best[i - 1]
  IN  IF free_parks(ld, best[LEVELS]) = 0 THEN 0 ELSE best[LEVELS]

MostFree(ld, l) ==
  \A k \in Levels :
     /\ free_parks(ld, k) <= free_parks(ld, l)
     /\ k < l => free_parks(ld, k) < free_parks(ld, l)

get_available_level(ld) ==
  LET best == CHOOSE l \in Levels : MostFree(ld, l)
  IN  IF free_parks(ld, best) = 0 THEN 0 ELSE best

(***************************************************************************)
(* insert_in_level is a silent no-op on a full level: it returns false and *)
(* none of its callers looks at the result.                                *)
(***************************************************************************)
insert_in_level(ld, l, r) ==
  IF free_parks(ld, l) > 0 THEN [ld EXCEPT ![l] = @ \union {r}] ELSE ld

(***************************************************************************)
(* remove_from_all_levels asserts that exactly one level held the car.     *)
(* The test that skips empty levels is written with an unsigned            *)
(* subtraction, 20 - 20 - cars > 0, which is true for every non-empty      *)
(* level because it wraps.                                                 *)
(***************************************************************************)
LevelsHolding(ld, r) == {l \in Levels : exists_in_level(ld, l, r)}

remove_from_all_levels(ld, r) == [l \in Levels |-> ld[l] \ {r}]

=============================================================================
