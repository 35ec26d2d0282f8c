------------------------------ MODULE Display ------------------------------
(***************************************************************************)
(* The status display (display_thread of manager_funcs.c) next to all      *)
(* other threads of the manager.  Readers, signs, gates, temperatures and  *)
(* the total of the bills are copied in single reads and printed; what it  *)
(* shares with the other threads for longer is level_m, which it takes     *)
(* once for every level.                                                   *)
(***************************************************************************)
EXTENDS Manager

CONSTANT display

ASSUME DisplayAssumption == display \notin Threads \union {None}

VARIABLES
  display_pc,  \* where the display thread is
  next_level,  \* the level it reads next
  level_caps   \* what it has read of the levels in this round

display_vars == <<display_pc, next_level, level_caps>>
all_vars == <<vars, display_vars>>

NothingRead == [l \in Levels |-> 0]

DisplayInit ==
  /\ display_pc = "lock"
  /\ next_level = 1
  /\ level_caps = NothingRead

DisplayAt(label) == display_pc = label /\ failed = "none"

(* Mutant: the table is read without taking level_m. *)
DisplayGoesAhead ==
  /\ DisplayAt("lock")
  /\ display_pc' = "read"
  /\ UNCHANGED <<vars, next_level, level_caps>>

(* Mutant: level_m is taken from whoever holds it. *)
DisplayTakesAnyway ==
  /\ DisplayAt("lock")
  /\ level_m' = display
  /\ display_pc' = "read"
  /\ UNCHANGED <<free_spots, levels, billing, pc, rego, loaded, level, car, stolen,
                 failed, next_level, level_caps>>

DisplayLock ==
  /\ DisplayAt("lock")
  /\ level_m = None
  /\ level_m' = display
  /\ display_pc' = "read"
  /\ UNCHANGED <<free_spots, levels, billing, pc, rego, loaded, level, car, stolen,
                 failed, next_level, level_caps>>

DisplayRead ==
  /\ DisplayAt("read")
  /\ level_caps' = [level_caps EXCEPT ![next_level] = cars_in_level(levels, next_level)]
  /\ display_pc' = "unlock"
  /\ UNCHANGED <<vars, next_level>>

(* Mutant: only the last level's section ends with an unlock. *)
DisplayUnlockAtEnd ==
  /\ DisplayAt("unlock")
  /\ IF next_level = LEVELS THEN Unlock(display) ELSE UNCHANGED <<level_m, stolen>>
  /\ IF next_level = LEVELS THEN display_pc' = "show" /\ UNCHANGED next_level
     ELSE display_pc' = "lock" /\ next_level' = next_level + 1
  /\ UNCHANGED <<free_spots, levels, billing, pc, rego, loaded, level, car, failed,
                 level_caps>>

DisplayUnlock ==
  /\ DisplayAt("unlock")
  /\ Unlock(display)
  /\ IF next_level = LEVELS THEN display_pc' = "show" /\ UNCHANGED next_level
     ELSE display_pc' = "lock" /\ next_level' = next_level + 1
  /\ UNCHANGED <<free_spots, levels, billing, pc, rego, loaded, level, car, failed,
                 level_caps>>

(* Prints the round and sleeps. *)
Show ==
  /\ DisplayAt("show")
  /\ display_pc' = "lock"
  /\ next_level' = 1
  /\ level_caps' = NothingRead
  /\ UNCHANGED vars

display_thread == DisplayLock \/ DisplayRead \/ DisplayUnlock \/ Show

NextDisplayed ==
  \/ display_thread
  \/ Next /\ UNCHANGED display_vars

SpecDisplayed == Init /\ DisplayInit /\ [][NextDisplayed]_all_vars

(* The operating system keeps running every thread that can run. *)
FairSpecDisplayed ==
  /\ SpecDisplayed
  /\ \A t \in Threads : WF_all_vars(Step(t) /\ UNCHANGED display_vars)
  /\ WF_all_vars(display_thread)

-----------------------------------------------------------------------------
(* Properties.                                                             *)

(* The display reads a table that adds up: while it holds level_m no car   *)
(* is between two levels or between counter and table, so free_spots says  *)
(* exactly how many parks the table leaves (manager_funcs.c:440-442).      *)
ReadsWholeTable ==
  ~stolen /\ display_pc \in {"read", "unlock"} =>
    free_spots + Cardinality(UNION {levels[l] : l \in Levels}) = Total

(* The manager as it would be without its display: level_m is free while   *)
(* the display holds it.                                                   *)
M == INSTANCE Manager WITH level_m <- IF level_m = display THEN None ELSE level_m

(* The display is a reader: with it every thread of the manager takes the  *)
(* steps that it could take without it, until an entrance unlocks a        *)
(* level_m that the display or another thread holds.                       *)
DisplayOnlyReads == [][~stolen' => M!Next \/ UNCHANGED M!vars]_all_vars

(* Whoever takes level_m gives it back, the display included. *)
LockReleasedByAll == level_m # None ~> (level_m = None \/ failed # "none")
=============================================================================
