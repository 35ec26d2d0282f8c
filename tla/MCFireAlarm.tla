---------------------------- MODULE MCFireAlarm ----------------------------
(***************************************************************************)
(* The fire alarm for TLC, in three sizes and two surroundings:            *)
(*   "windows"  one level with the five readings of the code and ten       *)
(*              medians, and a sensor that shows anything at any time;     *)
(*   "short"    two such levels with short windows;                        *)
(*   "walk"     two levels with the simulator's random walk.               *)
(* HIGH of the walk is the first temperature that it cannot reach.         *)
(***************************************************************************)
EXTENDS Integers

VARIABLES
  size,
  temp, templist, medianlist, alarm_active, alarms, readings,
  start, scale, started, turn

walk_vars == <<start, scale, started, turn>>
fire_vars == <<size, temp, templist, medianlist, alarm_active, alarms, readings, walk_vars>>

Windows == INSTANCE FireAlarm WITH
             LEVELS <- 1, MEDIAN_WINDOW <- 5, TEMPCHANGE_WINDOW <- 10,
             HIGH <- 8, RISE <- 8, Temps <- {0, 8}

Short == INSTANCE FireAlarm WITH
           LEVELS <- 2, MEDIAN_WINDOW <- 3, TEMPCHANGE_WINDOW <- 2,
           HIGH <- 2, RISE <- 3, Temps <- {0, 2}

Walk == INSTANCE Temperature WITH
          LEVELS <- 2, MEDIAN_WINDOW <- 1, TEMPCHANGE_WINDOW <- 2,
          HIGH <- 4, RISE <- 3, Temps <- {0}, Starts <- {1, 2}, MIDDLE <- 2,
          next <- turn

ASSUME SizesAssumption ==
  /\ Windows!WindowsAssumption
  /\ Short!WindowsAssumption
  /\ Walk!WalkAssumption /\ Walk!CoolAssumption

NoWalk == start = 0 /\ scale = <<>> /\ started = {} /\ turn = 1

FireInit ==
  \/ size = "windows" /\ Windows!Init /\ NoWalk
  \/ size = "short" /\ Short!Init /\ NoWalk
  \/ size = "walk" /\ Walk!InitWalk

AtShort(step) == size = "short" /\ step /\ UNCHANGED <<size, walk_vars>>

FireNext ==
  \/ size = "windows" /\ Windows!Next /\ UNCHANGED <<size, walk_vars>>
  \/ AtShort(Short!Next)
  \/ size = "walk" /\ Walk!NextWalk /\ UNCHANGED size

FireSpec == FireInit /\ [][FireNext]_fire_vars

(* The fairness of FireAlarm where a property needs it. *)
FireFairSpec ==
  /\ FireSpec
  /\ \A l \in 1 .. 2 : /\ WF_fire_vars(AtShort(Short!tempmonitor(l)))
                       /\ WF_fire_vars(AtShort(Short!RaiseAlarms(l)))

-----------------------------------------------------------------------------
(* Properties of FireAlarm and Temperature.                                *)

(* The lists hold the last readings and their medians (firealarm.c:72-97). *)
MediansOfReadings ==
  /\ size = "windows" => Windows!MediansOfReadings
  /\ size = "short" => Short!MediansOfReadings
  /\ size = "walk" => Walk!MediansOfReadings

(* Outliers cannot pass for heat (firealarm.c:88, 108). *)
HeatIsSustained ==
  /\ size = "windows" => Windows!HeatIsSustained
  /\ size = "short" => Short!HeatIsSustained

(* A level that stays hot raises the alarm on every level. *)
HeatRaisesAlarms ==
  \A l \in 1 .. 2 : []<>(size = "short" => ~Short!HeatUnheard(l))

(* The simulator's walk stays near its start and never looks like heat     *)
(* (simulator_funcs.c:513-526 with firealarm.c:97-115).                    *)
NeverTooHot == size = "walk" => Walk!NeverTooHot
=============================================================================
