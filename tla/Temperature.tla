----------------------------- MODULE Temperature -----------------------------
(***************************************************************************)
(* The simulator's temp_setter and the fire alarm that reads its sensors.  *)
(* temp_setter gives every level the same temperature and then walks       *)
(* around it at random, one degree at a time: the further a level is from  *)
(* its start, the more likely it is pulled back.                           *)
(***************************************************************************)
EXTENDS FireAlarm

CONSTANTS
  Starts,  \* 10 .. 40
  MIDDLE   \* 10: as many changes of 81 .. 99 cool a level down at its start

(* What the module takes for granted of its constants.  Who gives them     *)
(* values assumes it.                                                      *)
WalkAssumption ==
  /\ WindowsAssumption
  /\ Starts \subseteq Nat
  /\ MIDDLE \in Nat \ {0}

(* Even the warmest walk from the warmest start is below HIGH: 40 + 9 < 58. *)
CoolAssumption == 0 < HIGH /\ \A s \in Starts : s + MIDDLE - 1 < HIGH

VARIABLES
  start,    \* the first temperature of all levels
  scale,    \* how far each level is from it
  started,  \* the levels that have got their first temperature
  next      \* the level whose turn it is

walk == <<start, scale, started, next>>

(* init_shared_mem shows 0 degrees until temp_setter runs. *)
InitWalk ==
  /\ Init
  /\ temp = [l \in Levels |-> 0]
  /\ start \in Starts
  /\ scale = [l \in Levels |-> 0]
  /\ started = {}
  /\ next = 1

NextLevel == next' = (next % LEVELS) + 1

SetStart ==
  /\ started # Levels
  /\ temp' = [temp EXCEPT ![next] = start]
  /\ started' = started \union {next}
  /\ NextLevel
  /\ UNCHANGED <<monitors, alarm_active, alarms, start, scale>>

(* change - 80, when the level changes at all *)
Changes == 1 .. 2 * MIDDLE - 1

(* Mutant: the comparison is strict. *)
DegreesStrict(l, change) == IF change < MIDDLE + scale[l] THEN -1 ELSE 1

Degrees(l, change) == IF change <= MIDDLE + scale[l] THEN -1 ELSE 1

Change ==
  /\ started = Levels
  /\ \/ UNCHANGED <<temp, scale>>
     \/ \E change \in Changes :
          /\ temp' = [temp EXCEPT ![next] = @ + Degrees(next, change)]
          /\ scale' = [scale EXCEPT ![next] = @ + Degrees(next, change)]
  /\ NextLevel
  /\ UNCHANGED <<monitors, alarm_active, alarms, start, started>>

temp_setter == SetStart \/ Change

NextWalk == temp_setter \/ (FireAlarm /\ UNCHANGED walk)

SpecWalk == InitWalk /\ [][NextWalk]_<<vars, walk>>

-----------------------------------------------------------------------------
(* Properties.                                                             *)

(* The walk never leaves the band of one MIDDLE around its start, and the  *)
(* bookkeeping of temp_setter agrees with the sensor, which the fire alarm *)
(* reads at any time (simulator_funcs.c:513-526).                          *)
TempNearStart ==
  \A l \in Levels :
    /\ scale[l] \in -MIDDLE .. MIDDLE - 1
    /\ temp[l] = IF l \in started THEN start + scale[l] ELSE 0

(* The two programs together: the simulator never makes a level hot enough *)
(* for the fire alarm's test for heat, whatever the monitor catches of the *)
(* walk.  Only a fast rise can raise the alarm.                            *)
NeverTooHot == TempNearStart /\ \A l \in Levels : ~TooHot(medianlist[l])
=============================================================================
