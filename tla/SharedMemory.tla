---------------------------- MODULE SharedMemory ----------------------------
(***************************************************************************)
(* The mapping that the three programs share.  Manager and simulator       *)
(* compute addresses with the macros of macros.h, the fire alarm with      *)
(* constants of its own, some of them octal.  Nothing moves here: any two  *)
(* accesses of any two programs are compared by the bytes they touch.      *)
(***************************************************************************)
EXTENDS Integers

CONSTANTS
  ENTRANCES, EXITS, LEVELS,  \* 5 each
  MutexCond,                 \* bytes of a mutex and a condition (88)
  Bytes                      \* bytes of the mapping (2920)

(* A mutex, a condition and a plate have to fit into the 96 bytes between  *)
(* two objects.  Who gives the constants values assumes it.                *)
MutexAssumption == MutexCond \in 0 .. 96 - 6

(* Readers are a mutex, a condition and six characters; gates and signs    *)
(* have one character; temperatures are shorts.                            *)
Size(kind) ==
  CASE kind \in {"entrance_lpr", "exit_lpr", "level_lpr"} -> MutexCond + 6
    [] kind \in {"entrance_boom", "exit_boom", "sign"} -> MutexCond + 1
    [] kind = "temp" -> 2
    [] kind = "alarm" -> 1

LevelStride == 104

(* Macros count from 1. *)
macro(kind, i) ==
  CASE kind = "entrance_lpr" -> (i - 1) * 288
    [] kind = "entrance_boom" -> (i - 1) * 288 + 96
    [] kind = "sign" -> (i - 1) * 288 + 192
    [] kind = "exit_lpr" -> 1440 + (i - 1) * 192
    [] kind = "exit_boom" -> 1440 + (i - 1) * 192 + 96
    [] kind = "level_lpr" -> 2400 + (i - 1) * LevelStride
    [] kind = "temp" -> 2400 + (i - 1) * LevelStride + 96
    [] kind = "alarm" -> 2400 + (i - 1) * LevelStride + 98

(* Mutant: the octal constant is taken for a decimal one. *)
Decimal0150 == 150

(* An octal constant. *)
Octal0150 == 8 * 8 + 5 * 8

(* The fire alarm counts from 0. *)
firealarm(kind, i) ==
  CASE kind = "temp" -> Octal0150 * i + 2496
    [] kind = "alarm" -> Octal0150 * i + 2498
    [] kind = "entrance_boom" -> 288 * i + 96
    [] kind = "exit_boom" -> 192 * i + 1536
    [] kind = "sign" -> 288 * i + 192

Objects ==
  ({"entrance_lpr", "entrance_boom", "sign"} \X (1 .. ENTRANCES))
    \union ({"exit_lpr", "exit_boom"} \X (1 .. EXITS))
    \union ({"level_lpr", "temp", "alarm"} \X (1 .. LEVELS))

UsedByAlarm == {o \in Objects : o[1] \in {"temp", "alarm", "entrance_boom", "exit_boom", "sign"}}

(* An access is an object with the address a program computes for it. *)
Accesses ==
  {<<o, macro(o[1], o[2])>> : o \in Objects}
    \union {<<o, firealarm(o[1], o[2] - 1)>> : o \in UsedByAlarm}

Touched(access) == access[2] .. access[2] + Size(access[1][1]) - 1

-----------------------------------------------------------------------------
(* Properties.                                                             *)

(* Two accesses touch a common byte exactly when they are to the same      *)
(* object, and then at the same address: no object overlaps another, and   *)
(* the fire alarm means the same objects as manager and simulator.  Every  *)
(* access stays inside the mapping, and mutexes and shorts are aligned as  *)
(* their types demand.                                                     *)
SameBytesSameObject ==
  \A one \in Accesses :
    /\ Touched(one) \subseteq 0 .. Bytes - 1
    /\ one[1][1] \notin {"temp", "alarm"} => one[2] % 8 = 0
    /\ one[1][1] = "temp" => one[2] % 2 = 0
    /\ \A other \in Accesses :
         /\ Touched(one) \intersect Touched(other) # {} <=> one[1] = other[1]
         /\ one[1] = other[1] => one[2] = other[2]
=============================================================================
