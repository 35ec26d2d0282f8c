------------------------------ MODULE FireAlarm ------------------------------
(***************************************************************************)
(* The detection side of firealarm.c: one tempmonitor thread per level,    *)
(* which smooths the readings of its sensor and looks for heat and for a   *)
(* fast rise, and main, which polls their common flag.  What main then     *)
(* does to gates and signs is part of EntranceGate and ExitGate.           *)
(*                                                                         *)
(* A round of tempmonitor is one step: it reads one shared variable at its *)
(* beginning and writes one, the flag, at its end.                         *)
(***************************************************************************)
EXTENDS Integers, Sequences, FiniteSets

CONSTANTS
  LEVELS,             \* 5
  MEDIAN_WINDOW,      \* 5 readings give a median
  TEMPCHANGE_WINDOW,  \* 30 medians are looked at
  HIGH,               \* 58 degrees are a concern
  RISE,               \* 8 degrees are a fast rise
  Temps               \* what a sensor may show

(* What the module takes for granted of its constants.  Who gives them     *)
(* values assumes it.                                                      *)
WindowsAssumption ==
  /\ LEVELS \in Nat \ {0}
  /\ MEDIAN_WINDOW \in Nat \ {0} /\ MEDIAN_WINDOW % 2 = 1
  /\ TEMPCHANGE_WINDOW \in Nat \ {0}
  /\ HIGH \in Int /\ RISE \in Nat \ {0}
  /\ Temps \subseteq Int

Levels == 1 .. LEVELS

VARIABLES
  temp,          \* LEVEL_TEMP: the sensor of each level
  templist,      \* the newest readings of each level, newest first
  medianlist,    \* the newest medians of each level, newest first
  alarm_active,  \* written by every monitor, polled by main
  alarms,        \* levels whose LEVEL_ALARM is set
  readings       \* history: every reading that a list still depends on

monitors == <<templist, medianlist, readings>>
vars == <<temp, monitors, alarm_active, alarms>>

Init ==
  /\ temp \in [Levels -> Temps]
  /\ templist = [l \in Levels |-> <<>>]
  /\ medianlist = [l \in Levels |-> <<>>]
  /\ alarm_active = FALSE
  /\ alarms = {}
  /\ readings = [l \in Levels |-> <<>>]

-----------------------------------------------------------------------------
(* Mutant: one node too few survives. *)
deletenodes_early(list, after) ==
  SubSeq(list, 1, IF Len(list) < after THEN Len(list) ELSE after - 1)

(* Keeps the first nodes of a list. *)
deletenodes(list, after) ==
  SubSeq(list, 1, IF Len(list) < after THEN Len(list) ELSE after)

(* The sorted copy: at position k stands the value that fewer than k       *)
(* readings are below of and at least k readings do not exceed.            *)
qsort(list) ==
  [k \in DOMAIN list |->
     CHOOSE v \in {list[i] : i \in DOMAIN list} :
       /\ Cardinality({i \in DOMAIN list : list[i] < v}) < k
       /\ Cardinality({i \in DOMAIN list : list[i] <= v}) >= k]

(* Mutant: the last of the sorted readings. *)
median_largest(list) == qsort(list)[MEDIAN_WINDOW]

(* Mutant: the readings are not sorted. *)
median_unsorted(list) == list[(MEDIAN_WINDOW - 1) \div 2 + 1]

median(list) == qsort(list)[(MEDIAN_WINDOW - 1) \div 2 + 1]

(* "If 90% of the last 30 temperatures are >= 58 degrees". *)
TooHot(medians) ==
  /\ Len(medians) = TEMPCHANGE_WINDOW
  /\ 10 * Cardinality({i \in DOMAIN medians : medians[i] >= HIGH})
       >= 9 * TEMPCHANGE_WINDOW

(* Compares the newest reading, not the newest median, with the oldest     *)
(* median.                                                                 *)
RisesFast(temps, medians) ==
  /\ Len(medians) = TEMPCHANGE_WINDOW
  /\ temps[1] - medians[TEMPCHANGE_WINDOW] >= RISE

tempmonitor(l) ==
  LET temps == deletenodes(<<temp[l]>> \o templist[l], MEDIAN_WINDOW)
      Enough == Len(temps) = MEDIAN_WINDOW
      medians == IF Enough
                 THEN deletenodes(<<median(temps)>> \o medianlist[l],
                                  TEMPCHANGE_WINDOW)
                 ELSE medianlist[l]
  IN  /\ templist' = [templist EXCEPT ![l] = temps]
      /\ medianlist' = [medianlist EXCEPT ![l] = medians]
      /\ alarm_active' = \/ alarm_active
                         \/ Enough /\ (TooHot(medians) \/ RisesFast(temps, medians))
      /\ readings' = [readings EXCEPT ![l] =
                        SubSeq(<<temp[l]>> \o @, 1,
                               IF Len(@) < MEDIAN_WINDOW + TEMPCHANGE_WINDOW - 1
                               THEN Len(@) + 1 ELSE Len(@))]
      /\ UNCHANGED <<temp, alarms>>

(* main sees the flag and turns on the alarm of one level after the other. *)
RaiseAlarms(l) ==
  /\ alarm_active
  /\ alarms = 1 .. l - 1
  /\ alarms' = alarms \union {l}
  /\ UNCHANGED <<temp, monitors, alarm_active>>

Sensor(l) ==
  /\ \E t \in Temps : temp' = [temp EXCEPT ![l] = t]
  /\ UNCHANGED <<monitors, alarm_active, alarms>>

FireAlarm == \E l \in Levels : tempmonitor(l) \/ RaiseAlarms(l)

Next == FireAlarm \/ \E l \in Levels : Sensor(l)

Spec == Init /\ [][Next]_vars

(* Every thread of the fire alarm keeps running; no sensor has to change. *)
FairSpec ==
  /\ Spec
  /\ \A l \in Levels : WF_vars(tempmonitor(l)) /\ WF_vars(RaiseAlarms(l))

-----------------------------------------------------------------------------
(* Properties.                                                             *)

(* Variables keep their types; no list outgrows its window, so that the    *)
(* tests for full windows can be made with equality (firealarm.c:81, 111). *)
TypeOK ==
  /\ temp \in [Levels -> Int]
  /\ \A l \in Levels : /\ templist[l] \in Seq(Int)
                       /\ Len(templist[l]) <= MEDIAN_WINDOW
                       /\ medianlist[l] \in Seq(Int)
                       /\ Len(medianlist[l]) <= TEMPCHANGE_WINDOW
  /\ alarm_active \in BOOLEAN
  /\ alarms \subseteq Levels

Half == (MEDIAN_WINDOW - 1) \div 2

(* What "median" means: at most half of the others are below or above. *)
IsMedian(m, list) ==
  /\ \E i \in DOMAIN list : list[i] = m
  /\ Cardinality({i \in DOMAIN list : list[i] < m}) <= Half
  /\ Cardinality({i \in DOMAIN list : list[i] > m}) <= Half

(* The two lists are what they are meant to be, the last readings and the  *)
(* medians of every window of consecutive readings: nothing is skipped,    *)
(* repeated or kept too long by the two deletenodes calls, and medians     *)
(* start with the first full window (firealarm.c:72-97).                   *)
MediansOfReadings ==
  TypeOK /\ \A l \in Levels :
    /\ templist[l] = SubSeq(readings[l], 1, Len(templist[l]))
    /\ Len(medianlist[l]) =
         IF Len(readings[l]) < MEDIAN_WINDOW THEN 0
         ELSE Len(readings[l]) - MEDIAN_WINDOW + 1
    /\ \A i \in DOMAIN medianlist[l] :
         IsMedian(medianlist[l][i], SubSeq(readings[l], i, i + MEDIAN_WINDOW - 1))

Hot(list) == Cardinality({i \in DOMAIN list : list[i] >= HIGH})

(* What the smoothing is for: outliers cannot raise the alarm for heat.    *)
(* When that test succeeds, so many of the readings behind it are high     *)
(* that they make nine tenths of the medians high: with the windows of the *)
(* code at least 17 of the last 34.                                        *)
HeatIsSustained ==
  \A l \in Levels :
    TooHot(medianlist[l]) =>
      10 * MEDIAN_WINDOW * Hot(readings[l]) >= 9 * TEMPCHANGE_WINDOW * (Half + 1)

(* A level that is hot while the alarm of some level is off. *)
HeatUnheard(l) == temp[l] >= HIGH /\ alarms # Levels

(* A level that stays hot raises the alarm, on every level: no sensor can  *)
(* stay hot unheard (firealarm.c:108-122 with 152-173).                    *)
HeatRaisesAlarms == \A l \in Levels : []<>~HeatUnheard(l)
=============================================================================
