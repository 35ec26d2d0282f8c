----------------------------- MODULE PartsProofs -----------------------------
(***************************************************************************)
(* The parts of MCParts and MCFireAlarm, each for every value of its       *)
(* constants: as they are checked there, one part at a time.               *)
(***************************************************************************)
EXTENDS MCParts, MCFireAlarm, FiniteSetTheorems, SequenceTheorems, TLAPS

-----------------------------------------------------------------------------
(* The fire alarm: what FireAlarmProofs proves of every size, at the sizes *)
(* of MCFireAlarm.                                                         *)

WP == INSTANCE FireAlarmProofs WITH
        LEVELS <- 1, MEDIAN_WINDOW <- 5, TEMPCHANGE_WINDOW <- 10,
        HIGH <- 8, RISE <- 8, Temps <- {0, 8}, Starts <- {}, MIDDLE <- 1,
        next <- turn

SP == INSTANCE FireAlarmProofs WITH
        LEVELS <- 2, MEDIAN_WINDOW <- 3, TEMPCHANGE_WINDOW <- 2,
        HIGH <- 2, RISE <- 3, Temps <- {0, 2}, Starts <- {}, MIDDLE <- 1,
        next <- turn

KP == INSTANCE FireAlarmProofs WITH
        LEVELS <- 2, MEDIAN_WINDOW <- 1, TEMPCHANGE_WINDOW <- 2,
        HIGH <- 4, RISE <- 3, Temps <- {0}, Starts <- {1, 2}, MIDDLE <- 2,
        next <- turn

LEMMA Sizes ==
  /\ WP!WindowsAssumption
  /\ SP!WindowsAssumption
  /\ KP!WindowsAssumption /\ KP!WalkAssumption /\ KP!CoolAssumption
BY DEF WP!WindowsAssumption, SP!WindowsAssumption, KP!WindowsAssumption,
       KP!WalkAssumption, KP!CoolAssumption

LEMMA WindowsSteps ==
  (Windows!Init <=> WP!Init) /\ (Windows!Next <=> WP!Next)
BY DEF Windows!Init, WP!Init, Windows!Levels, WP!Levels,
  Windows!Next, WP!Next, Windows!FireAlarm, WP!FireAlarm, Windows!tempmonitor,
  WP!tempmonitor, Windows!RaiseAlarms, WP!RaiseAlarms, Windows!Sensor, WP!Sensor,
  Windows!monitors, WP!monitors, Windows!deletenodes, WP!deletenodes,
  Windows!median, WP!median, Windows!qsort, WP!qsort, Windows!TooHot, WP!TooHot,
  Windows!RisesFast, WP!RisesFast, Windows!Cardinality, WP!Cardinality,
  Windows!IsFiniteSet, WP!IsFiniteSet

LEMMA ShortSteps ==
  (Short!Init <=> SP!Init) /\ (Short!Next <=> SP!Next)
BY DEF Short!Init, SP!Init, Short!Levels, SP!Levels,
  Short!Next, SP!Next, Short!FireAlarm, SP!FireAlarm, Short!tempmonitor,
  SP!tempmonitor, Short!RaiseAlarms, SP!RaiseAlarms, Short!Sensor, SP!Sensor,
  Short!monitors, SP!monitors, Short!deletenodes, SP!deletenodes,
  Short!median, SP!median, Short!qsort, SP!qsort, Short!TooHot, SP!TooHot,
  Short!RisesFast, SP!RisesFast, Short!Cardinality, SP!Cardinality,
  Short!IsFiniteSet, SP!IsFiniteSet

LEMMA WalkSteps ==
  (Walk!InitWalk <=> KP!InitWalk) /\ (Walk!NextWalk <=> KP!NextWalk)
<1>1. (Walk!Init <=> KP!Init) /\ (Walk!FireAlarm <=> KP!FireAlarm)
  BY DEF Walk!Init, KP!Init, Walk!Levels, KP!Levels, Walk!FireAlarm, KP!FireAlarm,
    Walk!tempmonitor, KP!tempmonitor, Walk!RaiseAlarms, KP!RaiseAlarms,
    Walk!monitors, KP!monitors, Walk!deletenodes, KP!deletenodes, Walk!median,
    KP!median, Walk!qsort, KP!qsort, Walk!TooHot, KP!TooHot, Walk!RisesFast,
    KP!RisesFast, Walk!Cardinality, KP!Cardinality, Walk!IsFiniteSet, KP!IsFiniteSet
<1>2. Walk!InitWalk <=> KP!InitWalk
  BY <1>1 DEF Walk!InitWalk, KP!InitWalk, Walk!Levels, KP!Levels
<1>3. Walk!temp_setter <=> KP!temp_setter
  BY DEF Walk!temp_setter, KP!temp_setter, Walk!SetStart, KP!SetStart, Walk!Change,
    KP!Change, Walk!Changes, KP!Changes, Walk!Degrees, KP!Degrees, Walk!NextLevel,
    KP!NextLevel, Walk!Levels, KP!Levels, Walk!monitors, KP!monitors
<1> QED BY <1>1, <1>2, <1>3 DEF Walk!NextWalk, KP!NextWalk, Walk!walk, KP!walk

(* The invariants of the three sizes. *)
FireInv ==
  /\ size = "windows" => WP!Inv
  /\ size = "short" => SP!Inv
  /\ size = "walk" => KP!WalkInv
  /\ size \in {"windows", "short", "walk"}

LEMMA FireInitInv == FireInit => FireInv
<1> SUFFICES ASSUME FireInit PROVE FireInv OBVIOUS
<1>1. CASE size = "windows" /\ Windows!Init
  BY <1>1, WP!InitInv, Sizes, WindowsSteps DEF FireInv
<1>2. CASE size = "short" /\ Short!Init
  BY <1>2, SP!InitInv, Sizes, ShortSteps DEF FireInv
<1>3. CASE size = "walk" /\ Walk!InitWalk
  BY <1>3, KP!InitWalkInv, Sizes, WalkSteps DEF FireInv
<1> QED BY <1>1, <1>2, <1>3 DEF FireInit

LEMMA FireNextInv == FireInv /\ [FireNext]_fire_vars => FireInv'
<1> SUFFICES ASSUME FireInv, [FireNext]_fire_vars PROVE FireInv' OBVIOUS
<1>1. size' = size BY DEF FireNext, AtShort, fire_vars
<1>2. CASE size = "windows"
  <2>1. WP!Inv BY <1>2 DEF FireInv
  <2>2. Windows!Next \/ UNCHANGED fire_vars BY <1>2 DEF FireNext, AtShort
  <2>3. WP!Next \/ UNCHANGED WP!vars
    BY <2>2, WindowsSteps DEF fire_vars, WP!vars, WP!monitors
  <2>4. WP!Inv' BY <2>1, <2>3, WP!NextInv, Sizes
  <2> QED BY <1>1, <1>2, <2>4 DEF FireInv
<1>3. CASE size = "short"
  <2>1. SP!Inv BY <1>3 DEF FireInv
  <2>2. Short!Next \/ UNCHANGED fire_vars BY <1>3 DEF FireNext, AtShort
  <2>3. SP!Next \/ UNCHANGED SP!vars
    BY <2>2, ShortSteps DEF fire_vars, SP!vars, SP!monitors
  <2>4. SP!Inv' BY <2>1, <2>3, SP!NextInv, Sizes
  <2> QED BY <1>1, <1>3, <2>4 DEF FireInv
<1>4. CASE size = "walk"
  <2>1. KP!WalkInv BY <1>4 DEF FireInv
  <2>2. Walk!NextWalk \/ UNCHANGED fire_vars BY <1>4 DEF FireNext, AtShort
  <2>3. KP!NextWalk \/ UNCHANGED <<KP!vars, KP!walk>>
    BY <2>2, WalkSteps DEF fire_vars, walk_vars, KP!vars, KP!monitors, KP!walk
  <2>4. KP!WalkInv' BY <2>1, <2>3, KP!WalkInvKept, Sizes
  <2> QED BY <1>1, <1>4, <2>4 DEF FireInv
<1> QED BY <1>2, <1>3, <1>4 DEF FireInv

LEMMA FireInductive == FireSpec => []FireInv
BY FireInitInv, FireNextInv, PTL DEF FireSpec

(* The lists hold the last readings and the medians of their windows, at   *)
(* every size that is checked (firealarm.c:72-97).                         *)
THEOREM MediansCorrect == FireSpec => []MediansOfReadings
<1>1. FireInv => MediansOfReadings
  <2> SUFFICES ASSUME FireInv PROVE MediansOfReadings OBVIOUS
  <2>1. size = "windows" => Windows!MediansOfReadings
    <3>1. size = "windows" => WP!MediansOfReadings
      BY Sizes, WP!WindowsMean DEF FireInv
    <3> QED BY <3>1 DEF Windows!MediansOfReadings, WP!MediansOfReadings,
      Windows!TypeOK, WP!TypeOK, Windows!IsMedian, WP!IsMedian, Windows!Half, WP!Half,
      Windows!Levels, WP!Levels, Windows!Cardinality, WP!Cardinality,
      Windows!IsFiniteSet, WP!IsFiniteSet
  <2>2. size = "short" => Short!MediansOfReadings
    <3>1. size = "short" => SP!MediansOfReadings
      BY Sizes, SP!WindowsMean DEF FireInv
    <3> QED BY <3>1 DEF Short!MediansOfReadings, SP!MediansOfReadings,
      Short!TypeOK, SP!TypeOK, Short!IsMedian, SP!IsMedian, Short!Half, SP!Half,
      Short!Levels, SP!Levels, Short!Cardinality, SP!Cardinality,
      Short!IsFiniteSet, SP!IsFiniteSet
  <2>3. size = "walk" => Walk!MediansOfReadings
    <3>1. size = "walk" => KP!MediansOfReadings
      BY Sizes, KP!WindowsMean DEF FireInv, KP!WalkInv
    <3> QED BY <3>1 DEF Walk!MediansOfReadings, KP!MediansOfReadings,
      Walk!TypeOK, KP!TypeOK, Walk!IsMedian, KP!IsMedian, Walk!Half, KP!Half,
      Walk!Levels, KP!Levels, Walk!Cardinality, KP!Cardinality,
      Walk!IsFiniteSet, KP!IsFiniteSet
  <2> QED BY <2>1, <2>2, <2>3 DEF MediansOfReadings
<1> QED BY <1>1, FireInductive, PTL

(* Outliers cannot pass for heat (firealarm.c:88, 108). *)
THEOREM HeatSustained == FireSpec => []HeatIsSustained
<1>1. FireInv => HeatIsSustained
  <2> SUFFICES ASSUME FireInv PROVE HeatIsSustained OBVIOUS
  <2>1. size = "windows" => Windows!HeatIsSustained
    <3>1. size = "windows" => WP!HeatIsSustained
      BY Sizes, WP!NotOutliers DEF FireInv
    <3> QED BY <3>1 DEF Windows!HeatIsSustained, WP!HeatIsSustained, Windows!TooHot,
      WP!TooHot, Windows!Hot, WP!Hot, Windows!Half, WP!Half, Windows!Levels, WP!Levels,
      Windows!Cardinality, WP!Cardinality, Windows!IsFiniteSet, WP!IsFiniteSet
  <2>2. size = "short" => Short!HeatIsSustained
    <3>1. size = "short" => SP!HeatIsSustained
      BY Sizes, SP!NotOutliers DEF FireInv
    <3> QED BY <3>1 DEF Short!HeatIsSustained, SP!HeatIsSustained, Short!TooHot,
      SP!TooHot, Short!Hot, SP!Hot, Short!Half, SP!Half, Short!Levels, SP!Levels,
      Short!Cardinality, SP!Cardinality, Short!IsFiniteSet, SP!IsFiniteSet
  <2> QED BY <2>1, <2>2 DEF HeatIsSustained
<1> QED BY <1>1, FireInductive, PTL

(* The simulator's walk stays near its start and never looks like heat     *)
(* (simulator_funcs.c:513-526 with firealarm.c:97-115).                    *)
THEOREM WalkStaysCool == FireSpec => []NeverTooHot
<1>1. FireInv => NeverTooHot
  <2>1. FireInv /\ size = "walk" => KP!NeverTooHot
    BY Sizes, KP!NotTooHot DEF FireInv
  <2> QED BY <2>1 DEF NeverTooHot, Walk!NeverTooHot, KP!NeverTooHot,
    Walk!TempNearStart, KP!TempNearStart, Walk!TooHot, KP!TooHot, Walk!Levels,
    KP!Levels, Walk!Cardinality, KP!Cardinality, Walk!IsFiniteSet, KP!IsFiniteSet
<1> QED BY <1>1, FireInductive, PTL

-----------------------------------------------------------------------------
(* The reader of a level serves any number of cars, one at a time.         *)

(* The inductive invariant.  HandledWhenToldSo alone is not inductive: a   *)
(* signal goes to whoever waits at the reader, so who can wait there, and  *)
(* whom the signal was meant for, has to be known at every point.          *)

(* Who shows its plate or waits at the reader holds outer_level_m. *)
OneVisitor ==
  \A c \in Visitors : pc[c] \in {"lock lpr", "await done"} <=> owner["outer"] = c

(* One car waits to be handled, and the manager was told so or is at it. *)
CarWaits(plate) ==
  \E c \in Visitors : /\ waits["lpr"] = {c}
                  /\ pc[c] = "await done"
                  /\ plate = c
                  /\ seen[c] = 0

(* The manager waits for the next car, and nobody else waits. *)
ManagerWaits ==
  /\ waits["lpr"] = {mgr}
  /\ \A c \in Visitors : pc[c] = "await done" => seen[c] = 1

NobodyYet ==
  /\ waits["lpr"] = {}
  /\ \A c \in Visitors : pc[c] # "await done"

(* The four situations at the reader. *)
HandOver ==
  \/ pc[mgr] = "start" /\ NobodyYet
  \/ pc[mgr] = "await car" /\ (ManagerWaits \/ CarWaits(lpr))
  \/ pc[mgr] = "assign" /\ CarWaits(level_rego)

ReaderLabels ==
  /\ pc[mgr] \in {"start", "await car", "assign"}
  /\ \A c \in Visitors : pc[c] \in {"driving", "lock lpr", "await done"}
  /\ owner["lpr"] = IF pc[mgr] = "assign" THEN mgr ELSE None
  /\ waits["outer"] = {}

ReaderInv == Reader!TypeOK /\ ReaderLabels /\ OneVisitor /\ HandOver

-----------------------------------------------------------------------------
(* A signal to the only waiting thread wakes that one. *)
LEMMA SignalToOne ==
  ASSUME Reader!TypeOK, NEW x, NEW t, waits["lpr"] = {x}, Reader!SignalAndWait(t, "lpr", "lpr")
  PROVE  waits' = [waits EXCEPT !["lpr"] = {t}]
<1>1. waits["lpr"] # {} BY DEF Reader!TypeOK
<1>2. PICK w \in {[waits EXCEPT !["lpr"] = @ \ {u}] : u \in waits["lpr"]} :
        waits' = [w EXCEPT !["lpr"] = @ \union {t}]
  BY <1>1 DEF Reader!SignalAndWait, Reader!AfterSignal
<1>3. w = [waits EXCEPT !["lpr"] = {}]
  <2>1. w = [waits EXCEPT !["lpr"] = waits["lpr"] \ {x}] BY <1>2
  <2> QED BY <2>1
<1>4. w["lpr"] = {} BY <1>3 DEF Reader!TypeOK, Reader!Objects
<1> QED BY <1>2, <1>3, <1>4 DEF Reader!TypeOK, Reader!Objects

LEMMA SeenType ==
  ASSUME NEW f \in [Visitors -> 0 .. 1], NEW c \in Visitors
  PROVE  /\ [f EXCEPT ![c] = 0] \in [Visitors -> 0 .. 1]
         /\ [f EXCEPT ![c] = 1] \in [Visitors -> 0 .. 1]
OBVIOUS

LEMMA ReaderInit == Reader!ManagerIsNoCar /\ Reader!Init => ReaderInv
BY
   DEF Reader!ManagerIsNoCar, Reader!Init, ReaderInv, Reader!TypeOK, ReaderLabels,
       OneVisitor, HandOver, NobodyYet, Reader!Objects, Reader!Threads

(* One car at a time waits for the manager. *)
LEMMA OnlyOne ==
  ASSUME ReaderInv, Reader!ManagerIsNoCar, NEW c \in Visitors, NEW d \in Visitors,
         pc[c] \in {"lock lpr", "await done"}, pc[d] \in {"lock lpr", "await done"}
  PROVE  c = d
BY DEF ReaderInv, OneVisitor

LEMMA ReaderNext == Reader!ManagerIsNoCar /\ ReaderInv /\ [Reader!Next]_(Reader!vars) => ReaderInv'
<1> SUFFICES ASSUME Reader!ManagerIsNoCar, ReaderInv, [Reader!Next]_(Reader!vars) PROVE ReaderInv' OBVIOUS
<1>0. /\ pc \in [Reader!Threads -> {"start", "await car", "assign", "driving",
                             "lock lpr", "await done"}]
      /\ owner \in [Reader!Objects -> Reader!Threads \union {None}]
      /\ waits \in [Reader!Objects -> SUBSET Reader!Threads]
      /\ seen \in [Visitors -> 0 .. 1]
      /\ mgr \in Reader!Threads /\ Visitors \subseteq Reader!Threads /\ mgr \notin Visitors
      /\ "lpr" \in Reader!Objects /\ "outer" \in Reader!Objects
  BY DEF ReaderInv, Reader!TypeOK, Reader!Threads, Reader!Objects, Reader!ManagerIsNoCar
<1> USE <1>0
<1>1. CASE Reader!Start
  <2>1. waits' = [waits EXCEPT !["lpr"] = {mgr}]
    BY <1>1 DEF Reader!Start, Reader!At, Reader!Wait, ReaderInv, HandOver, NobodyYet
  <2>2. pc' = [pc EXCEPT ![mgr] = "await car"] BY <1>1 DEF Reader!Start, Reader!Goto
  <2> QED
    BY <1>1, <2>1, <2>2, ZenonT(40)
       DEF Reader!Start, Reader!At, Reader!IsFree, ReaderInv, Reader!TypeOK,
           ReaderLabels, OneVisitor, HandOver, NobodyYet, ManagerWaits
<1>2. CASE Reader!ReadPlate
  <2>1. CarWaits(lpr)
    BY <1>2
       DEF Reader!ReadPlate, Reader!At, Reader!Resumes, ReaderInv, HandOver,
           ManagerWaits
  <2>2. owner' = [owner EXCEPT !["lpr"] = mgr] BY <1>2 DEF Reader!ReadPlate, Reader!Give
  <2>3. pc' = [pc EXCEPT ![mgr] = "assign"] BY <1>2 DEF Reader!ReadPlate, Reader!Goto
  <2> QED
    BY <1>2, <2>1, <2>2, <2>3
       DEF Reader!ReadPlate, ReaderInv, Reader!TypeOK, ReaderLabels, OneVisitor,
           HandOver, CarWaits, Reader!Threads
<1>3. CASE Reader!AssignLevel
  <2>1. PICK c \in Visitors : /\ waits["lpr"] = {c} /\ pc[c] = "await done"
                          /\ level_rego = c /\ seen[c] = 0
    BY <1>3 DEF Reader!AssignLevel, Reader!At, ReaderInv, HandOver, CarWaits
  <2>2. waits' = [waits EXCEPT !["lpr"] = {mgr}]
    BY <1>3, <2>1, SignalToOne DEF Reader!AssignLevel, ReaderInv
  <2>3. owner' = [owner EXCEPT !["lpr"] = None]
    BY <1>3 DEF Reader!AssignLevel, Reader!Release, Reader!Give
  <2>4. pc' = [pc EXCEPT ![mgr] = "await car"] BY <1>3 DEF Reader!AssignLevel, Reader!Goto
  <2>5. seen' = [seen EXCEPT ![c] = 1]
    <3>1. seen' = [seen EXCEPT ![level_rego] = seen[level_rego] + 1] BY <1>3 DEF Reader!AssignLevel
    <3>2. seen[level_rego] + 1 = 1
      <4>1. seen[level_rego] = 0 BY <2>1
      <4> QED BY ONLY <4>1
    <3> QED BY <2>1, <3>1, <3>2
  <2>6. \A d \in Visitors : pc'[d] = "await done" => d = c
    BY <2>1, <2>4, OnlyOne
  <2> QED
    <3>1. Reader!TypeOK'
      <4>1. UNCHANGED <<lpr, level_rego>> /\ None \in Reader!Threads \union {None}
        BY <1>3 DEF Reader!AssignLevel
      <4>2. owner' \in [Reader!Objects -> Reader!Threads \union {None}] BY <2>3, <4>1
      <4>3. waits' \in [Reader!Objects -> SUBSET Reader!Threads] BY <2>2
      <4>4. seen' \in [Visitors -> 0 .. 1] BY <2>5, SeenType
      <4> QED BY <2>4, <4>1, <4>2, <4>3, <4>4 DEF ReaderInv, Reader!TypeOK
    <3>0. waits'["outer"] = waits["outer"] BY <2>2
    <3>2. ReaderLabels' /\ OneVisitor'
      <4>1. OneVisitor' BY <2>1, <2>3, <2>4 DEF ReaderInv, OneVisitor
      <4>2. ReaderLabels' BY <2>3, <2>4, <3>0 DEF ReaderInv, ReaderLabels
      <4> QED BY <4>1, <4>2
    <3>3. HandOver'
      BY <2>1, <2>2, <2>4, <2>5, <2>6 DEF HandOver, ManagerWaits
    <3> QED BY <3>1, <3>2, <3>3 DEF ReaderInv
<1>4. ASSUME NEW c \in Visitors, Reader!Come(c) PROVE ReaderInv'
  <2>1. owner' = [owner EXCEPT !["outer"] = c] /\ owner["outer"] = None
    BY <1>4 DEF Reader!Come, Reader!Take, Reader!Give, Reader!IsFree
  <2>2. pc' = [pc EXCEPT ![c] = "lock lpr"] /\ pc[c] = "driving"
    BY <1>4 DEF Reader!Come, Reader!Goto, Reader!At
  <2>3. \A d \in Visitors : pc[d] = "driving"
    BY <2>1
       DEF ReaderInv, OneVisitor, ReaderLabels, Reader!ManagerIsNoCar, Reader!Threads
  <2> QED
    BY <1>4, <2>1, <2>2, <2>3
       DEF Reader!Come, ReaderInv, Reader!TypeOK, ReaderLabels, OneVisitor, HandOver,
           ManagerWaits, CarWaits, NobodyYet, Reader!Threads
<1>5. ASSUME NEW c \in Visitors, Reader!ShowPlate(c) PROVE ReaderInv'
  <2>1. pc[c] = "lock lpr" /\ pc[mgr] # "start" /\ owner["lpr"] = None
    BY <1>5 DEF Reader!ShowPlate, Reader!At, Reader!IsFree
  <2>2. pc[mgr] = "await car" /\ waits["lpr"] = {mgr}
    <3>1. pc[mgr] # "assign" BY <2>1 DEF ReaderInv, ReaderLabels, Reader!ManagerIsNoCar
    <3>2. ~ CarWaits(lpr) BY <2>1, OnlyOne DEF CarWaits
    <3> QED BY <2>1, <3>1, <3>2 DEF ReaderInv, HandOver, ManagerWaits
  <2>3. waits' = [waits EXCEPT !["lpr"] = {c}]
    BY <1>5, <2>2, SignalToOne DEF Reader!ShowPlate, ReaderInv
  <2>4. pc' = [pc EXCEPT ![c] = "await done"] BY <1>5 DEF Reader!ShowPlate, Reader!Goto
  <2>5. seen' = [seen EXCEPT ![c] = 0] BY <1>5 DEF Reader!ShowPlate
  <2> QED
    <3>1. lpr' = c /\ UNCHANGED <<owner, level_rego>> BY <1>5 DEF Reader!ShowPlate
    <3>2. Reader!TypeOK'
      <4>1. waits' \in [Reader!Objects -> SUBSET Reader!Threads] BY <2>3
      <4>2. seen' \in [Visitors -> 0 .. 1] BY <2>5, SeenType
      <4> QED BY <2>4, <3>1, <4>1, <4>2 DEF ReaderInv, Reader!TypeOK
    <3>0. waits'["outer"] = waits["outer"] BY <2>3
    <3>3. ReaderLabels' /\ OneVisitor'
      <4>1. OneVisitor' BY <2>1, <2>4, <3>1 DEF ReaderInv, OneVisitor
      <4>2. ReaderLabels' BY <2>2, <2>4, <3>0, <3>1 DEF ReaderInv, ReaderLabels
      <4> QED BY <4>1, <4>2
    <3>4. CarWaits(lpr)'
      BY <2>3, <2>4, <2>5, <3>1 DEF CarWaits
    <3> QED BY <2>2, <2>4, <3>2, <3>3, <3>4 DEF ReaderInv, HandOver
<1>6. ASSUME NEW c \in Visitors, Reader!DriveOn(c) PROVE ReaderInv'
  <2>1. owner' = [owner EXCEPT !["outer"] = None]
    BY <1>6 DEF Reader!DriveOn, Reader!Release, Reader!Give
  <2>2. /\ pc' = [pc EXCEPT ![c] = "driving"] /\ pc[c] = "await done"
        /\ c \notin waits["lpr"]
    BY <1>6 DEF Reader!DriveOn, Reader!Goto, Reader!At, Reader!Resumes
  <2>3. \A d \in Visitors : pc'[d] = "driving" BY <2>2, OnlyOne DEF ReaderInv, ReaderLabels
  <2>4. ~ CarWaits(lpr) /\ ~ CarWaits(level_rego) BY <2>2, OnlyOne DEF CarWaits
  <2> QED
    BY <1>6, <2>1, <2>2, <2>3, <2>4, ZenonT(40)
       DEF Reader!DriveOn, ReaderInv, Reader!TypeOK, ReaderLabels, OneVisitor, HandOver,
           ManagerWaits, NobodyYet, Reader!Threads, Reader!ManagerIsNoCar
<1>7. CASE UNCHANGED Reader!vars
  BY <1>7
     DEF Reader!vars, ReaderInv, Reader!TypeOK, ReaderLabels, OneVisitor, HandOver,
         ManagerWaits, CarWaits, NobodyYet
<1> QED BY <1>1, <1>2, <1>3, <1>4, <1>5, <1>6, <1>7 DEF Reader!Next, Reader!Manager, Reader!Car

LEMMA ReaderInductive ==
  ASSUME Reader!ManagerIsNoCar
  PROVE  Spec => []ReaderInv
<1>1. Init => ReaderInv BY ReaderInit DEF Init
<1>2. ReaderInv /\ [Next]_vars => ReaderInv'
  <2>1. [Next]_vars => [Reader!Next]_(Reader!vars)
    BY DEF Next, MapStep, ListStep, PlatesStep, BillsStep, AtReader, vars,
           reader_vars, Reader!vars
  <2> QED BY <2>1, ReaderNext
<1> QED BY <1>1, <1>2, PTL DEF Spec

LEMMA HandledOnce ==
  ASSUME Reader!ManagerIsNoCar, ReaderInv, NEW c \in Visitors,
         pc[c] = "await done", c \notin waits["lpr"]
  PROVE  seen[c] = 1
<1>1. ~ CarWaits(lpr) /\ ~ CarWaits(level_rego) BY OnlyOne DEF CarWaits
<1> QED BY <1>1 DEF ReaderInv, HandOver, NobodyYet, ManagerWaits

(* Where a thread may be stuck at the reader. *)
LEMMA StuckAtReader ==
  ASSUME NEW t \in Reader!Threads
  PROVE  Reader!Stuck(t) <=>
           \/ t \in waits["outer"] \/ t \in waits["lpr"]
           \/ owner["outer"] # None /\ pc[t] = "driving"
           \/ /\ owner["lpr"] # None
              /\ pc[t] \in {"start", "await car", "lock lpr", "await done"}
<1>1. /\ Reader!Needing["outer"] = {"driving"}
      /\ Reader!Needing["lpr"] = {"start", "await car", "lock lpr", "await done"}
  BY DEF Reader!Needing
<1> QED BY <1>1 DEF Reader!Stuck, Reader!Objects, Reader!IsFree

LEMMA OneGoesOn ==
  ASSUME Reader!ManagerIsNoCar, ReaderInv
  PROVE  Reader!VisitsNeverStuck
<1> SUFFICES ASSUME NEW c \in Visitors, pc[c] # "driving",
                    Reader!Stuck(mgr)
             PROVE  ~ Reader!Stuck(c)
  BY DEF Reader!VisitsNeverStuck
<1>0. /\ mgr \in Reader!Threads /\ c \in Reader!Threads /\ mgr # c
      /\ mgr \notin waits["outer"] /\ c \notin waits["outer"]
      /\ pc[c] \in {"lock lpr", "await done"}
  BY DEF Reader!Threads, Reader!ManagerIsNoCar, ReaderInv, ReaderLabels
<1>1. pc[mgr] = "await car" /\ owner["lpr"] = None
  <2>1. CASE pc[mgr] = "start"
    <3>1. owner["lpr"] = None /\ waits["lpr"] = {}
      BY <2>1 DEF ReaderInv, ReaderLabels, HandOver, NobodyYet
    <3> QED BY <1>0, <2>1, <3>1, StuckAtReader
  <2>2. CASE pc[mgr] = "assign"
    <3>1. mgr \notin waits["lpr"]
      <4>1. CarWaits(level_rego) BY <2>2 DEF ReaderInv, HandOver
      <4> QED BY <4>1 DEF CarWaits, Reader!ManagerIsNoCar
    <3> QED BY <1>0, <2>2, <3>1, StuckAtReader
  <2> QED BY <2>1, <2>2 DEF ReaderInv, ReaderLabels
<1>2. mgr \in waits["lpr"] BY <1>0, <1>1, StuckAtReader
<1>3. c \notin waits["lpr"]
  <2>1. ~ CarWaits(lpr) BY <1>2 DEF CarWaits, Reader!ManagerIsNoCar
  <2> QED BY <1>0, <1>1, <2>1 DEF ReaderInv, HandOver, ManagerWaits
<1> QED BY <1>0, <1>1, <1>3, StuckAtReader

(* A car drives on only when the manager has handled it in this visit, and *)
(* nobody is ever left at a level's reader with nobody to wake him: the    *)
(* car that holds outer_level_m or the manager can go on, for any number   *)
(* of cars (simulator_funcs.c:316, manager_funcs.c:316).                   *)
THEOREM VisitsCorrect ==
  ASSUME Reader!ManagerIsNoCar
  PROVE  Spec => []VisitsSound
<1>1. ReaderInv => VisitsSound
  <2>1. ReaderInv => Reader!TypeOK BY DEF ReaderInv
  <2>2. ReaderInv => Reader!HandledWhenToldSo
    BY HandledOnce DEF Reader!HandledWhenToldSo
  <2>3. ReaderInv => Reader!VisitsNeverStuck BY OneGoesOn
  <2> QED BY <2>1, <2>2, <2>3 DEF VisitsSound
<1> QED BY <1>1, ReaderInductive, PTL

(* The manager handles the car that waits at the reader, never a plate     *)
(* left there by a car before it.                                          *)
THEOREM RightCarHandled ==
  ASSUME Reader!ManagerIsNoCar
  PROVE  Spec => HandlesTheCarAtTheReader
<1>1. ReaderInv /\ [Next]_vars =>
        [\A c \in Visitors : seen'[c] > seen[c]
            => pc[c] = "await done" /\ c \in waits["lpr"]]_(Reader!vars)
  <2> SUFFICES ASSUME ReaderInv, Next, ~ UNCHANGED Reader!vars,
                      NEW c \in Visitors, seen'[c] > seen[c]
               PROVE  pc[c] = "await done" /\ c \in waits["lpr"]
    BY DEF vars, reader_vars, Reader!vars
  <2>0. Reader!Next
    BY DEF Next, MapStep, ListStep, PlatesStep, BillsStep, AtReader, reader_vars,
           Reader!vars
  <2>1. seen \in [Visitors -> 0 .. 1] /\ seen[c] \in 0 .. 1
    BY DEF ReaderInv, Reader!TypeOK
  <2>2. ASSUME NEW d \in Visitors, Reader!ShowPlate(d) PROVE FALSE
    <3>1. seen' = [seen EXCEPT ![d] = 0] BY <2>2 DEF Reader!ShowPlate
    <3>2. seen'[c] = 0 \/ seen'[c] = seen[c] BY <2>1, <3>1
    <3> QED BY <2>1, <3>2
  <2>3. Reader!AssignLevel
    <3>1. seen' # seen BY <2>1
    <3> QED BY <2>0, <2>2, <3>1
            DEF Reader!Next, Reader!Manager, Reader!Start, Reader!ReadPlate,
                Reader!Car, Reader!Come, Reader!DriveOn
  <2>4. PICK d \in Visitors : /\ waits["lpr"] = {d} /\ pc[d] = "await done"
                              /\ level_rego = d
    BY <2>3 DEF Reader!AssignLevel, Reader!At, ReaderInv, HandOver, CarWaits
  <2>5. c = d
    <3>1. seen' = [seen EXCEPT ![d] = seen[d] + 1] BY <2>3, <2>4 DEF Reader!AssignLevel
    <3>2. c # d => seen'[c] = seen[c] BY <2>1, <3>1
    <3> QED BY <2>1, <3>2
  <2> QED BY <2>4, <2>5
<1> QED BY <1>1, ReaderInductive, PTL
        DEF Spec, HandlesTheCarAtTheReader, Reader!HandlesTheCarAtTheReader

-----------------------------------------------------------------------------
(* The queue: a list whose links are sound in both directions.             *)

(* The nodes behind h along nx, None behind the last one: NodeAt of a list *)
(* with the given head and links.                                          *)
Chain(h, nx) ==
  CHOOSE f : f = [i \in 1 .. List!Capacity + 1 |->
                    IF i = 1 THEN h
                    ELSE IF f[i - 1] = None THEN None ELSE nx[f[i - 1]]]

(* The nodes s[1] to s[n] are the list with the given ends and links.      *)
Linked(n, s, h, t, nx, pv) ==
  /\ \A i, j \in 1 .. n : s[i] = s[j] => i = j
  /\ n = 0 => h = None /\ t = None
  /\ n # 0 => h = s[1] /\ t = s[n]
  /\ \A i \in 1 .. n : /\ i = n => nx[s[i]] = None
                       /\ i # n => nx[s[i]] = s[i + 1]
                       /\ i = 1 => pv[s[i]] = None
                       /\ i # 1 => pv[s[i]] = s[i - 1]

(* The inductive invariant: ListSound follows NodeAt from the head; that   *)
(* it survives a step is seen from the list itself.                        *)
IsQueue(n, s) ==
  /\ Linked(n, s, head, tail, next, prev)
  /\ allocated = {s[i] : i \in 1 .. n}

QueueInv ==
  /\ List!TypeOK
  /\ ~ misused
  /\ \E n \in Nat : \E s \in [1 .. n -> Nodes] : IsQueue(n, s)

LEMMA SizesOfSets ==
  ASSUME NEW S
  PROVE  /\ List!IsFiniteSet(S) <=> IsFiniteSet(S)
         /\ List!Cardinality(S) = Cardinality(S)
BY DEF List!IsFiniteSet, IsFiniteSet, List!Cardinality, Cardinality

LEMMA CapacityIsNat ==
  ASSUME List!NodesAssumption
  PROVE  IsFiniteSet(Nodes) /\ List!Capacity \in Nat /\ None \notin Nodes /\ None \notin Regos
<1>1. IsFiniteSet(Nodes) /\ None \notin Nodes /\ None \notin Regos
  BY SizesOfSets DEF List!NodesAssumption
<1>2. List!Capacity = Cardinality(Nodes) BY SizesOfSets DEF List!Capacity
<1> QED BY <1>1, <1>2, FS_CardinalityType

(* A list of distinct nodes fits into the memory.                          *)
LEMMA Fits ==
  ASSUME List!NodesAssumption, NEW n \in Nat, NEW s \in [1 .. n -> Nodes],
         \A i, j \in 1 .. n : s[i] = s[j] => i = j
  PROVE  /\ n <= List!Capacity
         /\ n = List!Capacity => {s[i] : i \in 1 .. n} = Nodes
<1>1. s \in Injection(1 .. n, Nodes) BY DEF Injection, IsInjective
<1>2. IsFiniteSet(Nodes) BY CapacityIsNat
<1>3. /\ Cardinality(1 .. n) <= Cardinality(Nodes)
      /\ Cardinality(1 .. n) = Cardinality(Nodes) <=> s \in Surjection(1 .. n, Nodes)
  BY <1>1, <1>2, FS_Injection
<1>4. Cardinality(1 .. n) = IF 1 > n THEN 0 ELSE n - 1 + 1 BY FS_Interval
<1>5. Cardinality(1 .. n) = n BY <1>4
<1>6. ASSUME s \in Surjection(1 .. n, Nodes)
      PROVE  {s[i] : i \in 1 .. n} = Nodes
  BY <1>6 DEF Surjection
<1>7. List!Capacity = Cardinality(Nodes) BY SizesOfSets DEF List!Capacity
<1> QED BY <1>3, <1>5, <1>6, <1>7

LEMMA ChainIsList ==
  ASSUME List!NodesAssumption, NEW n \in Nat, NEW s \in [1 .. n -> Nodes],
         NEW h, NEW t, NEW nx, NEW pv, Linked(n, s, h, t, nx, pv)
  PROVE  \A i \in 1 .. List!Capacity + 1 :
           /\ i <= n => Chain(h, nx)[i] = s[i]
           /\ i > n => Chain(h, nx)[i] = None
<1>1. List!Capacity \in Nat /\ None \notin Nodes BY CapacityIsNat
<1>2. n <= List!Capacity BY Fits DEF Linked
<1> DEFINE C == 1 .. List!Capacity + 1
           g == [i \in C |-> IF i <= n THEN s[i] ELSE None]
           Follows(f) == f = [i \in C |->
                                IF i = 1 THEN h
                                ELSE IF f[i - 1] = None THEN None ELSE nx[f[i - 1]]]
<1>3. ASSUME NEW i \in C
      PROVE  g[i] = IF i = 1 THEN h
                    ELSE IF g[i - 1] = None THEN None ELSE nx[g[i - 1]]
  <2>1. CASE i = 1 /\ n = 0 BY <2>1, <1>1 DEF Linked
  <2>2. CASE i = 1 /\ n # 0 BY <2>2, <1>1 DEF Linked
  <2>3. CASE i # 1
    <3>1. i - 1 \in C /\ i \in Nat BY <2>3, <1>1
    <3>2. CASE i <= n
      <4>1. g[i - 1] = s[i - 1] /\ i - 1 \in 1 .. n BY <3>1, <3>2, <2>3, <1>1
      <4>2. nx[s[i - 1]] = s[i - 1 + 1] BY <4>1, <3>1, <3>2 DEF Linked
      <4>3. i - 1 + 1 = i BY <3>1
      <4>4. s[i - 1] # None BY <4>1, <1>1
      <4> QED BY <4>1, <4>2, <4>3, <4>4, <3>2, <2>3
    <3>3. CASE i = n + 1
      <4>1. g[i - 1] = s[n] /\ n \in 1 .. n BY <3>1, <3>3, <2>3, <1>1
      <4>2. nx[s[n]] = None BY <4>1 DEF Linked
      <4>3. ~ (i <= n) BY <3>3
      <4> QED BY <4>1, <4>2, <4>3, <2>3
    <3>4. CASE i > n + 1
      <4>1. ~ (i - 1 <= n) /\ ~ (i <= n) BY <3>1, <3>4
      <4> QED BY <4>1, <3>1, <2>3
    <3> QED BY <3>1, <3>2, <3>3, <3>4
  <2> QED BY <2>1, <2>2, <2>3
<1>4. Follows(g)
  <2>1. g = [i \in C |-> g[i]] OBVIOUS
  <2>2. [i \in C |-> g[i]] =
          [i \in C |-> IF i = 1 THEN h
                       ELSE IF g[i - 1] = None THEN None ELSE nx[g[i - 1]]]
    <3> HIDE DEF g, C
    <3> QED BY <1>3
  <2> HIDE DEF g
  <2> QED BY <2>1, <2>2
<1>5. PICK f : f = Chain(h, nx) OBVIOUS
<1>6. f = CHOOSE x : Follows(x) BY <1>5 DEF Chain
<1>7. Follows(f)
  <2> HIDE DEF Follows, g
  <2> QED BY <1>4, <1>6
<1>8. \A i \in C : f[i] = IF i = 1 THEN h
                          ELSE IF f[i - 1] = None THEN None ELSE nx[f[i - 1]]
  <2>1. f = [i \in C |-> IF i = 1 THEN h
                         ELSE IF f[i - 1] = None THEN None ELSE nx[f[i - 1]]]
    BY <1>7
  <2> QED BY <2>1
<1>9. \A i \in C : i \in Nat /\ (i # 1 => i - 1 \in C) BY <1>1
<1>10. \A i \in C : (i <= n => g[i] = s[i]) /\ (i > n => g[i] = None) BY <1>1
<1> HIDE DEF C, g, Follows
<1>11. \A i \in C : f[i] = g[i]
  <2> DEFINE Bad == {i \in C : f[i] # g[i]}
  <2>1. Bad \in SUBSET Nat BY <1>9
  <2>2. \A i : i \in Bad <=> i \in C /\ f[i] # g[i] OBVIOUS
  <2> HIDE DEF Bad
  <2>3. SUFFICES ASSUME Bad # {} PROVE FALSE BY <2>2
  <2>4. PICK k \in Nat : k \in Bad /\ \A i \in Bad : k <= i
    BY <2>1, <2>3, WP!LeastNat
  <2>5. k \in C /\ f[k] # g[k] BY <2>2, <2>4
  <2>6. k # 1 BY <2>5, <1>3, <1>8
  <2>7. k - 1 \in C BY <2>5, <2>6, <1>9
  <2>8. k - 1 \notin Bad
    <3>1. ~ (k <= k - 1) OBVIOUS
    <3> QED BY <3>1, <2>4
  <2>9. f[k - 1] = g[k - 1] BY <2>2, <2>7, <2>8
  <2> QED BY <2>5, <2>6, <2>9, <1>3, <1>8
<1> QED BY <1>5, <1>10, <1>11 DEF C

LEMMA ListPlaces ==
  ASSUME List!NodesAssumption, NEW n \in Nat, NEW s \in [1 .. n -> Nodes],
         NEW h, NEW t, NEW nx, NEW pv, Linked(n, s, h, t, nx, pv)
  PROVE  /\ {i \in 1 .. List!Capacity + 1 : Chain(h, nx)[i] # None} = 1 .. n
         /\ Cardinality(1 .. n) = n
<1>1. List!Capacity \in Nat /\ None \notin Nodes BY CapacityIsNat
<1>2. n <= List!Capacity BY Fits DEF Linked
<1>3. \A i \in 1 .. List!Capacity + 1 :
        /\ i <= n => Chain(h, nx)[i] = s[i]
        /\ i > n => Chain(h, nx)[i] = None
  BY ChainIsList
<1>4. \A i \in 1 .. n : s[i] # None BY <1>1
<1>5. \A i \in 1 .. n : i \in 1 .. List!Capacity + 1 BY <1>1, <1>2
<1>6. {i \in 1 .. List!Capacity + 1 : Chain(h, nx)[i] # None} = 1 .. n
  <2>1. ASSUME NEW i \in 1 .. List!Capacity + 1, Chain(h, nx)[i] # None
        PROVE  i \in 1 .. n
    <3>1. i \in Nat /\ i >= 1 BY <1>1
    <3>2. ~ (i > n) BY <2>1, <1>3
    <3> QED BY <3>1, <3>2
  <2>2. ASSUME NEW i \in 1 .. n
        PROVE  i \in 1 .. List!Capacity + 1 /\ Chain(h, nx)[i] # None
    <3>1. i \in 1 .. List!Capacity + 1 /\ i <= n BY <1>5
    <3>2. Chain(h, nx)[i] = s[i] BY <3>1, <1>3
    <3> QED BY <3>1, <3>2, <1>4
  <2> QED BY <2>1, <2>2
<1>7. Cardinality(1 .. n) = IF 1 > n THEN 0 ELSE n - 1 + 1 BY FS_Interval
<1> QED BY <1>6, <1>7

-----------------------------------------------------------------------------
(* The steps.                                                              *)

LEMMA QueueInit ==
  ASSUME List!NodesAssumption, List!init_queue
  PROVE  QueueInv /\ IsQueue(0, [i \in 1 .. 0 |-> None])
<1>1. List!TypeOK BY DEF List!TypeOK, List!init_queue
<1>2. [i \in 1 .. 0 |-> None] \in [1 .. 0 -> Nodes] OBVIOUS
<1>3. IsQueue(0, [i \in 1 .. 0 |-> None]) BY DEF IsQueue, Linked, List!init_queue
<1> QED BY <1>1, <1>2, <1>3 DEF QueueInv, List!init_queue

LEMMA PushTypes ==
  ASSUME List!NodesAssumption, List!TypeOK, NEW v \in Regos, List!push(v)
  PROVE  List!TypeOK'
<1>1. PICK node \in Nodes \ allocated :
        /\ allocated' = allocated \union {node}
        /\ List!Store(node, v)
        /\ tail' = node
        /\ IF head = None
           THEN head' = node /\ List!Link(node, None) /\ UNCHANGED misused
           ELSE List!Misuse({tail}) /\ List!Link(node, tail) /\ UNCHANGED head
        /\ last' = <<"push", v>>
  BY DEF List!push
<1>2. /\ head \in Nodes \union {None} /\ tail \in Nodes \union {None}
      /\ next \in [Nodes -> Nodes \union {None}]
      /\ prev \in [Nodes -> Nodes \union {None}]
      /\ rego \in [Nodes -> Regos \union {None}]
      /\ \A n \in allocated : rego[n] # None
      /\ allocated \subseteq Nodes /\ misused \in BOOLEAN
  BY DEF List!TypeOK
<1>3. v # None BY DEF List!NodesAssumption
<1>4. rego' = [rego EXCEPT ![node] = v] BY <1>1 DEF List!Store
<1>5. rego' \in [Nodes -> Regos \union {None}] BY <1>2, <1>4
<1>6. \A n \in allocated' : rego'[n] # None BY <1>1, <1>2, <1>3, <1>4
<1>7. allocated' \subseteq Nodes /\ tail' \in Nodes /\ head' \in Nodes \union {None}
  BY <1>1, <1>2
<1>8. last' \in {"init", "push", "pop"} \X (Regos \union {None})
  BY <1>1
<1>9. misused' \in BOOLEAN BY <1>1, <1>2 DEF List!Misuse
<1>10. PICK behind \in Nodes \union {None} : List!Link(node, behind) BY <1>1, <1>2
<1>11. next' \in [Nodes -> Nodes \union {None}] BY <1>2, <1>10 DEF List!Link
<1>12. prev' \in [Nodes -> Nodes \union {None}] BY <1>2, <1>10 DEF List!Link
<1> QED BY <1>5, <1>6, <1>7, <1>8, <1>9, <1>11, <1>12 DEF List!TypeOK

LEMMA PopTypes ==
  ASSUME List!NodesAssumption, List!TypeOK, List!pop
  PROVE  List!TypeOK'
<1>1. /\ head \in Nodes \union {None} /\ tail \in Nodes \union {None}
      /\ next \in [Nodes -> Nodes \union {None}]
      /\ prev \in [Nodes -> Nodes \union {None}]
      /\ rego \in [Nodes -> Regos \union {None}]
      /\ \A n \in allocated : rego[n] # None
      /\ allocated \subseteq Nodes /\ misused \in BOOLEAN
  BY DEF List!TypeOK
<1>2. UNCHANGED <<next, rego>>
  BY DEF List!pop, List!PopEmpty, List!PopLast, List!PopFirst, List!fields
<1>3. allocated' \subseteq allocated BY DEF List!pop, List!PopEmpty, List!PopLast, List!PopFirst
<1>4. misused' \in BOOLEAN BY <1>1 DEF List!pop, List!PopEmpty, List!PopLast, List!PopFirst, List!Misuse
<1>5. head \in Nodes \/ head = None BY <1>1
<1>6. head # None => head \in Nodes /\ next[head] \in Nodes \union {None}
  BY <1>1, <1>5
<1>7. head' \in Nodes \union {None} /\ tail' \in Nodes \union {None}
  BY <1>1, <1>6 DEF List!pop, List!PopEmpty, List!PopLast, List!PopFirst
<1>8. head # None => rego[head] \in Regos \union {None} BY <1>1, <1>6
<1>9. last' = <<"pop", None>> \/ (head # None /\ last' = <<"pop", rego[head]>>)
  BY DEF List!pop, List!PopEmpty, List!PopLast, List!PopFirst
<1>10. last' \in {"init", "push", "pop"} \X (Regos \union {None})
  BY <1>8, <1>9
<1>11. prev' = prev \/ \E m : prev' = [prev EXCEPT ![m] = None]
  BY DEF List!pop, List!PopEmpty, List!PopLast, List!PopFirst, List!fields
<1>12. prev' \in [Nodes -> Nodes \union {None}] BY <1>1, <1>11
<1> QED BY <1>1, <1>2, <1>3, <1>4, <1>7, <1>10, <1>12 DEF List!TypeOK

(* The new node comes behind the last one.                                 *)
LEMMA PushQueue ==
  ASSUME List!NodesAssumption, List!TypeOK, ~ misused, NEW v \in Regos, List!push(v),
         NEW n \in Nat, NEW s \in [1 .. n -> Nodes], IsQueue(n, s)
  PROVE  /\ ~ misused'
         /\ n < List!Capacity
         /\ last' = <<"push", v>>
         /\ \E z \in [1 .. n + 1 -> Nodes] :
              /\ IsQueue(n + 1, z)'
              /\ \A i \in 1 .. n : z[i] = s[i] /\ rego'[z[i]] = rego[s[i]]
              /\ rego'[z[n + 1]] = v
<1>1. PICK node \in Nodes \ allocated :
        /\ allocated' = allocated \union {node}
        /\ List!Store(node, v)
        /\ tail' = node
        /\ IF head = None
           THEN head' = node /\ List!Link(node, None) /\ UNCHANGED misused
           ELSE List!Misuse({tail}) /\ List!Link(node, tail) /\ UNCHANGED head
        /\ last' = <<"push", v>>
  BY DEF List!push
<1>2. None \notin Nodes /\ List!Capacity \in Nat BY CapacityIsNat
<1>3. /\ \A i, j \in 1 .. n : s[i] = s[j] => i = j
      /\ n = 0 => head = None /\ tail = None
      /\ n # 0 => head = s[1] /\ tail = s[n]
      /\ \A i \in 1 .. n : /\ i = n => next[s[i]] = None
                           /\ i # n => next[s[i]] = s[i + 1]
                           /\ i = 1 => prev[s[i]] = None
                           /\ i # 1 => prev[s[i]] = s[i - 1]
      /\ allocated = {s[i] : i \in 1 .. n}
  BY DEF IsQueue, Linked
<1>4. n < List!Capacity
  <2>1. n <= List!Capacity BY <1>3, Fits
  <2>2. n # List!Capacity BY <1>1, <1>3, Fits
  <2> QED BY <2>1, <2>2, <1>2
<1>5. /\ next \in [Nodes -> Nodes \union {None}] /\ prev \in [Nodes -> Nodes \union {None}]
      /\ rego \in [Nodes -> Regos \union {None}] /\ misused \in BOOLEAN
  BY DEF List!TypeOK
<1>6. \A i \in 1 .. n : s[i] # node BY <1>1, <1>3
<1> DEFINE z == [i \in 1 .. n + 1 |-> IF i <= n THEN s[i] ELSE node]
<1>7. z \in [1 .. n + 1 -> Nodes] BY <1>1
<1>8. \A i \in 1 .. n : z[i] = s[i] /\ i \in 1 .. n + 1 OBVIOUS
<1>9. z[n + 1] = node /\ n + 1 \in 1 .. n + 1 OBVIOUS
<1>10. \A i \in 1 .. n + 1 : i \in 1 .. n \/ i = n + 1 OBVIOUS
<1> HIDE DEF z
<1>11. rego' = [rego EXCEPT ![node] = v] BY <1>1 DEF List!Store
<1>12. rego'[z[n + 1]] = v BY <1>1, <1>5, <1>9, <1>11
<1>13. \A i \in 1 .. n : rego'[z[i]] = rego[s[i]] BY <1>5, <1>6, <1>8, <1>11
<1>14. allocated' = {z[i] : i \in 1 .. n + 1}
  BY <1>1, <1>3, <1>8, <1>9, <1>10
<1>15. \A i, j \in 1 .. n + 1 : z[i] = z[j] => i = j
  BY <1>3, <1>6, <1>8, <1>9, <1>10
<1>16. CASE n = 0
  <2>1. head' = node /\ tail' = node /\ misused' = misused
    BY <1>1, <1>3, <1>16
  <2>2. next' = [next EXCEPT ![node] = None] /\ prev' = [prev EXCEPT ![node] = None]
    BY <1>1, <1>3, <1>16 DEF List!Link
  <2>3. next'[node] = None /\ prev'[node] = None BY <2>2, <1>1, <1>5
  <2>4. \A i \in 1 .. n + 1 : i = 1 BY <1>16
  <2>5. z[1] = node BY <1>9, <1>16
  <2>6. IsQueue(n + 1, z)'
    BY <2>1, <2>3, <2>4, <2>5, <1>14, <1>15, <1>16 DEF IsQueue, Linked
  <2> QED BY <2>1, <2>6, <1>1, <1>4, <1>7, <1>8, <1>12, <1>13
<1>17. CASE n # 0
  <2>1. n \in 1 .. n /\ 1 \in 1 .. n BY <1>17
  <2>2. head = s[1] /\ tail = s[n] /\ head # None /\ tail # None
    BY <1>2, <1>3, <1>17, <2>1
  <2>3. head' = head /\ List!Misuse({tail}) /\ List!Link(node, tail) BY <1>1, <2>2
  <2>4. ~ misused' BY <2>1, <2>2, <2>3, <1>3, ZenonT(40) DEF List!Misuse
  <2>5. /\ next' = [next EXCEPT ![tail] = node, ![node] = None]
        /\ prev' = [prev EXCEPT ![node] = tail]
    BY <2>2, <2>3 DEF List!Link
  <2>6. tail \in Nodes /\ tail # node BY <2>1, <2>2, <1>6
  <2>7. /\ next'[node] = None /\ next'[tail] = node /\ prev'[node] = tail
        /\ \A m \in Nodes : m # node /\ m # tail => next'[m] = next[m]
        /\ \A m \in Nodes : m # node => prev'[m] = prev[m]
    BY <2>5, <2>6, <1>1, <1>5
  <2>8. ASSUME NEW i \in 1 .. n + 1
        PROVE  /\ i = n + 1 => next'[z[i]] = None
               /\ i # n + 1 => next'[z[i]] = z[i + 1]
               /\ i = 1 => prev'[z[i]] = None
               /\ i # 1 => prev'[z[i]] = z[i - 1]
    <3>1. CASE i = n + 1
      <4>1. z[i] = node BY <3>1, <1>9
      <4>2. i # 1 /\ i - 1 = n BY <3>1, <1>17
      <4>3. z[i - 1] = tail BY <4>2, <2>1, <2>2, <1>8
      <4> QED BY <4>1, <4>2, <4>3, <2>7, <3>1
    <3>2. CASE i = n
      <4>1. z[i] = tail /\ z[i + 1] = node BY <3>2, <2>1, <2>2, <1>8, <1>9
      <4>2. i # n + 1 /\ i \in 1 .. n BY <3>2, <2>1
      <4>3. prev'[z[i]] = prev[s[i]] BY <4>1, <4>2, <2>2, <2>6, <2>7, <3>2
      <4>4. i # 1 => i - 1 \in 1 .. n BY <4>2
      <4>5. i # 1 => z[i - 1] = s[i - 1] BY <4>4, <1>8
      <4> QED BY <4>1, <4>2, <4>3, <4>5, <2>7, <1>3
    <3>3. CASE i \in 1 .. n /\ i # n
      <4>1. z[i] = s[i] /\ s[i] \in Nodes /\ s[i] # node BY <3>3, <1>6, <1>8
      <4>2. s[i] # tail BY <3>3, <2>1, <2>2, <1>3
      <4>3. next'[z[i]] = next[s[i]] /\ prev'[z[i]] = prev[s[i]]
        BY <4>1, <4>2, <2>7
      <4>4. i # n + 1 /\ i + 1 \in 1 .. n BY <3>3
      <4>5. z[i + 1] = s[i + 1] BY <4>4, <1>8
      <4>6. i # 1 => i - 1 \in 1 .. n BY <3>3
      <4>7. i # 1 => z[i - 1] = s[i - 1] BY <4>6, <1>8
      <4> QED BY <3>3, <4>3, <4>4, <4>5, <4>7, <1>3
    <3> QED BY <1>10, <3>1, <3>2, <3>3
  <2>9. n + 1 # 0 /\ head' = z[1] /\ tail' = z[n + 1]
    BY <2>1, <2>2, <2>3, <1>1, <1>8, <1>9
  <2>10. IsQueue(n + 1, z)'
    BY <2>8, <2>9, <1>14, <1>15 DEF IsQueue, Linked
  <2> QED BY <2>4, <2>10, <1>1, <1>4, <1>7, <1>8, <1>12, <1>13
<1> QED BY <1>16, <1>17

(* The first node leaves; the others keep their order.                     *)
LEMMA PopQueue ==
  ASSUME List!NodesAssumption, List!TypeOK, ~ misused, List!pop,
         NEW n \in Nat, NEW s \in [1 .. n -> Nodes], IsQueue(n, s)
  PROVE  /\ ~ misused'
         /\ rego' = rego
         /\ n = 0 => last' = <<"pop", None>> /\ IsQueue(0, s)'
         /\ n # 0 => /\ last' = <<"pop", rego[s[1]]>>
                     /\ \E z \in [1 .. n - 1 -> Nodes] :
                          /\ IsQueue(n - 1, z)'
                          /\ \A i \in 1 .. n - 1 : z[i] = s[i + 1]
<1>2. None \notin Nodes BY CapacityIsNat
<1>3. /\ \A i, j \in 1 .. n : s[i] = s[j] => i = j
      /\ n = 0 => head = None /\ tail = None
      /\ n # 0 => head = s[1] /\ tail = s[n]
      /\ \A i \in 1 .. n : /\ i = n => next[s[i]] = None
                           /\ i # n => next[s[i]] = s[i + 1]
                           /\ i = 1 => prev[s[i]] = None
                           /\ i # 1 => prev[s[i]] = s[i - 1]
      /\ allocated = {s[i] : i \in 1 .. n}
  BY DEF IsQueue, Linked
<1>4. prev \in [Nodes -> Nodes \union {None}] BY DEF List!TypeOK
<1>5. rego' = rego BY DEF List!pop, List!PopEmpty, List!PopLast, List!PopFirst, List!fields
<1>6. CASE n = 0
  <2>1. head = None /\ tail = None BY <1>3, <1>6
  <2>2. List!PopEmpty BY <2>1 DEF List!pop, List!PopLast, List!PopFirst
  <2>3. UNCHANGED <<head, tail, next, prev, allocated>> /\ ~ misused'
        /\ last' = <<"pop", None>>
    BY <2>1, <2>2 DEF List!PopEmpty, List!fields
  <2>4. IsQueue(0, s)' BY <2>3, <1>6 DEF IsQueue, Linked
  <2> QED BY <2>3, <2>4, <1>5, <1>6
<1>7. CASE n = 1
  <2>1. 1 \in 1 .. n /\ \A i \in 1 .. n : i = 1 BY <1>7
  <2>2. head = s[1] /\ tail = s[1] /\ next[head] = None /\ head # None
    BY <2>1, <1>2, <1>3, <1>7
  <2>3. List!PopLast BY <2>2 DEF List!pop, List!PopEmpty, List!PopFirst
  <2>4. allocated = {head} BY <2>1, <2>2, <1>3
  <2>5. ~ misused' BY <2>2, <2>3, <2>4 DEF List!PopLast, List!Misuse
  <2>6. head' = None /\ tail' = None /\ allocated' = {}
        /\ last' = <<"pop", rego[s[1]]>>
    BY <2>2, <2>3, <2>4 DEF List!PopLast
  <2>7. PICK z : z = [i \in 1 .. 0 |-> None] OBVIOUS
  <2>8. z \in [1 .. n - 1 -> Nodes] /\ \A i \in 1 .. n - 1 : FALSE BY <2>7, <1>7
  <2>9. IsQueue(n - 1, z)'
    <3>1. n - 1 = 0 BY <1>7
    <3>2. \A i \in 1 .. 0 : FALSE OBVIOUS
    <3> QED BY <2>6, <3>1, <3>2 DEF IsQueue, Linked
  <2>10. \A i \in 1 .. n - 1 : z[i] = s[i + 1] BY <2>8
  <2>11. z \in [1 .. n - 1 -> Nodes] BY <2>8
  <2>12. n # 0 BY <1>7
  <2> QED BY <2>5, <2>6, <2>9, <2>10, <2>11, <2>12, <1>5
<1>8. CASE n > 1
  <2>1. 1 \in 1 .. n /\ 2 \in 1 .. n /\ n \in 1 .. n /\ n - 1 \in Nat BY <1>8
  <2>2. head = s[1] /\ tail = s[n] /\ next[head] = s[2] /\ head # None /\ s[2] # None
    <3>1. next[s[1]] = s[1 + 1] BY <2>1, <1>3, <1>8
    <3>2. 1 + 1 = 2 OBVIOUS
    <3> QED BY <3>1, <3>2, <2>1, <1>2, <1>3
  <2>3. List!PopFirst BY <2>2 DEF List!pop, List!PopEmpty, List!PopLast
  <2>4. ~ misused'
    <3>1. s[1] \in allocated /\ s[2] \in allocated BY <2>1, <1>3
    <3>2. {head, next[head]} \subseteq allocated BY <3>1, <2>2
    <3>3. List!Misuse({head, next[head]}) BY <2>3 DEF List!PopFirst
    <3> QED BY <3>2, <3>3 DEF List!Misuse
  <2>5. /\ prev' = [prev EXCEPT ![s[2]] = None] /\ next' = next
        /\ allocated' = allocated \ {s[1]} /\ head' = s[2] /\ tail' = tail
        /\ last' = <<"pop", rego[s[1]]>>
    BY <2>2, <2>3 DEF List!PopFirst
  <2> DEFINE z == [i \in 1 .. n - 1 |-> s[i + 1]]
  <2>6. \A i \in 1 .. n - 1 : i + 1 \in 1 .. n /\ i + 1 # 1 BY <2>1
  <2>7. z \in [1 .. n - 1 -> Nodes] BY <2>6
  <2>8. \A i \in 1 .. n - 1 : z[i] = s[i + 1] OBVIOUS
  <2> HIDE DEF z
  <2>9. \A i, j \in 1 .. n - 1 : z[i] = z[j] => i = j
    <3> TAKE i, j \in 1 .. n - 1
    <3>1. z[i] = z[j] => i + 1 = j + 1 BY <2>6, <2>8, <1>3
    <3> QED BY <3>1
  <2>10. allocated' = {z[i] : i \in 1 .. n - 1}
    <3>1. ASSUME NEW m \in allocated' PROVE m \in {z[i] : i \in 1 .. n - 1}
      <4>1. PICK i \in 1 .. n : m = s[i] /\ i # 1 BY <3>1, <2>5, <1>3
      <4>2. i - 1 \in 1 .. n - 1 /\ i - 1 + 1 = i BY <4>1
      <4> QED BY <4>1, <4>2, <2>8
    <3>2. ASSUME NEW i \in 1 .. n - 1 PROVE z[i] \in allocated'
      <4>1. s[i + 1] \in allocated /\ s[i + 1] # s[1] BY <2>1, <2>6, <1>3
      <4> QED BY <4>1, <2>5, <2>8
    <3> QED BY <3>1, <3>2
  <2>11. /\ prev'[s[2]] = None
         /\ \A m \in Nodes : m # s[2] => prev'[m] = prev[m]
    BY <2>1, <2>5, <1>4
  <2>12. ASSUME NEW i \in 1 .. n - 1
         PROVE  /\ i = n - 1 => next'[z[i]] = None
                /\ i # n - 1 => next'[z[i]] = z[i + 1]
                /\ i = 1 => prev'[z[i]] = None
                /\ i # 1 => prev'[z[i]] = z[i - 1]
    <3>1. z[i] = s[i + 1] /\ i + 1 \in 1 .. n BY <2>6, <2>8
    <3>2. i = n - 1 => i + 1 = n BY <2>1
    <3>3. i # n - 1 => i + 1 # n /\ i + 1 \in 1 .. n - 1 BY <2>1
    <3>4. i = n - 1 => next'[z[i]] = None BY <3>1, <3>2, <2>5, <1>3
    <3>5. i # n - 1 => next'[z[i]] = z[i + 1]
      BY <3>1, <3>3, <2>5, <2>8, <1>3
    <3>6. i = 1 => prev'[z[i]] = None BY <3>1, <2>11
    <3>7. ASSUME i # 1 PROVE prev'[z[i]] = z[i - 1]
      <4>1. i - 1 \in 1 .. n - 1 /\ i + 1 # 1 /\ i + 1 - 1 = i /\ i - 1 + 1 = i
        BY <3>7
      <4>2. s[i + 1] # s[2] BY <3>1, <3>7, <2>1, <1>3
      <4>3. prev'[z[i]] = prev[s[i + 1]] BY <3>1, <4>2, <2>11
      <4>4. prev[s[i + 1]] = s[i] BY <3>1, <4>1, <1>3
      <4>5. z[i - 1] = s[i] BY <4>1, <2>8
      <4> QED BY <4>3, <4>4, <4>5
    <3> QED BY <3>4, <3>5, <3>6, <3>7
  <2>13. n - 1 # 0 /\ head' = z[1] /\ tail' = z[n - 1]
    <3>1. 1 \in 1 .. n - 1 /\ n - 1 \in 1 .. n - 1 /\ 1 + 1 = 2 /\ n - 1 + 1 = n
      BY <1>8
    <3>2. z[1] = s[2] /\ z[n - 1] = s[n] BY <3>1, <2>8
    <3> QED BY <3>2, <2>2, <2>5, <1>8
  <2>14. IsQueue(n - 1, z)'
    BY <2>9, <2>10, <2>12, <2>13 DEF IsQueue, Linked
  <2> QED BY <2>4, <2>5, <2>7, <2>8, <2>14, <1>5, <1>8
<1>9. n = 0 \/ n = 1 \/ n > 1 OBVIOUS
<1> QED BY <1>6, <1>7, <1>8, <1>9

LEMMA QueueNext ==
  ASSUME List!NodesAssumption, QueueInv, [List!Next]_(List!vars)
  PROVE  QueueInv'
<1>1. PICK n \in Nat : \E s \in [1 .. n -> Nodes] : IsQueue(n, s) BY DEF QueueInv
<1>2. PICK s \in [1 .. n -> Nodes] : IsQueue(n, s) BY <1>1
<1>3. ASSUME NEW v \in Regos, List!push(v) PROVE QueueInv'
  <2>1. List!TypeOK' BY <1>3, PushTypes DEF QueueInv
  <2>2. ~ misused' /\ \E z \in [1 .. n + 1 -> Nodes] : IsQueue(n + 1, z)'
    BY <1>2, <1>3, PushQueue DEF QueueInv
  <2>3. n + 1 \in Nat OBVIOUS
  <2> QED BY <2>1, <2>2, <2>3 DEF QueueInv
<1>4. CASE List!pop
  <2>1. List!TypeOK' BY <1>4, PopTypes DEF QueueInv
  <2>2. ~ misused' BY <1>2, <1>4, PopQueue DEF QueueInv
  <2>3. n = 0 => IsQueue(0, s)' BY <1>2, <1>4, PopQueue DEF QueueInv
  <2>4. n # 0 => \E z \in [1 .. n - 1 -> Nodes] : IsQueue(n - 1, z)'
    BY <1>2, <1>4, PopQueue DEF QueueInv
  <2>5. n # 0 => n - 1 \in Nat OBVIOUS
  <2> QED BY <2>1, <2>2, <2>3, <2>4, <2>5, <1>2 DEF QueueInv
<1>5. CASE UNCHANGED List!vars
  <2>1. UNCHANGED <<head, tail, next, prev, rego, allocated, last, misused>>
    BY <1>5 DEF List!vars, List!fields
  <2>2. List!TypeOK' BY <2>1 DEF QueueInv, List!TypeOK
  <2>3. IsQueue(n, s)' BY <2>1, <1>2 DEF IsQueue, Linked
  <2> QED BY <2>1, <2>2, <2>3 DEF QueueInv
<1> QED BY <1>3, <1>4, <1>5 DEF List!Next

(* What NodeAt shows of a queue.                                           *)
LEMMA QueueIsSound ==
  ASSUME List!NodesAssumption, QueueInv
  PROVE  List!ListSound
<1>1. PICK n \in Nat : \E s \in [1 .. n -> Nodes] : IsQueue(n, s) BY DEF QueueInv
<1>2. PICK s \in [1 .. n -> Nodes] : IsQueue(n, s) BY <1>1
<1>3. Linked(n, s, head, tail, next, prev) /\ allocated = {s[i] : i \in 1 .. n}
  BY <1>2 DEF IsQueue
<1>4. List!NodeAt = Chain(head, next) BY DEF List!NodeAt, Chain
<1>5. List!Places = 1 .. n /\ Cardinality(List!Places) = n
  <2>1. List!Places = {i \in 1 .. List!Capacity + 1 : Chain(head, next)[i] # None}
    BY <1>4 DEF List!Places
  <2>2. /\ {i \in 1 .. List!Capacity + 1 : Chain(head, next)[i] # None} = 1 .. n
        /\ Cardinality(1 .. n) = n
    BY <1>3, ListPlaces
  <2> QED BY <2>1, <2>2
<1>6. List!Capacity \in Nat /\ None \notin Nodes BY CapacityIsNat
<1>7. n <= List!Capacity BY <1>3, Fits DEF Linked
<1>8. /\ \A i \in 1 .. List!Capacity + 1 : i <= n => List!NodeAt[i] = s[i]
      /\ \A i \in 1 .. List!Capacity + 1 : i > n => List!NodeAt[i] = None
  BY <1>3, <1>4, ChainIsList
<1>9. List!NodeAt[List!Capacity + 1] = None
  <2>1. List!Capacity + 1 \in 1 .. List!Capacity + 1 /\ List!Capacity + 1 > n BY <1>6, <1>7
  <2> QED BY <2>1, <1>8
<1>10. \A i \in 1 .. n : List!NodeAt[i] = s[i]
  <2>1. \A i \in 1 .. n : i \in 1 .. List!Capacity + 1 /\ i <= n BY <1>6, <1>7
  <2> QED BY <2>1, <1>8
<1>11. {List!NodeAt[i] : i \in List!Places} = allocated BY <1>3, <1>5, <1>10
<1>12. tail = IF head = None THEN None ELSE List!NodeAt[Cardinality(List!Places)]
  <2>1. CASE n = 0 BY <2>1, <1>3 DEF Linked
  <2>2. CASE n # 0
    <3>1. n \in 1 .. n /\ 1 \in 1 .. n BY <2>2
    <3>2. head = s[1] /\ tail = s[n] /\ head # None BY <3>1, <2>2, <1>3, <1>6 DEF Linked
    <3> QED BY <3>1, <3>2, <1>5, <1>10
  <2> QED BY <2>1, <2>2
<1>13. \A i \in List!Places : prev[List!NodeAt[i]] = IF i = 1 THEN None ELSE List!NodeAt[i - 1]
  <2> TAKE i \in List!Places
  <2>1. i \in 1 .. n /\ List!NodeAt[i] = s[i] BY <1>5, <1>10
  <2>2. i # 1 => i - 1 \in 1 .. n BY <2>1
  <2>3. i # 1 => List!NodeAt[i - 1] = s[i - 1] BY <2>2, <1>10
  <2> QED BY <2>1, <2>3, <1>3 DEF Linked
<1>14. List!Cardinality(List!Places) = Cardinality(List!Places) BY SizesOfSets
<1> QED BY <1>9, <1>11, <1>12, <1>13, <1>14 DEF List!ListSound, QueueInv

-----------------------------------------------------------------------------
(* First in, first out.                                                    *)

(* The plates of a list with the given head, links and plates: Contents.   *)
PlatesAlong(h, nx, rg) ==
  [i \in 1 .. Cardinality({i \in 1 .. List!Capacity + 1 : Chain(h, nx)[i] # None}) |->
     rg[Chain(h, nx)[i]]]

LEMMA PlatesOfList ==
  ASSUME List!NodesAssumption, NEW n \in Nat, NEW s \in [1 .. n -> Nodes],
         NEW h, NEW t, NEW nx, NEW pv, Linked(n, s, h, t, nx, pv), NEW rg
  PROVE  PlatesAlong(h, nx, rg) = [i \in 1 .. n |-> rg[s[i]]]
<1>1. List!Capacity \in Nat BY CapacityIsNat
<1>2. n <= List!Capacity BY Fits DEF Linked
<1>3. Cardinality({i \in 1 .. List!Capacity + 1 : Chain(h, nx)[i] # None}) = n
  BY ListPlaces
<1>4. \A i \in 1 .. n : i \in 1 .. List!Capacity + 1 /\ i <= n BY <1>1, <1>2
<1>5. \A i \in 1 .. n : Chain(h, nx)[i] = s[i] BY <1>4, ChainIsList
<1> QED BY <1>3, <1>5 DEF PlatesAlong

LEMMA ContentsIsPlates ==
  /\ List!Contents = PlatesAlong(head, next, rego)
  /\ List!Contents' = PlatesAlong(head', next', rego')
<1>1. List!NodeAt = Chain(head, next) BY DEF List!NodeAt, Chain
<1>2. List!NodeAt' = Chain(head', next') BY DEF List!NodeAt, Chain
<1>3. List!Places = {i \in 1 .. List!Capacity + 1 : Chain(head, next)[i] # None}
  BY <1>1 DEF List!Places
<1>4. List!Places' = {i \in 1 .. List!Capacity + 1 : Chain(head', next')[i] # None}
  BY <1>2 DEF List!Places
<1>5. List!Cardinality(List!Places) = Cardinality(List!Places) BY SizesOfSets
<1>6. List!Cardinality(List!Places') = Cardinality(List!Places') BY SizesOfSets
<1>7. List!Contents = PlatesAlong(head, next, rego)
  BY <1>1, <1>3, <1>5 DEF List!Contents, PlatesAlong
<1>8. List!Contents' = PlatesAlong(head', next', rego')
  BY <1>2, <1>4, <1>6 DEF List!Contents, PlatesAlong
<1> QED BY <1>7, <1>8

(* What a queue holds, oldest first.                                       *)
LEMMA QueueContents ==
  ASSUME List!NodesAssumption, NEW n \in Nat, NEW s \in [1 .. n -> Nodes],
         IsQueue(n, s)
  PROVE  List!Contents = [i \in 1 .. n |-> rego[s[i]]]
BY PlatesOfList, ContentsIsPlates DEF IsQueue

LEMMA NextContents ==
  ASSUME List!NodesAssumption, NEW n \in Nat, NEW s \in [1 .. n -> Nodes],
         IsQueue(n, s)'
  PROVE  List!Contents' = [i \in 1 .. n |-> rego'[s[i]]]
BY PlatesOfList, ContentsIsPlates DEF IsQueue
LEMMA ListIsSeq ==
  ASSUME NEW S, NEW n \in Nat, NEW f \in [1 .. n -> S]
  PROVE  f \in Seq(S) /\ Len(f) = n
<1>1. f \in Seq(S) BY SeqDef
<1>2. DOMAIN f = 1 .. n OBVIOUS
<1> QED BY <1>1, <1>2, LenProperties

LEMMA PushIsFifo ==
  ASSUME List!NodesAssumption, QueueInv, NEW v \in Regos, List!push(v)
  PROVE  List!F!Push(v)
<1>1. PICK n \in Nat : \E s \in [1 .. n -> Nodes] : IsQueue(n, s) BY DEF QueueInv
<1>2. PICK s \in [1 .. n -> Nodes] : IsQueue(n, s) BY <1>1
<1>3. /\ n < List!Capacity
      /\ last' = <<"push", v>>
      /\ \E z \in [1 .. n + 1 -> Nodes] :
           /\ IsQueue(n + 1, z)'
           /\ \A i \in 1 .. n : z[i] = s[i] /\ rego'[z[i]] = rego[s[i]]
           /\ rego'[z[n + 1]] = v
  BY <1>2, PushQueue DEF QueueInv
<1>4. PICK z \in [1 .. n + 1 -> Nodes] :
           /\ IsQueue(n + 1, z)'
           /\ \A i \in 1 .. n : z[i] = s[i] /\ rego'[z[i]] = rego[s[i]]
           /\ rego'[z[n + 1]] = v
  BY <1>3
<1>5. List!Contents = [i \in 1 .. n |-> rego[s[i]]] BY <1>2, QueueContents
<1>6. n + 1 \in Nat OBVIOUS
<1>7. List!Contents' = [i \in 1 .. n + 1 |-> rego'[z[i]]] BY <1>4, <1>6, NextContents
<1> DEFINE S == {rego[s[i]] : i \in 1 .. n} \union {v}
<1>8. Len(List!Contents) = n /\ List!Contents \in Seq(S)
  <2>1. List!Contents \in [1 .. n -> S] BY <1>5
  <2> HIDE DEF S
  <2> QED BY <2>1, ListIsSeq
<1>9. \A i \in 1 .. n + 1 :
        rego'[z[i]] = IF i = n + 1 THEN v ELSE List!Contents[i]
  <2> TAKE i \in 1 .. n + 1
  <2>1. CASE i = n + 1 BY <2>1, <1>4
  <2>2. CASE i # n + 1
    <3>1. i \in 1 .. n BY <2>2
    <3> QED BY <3>1, <2>2, <1>4, <1>5
  <2> QED BY <2>1, <2>2
<1>10. Len(List!Contents') = n + 1 /\ List!Contents' \in Seq(S)
  <2>1. \A i \in 1 .. n : List!Contents[i] \in S BY <1>5
  <2>2. \A i \in 1 .. n + 1 : rego'[z[i]] \in S
    <3> TAKE i \in 1 .. n + 1
    <3>1. i = n + 1 \/ i \in 1 .. n OBVIOUS
    <3>2. v \in S OBVIOUS
    <3> HIDE DEF S
    <3> QED BY <3>1, <3>2, <1>9, <2>1
  <2>3. List!Contents' \in [1 .. n + 1 -> S] BY <2>2, <1>7
  <2> HIDE DEF S
  <2> QED BY <2>3, <1>6, ListIsSeq
<1>11. v \in S OBVIOUS
<1> HIDE DEF S
<1>12. PICK a : a = Append(List!Contents, v) OBVIOUS
<1>13. /\ a \in Seq(S) /\ Len(a) = n + 1
       /\ \A i \in 1 .. n : a[i] = List!Contents[i]
       /\ a[n + 1] = v
  BY <1>8, <1>11, <1>12, AppendProperties
<1>14. \A i \in 1 .. n + 1 : List!Contents'[i] = a[i]
  <2> TAKE i \in 1 .. n + 1
  <2>1. List!Contents'[i] = IF i = n + 1 THEN v ELSE List!Contents[i] BY <1>7, <1>9
  <2>2. i = n + 1 \/ (i # n + 1 /\ i \in 1 .. n) OBVIOUS
  <2> QED BY <2>1, <2>2, <1>13
<1>15. List!Contents' = a BY <1>10, <1>13, <1>14, SeqEqual
<1> QED BY <1>3, <1>8, <1>12, <1>15 DEF List!F!Push

LEMMA PopIsFifo ==
  ASSUME List!NodesAssumption, QueueInv, List!pop
  PROVE  List!F!Pop
<1>1. PICK n \in Nat : \E s \in [1 .. n -> Nodes] : IsQueue(n, s) BY DEF QueueInv
<1>2. PICK s \in [1 .. n -> Nodes] : IsQueue(n, s) BY <1>1
<1>3. List!Contents = [i \in 1 .. n |-> rego[s[i]]] BY <1>2, QueueContents
<1>4. /\ rego' = rego
      /\ n = 0 => last' = <<"pop", None>> /\ IsQueue(0, s)'
      /\ n # 0 => /\ last' = <<"pop", rego[s[1]]>>
                  /\ \E z \in [1 .. n - 1 -> Nodes] :
                       /\ IsQueue(n - 1, z)'
                       /\ \A i \in 1 .. n - 1 : z[i] = s[i + 1]
  BY <1>2, PopQueue DEF QueueInv
<1>5. CASE n = 0
  <2>1. s \in [1 .. 0 -> Nodes] BY <1>5
  <2>2. List!Contents' = [i \in 1 .. 0 |-> rego'[s[i]]]
    BY <2>1, <1>4, <1>5, NextContents
  <2>3. List!Contents = <<>> BY <1>3, <1>5
  <2>4. List!Contents' = <<>> BY <2>2
  <2> QED BY <2>3, <2>4, <1>4, <1>5 DEF List!F!Pop
<1>6. CASE n # 0
  <2>1. PICK z \in [1 .. n - 1 -> Nodes] :
          /\ IsQueue(n - 1, z)'
          /\ \A i \in 1 .. n - 1 : z[i] = s[i + 1]
    BY <1>4, <1>6
  <2>2. n - 1 \in Nat /\ 1 \in 1 .. n BY <1>6
  <2>3. List!Contents' = [i \in 1 .. n - 1 |-> rego'[z[i]]]
    BY <2>1, <2>2, NextContents
  <2> DEFINE S == {rego[s[i]] : i \in 1 .. n}
  <2>4. List!Contents \in Seq(S) /\ Len(List!Contents) = n
    <3>1. List!Contents \in [1 .. n -> S] BY <1>3
    <3> HIDE DEF S
    <3> QED BY <3>1, ListIsSeq
  <2>5. \A i \in 1 .. n - 1 :
          i + 1 \in 1 .. n /\ rego'[z[i]] = List!Contents[i + 1]
    <3> TAKE i \in 1 .. n - 1
    <3>1. i + 1 \in 1 .. n BY <2>2
    <3> QED BY <3>1, <2>1, <1>3, <1>4
  <2>6. List!Contents' \in Seq(S) /\ Len(List!Contents') = n - 1
    <3>1. \A i \in 1 .. n : List!Contents[i] \in S BY <1>3
    <3> HIDE DEF S
    <3>2. \A i \in 1 .. n - 1 : rego'[z[i]] \in S BY <3>1, <2>5
    <3>3. List!Contents' \in [1 .. n - 1 -> S] BY <3>2, <2>3
    <3> QED BY <3>3, <2>2, ListIsSeq
  <2> HIDE DEF S
  <2>7. List!Contents # <<>> BY <2>4, <1>6
  <2>8. Head(List!Contents) = rego[s[1]]
    <3>1. Head(List!Contents) = List!Contents[1] BY <2>4, <2>7
    <3> QED BY <3>1, <1>3, <2>2
  <2>9. PICK a : a = Tail(List!Contents) OBVIOUS
  <2>10. /\ a \in Seq(S) /\ Len(a) = n - 1
         /\ \A i \in 1 .. n - 1 : a[i] = List!Contents[i + 1]
    BY <2>4, <2>7, <2>9, HeadTailProperties
  <2>11. \A i \in 1 .. n - 1 : List!Contents'[i] = a[i] BY <2>3, <2>5, <2>10
  <2>12. List!Contents' = a BY <2>6, <2>10, <2>11, SeqEqual
  <2> QED BY <2>7, <2>8, <2>9, <2>12, <1>4, <1>6 DEF List!F!Pop
<1> QED BY <1>5, <1>6

LEMMA QueueStep ==
  ASSUME List!NodesAssumption, QueueInv, [List!Next]_(List!vars)
  PROVE  [List!F!Next]_<<List!Contents, last>>
<1>1. ASSUME NEW v \in Regos, List!push(v) PROVE List!F!Next
  BY <1>1, PushIsFifo DEF List!F!Next
<1>2. CASE List!pop BY <1>2, PopIsFifo DEF List!F!Next
<1>3. CASE UNCHANGED List!vars
  <2>1. UNCHANGED <<head, next, rego, last>> BY <1>3 DEF List!vars, List!fields
  <2> QED BY <2>1, ContentsIsPlates
<1> QED BY <1>1, <1>2, <1>3 DEF List!Next

LEMMA ListSteps == [Next]_vars => [List!Next]_(List!vars)
BY DEF Next, MapStep, ListStep, PlatesStep, BillsStep, AtReader, vars, list_vars,
       List!vars, List!fields

LEMMA QueueInductive ==
  ASSUME List!NodesAssumption
  PROVE  Spec => []QueueInv
<1>1. Init => QueueInv BY QueueInit DEF Init
<1>2. QueueInv /\ [Next]_vars => QueueInv' BY ListSteps, QueueNext
<1> QED BY <1>1, <1>2, PTL DEF Spec

(* After any number of operations, and whatever memory malloc returns, the *)
(* list is sound in both directions, holds every node that was allocated,  *)
(* and no freed node was touched (queue.c:34-72).                          *)
THEOREM ListCorrect ==
  ASSUME List!NodesAssumption
  PROVE  Spec => []ListSound
<1>1. QueueInv => ListSound BY QueueIsSound DEF ListSound
<1> QED BY <1>1, QueueInductive, PTL

(* Every operation of the list is one of the queue of values, and nothing  *)
(* else changes what it holds: plates leave in the order they came.        *)
THEOREM FifoImplemented ==
  ASSUME List!NodesAssumption
  PROVE  Spec => ImplementsFifo
<1>1. Init => List!F!Init
  <2> SUFFICES ASSUME List!init_queue PROVE List!F!Init BY DEF Init
  <2>1. PICK s : s = [i \in 1 .. 0 |-> None] OBVIOUS
  <2>2. s \in [1 .. 0 -> Nodes] /\ IsQueue(0, s) BY <2>1, QueueInit
  <2>3. List!Contents = [i \in 1 .. 0 |-> rego[s[i]]] BY <2>2, QueueContents
  <2>4. List!Contents = <<>> BY <2>3
  <2> QED BY <2>4 DEF List!F!Init, List!init_queue
<1>2. QueueInv /\ [Next]_vars => [List!F!Next]_<<List!Contents, last>>
  BY ListSteps, QueueStep
<1> QED BY <1>1, <1>2, QueueInductive, PTL
        DEF Spec, ImplementsFifo, List!ImplementsFifo, List!F!Spec

-----------------------------------------------------------------------------
(* The scan for a level: it finds the first of the largest.                *)

(* l is the first of the largest of fp[1] to fp[i].                        *)
FirstMost(fp, i, l) ==
  /\ l \in 1 .. i
  /\ \A k \in 1 .. i : fp[k] <= fp[l] /\ (k < l => fp[k] < fp[l])

LEMMA OneFirst ==
  ASSUME NEW N \in Nat, NEW fp \in [1 .. N -> Int], NEW i \in 1 .. N,
         NEW l, NEW m, FirstMost(fp, i, l), FirstMost(fp, i, m)
  PROVE  l = m
<1>1. l \in 1 .. N /\ m \in 1 .. N /\ l \in 1 .. i /\ m \in 1 .. i BY DEF FirstMost
<1>2. fp[l] \in Int /\ fp[m] \in Int /\ l \in Nat /\ m \in Nat BY <1>1
<1>3. fp[l] <= fp[m] /\ fp[m] <= fp[l] /\ (l < m => fp[l] < fp[m])
      /\ (m < l => fp[m] < fp[l])
  BY <1>1 DEF FirstMost
<1> QED BY <1>2, <1>3

(* One turn of the loop.                                                   *)
LEMMA FirstStep ==
  ASSUME NEW N \in Nat, NEW fp \in [1 .. N -> Int], NEW i \in 1 .. N, NEW b,
         (i = 1 /\ b = 1) \/ (i # 1 /\ FirstMost(fp, i - 1, b))
  PROVE  FirstMost(fp, i, IF fp[i] > fp[b] THEN i ELSE b)
<1>1. CASE i = 1 /\ b = 1
  <2>1. fp[1] \in Int /\ 1 \in 1 .. 1 /\ \A k \in 1 .. 1 : k = 1 BY <1>1
  <2>2. FirstMost(fp, 1, 1) BY <2>1 DEF FirstMost
  <2> QED BY <1>1, <2>1, <2>2
<1>2. CASE i # 1 /\ FirstMost(fp, i - 1, b)
  <2>1. b \in 1 .. i - 1 /\ \A k \in 1 .. i - 1 : fp[k] <= fp[b] /\ (k < b => fp[k] < fp[b])
    BY <1>2 DEF FirstMost
  <2>2. i \in Nat /\ b \in Nat /\ b < i /\ b \in 1 .. i /\ i \in 1 .. i
    BY <2>1
  <2>3. \A k \in 1 .. i : k = i \/ (k \in 1 .. i - 1 /\ k < i) OBVIOUS
  <2>4. \A k \in 1 .. i : fp[k] \in Int OBVIOUS
  <2>5. CASE fp[i] > fp[b]
    <3>1. ASSUME NEW k \in 1 .. i
          PROVE  fp[k] <= fp[i] /\ (k < i => fp[k] < fp[i])
      <4>1. fp[k] \in Int /\ fp[i] \in Int /\ fp[b] \in Int BY <2>2, <2>4
      <4>2. CASE k = i BY <4>1, <4>2, <2>2
      <4>3. CASE k \in 1 .. i - 1
        <5>1. fp[k] <= fp[b] BY <4>3, <2>1
        <5> QED BY <5>1, <4>1, <2>5
      <4> QED BY <2>3, <4>2, <4>3
    <3> QED BY <3>1, <2>2, <2>5 DEF FirstMost
  <2>6. CASE ~ (fp[i] > fp[b])
    <3>1. ASSUME NEW k \in 1 .. i
          PROVE  fp[k] <= fp[b] /\ (k < b => fp[k] < fp[b])
      <4>1. fp[k] \in Int /\ fp[i] \in Int /\ fp[b] \in Int BY <2>2, <2>4
      <4>2. CASE k = i BY <4>1, <4>2, <2>2, <2>6
      <4>3. CASE k \in 1 .. i - 1 BY <4>3, <2>1
      <4> QED BY <2>3, <4>2, <4>3
    <3> QED BY <3>1, <2>2, <2>6 DEF FirstMost
  <2> QED BY <2>5, <2>6
<1> QED BY <1>1, <1>2

LEMMA FirstExists ==
  ASSUME NEW N \in Nat, NEW fp \in [1 .. N -> Int]
  PROVE  \A i \in 1 .. N : \E l : FirstMost(fp, i, l)
<1> DEFINE Bad == {i \in 1 .. N : ~ \E l : FirstMost(fp, i, l)}
<1>1. Bad \in SUBSET Nat OBVIOUS
<1>2. \A i : i \in Bad <=> i \in 1 .. N /\ ~ \E l : FirstMost(fp, i, l) OBVIOUS
<1> HIDE DEF Bad
<1>3. SUFFICES ASSUME Bad # {} PROVE FALSE BY <1>2
<1>4. PICK i \in Nat : i \in Bad /\ \A k \in Bad : i <= k
  BY <1>1, <1>3, WP!LeastNat
<1>5. i \in 1 .. N /\ ~ \E l : FirstMost(fp, i, l) BY <1>2, <1>4
<1>6. CASE i = 1
  <2>1. FirstMost(fp, i, IF fp[i] > fp[1] THEN i ELSE 1) BY <1>5, <1>6, FirstStep
  <2> QED BY <2>1, <1>5
<1>7. CASE i # 1
  <2>1. i - 1 \in 1 .. N BY <1>5, <1>7
  <2>2. ~ (i <= i - 1) OBVIOUS
  <2>3. i - 1 \notin Bad BY <2>2, <1>4
  <2>4. PICK b : FirstMost(fp, i - 1, b) BY <2>1, <2>3, <1>2
  <2>5. FirstMost(fp, i, IF fp[i] > fp[b] THEN i ELSE b)
    BY <2>4, <1>5, <1>7, FirstStep
  <2> QED BY <2>5, <1>5
<1> QED BY <1>6, <1>7

(* The variable best of the loop after each level.                         *)
Best(ld) ==
  CHOOSE f : f = [i \in 0 .. LEVELS |->
                    IF i = 0 THEN 1
                    ELSE IF Table!free_parks(ld, i) > Table!free_parks(ld, f[i - 1])
                         THEN i ELSE f[i - 1]]

LEMMA ScanIsBest ==
  ASSUME NEW ld
  PROVE  Table!scan_levels(ld) =
           IF Table!free_parks(ld, Best(ld)[LEVELS]) = 0 THEN 0
           ELSE Best(ld)[LEVELS]
BY DEF Table!scan_levels, Best

LEMMA BestIsFirst ==
  ASSUME LEVELS \in Nat \ {0}, NEW ld, NEW fp \in [1 .. LEVELS -> Int],
         \A l \in 1 .. LEVELS : Table!free_parks(ld, l) = fp[l]
  PROVE  FirstMost(fp, LEVELS, Best(ld)[LEVELS])
<1> DEFINE C == 0 .. LEVELS
           g == [i \in C |-> IF i = 0 THEN 1 ELSE CHOOSE l : FirstMost(fp, i, l)]
           Follows(f) == f = [i \in C |->
                                IF i = 0 THEN 1
                                ELSE IF Table!free_parks(ld, i) > Table!free_parks(ld, f[i - 1])
                                     THEN i ELSE f[i - 1]]
<1>1. \A i \in C : i # 0 => i \in 1 .. LEVELS OBVIOUS
<1>2. \A i \in 1 .. LEVELS : FirstMost(fp, i, g[i])
  <2> TAKE i \in 1 .. LEVELS
  <2>1. i # 0 /\ i \in C OBVIOUS
  <2>2. \E l : FirstMost(fp, i, l) BY FirstExists
  <2>3. g[i] = CHOOSE l : FirstMost(fp, i, l) BY <2>1
  <2> QED BY <2>2, <2>3
<1>3. g[0] = 1 OBVIOUS
<1>4. ASSUME NEW i \in C
      PROVE  g[i] = IF i = 0 THEN 1
                    ELSE IF Table!free_parks(ld, i) > Table!free_parks(ld, g[i - 1])
                         THEN i ELSE g[i - 1]
  <2> HIDE DEF g, Follows
  <2>1. CASE i = 0 BY <2>1, <1>3
  <2>2. CASE i # 0
    <3>1. i \in 1 .. LEVELS /\ i \in Nat /\ (i # 1 => i - 1 \in 1 .. LEVELS)
          /\ (i = 1 => i - 1 = 0)
      BY <2>2
    <3>2. (i = 1 /\ g[i - 1] = 1) \/ (i # 1 /\ FirstMost(fp, i - 1, g[i - 1]))
      BY <3>1, <1>2, <1>3
    <3>3. g[i - 1] \in 1 .. LEVELS
      <4>1. i # 1 => g[i - 1] \in 1 .. i - 1 BY <3>2 DEF FirstMost
      <4> QED BY <4>1, <3>1, <3>2
    <3>4. FirstMost(fp, i, IF fp[i] > fp[g[i - 1]] THEN i ELSE g[i - 1])
      BY <3>1, <3>2, FirstStep
    <3>5. g[i] = IF fp[i] > fp[g[i - 1]] THEN i ELSE g[i - 1]
      BY <3>1, <3>4, <1>2, OneFirst
    <3>6. Table!free_parks(ld, i) = fp[i]
          /\ Table!free_parks(ld, g[i - 1]) = fp[g[i - 1]]
      BY <3>1, <3>3
    <3> QED BY <2>2, <3>5, <3>6
  <2> QED BY <2>1, <2>2
<1>5. Follows(g)
  <2>1. g = [i \in C |-> g[i]] OBVIOUS
  <2>2. [i \in C |-> g[i]] =
          [i \in C |-> IF i = 0 THEN 1
                       ELSE IF Table!free_parks(ld, i) > Table!free_parks(ld, g[i - 1])
                            THEN i ELSE g[i - 1]]
    <3> HIDE DEF g, C
    <3> QED BY <1>4
  <2> HIDE DEF g
  <2> QED BY <2>1, <2>2
<1>6. PICK f : f = Best(ld) OBVIOUS
<1>7. f = CHOOSE x : Follows(x) BY <1>6 DEF Best
<1>8. Follows(f)
  <2> HIDE DEF Follows, g
  <2> QED BY <1>5, <1>7
<1>9. \A i \in C : f[i] = IF i = 0 THEN 1
                          ELSE IF Table!free_parks(ld, i) > Table!free_parks(ld, f[i - 1])
                               THEN i ELSE f[i - 1]
  <2>1. f = [i \in C |-> IF i = 0 THEN 1
                         ELSE IF Table!free_parks(ld, i) > Table!free_parks(ld, f[i - 1])
                              THEN i ELSE f[i - 1]]
    BY <1>8
  <2> QED BY <2>1
<1>10. C \in SUBSET Nat /\ LEVELS \in C /\ \A i \in C : i # 0 => i - 1 \in C
  OBVIOUS
<1>11. LEVELS \in 1 .. LEVELS OBVIOUS
<1> HIDE DEF C, g, Follows
<1>12. \A i \in C : f[i] = g[i]
  <2> DEFINE Bad == {i \in C : f[i] # g[i]}
  <2>1. Bad \in SUBSET Nat BY <1>10
  <2>2. \A i : i \in Bad <=> i \in C /\ f[i] # g[i] OBVIOUS
  <2> HIDE DEF Bad
  <2>3. SUFFICES ASSUME Bad # {} PROVE FALSE BY <2>2
  <2>4. PICK k \in Nat : k \in Bad /\ \A i \in Bad : k <= i
    BY <2>1, <2>3, WP!LeastNat
  <2>5. k \in C /\ f[k] # g[k] BY <2>2, <2>4
  <2>6. k # 0 BY <2>5, <1>4, <1>9
  <2>7. k - 1 \in C BY <2>5, <2>6, <1>10
  <2>8. k - 1 \notin Bad
    <3>1. ~ (k <= k - 1) OBVIOUS
    <3> QED BY <3>1, <2>4
  <2>9. f[k - 1] = g[k - 1] BY <2>2, <2>7, <2>8
  <2> QED BY <2>5, <2>6, <2>9, <1>4, <1>9
<1> QED BY <1>2, <1>6, <1>10, <1>11, <1>12

LEMMA ScanFinds ==
  ASSUME LEVELS \in Nat \ {0}, LEVEL_CAPACITY \in Nat, IsFiniteSet(Regos),
         NEW ld \in [1 .. LEVELS -> SUBSET Regos]
  PROVE  Table!scan_levels(ld) = Table!get_available_level(ld)
<1> DEFINE fp == [l \in 1 .. LEVELS |-> Table!free_parks(ld, l)]
<1>1. \A l \in 1 .. LEVELS : Table!free_parks(ld, l) \in Int
  <2> TAKE l \in 1 .. LEVELS
  <2>1. IsFiniteSet(ld[l]) BY FS_Subset
  <2>2. Cardinality(ld[l]) \in Nat BY <2>1, FS_CardinalityType
  <2>3. Table!Cardinality(ld[l]) = Cardinality(ld[l])
    BY DEF Table!Cardinality, Cardinality, Table!IsFiniteSet, IsFiniteSet
  <2> QED BY <2>2, <2>3 DEF Table!free_parks, Table!cars_in_level
<1>2. fp \in [1 .. LEVELS -> Int] BY <1>1
<1>3. \A l \in 1 .. LEVELS : Table!free_parks(ld, l) = fp[l] OBVIOUS
<1> HIDE DEF fp
<1>4. FirstMost(fp, LEVELS, Best(ld)[LEVELS]) BY <1>2, <1>3, BestIsFirst
<1>5. \A l \in 1 .. LEVELS : Table!MostFree(ld, l) <=> FirstMost(fp, LEVELS, l)
  BY <1>3 DEF Table!MostFree, Table!Levels, FirstMost
<1>6. Best(ld)[LEVELS] \in 1 .. LEVELS BY <1>4 DEF FirstMost
<1>7. PICK b \in 1 .. LEVELS : b = Best(ld)[LEVELS] BY <1>6
<1>8. PICK c : c = CHOOSE l \in 1 .. LEVELS : Table!MostFree(ld, l) OBVIOUS
<1>9. c \in 1 .. LEVELS /\ Table!MostFree(ld, c) BY <1>4, <1>5, <1>7, <1>8
<1>10. c = b
  <2>1. FirstMost(fp, LEVELS, c) /\ FirstMost(fp, LEVELS, b)
    BY <1>4, <1>5, <1>7, <1>9
  <2>2. LEVELS \in 1 .. LEVELS /\ LEVELS \in Nat OBVIOUS
  <2> QED BY <2>1, <2>2, <1>2, OneFirst
<1>11. Table!get_available_level(ld) = IF Table!free_parks(ld, c) = 0 THEN 0 ELSE c
  BY <1>8 DEF Table!get_available_level, Table!Levels
<1> QED BY <1>7, <1>10, <1>11, ScanIsBest

(* The loop over the levels, which keeps a level only when it has more     *)
(* free parks than any before it, finds the first level with the most free *)
(* parks in every table of any size, and 0 when that level has none        *)
(* (leveldata.c:28-48).                                                    *)
THEOREM ScanCorrect ==
  ASSUME LEVELS \in Nat \ {0}, LEVEL_CAPACITY \in Nat, IsFiniteSet(Regos)
  PROVE  Spec => []ScanFindsMostFree
<1>1. ScanFindsMostFree BY ScanFinds DEF ScanFindsMostFree
<1> QED BY <1>1, PTL

-----------------------------------------------------------------------------
(* The shared memory: what one program writes the others find, and nothing *)
(* else is touched.                                                        *)

AlarmKinds == {"temp", "alarm", "entrance_boom", "exit_boom", "sign"}
Kinds == AlarmKinds \union {"entrance_lpr", "exit_lpr", "level_lpr"}

(* Every object has a kind and a number. *)
LEMMA ObjectNamed ==
  ASSUME NEW o \in Memory!Objects
  PROVE  \E kind \in Kinds, i \in 1 .. 5 : o = <<kind, i>>
BY DEF Memory!Objects, Kinds, AlarmKinds

(* Counted from 0 and with an octal stride, the fire alarm's addresses are *)
(* those of the macros.                                                    *)
LEMMA AlarmMeansTheSame ==
  ASSUME NEW kind \in AlarmKinds, NEW i \in 1 .. 5
  PROVE  Memory!firealarm(kind, i - 1) = Memory!macro(kind, i)
<1> USE DEF Memory!firealarm, Memory!macro, Memory!Octal0150, Memory!LevelStride
<1>1. CASE kind = "temp" BY <1>1
<1>2. CASE kind = "alarm" BY <1>2
<1>3. CASE kind = "entrance_boom" BY <1>3
<1>4. CASE kind = "exit_boom" BY <1>4
<1>5. CASE kind = "sign" BY <1>5
<1> QED BY <1>1, <1>2, <1>3, <1>4, <1>5 DEF AlarmKinds

(* So every access is to an object at the address of its macro. *)
LEMMA AccessNamed ==
  ASSUME NEW access \in Memory!Accesses
  PROVE  \E kind \in Kinds, i \in 1 .. 5 :
           access = <<<<kind, i>>, Memory!macro(kind, i)>>
<1>1. ASSUME NEW o \in Memory!Objects, access = <<o, Memory!macro(o[1], o[2])>>
      PROVE  \E kind \in Kinds, i \in 1 .. 5 :
               access = <<<<kind, i>>, Memory!macro(kind, i)>>
  <2>1. PICK kind \in Kinds, i \in 1 .. 5 : o = <<kind, i>> BY ObjectNamed
  <2>2. o[1] = kind /\ o[2] = i BY <2>1
  <2> QED BY <1>1, <2>1, <2>2
<1>2. ASSUME NEW o \in Memory!UsedByAlarm,
             access = <<o, Memory!firealarm(o[1], o[2] - 1)>>
      PROVE  \E kind \in Kinds, i \in 1 .. 5 :
               access = <<<<kind, i>>, Memory!macro(kind, i)>>
  <2>0. o \in Memory!Objects /\ o[1] \in AlarmKinds BY DEF Memory!UsedByAlarm, AlarmKinds
  <2>1. PICK kind \in Kinds, i \in 1 .. 5 : o = <<kind, i>> BY <2>0, ObjectNamed
  <2>2. o[1] = kind /\ o[2] = i BY <2>1
  <2>3. Memory!firealarm(kind, i - 1) = Memory!macro(kind, i)
    BY <2>0, <2>2, AlarmMeansTheSame
  <2> QED BY <1>2, <2>1, <2>2, <2>3
<1> QED BY <1>1, <1>2 DEF Memory!Accesses

(* Where an object of each kind begins and ends. *)
Lies(kind, i, from, to) ==
  \/ kind = "entrance_lpr" /\ from = 288 * i - 288 /\ to = from + MutexCond + 6
  \/ kind = "entrance_boom" /\ from = 288 * i - 192 /\ to = from + MutexCond + 1
  \/ kind = "sign" /\ from = 288 * i - 96 /\ to = from + MutexCond + 1
  \/ kind = "exit_lpr" /\ from = 192 * i + 1248 /\ to = from + MutexCond + 6
  \/ kind = "exit_boom" /\ from = 192 * i + 1344 /\ to = from + MutexCond + 1
  \/ kind = "level_lpr" /\ from = 104 * i + 2296 /\ to = from + MutexCond + 6
  \/ kind = "temp" /\ from = 104 * i + 2392 /\ to = from + 2
  \/ kind = "alarm" /\ from = 104 * i + 2394 /\ to = from + 1

LEMMA Places ==
  ASSUME Memory!MutexAssumption, NEW kind \in Kinds, NEW i \in 1 .. 5
  PROVE  Lies(kind, i, Memory!macro(kind, i), Memory!macro(kind, i) + Memory!Size(kind))
<1> USE DEF Memory!macro, Memory!Size, Memory!LevelStride, Memory!MutexAssumption, Lies
<1>1. CASE kind = "entrance_lpr" BY <1>1
<1>2. CASE kind = "entrance_boom" BY <1>2
<1>3. CASE kind = "sign" BY <1>3
<1>4. CASE kind = "exit_lpr" BY <1>4
<1>5. CASE kind = "exit_boom" BY <1>5
<1>6. CASE kind = "level_lpr" BY <1>6
<1>7. CASE kind = "temp" BY <1>7
<1>8. CASE kind = "alarm" BY <1>8
<1> HIDE DEF Memory!macro, Memory!Size, Memory!LevelStride, Memory!MutexAssumption, Lies
<1>9. \/ kind \in {"entrance_lpr", "entrance_boom", "sign", "exit_lpr"}
      \/ kind \in {"exit_boom", "level_lpr", "temp", "alarm"}
  BY DEF Kinds, AlarmKinds
<1> QED BY <1>1, <1>2, <1>3, <1>4, <1>5, <1>6, <1>7, <1>8, <1>9

(* One ends before the other begins. *)
Apart(from, to, from2, to2) == to <= from2 \/ to2 <= from

LEMMA LiesApart ==
  ASSUME Memory!MutexAssumption,
         NEW kind, NEW i \in 1 .. 5, NEW from, NEW to, Lies(kind, i, from, to),
         NEW other, NEW j \in 1 .. 5, NEW from2, NEW to2, Lies(other, j, from2, to2),
         kind # other \/ i # j
  PROVE  Apart(from, to, from2, to2)
<1> USE DEF Lies, Apart, Memory!MutexAssumption
<1>1. CASE kind = "entrance_lpr" BY <1>1
<1>2. CASE kind = "entrance_boom" BY <1>2
<1>3. CASE kind = "sign" BY <1>3
<1>4. CASE kind = "exit_lpr" BY <1>4
<1>5. CASE kind = "exit_boom" BY <1>5
<1>6. CASE kind = "level_lpr" BY <1>6
<1>7. CASE kind = "temp" BY <1>7
<1>8. CASE kind = "alarm" BY <1>8
<1> QED BY <1>1, <1>2, <1>3, <1>4, <1>5, <1>6, <1>7, <1>8

(* Inside the mapping and aligned. *)
Inside(kind, from, to) ==
  /\ from \in Int /\ to \in Int
  /\ 0 <= from /\ from < to /\ to <= 2920
  /\ kind \notin {"temp", "alarm"} => from % 8 = 0
  /\ kind = "temp" => from % 2 = 0

LEMMA LiesInside ==
  ASSUME Memory!MutexAssumption,
         NEW kind, NEW i \in 1 .. 5, NEW from, NEW to, Lies(kind, i, from, to)
  PROVE  Inside(kind, from, to)
<1> USE DEF Lies, Inside, Memory!MutexAssumption
<1>1. CASE kind = "entrance_lpr" BY <1>1
<1>2. CASE kind = "entrance_boom" BY <1>2
<1>3. CASE kind = "sign" BY <1>3
<1>4. CASE kind = "exit_lpr" BY <1>4
<1>5. CASE kind = "exit_boom" BY <1>5
<1>6. CASE kind = "level_lpr" BY <1>6
<1>7. CASE kind = "temp" BY <1>7
<1>8. CASE kind = "alarm" BY <1>8
<1> QED BY <1>1, <1>2, <1>3, <1>4, <1>5, <1>6, <1>7, <1>8

(* Ranges of bytes that lie one behind the other have none in common. *)
LEMMA Disjoint ==
  ASSUME NEW a \in Int, NEW b \in Int, NEW c \in Int, NEW d \in Int,
         b <= c \/ d <= a
  PROVE  (a .. b - 1) \intersect (c .. d - 1) = {}
OBVIOUS

LEMMA SizeType ==
  ASSUME Memory!MutexAssumption, NEW kind \in Kinds
  PROVE  Memory!Size(kind) \in Int
BY DEF Memory!Size, Memory!MutexAssumption, Kinds, AlarmKinds

LEMMA LayoutIsSound ==
  ASSUME Memory!MutexAssumption
  PROVE  Memory!SameBytesSameObject
<1> SUFFICES ASSUME NEW one \in Memory!Accesses
             PROVE  /\ Memory!Touched(one) \subseteq 0 .. 2920 - 1
                    /\ one[1][1] \notin {"temp", "alarm"} => one[2] % 8 = 0
                    /\ one[1][1] = "temp" => one[2] % 2 = 0
                    /\ \A other \in Memory!Accesses :
                         /\ Memory!Touched(one) \intersect Memory!Touched(other) # {}
                              <=> one[1] = other[1]
                         /\ one[1] = other[1] => one[2] = other[2]
  BY DEF Memory!SameBytesSameObject
<1>1. PICK kind \in Kinds, i \in 1 .. 5 :
        one = <<<<kind, i>>, Memory!macro(kind, i)>>
  BY AccessNamed
<1>2. PICK from : from = Memory!macro(kind, i) OBVIOUS
<1>3. PICK to : to = from + Memory!Size(kind) OBVIOUS
<1>4. Lies(kind, i, from, to) BY <1>2, <1>3, Places
<1>5. Inside(kind, from, to) BY <1>4, LiesInside
<1>6. /\ one[1] = <<kind, i>> /\ one[1][1] = kind /\ one[2] = from BY <1>1, <1>2
<1>7. Memory!Touched(one) = from .. to - 1
  <2>1. Memory!Touched(one) = from .. from + Memory!Size(kind) - 1
    BY <1>6 DEF Memory!Touched
  <2>2. Memory!Size(kind) \in Int BY SizeType
  <2> QED BY <1>3, <1>5, <2>1, <2>2 DEF Inside
<1>8. Memory!Touched(one) \subseteq 0 .. 2920 - 1 BY <1>7, <1>5 DEF Inside
<1>9. ASSUME NEW other \in Memory!Accesses
      PROVE  /\ Memory!Touched(one) \intersect Memory!Touched(other) # {}
                   <=> one[1] = other[1]
             /\ one[1] = other[1] => one[2] = other[2]
  <2>1. PICK kind2 \in Kinds, j \in 1 .. 5 :
          other = <<<<kind2, j>>, Memory!macro(kind2, j)>>
    BY AccessNamed
  <2>2. PICK from2 : from2 = Memory!macro(kind2, j) OBVIOUS
  <2>3. PICK to2 : to2 = from2 + Memory!Size(kind2) OBVIOUS
  <2>4. Lies(kind2, j, from2, to2) BY <2>2, <2>3, Places
  <2>5. other[1] = <<kind2, j>> /\ other[1][1] = kind2 /\ other[2] = from2
    BY <2>1, <2>2
  <2>6. Memory!Touched(other) = from2 .. to2 - 1
    <3>1. Memory!Touched(other) = from2 .. from2 + Memory!Size(kind2) - 1
      BY <2>5 DEF Memory!Touched
    <3>2. Memory!Size(kind2) \in Int BY SizeType
    <3>3. Inside(kind2, from2, to2) BY <2>4, LiesInside
    <3> QED BY <2>3, <3>1, <3>2, <3>3 DEF Inside
  <2>7. CASE kind = kind2 /\ i = j
    <3>1. other = one BY <1>1, <2>1, <2>7
    <3>2. from \in Memory!Touched(one) BY <1>7, <1>5 DEF Inside
    <3> QED BY <3>1, <3>2
  <2>8. CASE kind # kind2 \/ i # j
    <3>1. one[1] # other[1] BY <1>6, <2>5, <2>8
    <3>2. Inside(kind2, from2, to2) BY <2>4, LiesInside
    <3>3. Apart(from, to, from2, to2) BY <1>4, <2>4, <2>8, LiesApart
    <3>4. Memory!Touched(one) \intersect Memory!Touched(other) = {}
      BY <1>5, <1>7, <2>6, <3>2, <3>3, Disjoint DEF Inside, Apart
    <3> QED BY <3>1, <3>4
  <2> QED BY <2>7, <2>8
<1> QED
  <2>1. /\ one[1][1] \notin {"temp", "alarm"} => one[2] % 8 = 0
        /\ one[1][1] = "temp" => one[2] % 2 = 0
    BY <1>6, <1>5 DEF Inside
  <2> QED BY <1>8, <1>9, <2>1

(* Whatever the size of mutexes and conditions, as long as they fit: the   *)
(* programs mean the same object exactly where they touch the same bytes,  *)
(* and everything is inside the mapping and aligned (macros.h:23-53,       *)
(* firealarm.c:63-200).                                                    *)
THEOREM LayoutCorrect ==
  ASSUME Memory!MutexAssumption
  PROVE  Spec => []SameBytesSameObject
<1>1. SameBytesSameObject BY LayoutIsSound DEF SameBytesSameObject
<1> QED BY <1>1, PTL

-----------------------------------------------------------------------------
(* The bills: billing.txt adds up to the sum on the display.               *)

LEMMA Remainder ==
  ASSUME NEW a \in Int, NEW m \in Nat \ {0}
  PROVE  a % m \in 0 .. m - 1
OBVIOUS

LEMMA Quotient ==
  ASSUME NEW a \in Nat, NEW m \in Nat \ {0}
  PROVE  a \div m \in Nat /\ a \div m <= a
<1>1. PICK q \in Int : q = a \div m OBVIOUS
<1>2. PICK r \in Int : r = a % m /\ 0 <= r /\ r < m OBVIOUS
<1>3. a = m * q + r BY <1>1, <1>2
<1>4. q >= 0
  <2> SUFFICES ASSUME q <= -1 PROVE FALSE OBVIOUS
  <2>1. m * q <= m * (-1) OBVIOUS
  <2> QED BY <2>1, <1>2, <1>3
<1>5. m * q >= q BY <1>4
<1> QED BY <1>1, <1>2, <1>3, <1>4, <1>5

LEMMA QuotientGrows ==
  ASSUME NEW a \in Nat, NEW b \in Nat, a <= b, NEW m \in Nat \ {0}
  PROVE  a \div m <= b \div m
<1>1. PICK q \in Int, p \in Int : q = a \div m /\ p = b \div m OBVIOUS
<1>2. PICK r \in Int, s \in Int : /\ r = a % m /\ 0 <= r /\ r < m
                                  /\ s = b % m /\ 0 <= s /\ s < m
  OBVIOUS
<1>3. a = m * q + r /\ b = m * p + s BY <1>1, <1>2
<1>4. q <= p
  <2> SUFFICES ASSUME p + 1 <= q PROVE FALSE BY <1>1
  <2>1. m * (p + 1) <= m * q OBVIOUS
  <2>2. m * (p + 1) = m * p + m OBVIOUS
  <2> QED BY <2>1, <2>2, <1>2, <1>3
<1> QED BY <1>1, <1>4

Bill == [rego : Regos, dollars : Nat, cents : 0 .. UINT_RANGE - 1]

(* f holds what the first lines of s come to, up to n of them.             *)
Adds(s, n, f) ==
  /\ f[0] = 0
  /\ \A i \in 1 .. n : f[i] = (f[i - 1] + s[i].dollars + s[i].cents) % UINT_RANGE

LEMMA SumsExist ==
  ASSUME UINT_RANGE \in Nat \ {0}, NEW s \in Seq(Bill)
  PROVE  \A n \in 0 .. Len(s) :
           \E f \in [0 .. n -> 0 .. UINT_RANGE - 1] : Adds(s, n, f)
<1> DEFINE Sums(n) == \E f \in [0 .. n -> 0 .. UINT_RANGE - 1] : Adds(s, n, f)
           Bad == {n \in 0 .. Len(s) : ~ Sums(n)}
<1>1. Len(s) \in Nat OBVIOUS
<1>2. Bad \in SUBSET Nat BY <1>1
<1>3. \A n : n \in Bad <=> n \in 0 .. Len(s) /\ ~ Sums(n) OBVIOUS
<1> HIDE DEF Bad, Sums
<1>4. SUFFICES ASSUME Bad # {} PROVE FALSE BY <1>3 DEF Sums
<1>5. PICK n \in Nat : n \in Bad /\ \A k \in Bad : n <= k
  BY <1>2, <1>4, WP!LeastNat
<1>6. n \in 0 .. Len(s) /\ ~ Sums(n) BY <1>3, <1>5
<1>7. CASE n = 0
  <2>1. PICK f : f = [i \in 0 .. 0 |-> 0] OBVIOUS
  <2>2. f \in [0 .. 0 -> 0 .. UINT_RANGE - 1] /\ f[0] = 0 BY <2>1
  <2>3. Adds(s, 0, f) BY <2>2 DEF Adds
  <2> QED BY <2>2, <2>3, <1>6, <1>7 DEF Sums
<1>8. CASE n # 0
  <2>1. n - 1 \in 0 .. Len(s) /\ n - 1 \in Nat /\ n \in 1 .. Len(s)
    BY <1>1, <1>6, <1>8
  <2>2. n - 1 \notin Bad
    <3>1. ~ (n <= n - 1) OBVIOUS
    <3> QED BY <3>1, <1>5
  <2>3. Sums(n - 1) BY <2>1, <2>2, <1>3
  <2>4. PICK f \in [0 .. n - 1 -> 0 .. UINT_RANGE - 1] : Adds(s, n - 1, f)
    BY <2>3 DEF Sums
  <2>5. PICK d \in Nat, c \in Nat : d = s[n].dollars /\ c = s[n].cents
    <3>1. s[n] \in Bill BY <2>1, ElementOfSeq
    <3>2. s[n].dollars \in Nat /\ s[n].cents \in 0 .. UINT_RANGE - 1
      BY <3>1 DEF Bill
    <3>3. s[n].cents \in Nat BY <3>2
    <3> QED BY <3>2, <3>3
  <2>6. PICK v \in 0 .. UINT_RANGE - 1 : v = (f[n - 1] + d + c) % UINT_RANGE
    <3>1. f[n - 1] \in Int BY <2>1
    <3>2. f[n - 1] + d + c \in Int BY <3>1
    <3> QED BY <3>2, Remainder
  <2>7. PICK g : g = [i \in 0 .. n |-> IF i = n THEN v ELSE f[i]] OBVIOUS
  <2>8. g \in [0 .. n -> 0 .. UINT_RANGE - 1]
    <3>1. \A i \in 0 .. n : i = n \/ i \in 0 .. n - 1 OBVIOUS
    <3> QED BY <3>1, <2>7
  <2>9. \A i \in 0 .. n - 1 : g[i] = f[i] BY <2>1, <2>7
  <2>10. g[n] = v BY <2>7
  <2>11. Adds(s, n, g)
    <3>1. g[0] = 0 BY <2>1, <2>4, <2>9 DEF Adds
    <3>2. ASSUME NEW i \in 1 .. n
          PROVE  g[i] = (g[i - 1] + s[i].dollars + s[i].cents) % UINT_RANGE
      <4>1. i - 1 \in 0 .. n - 1 BY <2>1
      <4>2. g[i - 1] = f[i - 1] BY <4>1, <2>9
      <4>3. CASE i = n BY <4>2, <4>3, <2>5, <2>6, <2>10
      <4>4. CASE i # n
        <5>1. i \in 1 .. n - 1 /\ i \in 0 .. n - 1 BY <4>4
        <5>2. g[i] = f[i] BY <5>1, <2>9
        <5> QED BY <5>1, <5>2, <4>2, <2>4 DEF Adds
      <4> QED BY <4>3, <4>4
    <3> QED BY <3>1, <3>2 DEF Adds
  <2> QED BY <2>8, <2>11, <1>6 DEF Sums
<1> QED BY <1>7, <1>8

LEMMA SumsAgree ==
  ASSUME NEW s, NEW n \in Nat, NEW f, NEW g, Adds(s, n, f), Adds(s, n, g)
  PROVE  \A i \in 0 .. n : f[i] = g[i]
<1> DEFINE Bad == {i \in 0 .. n : f[i] # g[i]}
<1>1. Bad \in SUBSET Nat OBVIOUS
<1>2. \A i : i \in Bad <=> i \in 0 .. n /\ f[i] # g[i] OBVIOUS
<1> HIDE DEF Bad
<1>3. SUFFICES ASSUME Bad # {} PROVE FALSE BY <1>2
<1>4. PICK k \in Nat : k \in Bad /\ \A i \in Bad : k <= i
  BY <1>1, <1>3, WP!LeastNat
<1>5. k \in 0 .. n /\ f[k] # g[k] BY <1>2, <1>4
<1>6. k # 0 BY <1>5 DEF Adds
<1>7. k \in 1 .. n /\ k - 1 \in 0 .. n BY <1>5, <1>6
<1>8. k - 1 \notin Bad
  <2>1. ~ (k <= k - 1) OBVIOUS
  <2> QED BY <2>1, <1>4
<1>9. f[k - 1] = g[k - 1] BY <1>2, <1>7, <1>8
<1> QED BY <1>5, <1>7, <1>9 DEF Adds

(* Billed of a file s.                                                     *)
Billed(s) ==
  CHOOSE f : f = [i \in 0 .. Len(s) |->
                    IF i = 0 THEN 0
                    ELSE (f[i - 1] + s[i].dollars + s[i].cents) % UINT_RANGE]

LEMMA BilledAdds ==
  ASSUME UINT_RANGE \in Nat \ {0}, NEW s \in Seq(Bill)
  PROVE  Adds(s, Len(s), Billed(s))
<1> DEFINE C == 0 .. Len(s)
           Follows(f) == f = [i \in C |->
                                IF i = 0 THEN 0
                                ELSE (f[i - 1] + s[i].dollars + s[i].cents) % UINT_RANGE]
<1>1. Len(s) \in Nat OBVIOUS
<1>2. Len(s) \in C BY <1>1
<1>3. PICK g \in [C -> 0 .. UINT_RANGE - 1] : Adds(s, Len(s), g)
  BY <1>2, SumsExist
<1>4. ASSUME NEW i \in C
      PROVE  g[i] = IF i = 0 THEN 0
                    ELSE (g[i - 1] + s[i].dollars + s[i].cents) % UINT_RANGE
  <2>1. i # 0 => i \in 1 .. Len(s) BY <1>1
  <2> HIDE DEF C, Follows
  <2> QED BY <2>1, <1>3 DEF Adds
<1>5. Follows(g)
  <2>1. g = [i \in C |-> g[i]] OBVIOUS
  <2>2. [i \in C |-> g[i]] =
          [i \in C |-> IF i = 0 THEN 0
                       ELSE (g[i - 1] + s[i].dollars + s[i].cents) % UINT_RANGE]
    <3> HIDE DEF C
    <3> QED BY <1>4
  <2> QED BY <2>1, <2>2
<1>6. PICK f : f = Billed(s) OBVIOUS
<1>7. f = CHOOSE x : Follows(x) BY <1>6 DEF Billed
<1>8. Follows(f)
  <2> HIDE DEF Follows
  <2> QED BY <1>5, <1>7
<1>9. \A i \in C : f[i] = IF i = 0 THEN 0
                          ELSE (f[i - 1] + s[i].dollars + s[i].cents) % UINT_RANGE
  <2>1. f = [i \in C |-> IF i = 0 THEN 0
                         ELSE (f[i - 1] + s[i].dollars + s[i].cents) % UINT_RANGE]
    BY <1>8
  <2> QED BY <2>1
<1>10. 0 \in C /\ \A i \in 1 .. Len(s) : i \in C /\ i # 0 BY <1>1
<1> HIDE DEF C, Follows
<1> QED BY <1>6, <1>9, <1>10 DEF Adds

LEMMA BilledAppend ==
  ASSUME UINT_RANGE \in Nat \ {0}, NEW s \in Seq(Bill), NEW e \in Bill
  PROVE  Billed(Append(s, e))[Len(Append(s, e))] =
           (Billed(s)[Len(s)] + e.dollars + e.cents) % UINT_RANGE
<1>1. PICK n \in Nat : n = Len(s) OBVIOUS
<1>2. PICK a : a = Append(s, e) OBVIOUS
<1>3. /\ a \in Seq(Bill) /\ Len(a) = n + 1
      /\ \A i \in 1 .. n : a[i] = s[i]
      /\ a[n + 1] = e
  BY <1>1, <1>2, AppendProperties
<1>4. Adds(s, n, Billed(s)) BY <1>1, BilledAdds
<1>5. Adds(a, n + 1, Billed(a)) BY <1>3, BilledAdds
<1>6. PICK f, g : f = Billed(s) /\ g = Billed(a) OBVIOUS
<1>7. Adds(s, n, g)
  <2>1. \A i \in 1 .. n : i \in 1 .. n + 1 OBVIOUS
  <2> QED BY <2>1, <1>3, <1>5, <1>6 DEF Adds
<1>8. n \in 0 .. n /\ n + 1 \in 1 .. n + 1 /\ n + 1 - 1 = n OBVIOUS
<1>9. f[n] = g[n]
  <2>1. Adds(s, n, f) BY <1>4, <1>6
  <2>2. \A i \in 0 .. n : f[i] = g[i] BY <2>1, <1>7, SumsAgree
  <2> QED BY <2>2, <1>8
<1>10. g[n + 1] = (g[n + 1 - 1] + a[n + 1].dollars + a[n + 1].cents) % UINT_RANGE
  BY <1>5, <1>6, <1>8 DEF Adds
<1> QED BY <1>1, <1>2, <1>3, <1>6, <1>8, <1>9, <1>10

BillsInv == Bills!TypeOK /\ Bills!FileExplainsTotal

LEMMA BillsAreBilled ==
  ASSUME NEW s
  PROVE  Bills!Billed(s) = Billed(s)[Len(s)]
BY DEF Bills!Billed, Billed

LEMMA BilledIsNat ==
  ASSUME UINT_RANGE \in Nat \ {0}, NEW s \in Seq(Bill)
  PROVE  Billed(s)[Len(s)] \in 0 .. UINT_RANGE - 1
<1>0. PICK f : f = Billed(s) OBVIOUS
<1>1. PICK n \in Nat : n = Len(s) /\ f = Billed(s) BY <1>0
<1>2. Adds(s, n, f) BY <1>1, BilledAdds
<1>3. CASE n = 0 BY <1>1, <1>2, <1>3 DEF Adds
<1>4. CASE n # 0
  <2>1. PICK g \in [0 .. n -> 0 .. UINT_RANGE - 1] : Adds(s, n, g)
    <3>1. n \in 0 .. Len(s) BY <1>1
    <3> QED BY <3>1, SumsExist
  <2>2. \A i \in 0 .. n : f[i] = g[i] BY <1>2, <2>1, SumsAgree
  <2>3. n \in 0 .. n OBVIOUS
  <2> QED BY <1>1, <2>1, <2>2, <2>3
<1> QED BY <1>3, <1>4

(* Remainders may be taken before or after an addition.                    *)
LEMMA SumOfRemainder ==
  ASSUME NEW a \in Int, NEW b \in Int, NEW m \in Nat \ {0}
  PROVE  ((a % m) + b) % m = (a + b) % m
<1>1. PICK q \in Int, r \in Int : /\ q = a \div m /\ r = a % m /\ a = m * q + r
                                 /\ 0 <= r /\ r < m
  OBVIOUS
<1>2. PICK p \in Int, t \in Int : /\ t = (r + b) % m /\ r + b = m * p + t
                                 /\ 0 <= t /\ t < m
  <2>1. r + b \in Int OBVIOUS
  <2> QED BY <2>1
<1>3. PICK u \in Int, v \in Int : /\ v = (a + b) % m /\ a + b = m * u + v
                                 /\ 0 <= v /\ v < m
  <2>1. a + b \in Int OBVIOUS
  <2> QED BY <2>1
<1>4. PICK d \in Int : d = q + p - u /\ m * d = v - t
  <2>1. m * (q + p - u) = m * q + m * p - m * u OBVIOUS
  <2>2. PICK A \in Int, B \in Int, C \in Int : A = m * q /\ B = m * p /\ C = m * u
    OBVIOUS
  <2>3. a = A + r /\ r + b = B + t /\ a + b = C + v BY <2>2, <1>1, <1>2, <1>3
  <2>4. A + B - C = v - t BY <2>3
  <2>5. m * (q + p - u) = v - t BY <2>1, <2>2, <2>4
  <2>6. q + p - u \in Int OBVIOUS
  <2> QED BY <2>5, <2>6
<1>5. d = 0
  <2>1. ASSUME d >= 1 PROVE FALSE
    <3>1. m * d >= m * 1 BY <2>1
    <3> QED BY <3>1, <1>2, <1>3, <1>4
  <2>2. ASSUME d <= -1 PROVE FALSE
    <3>1. m * d <= m * (-1) BY <2>2
    <3> QED BY <3>1, <1>2, <1>3, <1>4
  <2> QED BY <2>1, <2>2
<1>6. v = t BY <1>4, <1>5
<1> QED BY <1>1, <1>2, <1>3, <1>6

(* A line more adds its dollars and cents and its plate to what lines say. *)
LEMMA OneMoreLine ==
  ASSUME UINT_RANGE \in Nat \ {0}, NEW s \in Seq(Bill), NEW e \in Bill,
         NEW other \in Nat
  PROVE  /\ Append(s, e) \in Seq(Bill)
         /\ (Bills!Billed(Append(s, e)) + other) % UINT_RANGE =
              (Bills!Billed(s) + other + e.dollars + e.cents) % UINT_RANGE
         /\ Bills!Named(Append(s, e)) = Bills!Named(s) \union {e.rego}
<1>1. PICK a : a = Append(s, e) OBVIOUS
<1>2. PICK n \in Nat : n = Len(s) OBVIOUS
<1>3. /\ a \in Seq(Bill) /\ Len(a) = n + 1
      /\ \A i \in 1 .. n : a[i] = s[i]
      /\ a[n + 1] = e
  BY <1>1, <1>2, AppendProperties
<1>4. DOMAIN a = 1 .. n + 1 /\ DOMAIN s = 1 .. n BY <1>2, <1>3, LenProperties
<1>5. PICK x \in Nat, y \in Nat, z \in Nat :
        x = Bills!Billed(s) /\ y = e.dollars /\ z = e.cents
  <2>1. Bills!Billed(s) \in 0 .. UINT_RANGE - 1 BY BilledIsNat, BillsAreBilled
  <2>2. e.dollars \in Nat /\ e.cents \in Nat BY DEF Bill
  <2> QED BY <2>1, <2>2
<1>6. Bills!Billed(a) = (x + y + z) % UINT_RANGE
  BY <1>1, <1>5, BilledAppend, BillsAreBilled
<1>7. (Bills!Billed(a) + other) % UINT_RANGE = (x + y + z + other) % UINT_RANGE
  <2>1. x + y + z \in Int /\ other \in Int OBVIOUS
  <2>2. (((x + y + z) % UINT_RANGE) + other) % UINT_RANGE =
          (x + y + z + other) % UINT_RANGE
    BY <2>1, SumOfRemainder
  <2> QED BY <2>2, <1>6
<1>8. x + y + z + other = x + other + y + z OBVIOUS
<1>9. Bills!Named(a) = Bills!Named(s) \union {e.rego}
  <2>1. \A i \in 1 .. n + 1 : i \in 1 .. n \/ i = n + 1 OBVIOUS
  <2>2. \A i \in 1 .. n : i \in 1 .. n + 1 /\ a[i].rego = s[i].rego BY <1>3
  <2>3. n + 1 \in 1 .. n + 1 /\ a[n + 1].rego = e.rego BY <1>3
  <2>4. {a[i].rego : i \in 1 .. n + 1} = {s[i].rego : i \in 1 .. n} \union {e.rego}
    BY <2>1, <2>2, <2>3
  <2> QED BY <2>4, <1>4 DEF Bills!Named
<1> QED BY <1>1, <1>3, <1>5, <1>7, <1>8, <1>9

LEMMA BillsInit ==
  ASSUME Bills!ClockAssumption, Bills!Init
  PROVE  BillsInv
<1>1. UINT_RANGE \in Nat \ {0} /\ MaxTime \in Nat BY DEF Bills!ClockAssumption
<1>2. Bills!TypeOK
  <2>1. /\ now = 0 /\ entries = [r \in Regos |-> None] /\ existed = {}
        /\ total_bill = 0 /\ billing_fp \in BOOLEAN /\ billing_file = <<>>
        /\ aborted = FALSE /\ lost = <<>> /\ duration = [true |-> 0, computed |-> 0]
    BY DEF Bills!Init
  <2>2. now \in 0 .. MaxTime /\ total_bill \in 0 .. UINT_RANGE - 1 BY <1>1, <2>1
  <2>3. {billing_file, lost} \subseteq Seq([rego : Regos, dollars : Nat, cents : 0 .. UINT_RANGE - 1])
    BY <2>1
  <2>4. entries \in [Regos -> 0 .. now \union {None}] BY <2>1
  <2>5. duration \in [true : Nat, computed : Nat] BY <2>1
  <2> QED BY <2>1, <2>2, <2>3, <2>4, <2>5 DEF Bills!TypeOK
<1>3. billing_file = <<>> /\ lost = <<>> /\ total_bill = 0 /\ existed = {}
  BY DEF Bills!Init
<1>4. <<>> \in Seq(Bill) /\ Len(<<>>) = 0 OBVIOUS
<1>5. Adds(<<>>, 0, Billed(<<>>)) BY <1>1, <1>4, BilledAdds
<1>6. Bills!Billed(<<>>) = 0 BY <1>4, <1>5, BillsAreBilled DEF Adds
<1>7. Bills!Named(<<>>) = {} BY DEF Bills!Named
<1>8. (0 + 0) % UINT_RANGE = 0 BY <1>1
<1>9. Bills!FileExplainsTotal BY <1>3, <1>6, <1>7, <1>8 DEF Bills!FileExplainsTotal
<1> QED BY <1>2, <1>9 DEF BillsInv

(* A stay lasts no less than nothing.                                      *)
LEMMA StayIsNat ==
  ASSUME Bills!ClockAssumption, NEW before \in Nat, NEW after \in Nat,
         before <= after
  PROVE  /\ Bills!time_diff(before, after) \in Nat
         /\ (after - before) \div NS_PER_MS \in Nat
<1>1. MS_PER_SEC \in Nat \ {0} /\ NS_PER_MS \in Nat \ {0} BY DEF Bills!ClockAssumption
<1>2. PICK N \in Nat \ {0} : N = Bills!NsPerSec
  <2>1. MS_PER_SEC * NS_PER_MS \in Nat /\ MS_PER_SEC * NS_PER_MS > 0 BY <1>1
  <2> QED BY <2>1 DEF Bills!NsPerSec
<1>3. PICK b \in Nat, a \in Nat : b = before \div N /\ a = after \div N /\ b <= a
  BY Quotient, QuotientGrows
<1>4. PICK c \in Nat, d \in Nat : c = before % N /\ d = after % N
  <2>1. before % N \in 0 .. N - 1 /\ after % N \in 0 .. N - 1 BY Remainder
  <2> QED BY <2>1
<1>5. d > c => (d - c) \div NS_PER_MS \in Nat
  <2>1. d > c => d - c \in Nat OBVIOUS
  <2> QED BY <2>1, <1>1, Quotient
<1>6. ~ (d > c) => (c - d) \div NS_PER_MS \in Nat
  <2>1. ~ (d > c) => c - d \in Nat OBVIOUS
  <2> QED BY <2>1, <1>1, Quotient
<1>7. (a - b) * MS_PER_SEC \in Nat
  <2>1. a - b \in Nat BY <1>3
  <2> QED BY <2>1, <1>1
<1>8. PICK e : e = IF d > c THEN (d - c) \div NS_PER_MS ELSE (c - d) \div NS_PER_MS
  OBVIOUS
<1>9. e \in Nat BY <1>5, <1>6, <1>8
<1>10. Bills!time_diff(before, after) = (a - b) * MS_PER_SEC + e
  BY <1>2, <1>3, <1>4, <1>8 DEF Bills!time_diff, Bills!tv_sec, Bills!tv_nsec
<1>11. after - before \in Nat OBVIOUS
<1>12. (after - before) \div NS_PER_MS \in Nat BY <1>11, <1>1, Quotient
<1> QED BY <1>7, <1>9, <1>10, <1>12

LEMMA BillsPrimed ==
  ASSUME total_bill' = (Bills!Billed(billing_file') + Bills!Billed(lost')) % UINT_RANGE,
         existed' = Bills!Named(billing_file') \union Bills!Named(lost')
  PROVE  Bills!FileExplainsTotal'
BY DEF Bills!FileExplainsTotal, Bills!Billed, Bills!Named

LEMMA BillsNext ==
  ASSUME Bills!ClockAssumption, BillsInv, [Bills!Next]_(Bills!vars)
  PROVE  BillsInv'
<1>1. /\ UINT_RANGE \in Nat \ {0} /\ MaxTime \in Nat /\ None \notin Nat
      /\ CENTS_PER_MS \in Nat \ {0} /\ CENTS_PER_DOLLAR \in Nat \ {0}
  BY DEF Bills!ClockAssumption
<1>2. /\ now \in 0 .. MaxTime
      /\ entries \in [Regos -> 0 .. now \union {None}]
      /\ existed \subseteq Regos
      /\ total_bill \in 0 .. UINT_RANGE - 1
      /\ billing_fp \in BOOLEAN /\ aborted \in BOOLEAN
      /\ billing_file \in Seq(Bill) /\ lost \in Seq(Bill)
      /\ duration \in [true : Nat, computed : Nat]
  BY DEF BillsInv, Bills!TypeOK, Bill
<1>3. ~ aborted =>
        /\ total_bill = (Bills!Billed(billing_file) + Bills!Billed(lost)) % UINT_RANGE
        /\ existed = Bills!Named(billing_file) \union Bills!Named(lost)
  BY DEF BillsInv, Bills!FileExplainsTotal
<1>4. CASE UNCHANGED <<billing_file, lost, total_bill, existed, aborted, billing_fp,
                       duration>>
           /\ now' \in now .. MaxTime
           /\ entries' \in [Regos -> 0 .. now' \union {None}]
  <2>1. now' \in 0 .. MaxTime BY <1>2, <1>4
  <2>2. Bills!TypeOK' BY <2>1, <1>2, <1>4 DEF Bills!TypeOK, Bill
  <2>3. Bills!FileExplainsTotal'
    BY <1>3, <1>4 DEF Bills!FileExplainsTotal, Bills!Billed, Bills!Named
  <2> QED BY <2>2, <2>3 DEF BillsInv
<1>5. CASE UNCHANGED Bills!vars
  <2>1. UNCHANGED <<now, entries, billing_file, lost, total_bill, existed, aborted, billing_fp,
                       duration>>
    BY <1>5 DEF Bills!vars
  <2>2. now' \in now .. MaxTime BY <2>1, <1>2
  <2> QED BY <2>1, <2>2, <1>2, <1>4
<1>6. CASE Bills!Tick
  <2>1. now < MaxTime /\ now' = now + 1
        /\ UNCHANGED <<entries, billing_file, lost, total_bill, existed, aborted, billing_fp,
                       duration>>
    BY <1>6 DEF Bills!Tick
  <2>2. now' \in now .. MaxTime BY <2>1, <1>1, <1>2
  <2>3. entries' \in [Regos -> 0 .. now' \union {None}]
    <3>1. 0 .. now \subseteq 0 .. now' BY <2>1, <1>2
    <3> QED BY <3>1, <2>1, <1>2
  <2> QED BY <2>1, <2>2, <2>3, <1>4
<1>7. ASSUME NEW r \in Regos, Bills!insert_rego(r) PROVE BillsInv'
  <2>1. entries' = [entries EXCEPT ![r] = now]
        /\ UNCHANGED <<now, billing_file, lost, total_bill, existed, aborted, billing_fp,
                       duration>>
    BY <1>7 DEF Bills!insert_rego
  <2>2. now' \in now .. MaxTime /\ now \in 0 .. now BY <2>1, <1>2
  <2>3. entries' \in [Regos -> 0 .. now' \union {None}] BY <2>1, <2>2, <1>2
  <2> QED BY <2>1, <2>2, <2>3, <1>4
<1>8. ASSUME NEW r \in Regos, Bills!Settle(r) PROVE BillsInv'
  <2>1. ~ aborted /\ entries[r] # None BY <1>8 DEF Bills!Settle
  <2>2. PICK before \in Nat : before = entries[r] /\ before <= now
    <3>1. entries[r] \in 0 .. now BY <2>1, <1>2
    <3> QED BY <3>1, <1>2
  <2>3. now \in Nat BY <1>2
  <2>4. PICK ms \in Nat : ms = Bills!time_diff(before, now)
    BY <2>2, <2>3, StayIsNat
  <2>5. PICK stay \in Nat : stay = (now - before) \div NS_PER_MS
    BY <2>2, <2>3, StayIsNat
  <2>6. PICK bill \in 0 .. UINT_RANGE - 1 : bill = (ms * CENTS_PER_MS) % UINT_RANGE
    <3>1. ms * CENTS_PER_MS \in Int
      <4>1. CENTS_PER_MS \in Int BY <1>1
      <4> QED BY <4>1
    <3> QED BY <3>1, <1>1, Remainder
  <2>7. /\ duration' = [true |-> stay, computed |-> ms]
        /\ total_bill' = Bills!Sum(total_bill, bill)
        /\ Bills!save_billing(r, bill)
        /\ entries' = [entries EXCEPT ![r] = None]
        /\ existed' = existed \union {r}
        /\ UNCHANGED <<now, billing_fp>>
    BY <1>8, <2>2, <2>4, <2>5, <2>6 DEF Bills!Settle
  <2>8. PICK d \in Nat, c \in 0 .. UINT_RANGE - 1 :
           d = bill \div CENTS_PER_DOLLAR /\ c = bill - d
    <3>1. bill \in Nat BY <1>1
    <3>2. bill \div CENTS_PER_DOLLAR \in Nat /\ bill \div CENTS_PER_DOLLAR <= bill
      BY <3>1, <1>1, Quotient
    <3>3. bill - bill \div CENTS_PER_DOLLAR \in 0 .. UINT_RANGE - 1
      BY <3>1, <3>2, <1>1
    <3> QED BY <3>2, <3>3
  <2>9. PICK line \in Bill :
          line = Bills!Line(r, bill) /\ line.rego = r /\ line.dollars = d /\ line.cents = c
    <3>1. Bills!Line(r, bill) = [rego |-> r, dollars |-> d, cents |-> c]
      BY <2>8 DEF Bills!Line
    <3>2. [rego |-> r, dollars |-> d, cents |-> c] \in Bill BY DEF Bill
    <3> QED BY <3>1, <3>2
  <2>10. total_bill' = (total_bill + d + c) % UINT_RANGE
    <3>1. total_bill + bill = total_bill + d + c
      <4>1. total_bill \in Int /\ bill \in Int /\ c \in Int BY <1>1, <1>2
      <4> QED BY <4>1, <2>8
    <3> QED BY <3>1, <2>7 DEF Bills!Sum
  <2>11. total_bill' \in 0 .. UINT_RANGE - 1
    <3>1. total_bill + d + c \in Int
      <4>1. total_bill \in Int /\ c \in Int BY <1>1, <1>2
      <4> QED BY <4>1
    <3> QED BY <3>1, <2>10, <1>1, Remainder
  <2>12. entries' \in [Regos -> 0 .. now' \union {None}] BY <2>7, <1>2
  <2>13. \/ /\ billing_file' = Append(billing_file, line)
            /\ lost' = lost /\ aborted' = aborted
         \/ /\ lost' = Append(lost, line)
            /\ billing_file' = billing_file /\ aborted' = aborted
         \/ billing_file' = billing_file /\ lost' = lost /\ aborted' = TRUE
    BY <2>7, <2>9 DEF Bills!save_billing
  <2>14. PICK x \in Nat, y \in Nat : x = Bills!Billed(billing_file) /\ y = Bills!Billed(lost)
    <3>1. Billed(billing_file)[Len(billing_file)] \in Nat BY <1>1, <1>2, BilledIsNat
    <3>2. Billed(lost)[Len(lost)] \in Nat BY <1>1, <1>2, BilledIsNat
    <3> QED BY <3>1, <3>2, BillsAreBilled
  <2>15. /\ total_bill = (x + y) % UINT_RANGE
         /\ existed = Bills!Named(billing_file) \union Bills!Named(lost)
    BY <1>3, <2>1, <2>14
  <2>16. total_bill' = (x + y + d + c) % UINT_RANGE
    <3>1. x + y \in Int /\ d + c \in Int BY <2>8, <1>1
    <3>2. (((x + y) % UINT_RANGE) + (d + c)) % UINT_RANGE = (x + y + (d + c)) % UINT_RANGE
      BY <3>1, <1>1, SumOfRemainder
    <3>3. total_bill + d + c = total_bill + (d + c) /\ x + y + (d + c) = x + y + d + c
      <4>1. total_bill \in Int /\ d \in Int /\ c \in Int BY <1>1, <1>2
      <4> QED BY <4>1
    <3> QED BY <3>2, <3>3, <2>10, <2>15
  <2>17. /\ billing_file' \in Seq(Bill) /\ lost' \in Seq(Bill)
         /\ aborted' \in BOOLEAN
    <3>1. Append(billing_file, line) \in Seq(Bill) BY <1>1, <1>2, OneMoreLine
    <3>2. Append(lost, line) \in Seq(Bill) BY <1>1, <1>2, OneMoreLine
    <3> QED BY <2>13, <3>1, <3>2, <1>2
  <2>18. duration' \in [true : Nat, computed : Nat] BY <2>7
  <2>19. Bills!TypeOK'
    BY <2>7, <2>11, <2>12, <2>17, <2>18, <1>2 DEF Bills!TypeOK, Bill
  <2>20. CASE /\ billing_file' = Append(billing_file, line) /\ lost' = lost
    <3>1. /\ (Bills!Billed(billing_file') + y) % UINT_RANGE = (x + y + d + c) % UINT_RANGE
          /\ Bills!Named(billing_file') = Bills!Named(billing_file) \union {r}
      <4>1. /\ (Bills!Billed(Append(billing_file, line)) + y) % UINT_RANGE =
                 (Bills!Billed(billing_file) + y + line.dollars + line.cents) % UINT_RANGE
            /\ Bills!Named(Append(billing_file, line)) =
                 Bills!Named(billing_file) \union {line.rego}
        BY <1>1, <1>2, OneMoreLine
      <4> QED BY <4>1, <2>20, <2>9, <2>14
    <3>2. Bills!Billed(lost') = y /\ Bills!Named(lost') = Bills!Named(lost)
      BY <2>20, <2>14
    <3>3. existed' = Bills!Named(billing_file') \union Bills!Named(lost')
      BY <3>1, <3>2, <2>7, <2>15
    <3>4. total_bill' = (Bills!Billed(billing_file') + Bills!Billed(lost')) % UINT_RANGE
      BY <3>1, <3>2, <2>16
    <3> QED BY <3>3, <3>4, <2>19, BillsPrimed DEF BillsInv
  <2>21. CASE /\ lost' = Append(lost, line) /\ billing_file' = billing_file
    <3>1. /\ (Bills!Billed(lost') + x) % UINT_RANGE = (y + x + d + c) % UINT_RANGE
          /\ Bills!Named(lost') = Bills!Named(lost) \union {r}
      <4>1. /\ (Bills!Billed(Append(lost, line)) + x) % UINT_RANGE =
                 (Bills!Billed(lost) + x + line.dollars + line.cents) % UINT_RANGE
            /\ Bills!Named(Append(lost, line)) = Bills!Named(lost) \union {line.rego}
        BY <1>1, <1>2, OneMoreLine
      <4> QED BY <4>1, <2>21, <2>9, <2>14
    <3>2. Bills!Billed(billing_file') = x /\ Bills!Named(billing_file') = Bills!Named(billing_file)
      BY <2>21, <2>14
    <3>3. existed' = Bills!Named(billing_file') \union Bills!Named(lost')
      BY <3>1, <3>2, <2>7, <2>15
    <3>4. Bills!Billed(lost') \in Nat
      <4>1. Billed(lost')[Len(lost')] \in Nat BY <2>17, <1>1, BilledIsNat
      <4> QED BY <4>1, BillsAreBilled
    <3>5. y + x + d + c = x + y + d + c /\ Bills!Billed(lost') + x = x + Bills!Billed(lost')
      BY <3>4, <2>8, <1>1
    <3>6. total_bill' = (Bills!Billed(billing_file') + Bills!Billed(lost')) % UINT_RANGE
      BY <3>1, <3>2, <3>5, <2>16
    <3> QED BY <3>3, <3>6, <2>19, BillsPrimed DEF BillsInv
  <2>22. CASE aborted'
    BY <2>22, <2>19 DEF BillsInv, Bills!FileExplainsTotal
  <2> QED BY <2>13, <2>20, <2>21, <2>22
<1> QED BY <1>5, <1>6, <1>7, <1>8 DEF Bills!Next

(* As long as the manager runs, the sum on the display and billing.txt     *)
(* differ by exactly the lines that a failed flush has lost, for any       *)
(* number of bills of any size: the lines of both add up to total_bill,    *)
(* modulo the width of an unsigned int, and name every car that ever left  *)
(* (manager_funcs.c:17-29, 120-134).                                       *)
THEOREM TotalExplained ==
  ASSUME Bills!ClockAssumption
  PROVE  Spec => []FileExplainsTotal
<1>1. Init => BillsInv BY BillsInit DEF Init
<1>2. BillsInv /\ [Next]_vars => BillsInv'
  <2>1. [Next]_vars => [Bills!Next]_(Bills!vars)
    BY DEF Next, MapStep, ListStep, PlatesStep, BillsStep, AtReader, vars, bill_vars,
           Bills!vars
  <2> QED BY <2>1, BillsNext
<1>3. BillsInv => FileExplainsTotal BY DEF BillsInv, FileExplainsTotal
<1> QED BY <1>1, <1>2, <1>3, PTL DEF Spec
-----------------------------------------------------------------------------
(* Loading plates.txt.  What a file of lines of some length has where, for *)
(* any file f; w is the length of a line with its end.                     *)

LEMMA LinesGrow ==
  ASSUME NEW w \in Nat \ {0}, NEW m \in Nat, NEW n \in Nat, m <= n
  PROVE  /\ m * w \in Nat /\ n * w \in Nat /\ m * w <= n * w
         /\ (m + 1) * w = m * w + w
<1>1. PICK d \in Nat : n = m + d
  <2>1. n - m \in Nat /\ n = m + (n - m) OBVIOUS
  <2> QED BY <2>1
<1>2. d * w \in Nat OBVIOUS
<1>3. (m + d) * w = m * w + d * w OBVIOUS
<1> QED BY <1>1, <1>2, <1>3

LEMMA InLine ==
  ASSUME NEW w \in Nat \ {0}, NEW n \in Nat, NEW r \in 0 .. w - 1
  PROVE  (n * w + r) % w = r /\ (n * w + r) \div w = n
<1>1. PICK a \in Nat : a = n * w + r BY LinesGrow
<1>2. PICK q \in Nat, s \in 0 .. w - 1 : q = a \div w /\ s = a % w /\ a = q * w + s
  <2>1. PICK q \in Nat : q = a \div w BY Quotient
  <2>2. PICK s \in 0 .. w - 1 : s = a % w BY Remainder
  <2>3. a = w * q + s BY <2>1, <2>2
  <2>4. w * q = q * w BY <2>1
  <2> QED BY <2>1, <2>2, <2>3, <2>4
<1>3. ~ (q + 1 <= n)
  <2> SUFFICES ASSUME q + 1 <= n PROVE FALSE OBVIOUS
  <2>1. (q + 1) * w <= n * w /\ (q + 1) * w = q * w + w BY LinesGrow
  <2> QED BY <2>1, <1>1, <1>2, LinesGrow
<1>4. ~ (n + 1 <= q)
  <2> SUFFICES ASSUME n + 1 <= q PROVE FALSE OBVIOUS
  <2>1. (n + 1) * w <= q * w /\ (n + 1) * w = n * w + w BY LinesGrow
  <2> QED BY <2>1, <1>1, <1>2, LinesGrow
<1>5. q = n BY <1>3, <1>4
<1>6. s = r
  <2>1. n * w \in Nat BY LinesGrow
  <2> QED BY <2>1, <1>1, <1>2, <1>5
<1> QED BY <1>1, <1>2, <1>5, <1>6

(* PlatesUpTo and LineOf of a file f. *)
UpTo(f, i) ==
  /\ i * (REGO + 1) <= Len(f)
  /\ \A k \in 1 .. i * (REGO + 1) : f[k] = NL <=> k % (REGO + 1) = 0

LineIn(f, i) == SubSeq(f, (i - 1) * (REGO + 1) + 1, i * (REGO + 1) - 1)

(* All of f is plates, each on a line with its end. *)
WellFormed(f) == UpTo(f, Len(f) \div (REGO + 1)) /\ Len(f) % (REGO + 1) = 0

LEMMA FewerLines ==
  ASSUME REGO \in Nat \ {0}, NEW f, Len(f) \in Nat,
         NEW m \in Nat, NEW n \in Nat, m <= n, UpTo(f, n)
  PROVE  UpTo(f, m)
<1>1. REGO + 1 \in Nat \ {0} OBVIOUS
<1>2. /\ m * (REGO + 1) \in Nat /\ n * (REGO + 1) \in Nat
      /\ m * (REGO + 1) <= n * (REGO + 1)
  BY <1>1, LinesGrow
<1>3. 1 .. m * (REGO + 1) \subseteq 1 .. n * (REGO + 1) BY <1>2
<1> QED BY <1>2, <1>3 DEF UpTo

(* The end of line i stands where it should, and none after it. *)
LEMMA EndOfLine ==
  ASSUME REGO \in Nat \ {0}, NEW f, Len(f) \in Nat, NEW n \in Nat, UpTo(f, n + 1)
  PROVE  /\ (n + 1) * (REGO + 1) = n * (REGO + 1) + REGO + 1
         /\ n * (REGO + 1) \in Nat
         /\ n * (REGO + 1) + REGO + 1 <= Len(f)
         /\ f[n * (REGO + 1) + REGO + 1] = NL
         /\ f[n * (REGO + 1) + 1] # NL
<1>1. PICK w \in Nat \ {0} : w = REGO + 1 OBVIOUS
<1>2. n * w \in Nat /\ (n + 1) * w = n * w + w BY LinesGrow
<1>3. n * w + w <= Len(f) BY <1>1, <1>2 DEF UpTo
<1>4. 1 \in 0 .. w - 1 BY <1>1
<1>5. (n * w + 1) % w = 1 BY <1>4, InLine
<1>6. n * w + 1 \in 1 .. (n + 1) * w BY <1>2
<1>7. f[n * w + 1] # NL BY <1>1, <1>5, <1>6 DEF UpTo
<1>8. f[n * w + w] = NL
  <2>1. n + 1 \in Nat /\ 0 \in 0 .. w - 1 OBVIOUS
  <2>2. ((n + 1) * w + 0) % w = 0 BY <2>1, InLine
  <2>3. (n + 1) * w + 0 = (n + 1) * w /\ (n + 1) * w \in 1 .. (n + 1) * w BY <1>2
  <2> QED BY <2>2, <2>3, <1>1, <1>2 DEF UpTo
<1> QED BY <1>1, <1>2, <1>3, <1>7, <1>8

(* A well-formed file has as many ends of line as lines. *)
LEMMA CountsLines ==
  ASSUME REGO \in Nat \ {0}, NEW n \in Nat, NEW f \in [1 .. n -> Regos \union {NL}],
         WellFormed(f)
  PROVE  Cardinality({i \in DOMAIN f : f[i] = NL}) = n \div (REGO + 1)
<1>1. PICK w \in Nat \ {0} : w = REGO + 1 OBVIOUS
<1>2. Len(f) = n /\ DOMAIN f = 1 .. n BY LenProperties
<1>3. PICK m \in Nat : m = n \div w BY Quotient
<1>4. n = m * w
  <2>1. PICK r : r = n % w OBVIOUS
  <2>2. r = 0 BY <2>1, <1>1, <1>2 DEF WellFormed
  <2>3. r \in 0 .. w - 1 BY <2>1, Remainder
  <2>4. n = w * m + r BY <2>1, <2>3, <1>3
  <2>5. w * m = m * w /\ m * w \in Nat OBVIOUS
  <2> QED BY <2>2, <2>4, <2>5
<1>5. \A k \in 1 .. n : f[k] = NL <=> k % w = 0
  BY <1>1, <1>2, <1>3, <1>4 DEF WellFormed, UpTo
<1> DEFINE Ends == {i \in DOMAIN f : f[i] = NL}
           g == [i \in 1 .. m |-> i * w]
<1>6. \A i \in 1 .. m : g[i] = i * w /\ i * w \in Ends
  <2> SUFFICES ASSUME NEW i \in 1 .. m PROVE i * w \in Ends OBVIOUS
  <2>1. i * w \in Nat /\ i * w <= m * w BY LinesGrow
  <2>2. i * w >= 1
    <3>1. 1 * w <= i * w BY LinesGrow
    <3> QED BY <3>1
  <2>3. i * w \in 1 .. n BY <2>1, <2>2, <1>4
  <2>4. (i * w + 0) % w = 0 BY InLine
  <2>5. (i * w) % w = 0
    <3>1. i * w + 0 = i * w BY <2>1
    <3> QED BY <3>1, <2>4
  <2> QED BY <2>3, <2>5, <1>2, <1>5
<1>7. g \in [1 .. m -> Ends] BY <1>6
<1>8. \A i, j \in 1 .. m : g[i] = g[j] => i = j
  <2> SUFFICES ASSUME NEW i \in 1 .. m, NEW j \in 1 .. m, i * w = j * w, i < j
               PROVE FALSE
    BY <1>6
  <2>1. (i + 1) * w = i * w + w BY LinesGrow
  <2>2. (i + 1) * w <= j * w BY LinesGrow
  <2>3. i * w \in Nat BY LinesGrow
  <2> QED BY <2>1, <2>2, <2>3
<1>9. \A e \in Ends : \E i \in 1 .. m : g[i] = e
  <2> SUFFICES ASSUME NEW e \in 1 .. n, e % w = 0 PROVE \E i \in 1 .. m : g[i] = e
    BY <1>2, <1>5
  <2>1. PICK i \in Nat : i = e \div w BY Quotient
  <2>2. e = i * w
    <3>1. PICK r : r = e % w OBVIOUS
    <3>2. e \in Nat /\ r = 0 BY <3>1
    <3>3. r \in 0 .. w - 1 BY <3>1, <3>2, Remainder
    <3>4. e = w * i + r BY <2>1, <3>1, <3>2, <3>3
    <3>5. w * i = i * w /\ i * w \in Nat OBVIOUS
    <3> QED BY <3>2, <3>4, <3>5
  <2>3. i # 0 BY <2>2
  <2>4. i <= m BY <2>1, <1>3, QuotientGrows
  <2>5. i \in 1 .. m BY <2>3, <2>4
  <2> QED BY <2>2, <2>5, <1>6
<1>10. ExistsBijection(1 .. m, Ends)
  <2> HIDE DEF g, Ends
  <2>1. g \in Bijection(1 .. m, Ends)
    BY <1>7, <1>8, <1>9 DEF Bijection, Injection, Surjection, IsInjective
  <2> QED BY <2>1 DEF ExistsBijection
<1>11. IsFiniteSet(1 .. m) /\ Cardinality(1 .. m) = m
  <2>1. 1 \in Int /\ m \in Int OBVIOUS
  <2>2. /\ IsFiniteSet(1 .. m)
        /\ Cardinality(1 .. m) = IF 1 > m THEN 0 ELSE m - 1 + 1
    BY <2>1, FS_Interval
  <2> QED BY <2>2
<1>12. Cardinality(Ends) = m
  <2> HIDE DEF Ends
  <2> QED BY <1>10, <1>11, FS_Bijection
<1> QED BY <1>1, <1>3, <1>12

(* fscanf's end of line takes one end of line if no other comes after it. *)
LEMMA BlanksEnd ==
  ASSUME NEW f, Len(f) \in Nat, NEW p \in Nat, p <= Len(f) + 1,
         NEW q, q = CHOOSE x \in {y \in p .. Len(f) + 1 : y = Len(f) + 1 \/ f[y] # NL} :
                      \A y \in {z \in p .. Len(f) + 1 : z = Len(f) + 1 \/ f[z] # NL} : x <= y
  PROVE  /\ q \in Nat /\ q >= p
         /\ p <= Len(f) /\ f[p] = NL /\ (p + 1 <= Len(f) => f[p + 1] # NL) => q = p + 1
<1> DEFINE Stops == {y \in p .. Len(f) + 1 : y = Len(f) + 1 \/ f[y] # NL}
<1>1. Stops \in SUBSET Nat /\ Len(f) + 1 \in Stops OBVIOUS
<1>2. \A y \in Stops : y >= p OBVIOUS
<1>3. p <= Len(f) /\ f[p] = NL => p \notin Stops OBVIOUS
<1>4. p <= Len(f) /\ (p + 1 <= Len(f) => f[p + 1] # NL) => p + 1 \in Stops
  <2>1. p <= Len(f) => p + 1 \in p .. Len(f) + 1 OBVIOUS
  <2>2. p <= Len(f) /\ ~ (p + 1 <= Len(f)) => p + 1 = Len(f) + 1 OBVIOUS
  <2> QED BY <2>1, <2>2
<1>5. q = CHOOSE x \in Stops : \A y \in Stops : x <= y OBVIOUS
<1> HIDE DEF Stops
<1>6. \E x \in Stops : \A y \in Stops : x <= y BY <1>1, WP!LeastNat
<1>7. q \in Stops /\ \A y \in Stops : q <= y BY <1>5, <1>6
<1>8. q \in Nat /\ q >= p BY <1>1, <1>2, <1>7
<1>9. p \notin Stops /\ p + 1 \in Stops => q = p + 1
  <2>1. p \notin Stops => q # p BY <1>7
  <2>2. p + 1 \in Stops => q <= p + 1 BY <1>7
  <2> QED BY <2>1, <2>2, <1>8
<1> QED BY <1>3, <1>4, <1>8, <1>9

(* The loading of a file: as long as the next line is one, pos is where it *)
(* begins; a well-formed file is read to its end.                          *)
PlatesInv ==
  /\ \E n \in Nat : file \in [1 .. n -> Regos \union {NL}] \/ file = None
  /\ pos \in Nat \ {0}
  /\ values \in Seq(Seq(Regos \union {NL}))
  /\ at = "read" => file # None
  /\ file # None =>
       /\ UpTo(file, Len(values) + 1) => pos = Len(values) * (REGO + 1) + 1
       /\ \A i \in DOMAIN values : UpTo(file, i) => values[i] = LineIn(file, i)
       /\ WellFormed(file) =>
            /\ at = "open" => values = <<>>
            /\ at = "read" => /\ num_regos = Len(file) \div (REGO + 1)
                              /\ Len(values) <= num_regos
            /\ at = "returned" => Len(values) = Len(file) \div (REGO + 1)
            /\ at # "exit"
            /\ at = "running" =>
                 allow_list = {LineIn(file, i) : i \in 1 .. Len(file) \div (REGO + 1)}

LEMMA PlatesInit ==
  ASSUME Plates!RegoAssumption, Plates!Init
  PROVE  PlatesInv
<1>1. /\ at = "open" /\ file \in Plates!Files \union {None} /\ pos = 1 /\ values = <<>>
  BY DEF Plates!Init
<1>2. \E n \in Nat : file \in [1 .. n -> Regos \union {NL}] \/ file = None
  <2>1. CASE file = None BY <2>1
  <2>2. CASE file \in Plates!Files
    <3>1. PICK k \in 0 .. MaxLength : file \in [1 .. k -> Regos \union {NL}]
      BY <2>2 DEF Plates!Files
    <3>2. k \in Nat OBVIOUS
    <3> QED BY <3>1, <3>2
  <2> QED BY <1>1, <2>1, <2>2
<1>3. values \in Seq(Seq(Regos \union {NL})) /\ Len(values) = 0 /\ DOMAIN values = {}
  BY <1>1
<1>4. 0 * (REGO + 1) + 1 = 1 BY DEF Plates!RegoAssumption
<1> QED BY <1>1, <1>2, <1>3, <1>4 DEF PlatesInv

LEMMA LinesOfFile ==
  /\ \A i : /\ Plates!PlatesUpTo(i) <=> UpTo(file, i)
           /\ Plates!LineOf(i) = LineIn(file, i)
  /\ \A i : /\ Plates!PlatesUpTo(i)' <=> UpTo(file', i)
           /\ Plates!LineOf(i)' = LineIn(file', i)
BY DEF Plates!PlatesUpTo, UpTo, Plates!LineOf, LineIn

(* A line is read: what reading it at pos gives.                           *)
LEMMA RegoIsRead ==
  ASSUME Plates!RegoAssumption, PlatesInv, Plates!ReadRego, file # None
  PROVE  PlatesInv'
<1>1. REGO \in Nat \ {0} BY DEF Plates!RegoAssumption
<1>2. PICK S : S = Regos \union {NL} OBVIOUS
<1>3. PICK m \in Nat : file \in [1 .. m -> S] BY <1>2 DEF PlatesInv
<1>4. Len(file) = m /\ DOMAIN file = 1 .. m BY <1>3, LenProperties
<1>5. pos \in Nat \ {0} /\ values \in Seq(Seq(S)) BY <1>2 DEF PlatesInv
<1>6. PICK n \in Nat : n = Len(values) BY <1>5
<1>7. DOMAIN values = 1 .. n BY <1>5, <1>6, LenProperties
<1>8. /\ at = "read" /\ n < num_regos /\ pos + REGO - 1 <= m
      /\ values' = Append(values, SubSeq(file, pos, pos + REGO - 1))
      /\ pos' = Plates!BlanksAfter(pos + REGO)
      /\ UNCHANGED <<at, file, num_regos, allow_list>>
  BY <1>4, <1>6 DEF Plates!ReadRego
<1>9. PICK line : line = SubSeq(file, pos, pos + REGO - 1) OBVIOUS
<1>10. line \in Seq(S)
  <2>1. \A i \in pos .. pos + REGO - 1 : file[i] \in S BY <1>1, <1>3, <1>5, <1>8
  <2>2. pos \in Int /\ pos + REGO - 1 \in Int BY <1>1, <1>5
  <2> QED BY <2>1, <2>2, <1>9, SubSeqProperties
<1>11. /\ values' \in Seq(Seq(S)) /\ Len(values') = n + 1
       /\ \A i \in 1 .. n : values'[i] = values[i]
       /\ values'[n + 1] = line
  BY <1>5, <1>6, <1>8, <1>9, <1>10, AppendProperties
<1>12. DOMAIN values' = 1 .. n + 1 BY <1>11, LenProperties
<1>13. /\ pos' \in Nat \ {0}
       /\ /\ pos + REGO <= m /\ file[pos + REGO] = NL
          /\ pos + REGO + 1 <= m => file[pos + REGO + 1] # NL
          => pos' = pos + REGO + 1
  <2>1. PICK p \in Nat : p = pos + REGO /\ p <= m + 1 /\ p >= 1 BY <1>1, <1>5, <1>8
  <2>2. pos' = CHOOSE x \in {y \in p .. Len(file) + 1 : y = Len(file) + 1 \/ file[y] # NL} :
                 \A y \in {z \in p .. Len(file) + 1 : z = Len(file) + 1 \/ file[z] # NL} : x <= y
    BY <1>8, <2>1 DEF Plates!BlanksAfter, Plates!Min
  <2>3. /\ pos' \in Nat /\ pos' >= p
        /\ p <= m /\ file[p] = NL /\ (p + 1 <= m => file[p + 1] # NL) => pos' = p + 1
    <3>1. PICK q : q = pos' OBVIOUS
    <3>2. q = CHOOSE x \in {y \in p .. Len(file) + 1 : y = Len(file) + 1 \/ file[y] # NL} :
                \A y \in {z \in p .. Len(file) + 1 : z = Len(file) + 1 \/ file[z] # NL} : x <= y
      BY <2>2, <3>1
    <3>3. Len(file) \in Nat /\ p <= Len(file) + 1 BY <2>1, <1>4
    <3>4. /\ q \in Nat /\ q >= p
          /\ p <= Len(file) /\ file[p] = NL /\ (p + 1 <= Len(file) => file[p + 1] # NL)
             => q = p + 1
      BY <3>2, <3>3, BlanksEnd
    <3> QED BY <3>1, <3>4, <1>4
  <2> QED BY <2>1, <2>3
<1>14. UpTo(file, n + 1) => pos = n * (REGO + 1) + 1 BY <1>6 DEF PlatesInv
<1>15. UpTo(file, n + 1) => line = LineIn(file, n + 1)
  <2> SUFFICES ASSUME UpTo(file, n + 1) PROVE line = LineIn(file, n + 1) OBVIOUS
  <2>1. PICK e \in Nat : e = n * (REGO + 1) BY <1>1
  <2>2. (n + 1) * (REGO + 1) = e + REGO + 1 BY <2>1, <1>1, <1>4, EndOfLine
  <2>3. pos = e + 1 BY <2>1, <1>14
  <2>4. LineIn(file, n + 1) = SubSeq(file, n * (REGO + 1) + 1, (n + 1) * (REGO + 1) - 1)
    <3>1. PICK k \in Nat : k = n + 1 /\ k - 1 = n OBVIOUS
    <3>2. LineIn(file, k) = SubSeq(file, (k - 1) * (REGO + 1) + 1, k * (REGO + 1) - 1)
      BY <1>1 DEF LineIn
    <3> QED BY <3>1, <3>2, <1>1
  <2>5. PICK b \in Int : b = e + REGO BY <1>1
  <2>6. (n + 1) * (REGO + 1) - 1 = b BY <2>2, <2>5, <1>1
  <2>7. pos + REGO - 1 = b BY <2>3, <2>5, <1>1
  <2>8. n * (REGO + 1) + 1 = pos BY <2>1, <2>3
  <2> QED BY <2>4, <2>6, <2>7, <2>8, <1>9
<1>16. UpTo(file, n + 1 + 1) => pos' = (n + 1) * (REGO + 1) + 1
  <2> SUFFICES ASSUME UpTo(file, n + 1 + 1) PROVE pos' = (n + 1) * (REGO + 1) + 1 OBVIOUS
  <2>1. n + 1 \in Nat /\ n + 1 + 1 \in Nat /\ n + 1 <= n + 1 + 1 OBVIOUS
  <2>2. UpTo(file, n + 1) BY <2>1, <1>1, <1>4, FewerLines
  <2>3. PICK e \in Nat : e = n * (REGO + 1) BY <1>1
  <2>4. (n + 1) * (REGO + 1) = e + REGO + 1 BY <2>2, <2>3, <1>1, <1>4, EndOfLine
  <2>5. /\ (n + 1) * (REGO + 1) + REGO + 1 <= m
        /\ file[(n + 1) * (REGO + 1) + 1] # NL
    BY <2>1, <1>1, <1>4, EndOfLine
  <2>6. pos + REGO = e + REGO + 1 /\ file[e + REGO + 1] = NL
    BY <2>2, <2>3, <1>1, <1>4, <1>14, EndOfLine
  <2>7. pos + REGO = (n + 1) * (REGO + 1) BY <2>4, <2>6
  <2>8. pos + REGO <= m /\ file[pos + REGO] = NL /\ file[pos + REGO + 1] # NL
    BY <2>5, <2>6, <2>7, <1>1
  <2> QED BY <2>7, <2>8, <1>13
<1>17. \A i \in DOMAIN values' : UpTo(file, i) => values'[i] = LineIn(file, i)
  <2> SUFFICES ASSUME NEW i \in 1 .. n + 1, UpTo(file, i)
               PROVE  values'[i] = LineIn(file, i)
    BY <1>12
  <2>1. CASE i = n + 1 BY <2>1, <1>11, <1>15
  <2>2. CASE i \in 1 .. n
    <3>1. values'[i] = values[i] /\ i \in DOMAIN values BY <2>2, <1>7, <1>11
    <3> QED BY <3>1 DEF PlatesInv
  <2> QED BY <2>1, <2>2
<1>18. WellFormed(file) => num_regos = m \div (REGO + 1) /\ Len(values') <= num_regos
  <2> SUFFICES ASSUME WellFormed(file)
               PROVE  num_regos = m \div (REGO + 1) /\ n + 1 <= num_regos
    BY <1>11
  <2>1. num_regos = m \div (REGO + 1) BY <1>4, <1>8 DEF PlatesInv
  <2>2. num_regos \in Nat
    <3>1. REGO + 1 \in Nat \ {0} BY <1>1
    <3> QED BY <2>1, <3>1, Quotient
  <2> QED BY <2>1, <2>2, <1>8
<1>19. at' = "read" /\ file' = file /\ num_regos' = num_regos BY <1>8
<1> QED
  BY <1>2, <1>3, <1>4, <1>11, <1>13, <1>16, <1>17, <1>18, <1>19 DEF PlatesInv

LEMMA PlatesNext ==
  ASSUME Plates!RegoAssumption, PlatesInv, [Plates!Next]_(Plates!vars)
  PROVE  PlatesInv'
<1>1. REGO \in Nat \ {0} /\ REGO + 1 \in Nat \ {0} BY DEF Plates!RegoAssumption
<1>2. CASE UNCHANGED Plates!vars BY <1>2 DEF Plates!vars, PlatesInv
<1>3. CASE Plates!OpenMissing BY <1>3 DEF Plates!OpenMissing, PlatesInv
<1>4. CASE Plates!Count
  <2>1. /\ at = "open" /\ file # None /\ num_regos' = Plates!LinesCounted
        /\ at' = "read" /\ UNCHANGED <<file, pos, values, allow_list>>
    BY <1>4 DEF Plates!Count
  <2>2. PICK m \in Nat : file \in [1 .. m -> Regos \union {NL}] BY <2>1 DEF PlatesInv
  <2>3. Len(file) = m BY <2>2, LenProperties
  <2>4. WellFormed(file) => num_regos' = m \div (REGO + 1)
    <3>1. Plates!LinesCounted = Cardinality({i \in DOMAIN file : file[i] = NL})
      BY DEF Plates!LinesCounted, Plates!Cardinality, Cardinality, Plates!IsFiniteSet,
             IsFiniteSet
    <3> QED BY <3>1, <2>1, <2>2, <1>1, CountsLines
  <2>5. WellFormed(file) => Len(values) = 0 /\ m \div (REGO + 1) \in Nat
    BY <2>1, <1>1, Quotient DEF PlatesInv
  <2>6. WellFormed(file) => /\ num_regos' = Len(file) \div (REGO + 1)
                           /\ Len(values) <= num_regos'
    BY <2>3, <2>4, <2>5
  <2> QED BY <2>1, <2>6 DEF PlatesInv
<1>5. CASE Plates!ReadRego
  <2>1. file # None BY <1>5 DEF Plates!ReadRego, PlatesInv
  <2> QED BY <2>1, <1>5, RegoIsRead
<1>6. CASE Plates!ReadError
  <2>1. /\ at = "read" /\ Len(values) < num_regos /\ pos + REGO - 1 > Len(file)
        /\ at' = "exit" /\ UNCHANGED <<file, pos, values, num_regos, allow_list>>
    BY <1>6 DEF Plates!ReadError
  <2>2. PICK m \in Nat : file \in [1 .. m -> Regos \union {NL}] BY <2>1 DEF PlatesInv
  <2>3. Len(file) = m BY <2>2, LenProperties
  <2>4. PICK n \in Nat : n = Len(values) BY DEF PlatesInv
  <2>5. ~ WellFormed(file)
    <3> SUFFICES ASSUME WellFormed(file) PROVE FALSE OBVIOUS
    <3>1. PICK lines \in Nat : lines = m \div (REGO + 1) BY <1>1, Quotient
    <3>2. UpTo(file, lines) BY <2>3, <3>1 DEF WellFormed
    <3>3. n + 1 <= lines BY <2>1, <2>3, <2>4, <3>1 DEF PlatesInv
    <3>4. n + 1 \in Nat OBVIOUS
    <3>5. UpTo(file, n + 1) BY <3>2, <3>3, <3>4, <2>3, <1>1, FewerLines
    <3>6. PICK e \in Nat : e = n * (REGO + 1) BY <1>1
    <3>7. e + REGO + 1 <= m BY <3>5, <3>6, <2>3, <1>1, EndOfLine
    <3>8. pos = e + 1 BY <2>1, <2>4, <3>5, <3>6 DEF PlatesInv
    <3> QED BY <2>1, <2>3, <3>7, <3>8, <1>1
  <2> QED BY <2>1, <2>5 DEF PlatesInv
<1>7. CASE Plates!Return BY <1>7 DEF Plates!Return, PlatesInv
<1>8. CASE Plates!init_allow_list
  <2>1. /\ at = "returned" /\ at' \in {"undefined", "running"}
        /\ allow_list' = {values[i] : i \in DOMAIN values}
        /\ UNCHANGED <<file, pos, values, num_regos>>
    BY <1>8 DEF Plates!init_allow_list
  <2>2. ASSUME file # None, WellFormed(file)
        PROVE  allow_list' = {LineIn(file, i) : i \in 1 .. Len(file) \div (REGO + 1)}
    <3>1. PICK m \in Nat : file \in [1 .. m -> Regos \union {NL}] BY <2>2 DEF PlatesInv
    <3>2. Len(file) = m BY <3>1, LenProperties
    <3>3. PICK lines \in Nat : lines = Len(file) \div (REGO + 1) BY <1>1, <3>2, Quotient
    <3>4. Len(values) = lines BY <2>1, <2>2, <3>3 DEF PlatesInv
    <3>5. DOMAIN values = 1 .. lines
      <4>1. values \in Seq(Seq(Regos \union {NL})) BY DEF PlatesInv
      <4> QED BY <3>4, <4>1, LenProperties
    <3>6. ASSUME NEW i \in 1 .. lines PROVE values[i] = LineIn(file, i)
      <4>1. UpTo(file, lines) BY <2>2, <3>3 DEF WellFormed
      <4>2. i \in Nat /\ i <= lines OBVIOUS
      <4>3. UpTo(file, i) BY <4>1, <4>2, <3>2, <1>1, FewerLines
      <4> QED BY <4>3, <3>5, <2>2 DEF PlatesInv
    <3> QED BY <2>1, <3>3, <3>5, <3>6
  <2> QED BY <2>1, <2>2 DEF PlatesInv
<1> QED BY <1>2, <1>3, <1>4, <1>5, <1>6, <1>7, <1>8 DEF Plates!Next

(* Whatever plates.txt holds, for plates of any number of letters and      *)
(* files of any length: what is taken for a line is that line up to the    *)
(* first one that is no plate, and a file of plates is loaded in full:     *)
(* all of them get on the allow list, nothing else does, and the program   *)
(* does not end with an error (utils.c:196).                               *)
THEOREM PlatesCorrect ==
  ASSUME Plates!RegoAssumption
  PROVE  Spec => []PlatesLoaded
<1>1. Init => PlatesInv BY PlatesInit DEF Init
<1>2. PlatesInv /\ [Next]_vars => PlatesInv'
  <2>1. [Next]_vars => [Plates!Next]_(Plates!vars)
    BY DEF Next, MapStep, ListStep, PlatesStep, BillsStep, AtReader, vars, plates_vars,
           Plates!vars
  <2> QED BY <2>1, PlatesNext
<1>3. PlatesInv => PlatesLoaded
  BY LinesOfFile DEF PlatesInv, WellFormed, PlatesLoaded, Plates!PlatesLoaded
<1> QED BY <1>1, <1>2, <1>3, PTL DEF Spec
-----------------------------------------------------------------------------
(* The hash map.                                                           *)

Item == [key : Keys, value : Regos]

MapType == [size : Nat \ {0}, items : Nat, buckets : Seq(Seq(Item))]

(* The bucket of a key in an array of n. *)
Place(n, k) == ([x \in Keys |-> x \div KeysPerHash][k] % n) + 1

(* A list that has no key twice. *)
ChainOfItems(c) ==
  /\ c \in Seq(Item)
  /\ \A i, j \in 1 .. Len(c) : c[i].key = c[j].key => i = j

HasKey(c, k) == \E i \in 1 .. Len(c) : c[i].key = k

(* Every list is one without duplicates, of keys that belong there. *)
IsMap(m) ==
  /\ m \in MapType /\ Len(m.buckets) = m.size
  /\ \A b \in 1 .. m.size :
       /\ ChainOfItems(m.buckets[b])
       /\ \A i \in 1 .. Len(m.buckets[b]) : Place(m.size, m.buckets[b][i].key) = b

Counted(m) == Len(Map!AllItems(m)) = m.items

LEMMA PlaceInArray ==
  ASSUME Map!HashAssumption, NEW n \in Nat \ {0}, NEW k \in Keys
  PROVE  Place(n, k) \in 1 .. n
<1>1. PICK h \in Nat : h = [x \in Keys |-> x \div KeysPerHash][k]
  BY DEF Map!HashAssumption
<1>2. h % n \in 0 .. n - 1 BY Remainder
<1> QED BY <1>1, <1>2 DEF Place

LEMMA BucketIsPlace ==
  \A m, k : Map!Bucket(m, k) = Place(m.size, k)
BY DEF Map!Bucket, Map!get_index, Place

(* What the search of a list finds. *)
LEMMA SearchFinds ==
  ASSUME Map!HashAssumption, NEW m, IsMap(m), NEW k \in Keys,
         NEW c, c = m.buckets[Place(m.size, k)]
  PROVE  /\ ~ HasKey(c, k) => /\ Map!internal_search(m, k) = 0
                              /\ Map!search(m, k) = Map!Nothing
         /\ \A j \in 1 .. Len(c) :
              c[j].key = k => /\ Map!internal_search(m, k) = j
                              /\ Map!search(m, k) = c[j]
<1>1. Place(m.size, k) \in 1 .. m.size BY PlaceInArray DEF IsMap, MapType
<1>2. ChainOfItems(c) BY <1>1 DEF IsMap
<1>3. PICK i : i = Map!internal_search(m, k) OBVIOUS
<1> DEFINE Here == {j \in 1 .. Len(c) : c[j].key = k}
<1>4. i = IF Here # {} THEN CHOOSE x \in Here : \A y \in Here : x <= y ELSE 0
  <2>1. c = m.buckets[Map!Bucket(m, k)] BY BucketIsPlace
  <2>2. Map!internal_search(m, k) =
          IF Here # {} THEN CHOOSE x \in Here : \A y \in Here : x <= y ELSE 0
    BY <2>1 DEF Map!internal_search, Map!SelectInSeq, Map!Min
  <2> QED BY <2>2, <1>3
<1>5. Here \in SUBSET Nat /\ \A j : j \in Here <=> j \in 1 .. Len(c) /\ c[j].key = k
  OBVIOUS
<1> HIDE DEF Here
<1>6. ~ HasKey(c, k) => i = 0 BY <1>4, <1>5 DEF HasKey
<1>7. Here # {} => i \in Here
  <2>1. Here # {} => \E x \in Here : \A y \in Here : x <= y BY <1>5, WP!LeastNat
  <2> QED BY <2>1, <1>4
<1>8. ASSUME NEW j \in 1 .. Len(c), c[j].key = k PROVE i = j
  <2>1. i \in 1 .. Len(c) /\ c[i].key = k BY <1>5, <1>7, <1>8
  <2> QED BY <2>1, <1>2, <1>8 DEF ChainOfItems
<1>9. Map!search(m, k) = IF i = 0 THEN Map!Nothing ELSE c[i]
  BY <1>3, BucketIsPlace DEF Map!search
<1>10. \A j \in 1 .. Len(c) : j # 0 OBVIOUS
<1> QED BY <1>3, <1>6, <1>8, <1>9, <1>10

(* A search finds the item of the key, or nothing if there is none. *)
LEMMA SearchType ==
  ASSUME Map!HashAssumption, NEW m, IsMap(m), NEW k \in Keys
  PROVE  \/ Map!search(m, k) = Map!Nothing
         \/ Map!search(m, k) \in Item /\ Map!search(m, k).key = k
<1>1. PICK c : c = m.buckets[Place(m.size, k)] OBVIOUS
<1>2. c \in Seq(Item)
  <2>1. Place(m.size, k) \in 1 .. m.size BY PlaceInArray DEF IsMap, MapType
  <2> QED BY <1>1, <2>1 DEF IsMap, ChainOfItems
<1>3. CASE HasKey(c, k)
  <2>1. PICK j \in 1 .. Len(c) : c[j].key = k BY <1>3 DEF HasKey
  <2>2. c[j] \in Item BY <1>2, <2>1, ElementOfSeq
  <2> QED BY <1>1, <2>1, <2>2, SearchFinds
<1>4. CASE ~ HasKey(c, k) BY <1>1, <1>4, SearchFinds
<1> QED BY <1>3, <1>4

-----------------------------------------------------------------------------
(* Functions by recursion over numbers: step goes from the value for i - 1 *)
(* to the one for i.                                                       *)

Steps(n, base, step, f) ==
  f[0] = base /\ \A i \in 1 .. n : f[i] = step[<<i, f[i - 1]>>]

LEMMA RecursionExists ==
  ASSUME NEW n \in Nat, NEW S, NEW base \in S, NEW step \in [(1 .. n) \X S -> S]
  PROVE  \E f \in [0 .. n -> S] : Steps(n, base, step, f)
<1> DEFINE Upto(k) == \E f \in [0 .. k -> S] : Steps(k, base, step, f)
           Bad == {k \in 0 .. n : ~ Upto(k)}
<1>1. Bad \in SUBSET Nat OBVIOUS
<1>2. \A k : k \in Bad <=> k \in 0 .. n /\ ~ Upto(k) OBVIOUS
<1>3. n \in 0 .. n OBVIOUS
<1> HIDE DEF Bad, Upto
<1>4. SUFFICES ASSUME Bad # {} PROVE FALSE BY <1>2, <1>3 DEF Upto
<1>5. PICK k \in Nat : k \in Bad /\ \A j \in Bad : k <= j
  BY <1>1, <1>4, WP!LeastNat
<1>6. k \in 0 .. n /\ ~ Upto(k) BY <1>2, <1>5
<1>7. CASE k = 0
  <2>1. PICK f : f = [i \in 0 .. 0 |-> base] OBVIOUS
  <2>2. f \in [0 .. 0 -> S] /\ f[0] = base BY <2>1
  <2>3. Steps(0, base, step, f) BY <2>2 DEF Steps
  <2> QED BY <2>2, <2>3, <1>6, <1>7 DEF Upto
<1>8. CASE k # 0
  <2>1. k - 1 \in 0 .. n /\ k - 1 \in Nat /\ k \in 1 .. n BY <1>6, <1>8
  <2>2. k - 1 \notin Bad
    <3>1. ~ (k <= k - 1) OBVIOUS
    <3> QED BY <3>1, <1>5
  <2>3. PICK f \in [0 .. k - 1 -> S] : Steps(k - 1, base, step, f)
    BY <2>1, <2>2, <1>2 DEF Upto
  <2>4. PICK v \in S : v = step[<<k, f[k - 1]>>]
    <3>1. f[k - 1] \in S BY <2>1
    <3>2. <<k, f[k - 1]>> \in (1 .. n) \X S BY <3>1, <2>1
    <3> QED BY <3>2
  <2>5. PICK g : g = [i \in 0 .. k |-> IF i = k THEN v ELSE f[i]] OBVIOUS
  <2>6. g \in [0 .. k -> S]
    <3>1. \A i \in 0 .. k : i = k \/ i \in 0 .. k - 1 OBVIOUS
    <3> QED BY <3>1, <2>5
  <2>7. \A i \in 0 .. k - 1 : g[i] = f[i] BY <2>1, <2>5
  <2>8. g[k] = v BY <2>5
  <2>9. Steps(k, base, step, g)
    <3>1. g[0] = base BY <2>1, <2>3, <2>7 DEF Steps
    <3>2. ASSUME NEW i \in 1 .. k PROVE g[i] = step[<<i, g[i - 1]>>]
      <4>1. i - 1 \in 0 .. k - 1 BY <2>1
      <4>2. g[i - 1] = f[i - 1] BY <4>1, <2>7
      <4>3. CASE i = k BY <4>2, <4>3, <2>4, <2>8
      <4>4. CASE i # k
        <5>1. i \in 1 .. k - 1 /\ i \in 0 .. k - 1 BY <4>4
        <5>2. g[i] = f[i] BY <5>1, <2>7
        <5> QED BY <5>1, <5>2, <4>2, <2>3 DEF Steps
      <4> QED BY <4>3, <4>4
    <3> QED BY <3>1, <3>2 DEF Steps
  <2> QED BY <2>6, <2>9, <1>6 DEF Upto
<1> QED BY <1>7, <1>8

(* f gathers the lists of the array, one after the other. *)
Gathers(m, f) ==
  /\ f \in [0 .. m.size -> Seq(Item)]
  /\ f[0] = <<>>
  /\ \A b \in 1 .. m.size : f[b] = f[b - 1] \o m.buckets[b]

LEMMA WalkGathers ==
  ASSUME NEW m, IsMap(m)
  PROVE  Gathers(m, Map!Walk(m))
<1>1. PICK n \in Nat : n = m.size BY DEF IsMap, MapType
<1>2. PICK B : B = m.buckets OBVIOUS
<1>3. \A b \in 1 .. n : B[b] \in Seq(Item) BY <1>1, <1>2 DEF IsMap, ChainOfItems
<1>4. PICK step : step = [p \in (1 .. n) \X Seq(Item) |-> p[2] \o B[p[1]]] OBVIOUS
<1>5. \A b \in 1 .. n, s \in Seq(Item) : step[<<b, s>>] = s \o B[b]
  BY <1>4
<1>6. step \in [(1 .. n) \X Seq(Item) -> Seq(Item)]
  <2>1. \A p \in (1 .. n) \X Seq(Item) : p[2] \o B[p[1]] \in Seq(Item)
    <3> SUFFICES ASSUME NEW p \in (1 .. n) \X Seq(Item)
                 PROVE  p[2] \o B[p[1]] \in Seq(Item)
      OBVIOUS
    <3>1. p[1] \in 1 .. n /\ p[2] \in Seq(Item) OBVIOUS
    <3> QED BY <3>1, <1>3, ConcatProperties
  <2> QED BY <2>1, <1>4
<1>7. PICK g \in [0 .. n -> Seq(Item)] : Steps(n, <<>>, step, g)
  <2>1. <<>> \in Seq(Item) OBVIOUS
  <2> QED BY <2>1, <1>6, RecursionExists
<1>8. g[0] = <<>> /\ \A b \in 1 .. n : g[b] = g[b - 1] \o B[b]
  <2>1. \A b \in 1 .. n : b - 1 \in 0 .. n OBVIOUS
  <2>2. \A b \in 1 .. n : g[b - 1] \in Seq(Item) BY <2>1
  <2> QED BY <2>2, <1>5, <1>7 DEF Steps
<1> DEFINE C == 0 .. n
           Follows(f) == f = [b \in C |-> IF b = 0 THEN <<>> ELSE f[b - 1] \o B[b]]
<1>9. Follows(g)
  <2>1. \A b \in C : g[b] = IF b = 0 THEN <<>> ELSE g[b - 1] \o B[b]
    <3>1. \A b \in C : b = 0 \/ b \in 1 .. n OBVIOUS
    <3>2. \A b \in 1 .. n : b # 0 OBVIOUS
    <3> HIDE DEF C, Follows
    <3> QED BY <3>1, <3>2, <1>8
  <2>2. g = [b \in C |-> g[b]] OBVIOUS
  <2>3. [b \in C |-> g[b]] = [b \in C |-> IF b = 0 THEN <<>> ELSE g[b - 1] \o B[b]]
    <3> HIDE DEF C
    <3> QED BY <2>1
  <2> QED BY <2>2, <2>3
<1>10. PICK f : f = Map!Walk(m) OBVIOUS
<1>11. f = CHOOSE x : Follows(x) BY <1>1, <1>2, <1>10 DEF Map!Walk
<1>12. Follows(f)
  <2> HIDE DEF Follows
  <2> QED BY <1>9, <1>11
<1>13. /\ f[0] = <<>>
       /\ \A b \in 1 .. n : f[b] = f[b - 1] \o B[b]
       /\ DOMAIN f = 0 .. n /\ f = [b \in 0 .. n |-> f[b]]
  <2>1. f = [b \in C |-> IF b = 0 THEN <<>> ELSE f[b - 1] \o B[b]] BY <1>12
  <2>2. DOMAIN f = C /\ \A b \in C : f[b] = IF b = 0 THEN <<>> ELSE f[b - 1] \o B[b]
    <3> HIDE DEF C
    <3> QED BY <2>1
  <2>3. 0 \in C /\ \A b \in 1 .. n : b \in C /\ b # 0 OBVIOUS
  <2>4. f = [b \in C |-> f[b]]
    <3> HIDE DEF C
    <3> QED BY <2>1
  <2> QED BY <2>2, <2>3, <2>4
<1> DEFINE Bad == {b \in 0 .. n : f[b] # g[b]}
<1>14. Bad \in SUBSET Nat /\ \A b : b \in Bad <=> b \in 0 .. n /\ f[b] # g[b] OBVIOUS
<1> HIDE DEF Bad, Follows
<1>15. Bad = {}
  <2> SUFFICES ASSUME Bad # {} PROVE FALSE OBVIOUS
  <2>1. PICK k \in Nat : k \in Bad /\ \A b \in Bad : k <= b BY <1>14, WP!LeastNat
  <2>2. k \in 0 .. n /\ f[k] # g[k] BY <2>1, <1>14
  <2>3. k # 0 BY <2>2, <1>8, <1>13
  <2>4. k \in 1 .. n /\ k - 1 \in 0 .. n BY <2>2, <2>3
  <2>5. k - 1 \notin Bad
    <3>1. ~ (k <= k - 1) OBVIOUS
    <3> QED BY <3>1, <2>1
  <2>6. f[k - 1] = g[k - 1] BY <2>4, <2>5, <1>14
  <2> QED BY <2>2, <2>4, <2>6, <1>8, <1>13
<1>16. \A b \in 0 .. n : f[b] = g[b] BY <1>14, <1>15
<1>17. f \in [0 .. n -> Seq(Item)]
  <2>1. \A b \in 0 .. n : f[b] \in Seq(Item) BY <1>16
  <2> QED BY <2>1, <1>13
<1> QED BY <1>1, <1>2, <1>10, <1>13, <1>17 DEF Gathers

(* Where the items of the lists are in the walk: item i of list b comes    *)
(* after those of the lists before it, and nothing else is in the walk.    *)
Gathered(m, f, n) ==
  /\ \A b \in 1 .. n : \A i \in 1 .. Len(m.buckets[b]) :
       /\ Len(f[b - 1]) + i \in 1 .. Len(f[n])
       /\ f[n][Len(f[b - 1]) + i] = m.buckets[b][i]
  /\ \A t \in 1 .. Len(f[n]) :
       \E b \in 1 .. n : \E i \in 1 .. Len(m.buckets[b]) : t = Len(f[b - 1]) + i

LEMMA OneMoreList ==
  ASSUME NEW m, IsMap(m), NEW f, Gathers(m, f), NEW n \in 1 .. m.size,
         Gathered(m, f, n - 1)
  PROVE  Gathered(m, f, n)
<1>1. m.size \in Nat /\ n - 1 \in 0 .. m.size /\ n \in Nat BY DEF IsMap, MapType
<1>2. PICK s \in Seq(Item), c \in Seq(Item) : s = f[n - 1] /\ c = m.buckets[n]
  BY <1>1 DEF Gathers, IsMap, ChainOfItems
<1>3. f[n] = s \o c BY <1>2 DEF Gathers
<1>4. PICK ls \in Nat, lc \in Nat : ls = Len(s) /\ lc = Len(c) OBVIOUS
<1>5. /\ Len(f[n]) = ls + lc
      /\ \A t \in 1 .. ls + lc : f[n][t] = IF t <= ls THEN s[t] ELSE c[t - ls]
  BY <1>3, <1>4, ConcatProperties
<1>6. ASSUME NEW b \in 1 .. n, NEW i \in 1 .. Len(m.buckets[b])
      PROVE  /\ Len(f[b - 1]) + i \in 1 .. Len(f[n])
             /\ f[n][Len(f[b - 1]) + i] = m.buckets[b][i]
  <2>1. CASE b = n
    <3>1. Len(f[b - 1]) = ls /\ i \in 1 .. lc BY <2>1, <1>2, <1>4
    <3>2. ls + i \in 1 .. ls + lc /\ ~ (ls + i <= ls) /\ ls + i - ls = i BY <3>1
    <3> QED BY <3>1, <3>2, <2>1, <1>2, <1>5
  <2>2. CASE b # n
    <3>1. b \in 1 .. n - 1 BY <2>2, <1>1
    <3>2. /\ Len(f[b - 1]) + i \in 1 .. ls
          /\ s[Len(f[b - 1]) + i] = m.buckets[b][i]
      BY <3>1, <1>2, <1>4 DEF Gathered
    <3>3. \A t \in 1 .. ls : t \in 1 .. ls + lc /\ t <= ls OBVIOUS
    <3> QED BY <3>2, <3>3, <1>5
  <2> QED BY <2>1, <2>2
<1>7. ASSUME NEW t \in 1 .. Len(f[n])
      PROVE  \E b \in 1 .. n : \E i \in 1 .. Len(m.buckets[b]) : t = Len(f[b - 1]) + i
  <2>1. CASE t <= ls
    <3>1. t \in 1 .. ls BY <2>1, <1>5
    <3>2. PICK b \in 1 .. n - 1 : \E i \in 1 .. Len(m.buckets[b]) : t = Len(f[b - 1]) + i
      BY <3>1, <1>2, <1>4 DEF Gathered
    <3>3. b \in 1 .. n BY <1>1
    <3> QED BY <3>2, <3>3
  <2>2. CASE ~ (t <= ls)
    <3>1. t - ls \in 1 .. lc /\ t = ls + (t - ls) BY <2>2, <1>5
    <3>2. n \in 1 .. n BY <1>1
    <3> QED BY <3>1, <3>2, <1>2, <1>4
  <2> QED BY <2>1, <2>2
<1> QED BY <1>6, <1>7 DEF Gathered

LEMMA AllGathered ==
  ASSUME NEW m, IsMap(m), NEW f, Gathers(m, f)
  PROVE  \A n \in 0 .. m.size : Gathered(m, f, n)
<1> DEFINE Bad == {n \in 0 .. m.size : ~ Gathered(m, f, n)}
<1>1. m.size \in Nat BY DEF IsMap, MapType
<1>2. Bad \in SUBSET Nat /\ \A n : n \in Bad <=> n \in 0 .. m.size /\ ~ Gathered(m, f, n)
  OBVIOUS
<1> HIDE DEF Bad
<1>3. SUFFICES ASSUME Bad # {} PROVE FALSE BY <1>2
<1>4. PICK n \in Nat : n \in Bad /\ \A k \in Bad : n <= k BY <1>2, <1>3, WP!LeastNat
<1>5. n \in 0 .. m.size /\ ~ Gathered(m, f, n) BY <1>2, <1>4
<1>6. CASE n = 0
  <2>1. f[0] = <<>> /\ Len(<<>>) = 0 BY DEF Gathers
  <2> QED BY <2>1, <1>5, <1>6 DEF Gathered
<1>7. CASE n # 0
  <2>1. n \in 1 .. m.size /\ n - 1 \in 0 .. m.size BY <1>1, <1>5, <1>7
  <2>2. n - 1 \notin Bad
    <3>1. ~ (n <= n - 1) OBVIOUS
    <3> QED BY <3>1, <1>4
  <2>3. Gathered(m, f, n - 1) BY <2>1, <2>2, <1>2
  <2> QED BY <2>1, <2>3, <1>5, OneMoreList
<1> QED BY <1>6, <1>7

(* m2 is a map that differs from m in no bucket but b. *)
DiffersIn(m, m2, b) ==
  /\ IsMap(m2) /\ m2.size = m.size
  /\ \A x \in 1 .. m.size : x # b => m2.buckets[x] = m.buckets[x]

(* A list that changes changes the number of all items by as much. *)
LEMMA LengthChanges ==
  ASSUME NEW m, IsMap(m), NEW b \in 1 .. m.size, NEW m2, DiffersIn(m, m2, b),
         NEW f, Gathers(m, f), NEW g, Gathers(m2, g)
  PROVE  /\ Len(f[m.size]) \in Nat /\ Len(g[m.size]) \in Nat
         /\ Len(g[m.size]) = Len(f[m.size]) + Len(m2.buckets[b]) - Len(m.buckets[b])
<1>0. /\ IsMap(m2) /\ m2.size = m.size
      /\ \A x \in 1 .. m.size : x # b => m2.buckets[x] = m.buckets[x]
  BY DEF DiffersIn
<1>1. PICK nb \in Nat : nb = m.size BY DEF IsMap, MapType
<1>2. PICK old \in Nat, new \in Nat : old = Len(m.buckets[b]) /\ new = Len(m2.buckets[b])
  BY <1>0 DEF IsMap, ChainOfItems
<1>3. \A n \in 0 .. nb : /\ f[n] \in Seq(Item) /\ g[n] \in Seq(Item)
                         /\ Len(f[n]) \in Nat /\ Len(g[n]) \in Nat
  BY <1>0, <1>1 DEF Gathers
<1>4. ASSUME NEW n \in 1 .. nb
      PROVE  /\ Len(f[n]) = Len(f[n - 1]) + Len(m.buckets[n])
             /\ Len(g[n]) = Len(g[n - 1]) + Len(m2.buckets[n])
  <2>1. f[n - 1] \in Seq(Item) /\ g[n - 1] \in Seq(Item)
    <3>1. n - 1 \in 0 .. nb OBVIOUS
    <3> QED BY <3>1, <1>3
  <2>2. m.buckets[n] \in Seq(Item) /\ m2.buckets[n] \in Seq(Item)
    BY <1>0, <1>1 DEF IsMap, ChainOfItems
  <2>3. f[n] = f[n - 1] \o m.buckets[n] /\ g[n] = g[n - 1] \o m2.buckets[n]
    BY <1>0, <1>1 DEF Gathers
  <2> QED BY <2>1, <2>2, <2>3, ConcatProperties
<1> DEFINE Moved(n) == Len(g[n]) = Len(f[n]) + (IF n >= b THEN new - old ELSE 0)
           Bad == {n \in 0 .. nb : ~ Moved(n)}
<1>5. Bad \in SUBSET Nat /\ \A n : n \in Bad <=> n \in 0 .. nb /\ ~ Moved(n)
  <2> HIDE DEF Moved
  <2> QED OBVIOUS
<1> HIDE DEF Bad
<1>6. Bad = {}
  <2> SUFFICES ASSUME Bad # {} PROVE FALSE OBVIOUS
  <2>1. PICK n \in Nat : n \in Bad /\ \A k \in Bad : n <= k BY <1>5, WP!LeastNat
  <2>2. n \in 0 .. nb /\ ~ Moved(n) BY <2>1, <1>5
  <2>3. CASE n = 0
    <3>1. f[0] = <<>> /\ g[0] = <<>> /\ Len(<<>>) = 0 BY DEF Gathers
    <3>2. ~ (0 >= b) BY <1>1
    <3> QED BY <3>1, <3>2, <2>2, <2>3
  <2>4. CASE n # 0
    <3>1. n \in 1 .. nb /\ n - 1 \in 0 .. nb BY <2>2, <2>4
    <3>2. n - 1 \notin Bad
      <4>1. ~ (n <= n - 1) OBVIOUS
      <4> QED BY <4>1, <2>1
    <3>3. Moved(n - 1) BY <3>1, <3>2, <1>5
    <3>4. PICK lf \in Nat, lg \in Nat, of \in Nat, og \in Nat :
             /\ lf = Len(f[n - 1]) /\ lg = Len(g[n - 1])
             /\ of = Len(m.buckets[n]) /\ og = Len(m2.buckets[n])
      <4>1. Len(f[n - 1]) \in Nat /\ Len(g[n - 1]) \in Nat BY <3>1, <1>3
      <4>2. Len(m.buckets[n]) \in Nat /\ Len(m2.buckets[n]) \in Nat
        BY <3>1, <1>0, <1>1, SMTT(30) DEF IsMap, ChainOfItems
      <4> QED BY <4>1, <4>2
    <3>5. Len(f[n]) = lf + of /\ Len(g[n]) = lg + og BY <3>1, <3>4, <1>4
    <3>6. IF n = b THEN of = old /\ og = new ELSE og = of BY <3>1, <3>4, <1>0, <1>1, <1>2
    <3>7. lg = lf + (IF n - 1 >= b THEN new - old ELSE 0) BY <3>3, <3>4
    <3>8. b \in Nat BY <1>1
    <3>9. lg + og = lf + of + (IF n >= b THEN new - old ELSE 0) BY <3>6, <3>7, <3>8
    <3> QED BY <3>5, <3>9, <2>2
  <2> QED BY <2>3, <2>4
<1>7. nb \in 0 .. nb /\ nb >= b BY <1>1
<1>8. Moved(nb) BY <1>5, <1>6, <1>7
<1> QED BY <1>0, <1>1, <1>2, <1>3, <1>7, <1>8

LEMMA ItemsChange ==
  ASSUME NEW m, IsMap(m), NEW b \in 1 .. m.size, NEW m2, DiffersIn(m, m2, b)
  PROVE  /\ Len(Map!AllItems(m)) \in Nat
         /\ Len(Map!AllItems(m2)) =
              Len(Map!AllItems(m)) + Len(m2.buckets[b]) - Len(m.buckets[b])
<1>1. IsMap(m2) /\ m2.size = m.size BY DEF DiffersIn
<1>2. PICK f, g : f = Map!Walk(m) /\ g = Map!Walk(m2) OBVIOUS
<1>3. Gathers(m, f) /\ Gathers(m2, g) BY <1>1, <1>2, WalkGathers
<1>4. Map!AllItems(m) = f[m.size] /\ Map!AllItems(m2) = g[m.size]
  BY <1>1, <1>2 DEF Map!AllItems
<1>5. /\ Len(f[m.size]) \in Nat /\ Len(g[m.size]) \in Nat
      /\ Len(g[m.size]) = Len(f[m.size]) + Len(m2.buckets[b]) - Len(m.buckets[b])
  BY <1>3, LengthChanges
<1> QED BY <1>4, <1>5

LEMMA SearchElsewhere ==
  ASSUME Map!HashAssumption, NEW m, IsMap(m), NEW b \in 1 .. m.size,
         NEW m2, DiffersIn(m, m2, b), NEW k \in Keys, Place(m.size, k) # b
  PROVE  Map!search(m2, k) = Map!search(m, k)
<1>1. /\ IsMap(m2) /\ m2.size = m.size
      /\ \A x \in 1 .. m.size : x # b => m2.buckets[x] = m.buckets[x]
  BY DEF DiffersIn
<1>2. Place(m.size, k) \in 1 .. m.size BY PlaceInArray DEF IsMap, MapType
<1>3. PICK d : d = m.buckets[Place(m.size, k)] OBVIOUS
<1>4. d = m2.buckets[Place(m2.size, k)] BY <1>1, <1>2, <1>3
<1>5. CASE HasKey(d, k)
  <2>1. PICK j \in 1 .. Len(d) : d[j].key = k BY <1>5 DEF HasKey
  <2>2. Map!search(m, k) = d[j] BY <2>1, <1>3, SearchFinds
  <2>3. Map!search(m2, k) = d[j] BY <2>1, <1>1, <1>4, SearchFinds
  <2> QED BY <2>2, <2>3
<1>6. CASE ~ HasKey(d, k)
  <2>1. Map!search(m, k) = Map!Nothing BY <1>3, <1>6, SearchFinds
  <2>2. Map!search(m2, k) = Map!Nothing BY <1>1, <1>4, <1>6, SearchFinds
  <2> QED BY <2>1, <2>2
<1> QED BY <1>5, <1>6

(* Lists c and d hold the same items of other keys than key. *)
SameOthers(c, d, key) ==
  /\ \A j \in 1 .. Len(c) : c[j].key # key => \E i \in 1 .. Len(d) : d[i] = c[j]
  /\ \A i \in 1 .. Len(d) : d[i].key # key => \E j \in 1 .. Len(c) : c[j] = d[i]

(* m2 is a map that differs from m in bucket b only, and there in key only. *)
DiffersFor(m, m2, b, key) ==
  DiffersIn(m, m2, b) /\ SameOthers(m.buckets[b], m2.buckets[b], key)

LEMMA SearchOthers ==
  ASSUME Map!HashAssumption, NEW m, IsMap(m), NEW b \in 1 .. m.size,
         NEW m2, NEW key, DiffersFor(m, m2, b, key)
  PROVE  \A k \in Keys : k # key => Map!search(m2, k) = Map!search(m, k)
<1> SUFFICES ASSUME NEW k \in Keys, k # key PROVE Map!search(m2, k) = Map!search(m, k)
  OBVIOUS
<1>1. DiffersIn(m, m2, b) /\ IsMap(m2) /\ m2.size = m.size BY DEF DiffersFor, DiffersIn
<1>2. CASE Place(m.size, k) # b BY <1>1, <1>2, SearchElsewhere
<1>3. CASE Place(m.size, k) = b
  <2>1. PICK c, d : c = m.buckets[b] /\ d = m2.buckets[b] OBVIOUS
  <2>2. c = m.buckets[Place(m.size, k)] /\ d = m2.buckets[Place(m2.size, k)]
    BY <2>1, <1>1, <1>3
  <2>3. SameOthers(c, d, key) BY <2>1 DEF DiffersFor
  <2>4. CASE HasKey(c, k)
    <3>1. PICK j \in 1 .. Len(c) : c[j].key = k BY <2>4 DEF HasKey
    <3>2. PICK i \in 1 .. Len(d) : d[i] = c[j] BY <3>1, <2>3 DEF SameOthers
    <3>3. Map!search(m, k) = c[j] BY <3>1, <2>2, SearchFinds
    <3>4. Map!search(m2, k) = d[i] BY <3>1, <3>2, <2>2, <1>1, SearchFinds
    <3> QED BY <3>2, <3>3, <3>4
  <2>5. CASE ~ HasKey(c, k)
    <3>1. ~ HasKey(d, k) BY <2>3, <2>5 DEF SameOthers, HasKey
    <3>2. Map!search(m, k) = Map!Nothing BY <2>2, <2>5, SearchFinds
    <3>3. Map!search(m2, k) = Map!Nothing BY <3>1, <2>2, <1>1, SearchFinds
    <3> QED BY <3>2, <3>3
  <2> QED BY <2>4, <2>5
<1> QED BY <1>2, <1>3

(* All keys of list c belong into bucket b of n. *)
AllAt(n, c, b) == \A i \in 1 .. Len(c) : Place(n, c[i].key) = b

(* c can be the list of bucket b of m, with another item or none for key. *)
NewList(m, b, c, key) ==
  ChainOfItems(c) /\ AllAt(m.size, c, b) /\ SameOthers(m.buckets[b], c, key)

(* m2 is m with list c in bucket b and n items. *)
Changes(m, b, c, n, m2) == m2 = [m EXCEPT !.buckets[b] = c, !.items = n]

LEMMA BucketChanges ==
  ASSUME Map!HashAssumption, NEW m, IsMap(m), NEW b \in 1 .. m.size,
         NEW c, NEW key, NewList(m, b, c, key),
         NEW n \in Nat, NEW m2, Changes(m, b, c, n, m2)
  PROVE  /\ IsMap(m2) /\ m2.size = m.size /\ m2.items = n /\ m2.buckets[b] = c
         /\ DiffersIn(m, m2, b)
         /\ \A k \in Keys : k # key => Map!search(m2, k) = Map!search(m, k)
<1>1. PICK nb \in Nat \ {0}, B \in Seq(Seq(Item)) :
         nb = m.size /\ B = m.buckets /\ Len(B) = nb
  BY DEF IsMap, MapType
<1>2. c \in Seq(Item) /\ ChainOfItems(c) /\ AllAt(m.size, c, b)
  BY DEF NewList, ChainOfItems
<1>3. PICK B2 : B2 = [B EXCEPT ![b] = c] OBVIOUS
<1>4. m2 = [size |-> nb, items |-> n, buckets |-> B2]
  BY <1>1, <1>3 DEF Changes, IsMap, MapType
<1>5. /\ B2 \in Seq(Seq(Item)) /\ Len(B2) = nb
      /\ \A x \in 1 .. nb : B2[x] = IF x = b THEN c ELSE B[x]
  BY <1>1, <1>2, <1>3, ExceptSeq
<1>6. IsMap(m2)
  <2>1. m2 \in MapType BY <1>4, <1>5 DEF MapType
  <2>2. \A x \in 1 .. nb : /\ ChainOfItems(B2[x])
                           /\ \A i \in 1 .. Len(B2[x]) : Place(nb, B2[x][i].key) = x
    BY <1>1, <1>2, <1>5 DEF IsMap, AllAt
  <2> QED BY <2>1, <2>2, <1>4, <1>5 DEF IsMap
<1>7. /\ m2.size = m.size /\ m2.items = n /\ m2.buckets[b] = c
      /\ \A x \in 1 .. m.size : x # b => m2.buckets[x] = m.buckets[x]
  BY <1>1, <1>4, <1>5
<1>8. DiffersIn(m, m2, b) BY <1>6, <1>7 DEF DiffersIn
<1>9. \A k \in Keys : k # key => Map!search(m2, k) = Map!search(m, k)
  <2>1. DiffersFor(m, m2, b, key) BY <1>7, <1>8 DEF NewList, DiffersFor
  <2> QED BY <2>1, SearchOthers
<1> QED BY <1>6, <1>7, <1>8, <1>9

-----------------------------------------------------------------------------
(* What the operations do to one list.                                     *)

LEMMA ListReplace ==
  ASSUME NEW c, ChainOfItems(c), NEW i \in 1 .. Len(c), NEW item \in Item,
         c[i].key = item.key, NEW d, d = [c EXCEPT ![i] = item]
  PROVE  /\ ChainOfItems(d) /\ Len(d) = Len(c)
         /\ \A j \in 1 .. Len(c) : d[j].key = c[j].key
         /\ d[i] = item
         /\ SameOthers(c, d, item.key)
<1>1. c \in Seq(Item) BY DEF ChainOfItems
<1>2. /\ d \in Seq(Item) /\ Len(d) = Len(c)
      /\ \A j \in 1 .. Len(c) : d[j] = IF j = i THEN item ELSE c[j]
  BY <1>1, ExceptSeq
<1>3. \A j \in 1 .. Len(c) : d[j].key = c[j].key BY <1>2
<1>4. ChainOfItems(d) BY <1>2, <1>3 DEF ChainOfItems
<1>5. SameOthers(c, d, item.key) BY <1>2 DEF SameOthers
<1> QED BY <1>2, <1>3, <1>4, <1>5

LEMMA ListCons ==
  ASSUME NEW c, ChainOfItems(c), NEW item \in Item, ~ HasKey(c, item.key),
         NEW d, d = Map!Cons(item, c)
  PROVE  /\ ChainOfItems(d) /\ Len(d) = Len(c) + 1
         /\ \A j \in 1 .. Len(d) : d[j].key = item.key \/ HasKey(c, d[j].key)
         /\ 1 \in 1 .. Len(d) /\ d[1] = item
         /\ SameOthers(c, d, item.key)
<1>1. c \in Seq(Item) BY DEF ChainOfItems
<1>2. PICK n \in Nat : n = Len(c) BY <1>1
<1>3. <<item>> \in Seq(Item) /\ Len(<<item>>) = 1 /\ <<item>>[1] = item OBVIOUS
<1>4. /\ d \in Seq(Item) /\ Len(d) = 1 + n
      /\ \A j \in 1 .. 1 + n : d[j] = IF j <= 1 THEN <<item>>[j] ELSE c[j - 1]
  BY <1>1, <1>2, <1>3, ConcatProperties DEF Map!Cons
<1>5. 1 \in 1 .. 1 + n /\ d[1] = item BY <1>3, <1>4
<1>6. \A j \in 2 .. 1 + n : j - 1 \in 1 .. n /\ d[j] = c[j - 1] BY <1>4
<1>7. \A j \in 1 .. n : j + 1 \in 1 .. 1 + n /\ d[j + 1] = c[j]
  <2> SUFFICES ASSUME NEW j \in 1 .. n PROVE j + 1 \in 1 .. 1 + n /\ d[j + 1] = c[j]
    OBVIOUS
  <2>1. PICK x \in 2 .. 1 + n : x = j + 1 /\ x - 1 = j OBVIOUS
  <2>2. d[x] = c[x - 1] BY <1>6
  <2>3. j + 1 \in 1 .. 1 + n OBVIOUS
  <2> QED BY <2>1, <2>2, <2>3
<1>8. \A j \in 1 .. 1 + n : j = 1 \/ j \in 2 .. 1 + n OBVIOUS
<1>9. ChainOfItems(d)
  <2>1. ASSUME NEW j \in 2 .. 1 + n PROVE d[j].key # item.key
    BY <1>2, <1>6 DEF HasKey
  <2>2. ASSUME NEW i \in 2 .. 1 + n, NEW j \in 2 .. 1 + n, d[i].key = d[j].key
        PROVE  i = j
    <3>1. i - 1 \in 1 .. n /\ j - 1 \in 1 .. n /\ c[i - 1].key = c[j - 1].key
      BY <1>6, <2>2
    <3>2. i - 1 = j - 1 BY <3>1, <1>2 DEF ChainOfItems
    <3> QED BY <3>2
  <2> QED BY <2>1, <2>2, <1>4, <1>5, <1>8 DEF ChainOfItems
<1>10. \A j \in 1 .. 1 + n : d[j].key = item.key \/ HasKey(c, d[j].key)
  BY <1>2, <1>5, <1>6, <1>8 DEF HasKey
<1>11. SameOthers(c, d, item.key)
  <2>1. \A j \in 1 .. n : \E i \in 1 .. 1 + n : d[i] = c[j] BY <1>7
  <2>2. \A i \in 1 .. 1 + n : d[i].key # item.key => \E j \in 1 .. n : c[j] = d[i]
    BY <1>5, <1>6, <1>8
  <2> QED BY <2>1, <2>2, <1>2, <1>4 DEF SameOthers
<1>12. Len(d) = 1 + n /\ Len(d) = Len(c) + 1 BY <1>2, <1>4
<1> QED BY <1>5, <1>9, <1>10, <1>11, <1>12

LEMMA ListRemove ==
  ASSUME NEW c, ChainOfItems(c), NEW i \in 1 .. Len(c),
         NEW d, d = Map!RemoveAt(c, i)
  PROVE  /\ ChainOfItems(d) /\ Len(d) = Len(c) - 1
         /\ \A j \in 1 .. Len(d) : HasKey(c, d[j].key)
         /\ ~ HasKey(d, c[i].key)
         /\ SameOthers(c, d, c[i].key)
<1>1. c \in Seq(Item) BY DEF ChainOfItems
<1>2. PICK n \in Nat : n = Len(c) /\ i \in 1 .. n BY <1>1
<1>3. \A j \in 1 .. n : c[j] \in Item BY <1>1, <1>2, ElementOfSeq
<1>4. PICK s, t : s = SubSeq(c, 1, i - 1) /\ t = SubSeq(c, i + 1, n) OBVIOUS
<1>5. /\ s \in Seq(Item) /\ Len(s) = i - 1
      /\ \A j \in 1 .. i - 1 : s[j] = c[j]
  <2>1. i - 1 \in Int /\ 1 \in Int /\ \A j \in 1 .. i - 1 : c[j] \in Item BY <1>2, <1>3
  <2>2. /\ s \in Seq(Item) /\ Len(s) = IF 1 <= i - 1 THEN i - 1 - 1 + 1 ELSE 0
        /\ \A j \in 1 .. i - 1 - 1 + 1 : s[j] = c[1 + j - 1]
    BY <2>1, <1>4, SubSeqProperties
  <2> QED BY <2>2, <1>2
<1>6. /\ t \in Seq(Item) /\ Len(t) = n - i
      /\ \A j \in 1 .. n - i : t[j] = c[i + j]
  <2>1. i + 1 \in Int /\ n \in Int /\ \A j \in i + 1 .. n : c[j] \in Item BY <1>2, <1>3
  <2>2. /\ t \in Seq(Item) /\ Len(t) = IF i + 1 <= n THEN n - (i + 1) + 1 ELSE 0
        /\ \A j \in 1 .. n - (i + 1) + 1 : t[j] = c[i + 1 + j - 1]
    BY <2>1, <1>4, SubSeqProperties
  <2>3. n - (i + 1) + 1 = n - i BY <1>2
  <2>4. Len(t) = n - i
    <3>1. Len(t) = IF i + 1 <= n THEN n - (i + 1) + 1 ELSE 0 BY <2>2
    <3> QED BY <3>1, <1>2
  <2>5. ASSUME NEW j \in 1 .. n - i PROVE t[j] = c[i + j]
    <3>1. t[j] = c[i + 1 + j - 1] BY <2>2, <2>3
    <3>2. i + 1 + j - 1 = i + j BY <1>2
    <3> QED BY <3>1, <3>2
  <2> QED BY <2>2, <2>4, <2>5
<1>7. /\ d \in Seq(Item) /\ Len(d) = n - 1
      /\ \A j \in 1 .. n - 1 : d[j] = IF j <= i - 1 THEN c[j] ELSE c[j + 1]
  <2>1. d = s \o t BY <1>2, <1>4 DEF Map!RemoveAt
  <2>2. /\ d \in Seq(Item) /\ Len(d) = i - 1 + (n - i)
        /\ \A j \in 1 .. i - 1 + (n - i) :
             d[j] = IF j <= i - 1 THEN s[j] ELSE t[j - (i - 1)]
    <3>1. s \in Seq(Item) /\ t \in Seq(Item) BY <1>5, <1>6
    <3>2. /\ d \in Seq(Item) /\ Len(d) = Len(s) + Len(t)
          /\ \A j \in 1 .. Len(s) + Len(t) :
               d[j] = IF j <= Len(s) THEN s[j] ELSE t[j - Len(s)]
      BY <2>1, <3>1, ConcatProperties
    <3>3. Len(s) = i - 1 /\ Len(t) = n - i BY <1>5, <1>6
    <3> QED BY <3>2, <3>3
  <2>3. i - 1 + (n - i) = n - 1 BY <1>2
  <2>4. ASSUME NEW j \in 1 .. n - 1
        PROVE  d[j] = IF j <= i - 1 THEN c[j] ELSE c[j + 1]
    <3>1. CASE j <= i - 1
      <4>1. j \in 1 .. i - 1 BY <3>1, <1>2
      <4> QED BY <4>1, <3>1, <2>2, <2>3, <1>5
    <3>2. CASE ~ (j <= i - 1)
      <4>1. j - (i - 1) \in 1 .. n - i /\ i + (j - (i - 1)) = j + 1 BY <3>2, <1>2
      <4>2. t[j - (i - 1)] = c[j + 1] BY <4>1, <1>6
      <4> QED BY <4>2, <3>2, <2>2, <2>3
    <3> QED BY <3>1, <3>2
  <2> QED BY <2>2, <2>3, <2>4
<1>8. ASSUME NEW j \in 1 .. n - 1
      PROVE  \E x \in 1 .. n : x # i /\ d[j] = c[x] /\ x = (IF j <= i - 1 THEN j ELSE j + 1)
  <2>1. CASE j <= i - 1
    <3>1. j \in 1 .. n /\ j # i BY <2>1, <1>2
    <3> QED BY <3>1, <2>1, <1>7
  <2>2. CASE ~ (j <= i - 1)
    <3>1. j + 1 \in 1 .. n /\ j + 1 # i BY <2>2, <1>2
    <3> QED BY <3>1, <2>2, <1>7
  <2> QED BY <2>1, <2>2
<1>9. ASSUME NEW x \in 1 .. n, x # i PROVE \E j \in 1 .. n - 1 : d[j] = c[x]
  <2>1. CASE x < i
    <3>1. x \in 1 .. n - 1 /\ x <= i - 1 BY <2>1, <1>2
    <3> QED BY <3>1, <1>7
  <2>2. CASE ~ (x < i)
    <3>1. x - 1 \in 1 .. n - 1 /\ ~ (x - 1 <= i - 1) /\ x - 1 + 1 = x BY <2>2, <1>2, <1>9
    <3> QED BY <3>1, <1>7
  <2> QED BY <2>1, <2>2
<1>10. \A x, y \in 1 .. n : c[x].key = c[y].key => x = y BY <1>2 DEF ChainOfItems
<1>11. ASSUME NEW p \in 1 .. n - 1, NEW q \in 1 .. n - 1, d[p].key = d[q].key
       PROVE  p = q
  <2>1. PICK x \in 1 .. n :
           x # i /\ d[p] = c[x] /\ x = (IF p <= i - 1 THEN p ELSE p + 1)
    BY <1>8
  <2>2. PICK y \in 1 .. n :
           y # i /\ d[q] = c[y] /\ y = (IF q <= i - 1 THEN q ELSE q + 1)
    BY <1>8
  <2>3. x = y BY <2>1, <2>2, <1>10, <1>11
  <2> QED BY <2>1, <2>2, <2>3
<1>12. ChainOfItems(d) BY <1>7, <1>11 DEF ChainOfItems
<1>13. \A j \in 1 .. n - 1 : HasKey(c, d[j].key) BY <1>2, <1>8 DEF HasKey
<1>14. ~ HasKey(d, c[i].key)
  <2>1. \A j \in 1 .. n - 1 : d[j].key # c[i].key BY <1>2, <1>8, <1>10
  <2> QED BY <2>1, <1>7 DEF HasKey
<1>15. SameOthers(c, d, c[i].key)
  <2>1. \A j \in 1 .. n : c[j].key # c[i].key => \E x \in 1 .. n - 1 : d[x] = c[j]
    BY <1>9
  <2>2. \A j \in 1 .. n - 1 : \E x \in 1 .. n : c[x] = d[j] BY <1>8
  <2>3. Len(c) = n /\ Len(d) = n - 1 BY <1>2, <1>7
  <2> QED BY <2>1, <2>2, <2>3 DEF SameOthers
<1> QED BY <1>2, <1>7, <1>12, <1>13, <1>14, <1>15

-----------------------------------------------------------------------------
(* What the operations do to a map.                                        *)

LEMMA ListHere ==
  ASSUME Map!HashAssumption, NEW m, IsMap(m), NEW k \in Keys
  PROVE  /\ m.size \in Nat \ {0} /\ m.items \in Nat
         /\ Place(m.size, k) \in 1 .. m.size
         /\ ChainOfItems(m.buckets[Place(m.size, k)])
         /\ \A x \in Keys : HasKey(m.buckets[Place(m.size, k)], x)
                              => Place(m.size, x) = Place(m.size, k)
<1>1. m.size \in Nat \ {0} /\ m.items \in Nat BY DEF IsMap, MapType
<1>2. Place(m.size, k) \in 1 .. m.size BY <1>1, PlaceInArray
<1> QED BY <1>1, <1>2 DEF IsMap, HasKey

(* An item that is in the map already gets the new value. *)
LEMMA InsertKnown ==
  ASSUME Map!HashAssumption, NEW m, IsMap(m), NEW item \in Item,
         HasKey(m.buckets[Place(m.size, item.key)], item.key),
         NEW m2, m2 = Map!internal_insert(m, item)
  PROVE  /\ IsMap(m2) /\ m2.size = m.size /\ m2.items = m.items
         /\ Len(Map!AllItems(m)) \in Nat
         /\ Len(Map!AllItems(m2)) = Len(Map!AllItems(m))
         /\ Map!search(m, item.key) # Map!Nothing
         /\ \A k \in Keys :
              Map!search(m2, k) = IF k = item.key THEN item ELSE Map!search(m, k)
<1>0. item.key \in Keys /\ item = [key |-> item.key, value |-> item.value] BY DEF Item
<1>1. PICK b \in 1 .. m.size : b = Place(m.size, item.key) BY <1>0, ListHere
<1>2. PICK c : c = m.buckets[b] /\ ChainOfItems(c) BY <1>0, <1>1, ListHere
<1>3. PICK i \in 1 .. Len(c) : c[i].key = item.key BY <1>1, <1>2 DEF HasKey
<1>4. Map!internal_search(m, item.key) = i /\ Map!search(m, item.key) = c[i]
  BY <1>0, <1>1, <1>2, <1>3, SearchFinds
<1>5. c \in Seq(Item) /\ c[i] \in Item
  BY <1>2, <1>3, ElementOfSeq DEF ChainOfItems
<1>6. i # 0 OBVIOUS
<1>7. m2 = [m EXCEPT !.buckets[b][i].value = item.value]
  BY <1>1, <1>4, <1>6, BucketIsPlace DEF Map!internal_insert
<1>8. PICK d : d = [c EXCEPT ![i] = item] OBVIOUS
<1>9. d = [c EXCEPT ![i].value = item.value]
  <2>1. [c[i] EXCEPT !.value = item.value] = item BY <1>0, <1>3, <1>5 DEF Item
  <2> QED BY <2>1, <1>8
<1>10. m \in MapType /\ m = [size |-> m.size, items |-> m.items, buckets |-> m.buckets]
  BY DEF IsMap, MapType
<1>11. Changes(m, b, d, m.items, m2)
  <2>1. m2 = [m EXCEPT !.buckets = [m.buckets EXCEPT ![b] = d]]
    BY <1>2, <1>7, <1>9
  <2> QED BY <2>1, <1>10 DEF Changes, MapType
<1>12. /\ ChainOfItems(d) /\ Len(d) = Len(c)
       /\ \A j \in 1 .. Len(c) : d[j].key = c[j].key
       /\ d[i] = item
       /\ SameOthers(c, d, item.key)
  BY <1>2, <1>3, <1>8, ListReplace
<1>13. AllAt(m.size, d, b) BY <1>2, <1>12 DEF IsMap, AllAt
<1>14. PICK n \in Nat : n = m.items BY <1>10 DEF MapType
<1>15. /\ IsMap(m2) /\ m2.size = m.size /\ m2.items = m.items /\ m2.buckets[b] = d
       /\ DiffersIn(m, m2, b)
       /\ \A k \in Keys : k # item.key => Map!search(m2, k) = Map!search(m, k)
  <2>1. Changes(m, b, d, n, m2) BY <1>11, <1>14
  <2>2. PICK key : key = item.key OBVIOUS
  <2>3. NewList(m, b, d, key) BY <2>2, <1>2, <1>12, <1>13 DEF NewList
  <2>4. /\ IsMap(m2) /\ m2.size = m.size /\ m2.items = n /\ m2.buckets[b] = d
        /\ DiffersIn(m, m2, b)
        /\ \A k \in Keys : k # key => Map!search(m2, k) = Map!search(m, k)
    BY <2>1, <2>3, BucketChanges
  <2> QED BY <2>2, <2>4, <1>14
<1>16. /\ Len(Map!AllItems(m)) \in Nat
       /\ Len(Map!AllItems(m2)) = Len(Map!AllItems(m))
  <2>1. /\ Len(Map!AllItems(m)) \in Nat
        /\ Len(Map!AllItems(m2)) =
             Len(Map!AllItems(m)) + Len(m2.buckets[b]) - Len(m.buckets[b])
    BY <1>15, ItemsChange
  <2>2. Len(c) \in Nat BY <1>5
  <2>3. Len(m2.buckets[b]) = Len(c) /\ Len(m.buckets[b]) = Len(c)
    BY <1>2, <1>12, <1>15
  <2> QED BY <2>1, <2>2, <2>3
<1>17. Map!search(m2, item.key) = item
  BY <1>0, <1>1, <1>3, <1>12, <1>15, SearchFinds
<1>18. Map!search(m, item.key) # Map!Nothing
  BY <1>0, <1>3, <1>4 DEF Map!Nothing, Map!HashAssumption
<1> QED BY <1>15, <1>16, <1>17, <1>18

(* A new item is put at the head of its list. *)
LEMMA InsertNew ==
  ASSUME Map!HashAssumption, NEW m, IsMap(m), NEW item \in Item,
         ~ HasKey(m.buckets[Place(m.size, item.key)], item.key),
         NEW m2, m2 = Map!internal_insert(m, item)
  PROVE  /\ IsMap(m2) /\ m2.size = m.size /\ m2.items = m.items + 1
         /\ Len(Map!AllItems(m)) \in Nat
         /\ Len(Map!AllItems(m2)) = Len(Map!AllItems(m)) + 1
         /\ Map!search(m, item.key) = Map!Nothing
         /\ \A k \in Keys :
              Map!search(m2, k) = IF k = item.key THEN item ELSE Map!search(m, k)
<1>0. item.key \in Keys BY DEF Item
<1>1. PICK b \in 1 .. m.size : b = Place(m.size, item.key) BY <1>0, ListHere
<1>2. PICK c : c = m.buckets[b] /\ ChainOfItems(c) BY <1>0, <1>1, ListHere
<1>3. ~ HasKey(c, item.key) BY <1>1, <1>2
<1>4. Map!internal_search(m, item.key) = 0 /\ Map!search(m, item.key) = Map!Nothing
  BY <1>0, <1>1, <1>2, <1>3, SearchFinds
<1>5. PICK d : d = Map!Cons(item, c) OBVIOUS
<1>6. PICK n \in Nat : n = m.items + 1 BY DEF IsMap, MapType
<1>7. Changes(m, b, d, n, m2)
  <2>1. m2 = [m EXCEPT !.buckets[b] = Map!Cons(item, m.buckets[b]), !.items = m.items + 1]
    BY <1>1, <1>4, BucketIsPlace DEF Map!internal_insert
  <2> QED BY <2>1, <1>2, <1>5, <1>6 DEF Changes
<1>8. /\ ChainOfItems(d) /\ Len(d) = Len(c) + 1
      /\ \A j \in 1 .. Len(d) : d[j].key = item.key \/ HasKey(c, d[j].key)
      /\ 1 \in 1 .. Len(d) /\ d[1] = item
      /\ SameOthers(c, d, item.key)
  BY <1>2, <1>3, <1>5, ListCons
<1>9. AllAt(m.size, d, b)
  <2> SUFFICES ASSUME NEW j \in 1 .. Len(d) PROVE Place(m.size, d[j].key) = b BY DEF AllAt
  <2>1. d[j].key \in Keys
    <3>1. d[j] \in Item BY <1>8, ElementOfSeq DEF ChainOfItems
    <3> QED BY <3>1 DEF Item
  <2> QED BY <2>1, <1>0, <1>1, <1>2, <1>8, ListHere
<1>10. /\ IsMap(m2) /\ m2.size = m.size /\ m2.items = m.items + 1 /\ m2.buckets[b] = d
       /\ DiffersIn(m, m2, b)
       /\ \A k \in Keys : k # item.key => Map!search(m2, k) = Map!search(m, k)
  <2>1. PICK key : key = item.key OBVIOUS
  <2>2. NewList(m, b, d, key) BY <2>1, <1>2, <1>8, <1>9 DEF NewList
  <2>3. /\ IsMap(m2) /\ m2.size = m.size /\ m2.items = n /\ m2.buckets[b] = d
        /\ DiffersIn(m, m2, b)
        /\ \A k \in Keys : k # key => Map!search(m2, k) = Map!search(m, k)
    BY <2>2, <1>7, BucketChanges
  <2> QED BY <2>1, <2>3, <1>6
<1>11. /\ Len(Map!AllItems(m)) \in Nat
       /\ Len(Map!AllItems(m2)) = Len(Map!AllItems(m)) + 1
  <2>1. /\ Len(Map!AllItems(m)) \in Nat
        /\ Len(Map!AllItems(m2)) =
             Len(Map!AllItems(m)) + Len(m2.buckets[b]) - Len(m.buckets[b])
    BY <1>10, ItemsChange
  <2>2. Len(c) \in Nat BY <1>2 DEF ChainOfItems
  <2>3. Len(m2.buckets[b]) = Len(c) + 1 /\ Len(m.buckets[b]) = Len(c)
    BY <1>2, <1>8, <1>10
  <2> QED BY <2>1, <2>2, <2>3
<1>12. Map!search(m2, item.key) = item
  BY <1>0, <1>1, <1>8, <1>10, SearchFinds
<1> QED BY <1>4, <1>10, <1>11, <1>12

(* What insertion does, whether the key is there or not. *)
LEMMA InsertItem ==
  ASSUME Map!HashAssumption, NEW m, IsMap(m), NEW item \in Item,
         NEW m2, m2 = Map!internal_insert(m, item)
  PROVE  /\ IsMap(m2) /\ m2.size = m.size /\ m2.items \in Nat
         /\ m2.items \in {m.items, m.items + 1}
         /\ Map!search(m, item.key) = Map!Nothing => m2.items = m.items + 1
         /\ Counted(m) => Counted(m2)
         /\ \A k \in Keys :
              Map!search(m2, k) = IF k = item.key THEN item ELSE Map!search(m, k)
<1>1. m.items \in Nat /\ m.items + 1 \in Nat BY DEF IsMap, MapType
<1>2. CASE HasKey(m.buckets[Place(m.size, item.key)], item.key)
  BY <1>1, <1>2, InsertKnown DEF Counted
<1>3. CASE ~ HasKey(m.buckets[Place(m.size, item.key)], item.key)
  BY <1>1, <1>3, InsertNew DEF Counted
<1> QED BY <1>2, <1>3

(* What the removal of item i of bucket b does. *)
LEMMA UnlinkItem ==
  ASSUME Map!HashAssumption, NEW m, IsMap(m), Counted(m), NEW b \in 1 .. m.size,
         NEW i \in 1 .. Len(m.buckets[b]), NEW m2, m2 = Map!Unlink(m, b, i),
         NEW item, item = m.buckets[b][i]
  PROVE  /\ item \in Item
         /\ IsMap(m2) /\ Counted(m2) /\ m2.size = m.size /\ m2.items = m.items - 1
         /\ Map!search(m, item.key) = item
         /\ \A k \in Keys :
              Map!search(m2, k) = IF k = item.key THEN Map!Nothing ELSE Map!search(m, k)
<1>1. PICK c : c = m.buckets[b] /\ ChainOfItems(c) /\ i \in 1 .. Len(c) BY DEF IsMap
<1>2. item = c[i] /\ item \in Item /\ item.key \in Keys
  <2>1. c[i] \in Item BY <1>1, ElementOfSeq DEF ChainOfItems
  <2> QED BY <2>1, <1>1 DEF Item
<1>3. Place(m.size, item.key) = b BY <1>1, <1>2 DEF IsMap
<1>4. Map!search(m, item.key) = item BY <1>1, <1>2, <1>3, SearchFinds
<1>5. PICK d : d = Map!RemoveAt(c, i) OBVIOUS
<1>6. /\ ChainOfItems(d) /\ Len(d) = Len(c) - 1
      /\ \A j \in 1 .. Len(d) : HasKey(c, d[j].key)
      /\ ~ HasKey(d, item.key)
      /\ SameOthers(c, d, item.key)
  <2>1. /\ ChainOfItems(d) /\ Len(d) = Len(c) - 1
        /\ \A j \in 1 .. Len(d) : HasKey(c, d[j].key)
        /\ ~ HasKey(d, c[i].key)
        /\ SameOthers(c, d, c[i].key)
    BY <1>1, <1>5, ListRemove
  <2> QED BY <2>1, <1>2
<1>7. PICK n \in Nat : n = m.items - 1
  <2>1. PICK f : f = Map!Walk(m) OBVIOUS
  <2>2. Gathers(m, f) BY <2>1, WalkGathers
  <2>3. m.size \in Nat /\ m.size \in 0 .. m.size /\ m.items \in Nat BY DEF IsMap, MapType
  <2>4. Gathered(m, f, m.size) BY <2>2, <2>3, AllGathered
  <2>5. Len(f[b - 1]) + i \in 1 .. Len(f[m.size]) BY <2>4 DEF Gathered
  <2>6. Len(f[m.size]) = m.items BY <2>1 DEF Counted, Map!AllItems
  <2> QED BY <2>3, <2>5, <2>6
<1>8. Changes(m, b, d, n, m2) BY <1>1, <1>5, <1>7 DEF Map!Unlink, Changes
<1>9. AllAt(m.size, d, b)
  <2>1. \A x \in 1 .. Len(c) : Place(m.size, c[x].key) = b BY <1>1 DEF IsMap
  <2>2. SUFFICES ASSUME NEW j \in 1 .. Len(d) PROVE Place(m.size, d[j].key) = b
    BY DEF AllAt
  <2>3. PICK x \in 1 .. Len(c) : c[x].key = d[j].key BY <1>6, <2>2 DEF HasKey
  <2> QED BY <2>1, <2>3
<1>10. /\ IsMap(m2) /\ m2.size = m.size /\ m2.items = m.items - 1 /\ m2.buckets[b] = d
       /\ DiffersIn(m, m2, b)
       /\ \A k \in Keys : k # item.key => Map!search(m2, k) = Map!search(m, k)
  <2>1. PICK key : key = item.key OBVIOUS
  <2>2. NewList(m, b, d, key) BY <2>1, <1>1, <1>6, <1>9 DEF NewList
  <2>3. /\ IsMap(m2) /\ m2.size = m.size /\ m2.items = n /\ m2.buckets[b] = d
        /\ DiffersIn(m, m2, b)
        /\ \A k \in Keys : k # key => Map!search(m2, k) = Map!search(m, k)
    BY <2>2, <1>8, BucketChanges
  <2> QED BY <2>1, <2>3, <1>7
<1>11. Counted(m2)
  <2>1. /\ Len(Map!AllItems(m)) \in Nat
        /\ Len(Map!AllItems(m2)) =
             Len(Map!AllItems(m)) + Len(m2.buckets[b]) - Len(m.buckets[b])
    BY <1>10, ItemsChange
  <2>2. Len(c) \in Nat BY <1>1 DEF ChainOfItems
  <2>3. Len(m2.buckets[b]) = Len(c) - 1 /\ Len(m.buckets[b]) = Len(c)
    BY <1>1, <1>6, <1>10
  <2> QED BY <2>1, <2>2, <2>3, <1>10 DEF Counted
<1>12. Map!search(m2, item.key) = Map!Nothing BY <1>2, <1>3, <1>6, <1>10, SearchFinds
<1> QED BY <1>2, <1>4, <1>10, <1>11, <1>12

-----------------------------------------------------------------------------
(* Growth of the map.                                                      *)

LEMMA EmptyIsMap ==
  ASSUME Map!HashAssumption, NEW n \in Nat \ {0}, NEW m, m = Map!EmptyMap(n)
  PROVE  /\ IsMap(m) /\ Counted(m) /\ m.size = n /\ m.items = 0
         /\ \A k \in Keys : Map!search(m, k) = Map!Nothing
<1>1. m.size = n /\ m.items = 0 /\ m.buckets = [b \in 1 .. n |-> <<>>]
  BY DEF Map!EmptyMap
<1>2. <<>> \in Seq(Item) /\ Len(<<>>) = 0 OBVIOUS
<1>3. ChainOfItems(<<>>) BY <1>2 DEF ChainOfItems
<1>4. m.buckets \in Seq(Seq(Item)) /\ Len(m.buckets) = n
  <2>1. n \in Nat OBVIOUS
  <2>2. m.buckets \in [1 .. n -> Seq(Item)] BY <1>1, <1>2
  <2> QED BY <2>1, <2>2
<1>5. m \in MapType BY <1>4 DEF MapType, Map!EmptyMap
<1>6. IsMap(m) BY <1>1, <1>2, <1>3, <1>4, <1>5 DEF IsMap
<1>7. Counted(m)
  <2>1. PICK f : f = Map!Walk(m) OBVIOUS
  <2>2. Gathers(m, f) BY <1>6, <2>1, WalkGathers
  <2>3. n \in 0 .. n OBVIOUS
  <2>4. Gathered(m, f, n) BY <1>1, <1>6, <2>2, <2>3, AllGathered
  <2>5. f[n] \in Seq(Item) BY <1>1, <2>2, <2>3 DEF Gathers
  <2>6. \A t \in 1 .. Len(f[n]) : FALSE BY <1>1, <1>2, <2>4 DEF Gathered
  <2>7. Len(f[n]) \in Nat BY <2>5
  <2>8. Len(f[n]) = 0 BY <2>6, <2>7
  <2> QED BY <1>1, <2>1, <2>8 DEF Counted, Map!AllItems
<1>8. ASSUME NEW k \in Keys PROVE Map!search(m, k) = Map!Nothing
  <2>1. Place(m.size, k) \in 1 .. m.size BY <1>6, ListHere
  <2>2. m.buckets[Place(m.size, k)] = <<>> BY <1>1, <2>1
  <2>3. ~ HasKey(<<>>, k) BY <1>2 DEF HasKey
  <2> QED BY <1>6, <2>2, <2>3, SearchFinds
<1> QED BY <1>1, <1>6, <1>7, <1>8

(* The walk meets the item of every key that the map has, and meets it     *)
(* once.                                                                   *)
ItemsOf(m, s) ==
  /\ s \in Seq(Item)
  /\ \A t, u \in 1 .. Len(s) : s[t].key = s[u].key => t = u
  /\ \A t \in 1 .. Len(s) : Map!search(m, s[t].key) = s[t]
  /\ \A k \in Keys : Map!search(m, k) # Map!Nothing
                       => \E t \in 1 .. Len(s) : s[t].key = k

LEMMA WalkIsItems ==
  ASSUME Map!HashAssumption, NEW m, IsMap(m)
  PROVE  ItemsOf(m, Map!AllItems(m))
<1>1. PICK f : f = Map!Walk(m) OBVIOUS
<1>2. Gathers(m, f) BY <1>1, WalkGathers
<1>3. PICK n \in Nat : n = m.size /\ n \in 0 .. n BY DEF IsMap, MapType
<1>4. Gathered(m, f, n) BY <1>2, <1>3, AllGathered
<1>5. PICK s \in Seq(Item) : s = f[n] BY <1>2, <1>3 DEF Gathers
<1>6. s = Map!AllItems(m) BY <1>1, <1>3, <1>5 DEF Map!AllItems
<1> DEFINE At(t, b, i) ==
             /\ t = Len(f[b - 1]) + i /\ s[t] = m.buckets[b][i]
             /\ s[t] \in Item /\ b = Place(m.size, s[t].key)
             /\ Map!search(m, s[t].key) = s[t]
<1>7. ASSUME NEW t \in 1 .. Len(s)
      PROVE  \E b \in 1 .. n : \E i \in 1 .. Len(m.buckets[b]) : At(t, b, i)
  <2>1. PICK b \in 1 .. n : \E i \in 1 .. Len(m.buckets[b]) : t = Len(f[b - 1]) + i
    BY <1>4, <1>5 DEF Gathered
  <2>2. PICK i \in 1 .. Len(m.buckets[b]) : t = Len(f[b - 1]) + i BY <2>1
  <2>3. s[t] = m.buckets[b][i] BY <1>4, <1>5, <2>2 DEF Gathered
  <2>4. s[t] \in Item /\ s[t].key \in Keys
    <3>1. s[t] \in Item BY ElementOfSeq
    <3> QED BY <3>1 DEF Item
  <2>5. b = Place(m.size, s[t].key) BY <1>3, <2>3 DEF IsMap
  <2>6. PICK c : c = m.buckets[b] OBVIOUS
  <2>7. Map!search(m, s[t].key) = s[t] BY <2>2, <2>3, <2>4, <2>5, <2>6, SearchFinds, SMTT(30)
  <2> QED BY <2>2, <2>3, <2>4, <2>5, <2>7
<1>8. ASSUME NEW t \in 1 .. Len(s), NEW u \in 1 .. Len(s), s[t].key = s[u].key
      PROVE  t = u
  <2>1. PICK b \in 1 .. n : \E i \in 1 .. Len(m.buckets[b]) : At(t, b, i) BY <1>7
  <2>2. PICK i \in 1 .. Len(m.buckets[b]) : At(t, b, i) BY <2>1
  <2>3. PICK d \in 1 .. n : \E j \in 1 .. Len(m.buckets[d]) : At(u, d, j) BY <1>7
  <2>4. PICK j \in 1 .. Len(m.buckets[d]) : At(u, d, j) BY <2>3
  <2>5. b = d BY <2>2, <2>4, <1>8
  <2>6. m.buckets[b][i].key = m.buckets[b][j].key BY <2>2, <2>4, <2>5, <1>8
  <2>7. i = j BY <1>3, <2>2, <2>4, <2>5, <2>6 DEF IsMap, ChainOfItems
  <2> QED BY <2>2, <2>4, <2>5, <2>7
<1>9. ASSUME NEW k \in Keys, Map!search(m, k) # Map!Nothing
      PROVE  \E t \in 1 .. Len(s) : s[t].key = k
  <2>1. PICK b \in 1 .. n : b = Place(m.size, k) BY <1>3, ListHere
  <2>2. PICK c : c = m.buckets[b] OBVIOUS
  <2>3. HasKey(c, k) BY <1>9, <2>1, <2>2, SearchFinds
  <2>4. PICK i \in 1 .. Len(c) : c[i].key = k BY <2>3 DEF HasKey
  <2>5. PICK t \in 1 .. Len(s) : s[t] = c[i] BY <1>4, <1>5, <2>2 DEF Gathered
  <2> QED BY <2>4, <2>5
<1>10. \A t \in 1 .. Len(s) : Map!search(m, s[t].key) = s[t] BY <1>7
<1> HIDE DEF At
<1>11. ItemsOf(m, s) BY <1>8, <1>9, <1>10 DEF ItemsOf
<1> QED BY <1>6, <1>11

(* The maps that the growth of m can be. *)
Larger(m) == {x \in MapType : IsMap(x) /\ x.size = 2 * m.size}

(* f inserts the items of s, one after the other, into an empty map. *)
Grows(m, s, f) ==
  /\ f \in [0 .. Len(s) -> Larger(m)]
  /\ f[0] = Map!EmptyMap(2 * m.size)
  /\ \A i \in 1 .. Len(s) : f[i] = Map!internal_insert(f[i - 1], s[i])

LEMMA GrownByInserts ==
  ASSUME Map!HashAssumption, NEW m, IsMap(m), NEW s, s = Map!AllItems(m), s \in Seq(Item)
  PROVE  \E f : Grows(m, s, f) /\ f[Len(s)] = Map!grow_map(m)
<1>1. PICK n \in Nat : n = Len(s) OBVIOUS
<1>2. PICK nb \in Nat \ {0} : nb = 2 * m.size BY DEF IsMap, MapType
<1>3. PICK S : S = Larger(m) OBVIOUS
<1>4. PICK base : base = Map!EmptyMap(nb) OBVIOUS
<1>5. base \in S
  <2>1. IsMap(base) /\ base.size = nb BY <1>4, EmptyIsMap
  <2>2. base \in MapType BY <2>1 DEF IsMap
  <2> QED BY <2>1, <2>2, <1>2, <1>3 DEF Larger
<1>6. ASSUME NEW x \in S, NEW i \in 1 .. n PROVE Map!internal_insert(x, s[i]) \in S
  <2>1. IsMap(x) /\ x.size = nb BY <1>2, <1>3 DEF Larger
  <2>2. PICK item \in Item : item = s[i] BY <1>1, ElementOfSeq
  <2>3. PICK y : y = Map!internal_insert(x, item) OBVIOUS
  <2>4. IsMap(y) /\ y.size = nb BY <2>1, <2>3, InsertItem
  <2>5. y \in MapType BY <2>4 DEF IsMap
  <2> QED BY <2>2, <2>3, <2>4, <2>5, <1>2, <1>3 DEF Larger
<1>7. PICK step : step = [p \in (1 .. n) \X S |-> Map!internal_insert(p[2], s[p[1]])]
  OBVIOUS
<1>8. \A i \in 1 .. n, x \in S : step[<<i, x>>] = Map!internal_insert(x, s[i])
  BY <1>7
<1>9. step \in [(1 .. n) \X S -> S]
  <2>1. \A p \in (1 .. n) \X S : Map!internal_insert(p[2], s[p[1]]) \in S BY <1>6
  <2> QED BY <2>1, <1>7
<1>10. PICK g \in [0 .. n -> S] : Steps(n, base, step, g)
  BY <1>5, <1>9, RecursionExists
<1>11. g[0] = base /\ \A i \in 1 .. n : g[i] = Map!internal_insert(g[i - 1], s[i])
  <2>1. \A i \in 1 .. n : i - 1 \in 0 .. n OBVIOUS
  <2>2. \A i \in 1 .. n : g[i - 1] \in S BY <2>1
  <2> QED BY <2>2, <1>8, <1>10 DEF Steps
<1> DEFINE C == 0 .. n
           Follows(f) ==
             f = [i \in C |-> IF i = 0 THEN base ELSE Map!internal_insert(f[i - 1], s[i])]
<1>12. Follows(g)
  <2>1. \A i \in C : g[i] = IF i = 0 THEN base ELSE Map!internal_insert(g[i - 1], s[i])
    <3>1. \A i \in C : i = 0 \/ i \in 1 .. n OBVIOUS
    <3>2. \A i \in 1 .. n : i # 0 OBVIOUS
    <3> HIDE DEF C, Follows
    <3> QED BY <3>1, <3>2, <1>11
  <2>2. g = [i \in C |-> g[i]] OBVIOUS
  <2>3. [i \in C |-> g[i]] =
          [i \in C |-> IF i = 0 THEN base ELSE Map!internal_insert(g[i - 1], s[i])]
    <3> HIDE DEF C
    <3> QED BY <2>1
  <2> QED BY <2>2, <2>3
<1>13. PICK f : f = CHOOSE x : Follows(x) OBVIOUS
<1>14. Map!grow_map(m) = f[n] BY <1>1, <1>2, <1>4, <1>13 DEF Map!grow_map
<1>15. Follows(f)
  <2> HIDE DEF Follows
  <2> QED BY <1>12, <1>13
<1>16. /\ f[0] = base
       /\ \A i \in 1 .. n : f[i] = Map!internal_insert(f[i - 1], s[i])
       /\ DOMAIN f = 0 .. n /\ f = [i \in 0 .. n |-> f[i]]
  <2>1. f = [i \in C |-> IF i = 0 THEN base ELSE Map!internal_insert(f[i - 1], s[i])]
    BY <1>15
  <2>2. /\ DOMAIN f = C
        /\ \A i \in C : f[i] = IF i = 0 THEN base ELSE Map!internal_insert(f[i - 1], s[i])
    <3> HIDE DEF C
    <3> QED BY <2>1
  <2>3. 0 \in C /\ \A i \in 1 .. n : i \in C /\ i # 0 OBVIOUS
  <2>4. f = [i \in C |-> f[i]]
    <3> HIDE DEF C
    <3> QED BY <2>1
  <2> QED BY <2>2, <2>3, <2>4
<1> DEFINE Bad == {i \in 0 .. n : f[i] # g[i]}
<1>17. Bad \in SUBSET Nat /\ \A i : i \in Bad <=> i \in 0 .. n /\ f[i] # g[i] OBVIOUS
<1> HIDE DEF Bad, Follows
<1>18. Bad = {}
  <2> SUFFICES ASSUME Bad # {} PROVE FALSE OBVIOUS
  <2>1. PICK k \in Nat : k \in Bad /\ \A i \in Bad : k <= i BY <1>17, WP!LeastNat
  <2>2. k \in 0 .. n /\ f[k] # g[k] BY <2>1, <1>17
  <2>3. k # 0 BY <2>2, <1>11, <1>16
  <2>4. k \in 1 .. n /\ k - 1 \in 0 .. n BY <2>2, <2>3
  <2>5. k - 1 \notin Bad
    <3>1. ~ (k <= k - 1) OBVIOUS
    <3> QED BY <3>1, <2>1
  <2>6. f[k - 1] = g[k - 1] BY <2>4, <2>5, <1>17
  <2> QED BY <2>2, <2>4, <2>6, <1>11, <1>16
<1>19. \A i \in 0 .. n : f[i] = g[i] BY <1>17, <1>18
<1>20. f \in [0 .. n -> S]
  <2>1. \A i \in 0 .. n : f[i] \in S BY <1>19
  <2> QED BY <2>1, <1>16
<1>21. Grows(m, s, f) BY <1>1, <1>2, <1>3, <1>4, <1>16, <1>20 DEF Grows
<1> QED BY <1>1, <1>14, <1>21

(* After n insertions the new map holds the first n items and no more. *)
Grown(x, s, n) ==
  /\ IsMap(x) /\ Counted(x) /\ x.items = n
  /\ \A u \in 1 .. n : Map!search(x, s[u].key) = s[u]
  /\ \A k \in Keys : (\A u \in 1 .. n : s[u].key # k) => Map!search(x, k) = Map!Nothing

LEMMA OneMoreItem ==
  ASSUME Map!HashAssumption, NEW m, IsMap(m), NEW s, ItemsOf(m, s),
         NEW n \in 1 .. Len(s), NEW x, Grown(x, s, n - 1),
         NEW y, y = Map!internal_insert(x, s[n])
  PROVE  Grown(y, s, n)
<1>1. PICK item \in Item : item = s[n] BY ElementOfSeq DEF ItemsOf
<1>2. item.key \in Keys BY DEF Item
<1>3. \A u \in 1 .. n - 1 : u \in 1 .. Len(s) /\ u # n /\ s[u].key # item.key
  <2>1. \A u \in 1 .. n - 1 : u \in 1 .. Len(s) /\ u # n BY DEF ItemsOf
  <2> QED BY <2>1, <1>1 DEF ItemsOf
<1>4. Map!search(x, item.key) = Map!Nothing BY <1>2, <1>3 DEF Grown
<1>5. /\ IsMap(x) /\ Counted(x) /\ x.items = n - 1 BY DEF Grown
<1>6. /\ IsMap(y) /\ Counted(y) /\ y.items = x.items + 1
      /\ \A k \in Keys : Map!search(y, k) = IF k = item.key THEN item ELSE Map!search(x, k)
  BY <1>1, <1>4, <1>5, InsertItem
<1>7. y.items = n BY <1>5, <1>6
<1>8. \A u \in 1 .. n : u = n \/ u \in 1 .. n - 1 OBVIOUS
<1>9. ASSUME NEW u \in 1 .. n PROVE Map!search(y, s[u].key) = s[u]
  <2>1. CASE u = n BY <2>1, <1>1, <1>2, <1>6
  <2>2. CASE u # n
    <3>1. u \in 1 .. n - 1 /\ u \in 1 .. Len(s) BY <2>2, <1>3, <1>8
    <3>2. s[u].key \in Keys /\ s[u].key # item.key
      <4>1. s[u] \in Item BY <3>1, ElementOfSeq DEF ItemsOf
      <4> QED BY <4>1, <3>1, <1>3 DEF Item
    <3>3. Map!search(x, s[u].key) = s[u] BY <3>1 DEF Grown
    <3> QED BY <3>2, <3>3, <1>6
  <2> QED BY <2>1, <2>2
<1>10. ASSUME NEW k \in Keys, \A u \in 1 .. n : s[u].key # k
       PROVE  Map!search(y, k) = Map!Nothing
  <2>1. k # item.key
    <3>1. n \in 1 .. n OBVIOUS
    <3> QED BY <3>1, <1>1, <1>10
  <2>2. \A u \in 1 .. n - 1 : u \in 1 .. n OBVIOUS
  <2>3. Map!search(x, k) = Map!Nothing BY <2>2, <1>10 DEF Grown
  <2> QED BY <2>1, <2>3, <1>6
<1> QED BY <1>6, <1>7, <1>9, <1>10 DEF Grown

(* A larger map holds what the map held. *)
LEMMA GrowthKeeps ==
  ASSUME Map!HashAssumption, NEW m, IsMap(m), Counted(m), NEW m2, m2 = Map!grow_map(m)
  PROVE  /\ IsMap(m2) /\ Counted(m2) /\ m2.items = m.items /\ m2.size = 2 * m.size
         /\ \A k \in Keys : Map!search(m2, k) = Map!search(m, k)
<1>1. PICK s : s = Map!AllItems(m) OBVIOUS
<1>2. ItemsOf(m, s) BY <1>1, WalkIsItems
<1>3. s \in Seq(Item) BY <1>2 DEF ItemsOf
<1>4. PICK f : Grows(m, s, f) /\ f[Len(s)] = m2 BY <1>1, <1>3, GrownByInserts
<1>5. PICK n \in Nat : n = Len(s) BY <1>3
<1> DEFINE Bad == {i \in 0 .. n : ~ Grown(f[i], s, i)}
<1>6. Bad \in SUBSET Nat /\ \A i : i \in Bad <=> i \in 0 .. n /\ ~ Grown(f[i], s, i)
  OBVIOUS
<1> HIDE DEF Bad
<1>7. Bad = {}
  <2> SUFFICES ASSUME Bad # {} PROVE FALSE OBVIOUS
  <2>1. PICK k \in Nat : k \in Bad /\ \A i \in Bad : k <= i BY <1>6, WP!LeastNat
  <2>2. k \in 0 .. n /\ ~ Grown(f[k], s, k) BY <2>1, <1>6
  <2>3. CASE k = 0
    <3>1. PICK nb \in Nat \ {0} : nb = 2 * m.size BY DEF IsMap, MapType
    <3>2. f[0] = Map!EmptyMap(nb) BY <3>1, <1>4 DEF Grows
    <3>3. PICK x : x = f[0] OBVIOUS
    <3>4. /\ IsMap(x) /\ Counted(x) /\ x.items = 0
          /\ \A key \in Keys : Map!search(x, key) = Map!Nothing
      BY <3>2, <3>3, EmptyIsMap
    <3>5. \A u \in 1 .. 0 : FALSE OBVIOUS
    <3> QED BY <3>3, <3>4, <3>5, <2>2, <2>3 DEF Grown
  <2>4. CASE k # 0
    <3>1. k \in 1 .. n /\ k - 1 \in 0 .. n BY <2>2, <2>4
    <3>2. k - 1 \notin Bad
      <4>1. ~ (k <= k - 1) OBVIOUS
      <4> QED BY <4>1, <2>1
    <3>3. PICK x, y : x = f[k - 1] /\ y = f[k] OBVIOUS
    <3>4. Grown(x, s, k - 1) BY <3>1, <3>2, <3>3, <1>6
    <3>5. y = Map!internal_insert(x, s[k]) BY <3>1, <3>3, <1>4, <1>5 DEF Grows
    <3>6. Grown(y, s, k) BY <3>1, <3>4, <3>5, <1>2, <1>5, OneMoreItem
    <3> QED BY <3>3, <3>6, <2>2
  <2> QED BY <2>3, <2>4
<1>8. Grown(m2, s, n)
  <2>1. n \in 0 .. n OBVIOUS
  <2> QED BY <2>1, <1>4, <1>5, <1>6, <1>7
<1>9. m2.size = 2 * m.size
  <2>1. Len(s) \in 0 .. Len(s) BY <1>5
  <2>2. m2 \in Larger(m) BY <2>1, <1>4 DEF Grows
  <2> QED BY <2>2 DEF Larger
<1>10. m2.items = m.items BY <1>1, <1>5, <1>8 DEF Grown, Counted
<1>11. ASSUME NEW k \in Keys PROVE Map!search(m2, k) = Map!search(m, k)
  <2>1. CASE \E u \in 1 .. n : s[u].key = k
    <3>1. PICK u \in 1 .. n : s[u].key = k BY <2>1
    <3>2. Map!search(m2, k) = s[u] BY <3>1, <1>8 DEF Grown
    <3>3. Map!search(m, k) = s[u] BY <3>1, <1>2, <1>5 DEF ItemsOf
    <3> QED BY <3>2, <3>3
  <2>2. CASE ~ \E u \in 1 .. n : s[u].key = k
    <3>1. Map!search(m2, k) = Map!Nothing BY <2>2, <1>8 DEF Grown
    <3>2. Map!search(m, k) = Map!Nothing BY <2>2, <1>2, <1>5 DEF ItemsOf
    <3> QED BY <3>1, <3>2
  <2> QED BY <2>1, <2>2
<1> QED BY <1>8, <1>9, <1>10, <1>11 DEF Grown

-----------------------------------------------------------------------------
(* The operations of the map.                                              *)

(* No more than one item is beyond three quarters of the buckets. *)
Roomy(m) == 4 * (m.items - 1) < 3 * m.size

LEMMA InsertKeeps ==
  ASSUME Map!HashAssumption, NEW m, IsMap(m), Counted(m), Roomy(m),
         NEW k \in Keys, NEW v \in Regos, NEW m2, m2 = Map!insert(m, k, v)
  PROVE  /\ IsMap(m2) /\ Counted(m2) /\ Roomy(m2)
         /\ \A x \in Keys :
              Map!search(m2, x) = IF x = k THEN [key |-> k, value |-> v] ELSE Map!search(m, x)
<1>1. PICK item : item = [key |-> k, value |-> v] OBVIOUS
<1>2. item \in Item /\ item.key = k BY <1>1 DEF Item
<1>3. PICK m1 : m1 = IF Map!TooDense(m) THEN Map!grow_map(m) ELSE m OBVIOUS
<1>4. m2 = Map!internal_insert(m1, item) BY <1>1, <1>3 DEF Map!insert
<1>5. PICK nb \in Nat \ {0}, items \in Nat : nb = m.size /\ items = m.items
  BY DEF IsMap, MapType
<1>6. 4 * (items - 1) < 3 * nb BY <1>5 DEF Roomy
<1>7. /\ IsMap(m1) /\ Counted(m1) /\ m1.items = items
      /\ m1.size \in Nat /\ 4 * items < 3 * m1.size
      /\ \A x \in Keys : Map!search(m1, x) = Map!search(m, x)
  <2>1. CASE Map!TooDense(m)
    <3>1. m1 = Map!grow_map(m) BY <2>1, <1>3
    <3>2. /\ IsMap(m1) /\ Counted(m1) /\ m1.items = m.items /\ m1.size = 2 * m.size
          /\ \A x \in Keys : Map!search(m1, x) = Map!search(m, x)
      BY <3>1, GrowthKeeps
    <3>3. 4 * items < 3 * (2 * nb) BY <1>6
    <3> QED BY <3>2, <3>3, <1>5
  <2>2. CASE ~ Map!TooDense(m)
    <3>1. m1 = m BY <2>2, <1>3
    <3>2. 4 * items < 3 * nb BY <2>2, <1>5 DEF Map!TooDense
    <3> QED BY <3>1, <3>2, <1>5
  <2> QED BY <2>1, <2>2
<1>8. /\ IsMap(m2) /\ m2.size = m1.size /\ m2.items \in Nat
      /\ m2.items \in {m1.items, m1.items + 1}
      /\ Counted(m2)
      /\ \A x \in Keys : Map!search(m2, x) = IF x = item.key THEN item ELSE Map!search(m1, x)
  BY <1>2, <1>4, <1>7, InsertItem
<1>9. Roomy(m2)
  <2>1. PICK n \in Nat, z \in Nat : n = m2.items /\ z = m2.size BY <1>7, <1>8
  <2>2. n \in {items, items + 1} /\ 4 * items < 3 * z BY <2>1, <1>7, <1>8
  <2>3. 4 * (n - 1) < 3 * z BY <2>2
  <2> QED BY <2>1, <2>3 DEF Roomy
<1> QED BY <1>1, <1>2, <1>7, <1>8, <1>9

LEMMA UnlinkKeeps ==
  ASSUME Map!HashAssumption, NEW m, IsMap(m), Counted(m), Roomy(m), NEW b \in 1 .. m.size,
         NEW i \in 1 .. Len(m.buckets[b]), NEW m2, m2 = Map!Unlink(m, b, i),
         NEW item, item = m.buckets[b][i]
  PROVE  /\ item \in Item /\ IsMap(m2) /\ Counted(m2) /\ Roomy(m2)
         /\ Map!search(m, item.key) = item
         /\ \A x \in Keys :
              Map!search(m2, x) = IF x = item.key THEN Map!Nothing ELSE Map!search(m, x)
<1>1. /\ item \in Item
      /\ IsMap(m2) /\ Counted(m2) /\ m2.size = m.size /\ m2.items = m.items - 1
      /\ Map!search(m, item.key) = item
      /\ \A x \in Keys :
           Map!search(m2, x) = IF x = item.key THEN Map!Nothing ELSE Map!search(m, x)
  BY UnlinkItem
<1>2. PICK nb \in Nat \ {0}, items \in Nat : nb = m.size /\ items = m.items
  BY DEF IsMap, MapType
<1>3. 4 * (items - 1) < 3 * nb BY <1>2 DEF Roomy
<1>4. 4 * (items - 1 - 1) < 3 * nb BY <1>3
<1>5. Roomy(m2) BY <1>1, <1>2, <1>4 DEF Roomy
<1> QED BY <1>1, <1>5

LEMMA RemoveKeeps ==
  ASSUME Map!HashAssumption, NEW m, IsMap(m), Counted(m), Roomy(m),
         NEW k \in Keys, NEW m2, m2 = Map!remove_key(m, k)
  PROVE  /\ IsMap(m2) /\ Counted(m2) /\ Roomy(m2)
         /\ \A x \in Keys :
              Map!search(m2, x) = IF x = k THEN Map!Nothing ELSE Map!search(m, x)
<1>1. PICK b \in 1 .. m.size : b = Place(m.size, k) BY ListHere
<1>2. PICK c : c = m.buckets[b] OBVIOUS
<1>3. CASE HasKey(c, k)
  <2>1. PICK i \in 1 .. Len(c) : c[i].key = k BY <1>3 DEF HasKey
  <2>2. Map!internal_search(m, k) = i BY <2>1, <1>1, <1>2, SearchFinds
  <2>3. i # 0 OBVIOUS
  <2>4. m2 = Map!Unlink(m, b, i) BY <2>2, <2>3, <1>1, BucketIsPlace DEF Map!remove_key
  <2>5. PICK item : item = c[i] OBVIOUS
  <2> QED BY <2>1, <2>4, <2>5, <1>2, UnlinkKeeps
<1>4. CASE ~ HasKey(c, k)
  <2>1. Map!internal_search(m, k) = 0 /\ Map!search(m, k) = Map!Nothing
    BY <1>1, <1>2, <1>4, SearchFinds
  <2>2. m2 = m BY <2>1 DEF Map!remove_key
  <2> QED BY <2>1, <2>2
<1> QED BY <1>3, <1>4

(* What a caller sees of a map: the value of every key. *)
ValuesOf(m) == [k \in Keys |-> Map!search(m, k).value]

LEMMA ValuesChange ==
  ASSUME NEW m, NEW m2, NEW k \in Keys, NEW item,
         \A x \in Keys : Map!search(m2, x) = IF x = k THEN item ELSE Map!search(m, x)
  PROVE  ValuesOf(m2) = [ValuesOf(m) EXCEPT ![k] = item.value]
BY DEF ValuesOf

(* The value of a key tells what a search finds. *)
LEMMA SearchIsFound ==
  ASSUME Map!HashAssumption, NEW m, IsMap(m), NEW k \in Keys
  PROVE  /\ Map!search(m, k) = [key   |-> IF ValuesOf(m)[k] = None THEN None ELSE k,
                                value |-> ValuesOf(m)[k]]
         /\ Map!search(m, k) \in Item \union {Map!Nothing}
         /\ ValuesOf(m)[k] = None => Map!search(m, k) = Map!Nothing
         /\ Map!search(m, k) = Map!Nothing => ValuesOf(m)[k] = None
<1>1. None \notin Regos BY DEF Map!HashAssumption
<1>2. ValuesOf(m)[k] = Map!search(m, k).value BY DEF ValuesOf
<1>3. CASE Map!search(m, k) = Map!Nothing BY <1>2, <1>3 DEF Map!Nothing
<1>4. CASE Map!search(m, k) \in Item /\ Map!search(m, k).key = k
  <2>1. PICK item \in Item : item = Map!search(m, k) BY <1>4
  <2>2. item.value \in Regos /\ item = [key |-> item.key, value |-> item.value]
    BY DEF Item
  <2>3. item # Map!Nothing BY <2>2, <1>1 DEF Map!Nothing
  <2> QED BY <2>1, <2>2, <2>3, <1>1, <1>2, <1>4
<1> QED BY <1>3, <1>4, SearchType

-----------------------------------------------------------------------------
(* Between operations the map is sound; get_random_item finds its item.    *)
MapInv ==
  /\ IsMap(map) /\ Counted(map) /\ Roomy(map)
  /\ result \in Item \union {Map!Nothing}
  /\ exited \in {"none", "items is zero"}

LEMMA MapInit == Map!HashAssumption /\ Map!Init => MapInv
<1> SUFFICES ASSUME Map!HashAssumption, Map!Init PROVE MapInv OBVIOUS
<1>1. PICK n \in Nat \ {0} : n = initial_size BY DEF Map!HashAssumption
<1>2. PICK m : m = map OBVIOUS
<1>3. m = Map!EmptyMap(n) BY <1>1, <1>2 DEF Map!Init
<1>4. IsMap(m) /\ Counted(m) /\ m.size = n /\ m.items = 0 BY <1>3, EmptyIsMap
<1>5. 4 * (0 - 1) < 3 * n OBVIOUS
<1>6. Roomy(m) BY <1>4, <1>5 DEF Roomy
<1> QED BY <1>2, <1>4, <1>6 DEF Map!Init, MapInv

KVNext == [Map!KV!Next]_<<Map!Store, call, result>>

LEMMA StoreIsValues ==
  Map!Store = ValuesOf(map) /\ Map!Store' = ValuesOf(map')
BY DEF Map!Store, ValuesOf

LEMMA FoundInStore ==
  ASSUME Map!HashAssumption, MapInv, NEW k \in Keys
  PROVE  /\ Map!KV!Found(k) = Map!search(map, k)
         /\ Map!search(map, k) \in Item \union {Map!Nothing}
<1>1. PICK m : m = map OBVIOUS
<1>2. IsMap(m) BY <1>1 DEF MapInv
<1>3. PICK store : store = ValuesOf(m) OBVIOUS
<1>4. Map!search(m, k) = [key |-> IF store[k] = None THEN None ELSE k, value |-> store[k]]
  BY <1>2, <1>3, SearchIsFound
<1>5. Map!search(m, k) \in Item \union {Map!Nothing} BY <1>2, SearchIsFound
<1>6. Map!KV!Found(k) = [key |-> IF store[k] = None THEN None ELSE k, value |-> store[k]]
  BY <1>1, <1>3, StoreIsValues DEF Map!KV!Found
<1> QED BY <1>1, <1>4, <1>5, <1>6

LEMMA InsertStep ==
  ASSUME Map!HashAssumption, MapInv, NEW k \in Keys, NEW v \in Regos, Map!Insert(k, v)
  PROVE  MapInv' /\ Map!KV!Insert(k, v)
<1>1. PICK m, m2 : m = map /\ m2 = map' OBVIOUS
<1>2. IsMap(m) /\ Counted(m) /\ Roomy(m) BY <1>1 DEF MapInv
<1>3. m2 = Map!insert(m, k, v) BY <1>1 DEF Map!Insert
<1>4. PICK item : item = [key |-> k, value |-> v] OBVIOUS
<1>5. /\ IsMap(m2) /\ Counted(m2) /\ Roomy(m2)
      /\ \A x \in Keys : Map!search(m2, x) = IF x = k THEN item ELSE Map!search(m, x)
  BY <1>2, <1>3, <1>4, InsertKeeps
<1>6. result' = Map!KV!Found(k) /\ result' \in Item \union {Map!Nothing}
  BY FoundInStore DEF Map!Insert
<1>7. MapInv' BY <1>1, <1>5, <1>6 DEF MapInv, Map!Insert
<1>8. Map!Store' = [Map!Store EXCEPT ![k] = v]
  <2>1. item.value = v BY <1>4
  <2>2. ValuesOf(m2) = [ValuesOf(m) EXCEPT ![k] = item.value] BY <1>5, ValuesChange
  <2> QED BY <2>1, <2>2, <1>1, StoreIsValues
<1> QED BY <1>6, <1>7, <1>8 DEF Map!Insert, Map!KV!Insert

LEMMA RemoveStep ==
  ASSUME Map!HashAssumption, MapInv, NEW k \in Keys, Map!RemoveKey(k)
  PROVE  MapInv' /\ (Map!KV!Remove(k) \/ UNCHANGED <<Map!Store, call, result>>)
<1>1. CASE map.items = 0
  <2>1. exited' = "items is zero" /\ UNCHANGED <<map, call, result>>
    BY <1>1 DEF Map!RemoveKey
  <2>2. MapInv' BY <2>1 DEF MapInv
  <2> QED BY <2>1, <2>2, StoreIsValues
<1>2. CASE map.items # 0
  <2>1. PICK m, m2 : m = map /\ m2 = map' OBVIOUS
  <2>2. IsMap(m) /\ Counted(m) /\ Roomy(m) BY <2>1 DEF MapInv
  <2>3. m2 = Map!remove_key(m, k) BY <1>2, <2>1 DEF Map!RemoveKey
  <2>4. /\ IsMap(m2) /\ Counted(m2) /\ Roomy(m2)
        /\ \A x \in Keys : Map!search(m2, x) = IF x = k THEN Map!Nothing ELSE Map!search(m, x)
    BY <2>2, <2>3, RemoveKeeps
  <2>5. result' = Map!KV!Found(k) /\ result' \in Item \union {Map!Nothing}
    BY <1>2, FoundInStore DEF Map!RemoveKey
  <2>6. MapInv' BY <1>2, <2>1, <2>4, <2>5 DEF MapInv, Map!RemoveKey
  <2>7. Map!Store' = [Map!Store EXCEPT ![k] = None]
    <3>1. Map!Nothing.value = None BY DEF Map!Nothing
    <3>2. PICK item : item = Map!Nothing OBVIOUS
    <3>3. ValuesOf(m2) = [ValuesOf(m) EXCEPT ![k] = item.value]
      BY <2>4, <3>2, ValuesChange
    <3> QED BY <3>1, <3>2, <3>3, <2>1, StoreIsValues
  <2> QED BY <1>2, <2>5, <2>6, <2>7 DEF Map!RemoveKey, Map!KV!Remove
<1> QED BY <1>1, <1>2

LEMMA SearchStep ==
  ASSUME Map!HashAssumption, MapInv, NEW k \in Keys, Map!Search(k)
  PROVE  MapInv' /\ Map!KV!Lookup(k)
<1>1. result' = Map!KV!Found(k) /\ result' \in Item \union {Map!Nothing}
  BY FoundInStore DEF Map!Search
<1>2. map' = map /\ exited' = exited /\ call' = <<"search", k>> BY DEF Map!Search
<1>3. MapInv' BY <1>1, <1>2 DEF MapInv
<1>4. Map!Store' = Map!Store BY <1>2, StoreIsValues
<1> QED BY <1>1, <1>2, <1>3, <1>4 DEF Map!KV!Lookup

(* A map that counts no item has none. *)
LEMMA CountsNone ==
  ASSUME Map!HashAssumption, NEW m, IsMap(m), Counted(m), m.items = 0, NEW k \in Keys
  PROVE  ValuesOf(m)[k] = None
<1>1. PICK s : s = Map!AllItems(m) OBVIOUS
<1>2. ItemsOf(m, s) BY <1>1, WalkIsItems
<1>3. Len(s) = 0 BY <1>1 DEF Counted
<1>4. ~ \E t \in 1 .. Len(s) : s[t].key = k BY <1>3
<1>5. Map!search(m, k) = Map!Nothing BY <1>2, <1>4 DEF ItemsOf
<1> QED BY <1>5, SearchIsFound

LEMMA RandomStep ==
  ASSUME Map!HashAssumption, MapInv, Map!GetRandomItem
  PROVE  MapInv' /\ Map!KV!TakeAny
<1>1. PICK m, m2 : m = map /\ m2 = map' OBVIOUS
<1>2. IsMap(m) /\ Counted(m) /\ Roomy(m) BY <1>1 DEF MapInv
<1>3. call' = <<"get_random_item">> BY DEF Map!GetRandomItem
<1>4. CASE map.items = 0 /\ result' = Map!Nothing /\ UNCHANGED <<map, exited>>
  <2>1. MapInv' BY <1>4 DEF MapInv
  <2>2. \A k \in Keys : Map!Store[k] = None BY <1>1, <1>2, <1>4, CountsNone, StoreIsValues
  <2>3. Map!Store' = Map!Store BY <1>4, StoreIsValues
  <2> QED BY <2>1, <2>2, <2>3, <1>3, <1>4 DEF Map!KV!TakeAny, Map!Nothing
<1>5. CASE \E item_n \in 1 .. map.items :
             IF item_n > Len(Map!AllItems(map))
             THEN exited' = "we shouldn't be here" /\ UNCHANGED <<map, result>>
             ELSE \E b \in 1 .. map.size, i \in 1 .. item_n :
                    /\ i <= Len(map.buckets[b])
                    /\ Len(Map!Walk(map)[b - 1]) + i = item_n
                    /\ result' = map.buckets[b][i]
                    /\ map' = Map!Unlink(map, b, i)
                    /\ UNCHANGED exited
  <2>1. PICK item_n \in 1 .. m.items :
             IF item_n > Len(Map!AllItems(m))
             THEN exited' = "we shouldn't be here" /\ UNCHANGED <<map, result>>
             ELSE \E b \in 1 .. m.size, i \in 1 .. item_n :
                    /\ i <= Len(m.buckets[b])
                    /\ Len(Map!Walk(m)[b - 1]) + i = item_n
                    /\ result' = m.buckets[b][i]
                    /\ m2 = Map!Unlink(m, b, i)
                    /\ UNCHANGED exited
    BY <1>1, <1>5
  <2>2. ~ (item_n > Len(Map!AllItems(m)))
    <3>1. Len(Map!AllItems(m)) = m.items /\ m.items \in Nat
      BY <1>2 DEF Counted, IsMap, MapType
    <3> QED BY <3>1
  <2>3. PICK b \in 1 .. m.size, i \in 1 .. item_n :
             /\ i <= Len(m.buckets[b])
             /\ result' = m.buckets[b][i]
             /\ m2 = Map!Unlink(m, b, i)
             /\ UNCHANGED exited
    BY <2>1, <2>2
  <2>4. i \in 1 .. Len(m.buckets[b])
    <3>1. m.buckets[b] \in Seq(Item) BY <1>2 DEF IsMap, ChainOfItems
    <3>2. m.items \in Nat BY <1>2 DEF IsMap, MapType
    <3> QED BY <3>1, <3>2, <2>3
  <2>5. PICK item : item = m.buckets[b][i] OBVIOUS
  <2>6. /\ item \in Item /\ IsMap(m2) /\ Counted(m2) /\ Roomy(m2)
        /\ Map!search(m, item.key) = item
        /\ \A x \in Keys :
             Map!search(m2, x) = IF x = item.key THEN Map!Nothing ELSE Map!search(m, x)
    BY <1>2, <2>3, <2>4, <2>5, UnlinkKeeps, SMTT(30)
  <2>7. PICK k \in Keys : k = item.key BY <2>6 DEF Item
  <2>8. MapInv' BY <1>1, <2>3, <2>5, <2>6 DEF MapInv
  <2>9. result' = Map!KV!Found(k)
    <3>1. Map!search(map, k) = item BY <1>1, <2>6, <2>7
    <3> QED BY <3>1, <2>3, <2>5, FoundInStore
  <2>10. Map!Store[k] # None
    <3>1. item # Map!Nothing
      <4>1. None \notin Keys BY DEF Map!HashAssumption
      <4> QED BY <4>1, <2>7 DEF Map!Nothing
    <3>2. Map!search(m, k) # Map!Nothing BY <3>1, <2>6, <2>7
    <3>3. ValuesOf(m)[k] # None BY <3>2, <1>2, SearchIsFound
    <3> QED BY <3>3, <1>1, StoreIsValues
  <2>11. Map!Store' = [Map!Store EXCEPT ![k] = None]
    <3>1. Map!Nothing.value = None BY DEF Map!Nothing
    <3>2. PICK none : none = Map!Nothing OBVIOUS
    <3>3. \A x \in Keys : Map!search(m2, x) = IF x = k THEN none ELSE Map!search(m, x)
      BY <2>6, <2>7, <3>2
    <3>4. ValuesOf(m2) = [ValuesOf(m) EXCEPT ![k] = none.value] BY <3>3, ValuesChange, SMTT(30)
    <3> QED BY <3>1, <3>2, <3>4, <1>1, StoreIsValues
  <2> QED BY <1>3, <2>8, <2>9, <2>10, <2>11 DEF Map!KV!TakeAny
<1> QED BY <1>4, <1>5 DEF Map!GetRandomItem

LEMMA MapNext ==
  ASSUME Map!HashAssumption
  PROVE  MapInv /\ [Map!Next]_(Map!vars) => MapInv' /\ KVNext
<1> SUFFICES ASSUME MapInv, [Map!Next]_(Map!vars) PROVE MapInv' /\ KVNext OBVIOUS
<1>1. ASSUME NEW k \in Keys, Map!RemoveKey(k) PROVE MapInv' /\ KVNext
  BY <1>1, RemoveStep DEF KVNext, Map!KV!Next
<1>2. ASSUME NEW k \in Keys, Map!Search(k) PROVE MapInv' /\ KVNext
  BY <1>2, SearchStep DEF KVNext, Map!KV!Next
<1>3. ASSUME NEW k \in Keys, NEW v \in Regos, Map!Insert(k, v) PROVE MapInv' /\ KVNext
  BY <1>3, InsertStep DEF KVNext, Map!KV!Next
<1>4. CASE Map!GetRandomItem BY <1>4, RandomStep DEF KVNext, Map!KV!Next
<1>5. CASE UNCHANGED Map!vars
  <2>1. map' = map /\ call' = call /\ result' = result /\ exited' = exited
    BY <1>5 DEF Map!vars
  <2> QED BY <2>1, StoreIsValues DEF MapInv, KVNext
<1> QED BY <1>1, <1>2, <1>3, <1>4, <1>5 DEF Map!Next

LEMMA MapSteps == [Next]_vars => [Map!Next]_(Map!vars)
BY
   DEF Next, MapStep, ListStep, PlatesStep, BillsStep, AtReader, vars, map_vars,
       Map!vars

(* No key is twice in the map. *)
LEMMA KeysOnce ==
  ASSUME NEW m, NEW s, ItemsOf(m, s), NEW k \in Keys
  PROVE  Cardinality({i \in DOMAIN s : s[i].key = k}) <= 1
<1>1. PICK here : here = {i \in DOMAIN s : s[i].key = k} OBVIOUS
<1>2. DOMAIN s = 1 .. Len(s) BY DEF ItemsOf
<1>3. \A i, j \in here : i = j BY <1>1, <1>2 DEF ItemsOf
<1>4. Cardinality(here) <= 1
  <2>1. CASE here = {} BY <2>1, FS_EmptySet
  <2>2. CASE here # {}
    <3>1. PICK i : here = {i} BY <2>2, <1>3
    <3>2. Cardinality({i}) = 1 BY FS_Singleton
    <3> QED BY <3>1, <3>2
  <2> QED BY <2>1, <2>2
<1> QED BY <1>1, <1>4

LEMMA MapInvSound == Map!HashAssumption /\ MapInv => Map!MapSound
<1> SUFFICES ASSUME Map!HashAssumption, MapInv PROVE Map!MapSound OBVIOUS
<1>1. PICK m : m = map OBVIOUS
<1>2. IsMap(m) /\ Counted(m) /\ Roomy(m) BY <1>1 DEF MapInv
<1>3. PICK s : s = Map!AllItems(m) OBVIOUS
<1>4. ItemsOf(m, s) BY <1>2, <1>3, WalkIsItems
<1>5. Map!TypeOK BY <1>1, <1>2
  DEF MapInv, IsMap, MapType, ChainOfItems, Map!TypeOK, Item, Map!Item
<1>6. \A b \in 1 .. m.size : \A i \in DOMAIN m.buckets[b] :
        Map!Bucket(m, m.buckets[b][i].key) = b
  <2> SUFFICES ASSUME NEW b \in 1 .. m.size, NEW i \in DOMAIN m.buckets[b]
               PROVE  Map!Bucket(m, m.buckets[b][i].key) = b
    OBVIOUS
  <2>1. PICK c : c = m.buckets[b] OBVIOUS
  <2>2. /\ c \in Seq(Item)
        /\ \A j \in 1 .. Len(c) : Place(m.size, c[j].key) = b
    BY <1>2, <2>1 DEF IsMap, ChainOfItems
  <2>3. i \in 1 .. Len(c) BY <2>1, <2>2
  <2>4. Place(m.size, c[i].key) = b BY <2>2, <2>3
  <2> QED BY <2>1, <2>4, BucketIsPlace
<1>7. \A k \in Keys : Map!Cardinality({i \in DOMAIN s : s[i].key = k}) <= 1
  <2> SUFFICES ASSUME NEW k \in Keys
               PROVE  Map!Cardinality({i \in DOMAIN s : s[i].key = k}) <= 1
    OBVIOUS
  <2>1. PICK here : here = {i \in DOMAIN s : s[i].key = k} OBVIOUS
  <2>2. Cardinality(here) <= 1 BY <1>4, <2>1, KeysOnce
  <2>3. Map!Cardinality(here) = Cardinality(here)
    BY DEF Map!Cardinality, Cardinality, Map!IsFiniteSet, IsFiniteSet
  <2> QED BY <2>1, <2>2, <2>3
<1>8. m.items = Len(s) BY <1>2, <1>3 DEF Counted
<1>9. exited # "we shouldn't be here" BY DEF MapInv
<1>10. 4 * (m.items - 1) < 3 * m.size BY <1>2 DEF Roomy
<1> QED BY <1>1, <1>3, <1>5, <1>6, <1>7, <1>8, <1>9, <1>10 DEF Map!MapSound

LEMMA MapInductive == ASSUME Map!HashAssumption PROVE Spec => []MapInv
<1>1. Init => MapInv BY MapInit DEF Init
<1>2. MapInv /\ [Next]_vars => MapInv' BY MapSteps, MapNext
<1> QED BY <1>1, <1>2, PTL DEF Spec

(* Whatever the keys and their hashes, however often the map grows, an     *)
(* item stays where get_index looks for it, no key is there twice, items   *)
(* counts them and get_random_item never gets to map.c:109.                *)
THEOREM MapCorrect ==
  ASSUME Map!HashAssumption
  PROVE  Spec => []MapSound
<1>1. MapInv => MapSound BY MapInvSound DEF MapSound
<1> QED BY <1>1, MapInductive, PTL

(* Every operation changes and returns what an abstract map would, or ends *)
(* the program without having changed anything (map.h).                    *)
THEOREM MapImplemented ==
  ASSUME Map!HashAssumption
  PROVE  Spec => ImplementsMap
<1>1. Init => Map!KV!Init
  <2> SUFFICES ASSUME Map!Init PROVE Map!KV!Init BY DEF Init
  <2>1. PICK m : m = map OBVIOUS
  <2>2. PICK n \in Nat \ {0} : n = initial_size BY DEF Map!HashAssumption
  <2>3. m = Map!EmptyMap(n) BY <2>1, <2>2 DEF Map!Init
  <2>4. IsMap(m) /\ \A k \in Keys : Map!search(m, k) = Map!Nothing BY <2>3, EmptyIsMap
  <2>5. ValuesOf(m) = [k \in Keys |-> None] BY <2>4 DEF ValuesOf, Map!Nothing
  <2>6. Map!Store = [k \in Keys |-> None] BY <2>1, <2>5, StoreIsValues
  <2> QED BY <2>6 DEF Map!KV!Init, Map!Init, Map!Nothing
<1>2. MapInv /\ [Next]_vars => [Map!KV!Next]_<<Map!Store, call, result>>
  BY MapSteps, MapNext DEF KVNext
<1> QED BY <1>1, <1>2, MapInductive, PTL
        DEF Spec, ImplementsMap, Map!ImplementsMap, Map!KV!Spec
=============================================================================
