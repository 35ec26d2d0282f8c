--------------------------- MODULE DisplayProofs ---------------------------
(***************************************************************************)
(* The status display changes nothing: seen without it, the manager takes  *)
(* the steps it could take alone, and what is proved of the manager alone  *)
(* holds of the manager with its display.  The manager is seen through     *)
(* view, which frees level_m while the display holds it; the lemmas of     *)
(* ManagerProofs are used for the manager seen that way.                   *)
(***************************************************************************)
EXTENDS Display, TLAPS

view == IF level_m = display THEN None ELSE level_m

MP == INSTANCE ManagerProofs WITH level_m <- view

-----------------------------------------------------------------------------
(* Both instances of the manager are the same one.                         *)

LEMMA SameConstants ==
  MP!Levels = Levels /\ MP!Threads = Threads /\ MP!Total = Total
BY DEF MP!Levels, Levels, MP!Threads, Threads, MP!Total, Total

LEMMA SameFinite == ASSUME NEW S PROVE MP!IsFiniteSet(S) <=> IsFiniteSet(S)
BY DEF MP!IsFiniteSet, IsFiniteSet

LEMMA SameSize == ASSUME NEW S PROVE MP!Cardinality(S) = Cardinality(S)
BY DEF MP!Cardinality, Cardinality, MP!IsFiniteSet, IsFiniteSet

LEMMA SameRemoval ==
  ASSUME NEW r
  PROVE  /\ MP!remove_from_all_levels(levels, r) = remove_from_all_levels(levels, r)
         /\ MP!LevelsHolding(levels, r) = LevelsHolding(levels, r)
BY DEF MP!remove_from_all_levels, remove_from_all_levels, MP!LevelsHolding,
       LevelsHolding, MP!exists_in_level, exists_in_level, MP!Levels, Levels

LEMMA SameChoice == MP!get_available_level(levels) = get_available_level(levels)
BY DEF MP!get_available_level, get_available_level, MP!MostFree, MostFree,
       MP!free_parks, free_parks, MP!cars_in_level, cars_in_level, MP!Levels,
       Levels, MP!Cardinality, Cardinality, MP!IsFiniteSet, IsFiniteSet

LEMMA SameVars == M!vars = MP!vars
BY DEF M!vars, MP!vars, view

LEMMA SameNext == M!Next <=> MP!Next
BY DEF view,
  M!Next, MP!Next, M!Simulator, MP!Simulator, M!ArriveAtEntrance,
  MP!ArriveAtEntrance, M!ArriveAtLevel, MP!ArriveAtLevel, M!ArriveAtExit,
  MP!ArriveAtExit, M!Present, MP!Present, M!Step, MP!Step, M!SectionStep,
  MP!SectionStep, M!Lock, MP!Lock, M!Load, MP!Load, M!Store, MP!Store,
  M!Remove, MP!Remove, M!Insert, MP!Insert, M!EndSection, MP!EndSection,
  M!EntranceStep, MP!EntranceStep, M!CheckUnlock, MP!CheckUnlock,
  M!TestFreeSpots, MP!TestFreeSpots, M!UnlockWhenFull, MP!UnlockWhenFull,
  M!Refuse, MP!Refuse, M!PickLevel, MP!PickLevel, M!OpenBill, MP!OpenBill,
  M!ShowLevel, MP!ShowLevel, M!ExitStep, MP!ExitStep, M!SettleBill,
  MP!SettleBill, M!SignalGone, MP!SignalGone, M!CheckLevel, MP!CheckLevel,
  M!At, MP!At, M!Goto, MP!Goto, M!MoveCar, MP!MoveCar, M!WaitForNext,
  MP!WaitForNext, M!AssertThat, MP!AssertThat, M!Unlock, MP!Unlock, M!Threads,
  MP!Threads, M!Levels, MP!Levels, M!FirstInSection, MP!FirstInSection,
  M!Increment, MP!Increment, M!Decrement, MP!Decrement, M!exists_in_level,
  MP!exists_in_level, M!free_parks, MP!free_parks, M!cars_in_level,
  MP!cars_in_level, M!get_available_level, MP!get_available_level, M!MostFree,
  MP!MostFree, M!insert_in_level, MP!insert_in_level,
  M!remove_from_all_levels, MP!remove_from_all_levels, M!LevelsHolding,
  MP!LevelsHolding, M!Target, MP!Target, M!Cardinality, MP!Cardinality,
  M!IsFiniteSet, MP!IsFiniteSet, M!Total, MP!Total

-----------------------------------------------------------------------------
(* A step of another thread, seen without the display.                     *)

(* Giving level_m back, by a thread that holds it or finds it free. *)
LEMMA SeenUnlock ==
  ASSUME NEW t \in Threads, Unlock(t), ~stolen'
  PROVE  MP!Unlock(t) /\ view' = None
BY ThreadsAssumption, DisplayAssumption DEF Unlock, MP!Unlock, view

LEMMA SeenSection ==
  ASSUME NEW t \in Threads, SectionStep(t), ~stolen'
  PROVE  MP!SectionStep(t)
<1> USE SameConstants
<1>1. CASE Lock(t)
  BY <1>1, ThreadsAssumption, DisplayAssumption
  DEF Lock, MP!SectionStep, MP!Lock, view, At, MP!At, Goto, MP!Goto,
      FirstInSection, MP!FirstInSection
<1>2. CASE Load(t)
  BY <1>2 DEF Load, MP!SectionStep, MP!Load, view, At, MP!At, Goto, MP!Goto
<1>3. CASE Store(t)
  BY <1>3 DEF Store, MP!SectionStep, MP!Store, view, At, MP!At, Goto, MP!Goto,
              Increment, MP!Increment, Decrement, MP!Decrement
<1>4. CASE Remove(t)
  <2>1. /\ MP!remove_from_all_levels(levels, rego[t])
             = remove_from_all_levels(levels, rego[t])
        /\ MP!LevelsHolding(levels, rego[t]) = LevelsHolding(levels, rego[t])
    BY SameRemoval
  <2>2. MP!Cardinality(LevelsHolding(levels, rego[t]))
          = Cardinality(LevelsHolding(levels, rego[t]))
    BY SameSize
  <2>3. failed' = IF MP!Cardinality(MP!LevelsHolding(levels, rego[t])) = 1
                  THEN "none" ELSE "removed == 1"
    BY <1>4, <2>1, <2>2 DEF Remove, AssertThat
  <2> QED
    BY <1>4, <2>1, <2>3
    DEF Remove, MP!SectionStep, MP!Remove, view, At, MP!At, Goto, MP!Goto,
        MP!AssertThat
<1>5. CASE Insert(t)
  BY <1>5, SameSize
  DEF Insert, MP!SectionStep, MP!Insert, view, At, MP!At, Goto, MP!Goto,
      AssertThat, MP!AssertThat, insert_in_level, MP!insert_in_level,
      Target, MP!Target, free_parks, MP!free_parks,
      exists_in_level, MP!exists_in_level, cars_in_level, MP!cars_in_level
<1>6. CASE EndSection(t)
  BY <1>6, SeenUnlock
  DEF EndSection, MP!SectionStep, MP!EndSection, At, MP!At, Goto, MP!Goto,
      MoveCar, MP!MoveCar, WaitForNext, MP!WaitForNext
<1> QED BY <1>1, <1>2, <1>3, <1>4, <1>5, <1>6 DEF SectionStep

LEMMA SeenEntrance ==
  ASSUME NEW e \in Entrances, EntranceStep(e), ~stolen'
  PROVE  MP!EntranceStep(e)
<1> USE SameConstants DEF At, MP!At, Goto, MP!Goto
<1>1. e \in Threads BY DEF Threads
<1>2. CASE CheckUnlock(e)
  BY <1>1, <1>2, SeenUnlock DEF CheckUnlock, MP!EntranceStep, MP!CheckUnlock
<1>3. CASE TestFreeSpots(e)
  BY <1>3 DEF TestFreeSpots, MP!EntranceStep, MP!TestFreeSpots, view
<1>4. CASE UnlockWhenFull(e)
  BY <1>1, <1>4, SeenUnlock DEF UnlockWhenFull, MP!EntranceStep, MP!UnlockWhenFull
<1>5. CASE Refuse(e)
  BY <1>5 DEF Refuse, MP!EntranceStep, MP!Refuse, view, MoveCar, MP!MoveCar,
              WaitForNext, MP!WaitForNext
<1>6. CASE PickLevel(e)
  BY <1>6, SameChoice
  DEF PickLevel, MP!EntranceStep, MP!PickLevel, view, AssertThat, MP!AssertThat
<1>7. CASE OpenBill(e)
  BY <1>7 DEF OpenBill, MP!EntranceStep, MP!OpenBill, view, AssertThat,
              MP!AssertThat
<1>8. CASE ShowLevel(e)
  BY <1>8 DEF ShowLevel, MP!EntranceStep, MP!ShowLevel, view, MoveCar,
              MP!MoveCar, WaitForNext, MP!WaitForNext
<1> QED BY <1>2, <1>3, <1>4, <1>5, <1>6, <1>7, <1>8 DEF EntranceStep

LEMMA SeenStep ==
  ASSUME NEW t \in Threads, Step(t), ~stolen'
  PROVE  MP!Step(t)
<1> USE SameConstants DEF At, MP!At, Goto, MP!Goto, view
<1>1. CASE SectionStep(t) BY <1>1, SeenSection DEF MP!Step
<1>2. CASE t \in Entrances /\ EntranceStep(t) BY <1>2, SeenEntrance DEF MP!Step
<1>3. CASE t \in Exits /\ ExitStep(t)
  BY <1>3 DEF ExitStep, SettleBill, SignalGone, MP!Step, MP!ExitStep,
              MP!SettleBill, MP!SignalGone, AssertThat, MP!AssertThat,
              MoveCar, MP!MoveCar, WaitForNext, MP!WaitForNext
<1>4. CASE t \in Levels /\ CheckLevel(t)
  BY <1>4, SameSize
  DEF CheckLevel, MP!Step, MP!CheckLevel, exists_in_level, MP!exists_in_level,
      cars_in_level, MP!cars_in_level
<1> QED BY <1>1, <1>2, <1>3, <1>4 DEF Step

LEMMA SeenNext == Next /\ ~stolen' => MP!Next
<1>1. ASSUME Simulator PROVE MP!Simulator
  BY <1>1, SameConstants
  DEF Simulator, MP!Simulator, ArriveAtEntrance, MP!ArriveAtEntrance,
      ArriveAtLevel, MP!ArriveAtLevel, ArriveAtExit, MP!ArriveAtExit,
      Present, MP!Present, view, At, MP!At, Goto, MP!Goto, MoveCar, MP!MoveCar
<1> QED BY <1>1, SeenStep, SameConstants DEF Next, MP!Next

(* The display's own steps cannot be seen. *)
LEMMA SeenDisplay ==
  ASSUME stolen \in BOOLEAN, display_thread, ~stolen'
  PROVE  UNCHANGED MP!vars
<1> USE ThreadsAssumption, DisplayAssumption DEF MP!vars, vars, view
<1>1. CASE DisplayLock BY <1>1 DEF DisplayLock
<1>2. CASE DisplayRead BY <1>2 DEF DisplayRead
<1>3. CASE DisplayUnlock BY <1>3 DEF DisplayUnlock, Unlock
<1>4. CASE Show BY <1>4 DEF Show
<1> QED BY <1>1, <1>2, <1>3, <1>4 DEF display_thread

LEMMA Seen ==
  ASSUME stolen \in BOOLEAN, [NextDisplayed]_all_vars, ~stolen'
  PROVE  [MP!Next]_(MP!vars)
BY SeenNext, SeenDisplay
DEF NextDisplayed, all_vars, vars, MP!vars, view

-----------------------------------------------------------------------------
(* The display and level_m.                                                *)

Holds == level_m = display <=> display_pc \in {"read", "unlock"}

DInv == stolen \in BOOLEAN /\ (~stolen => MP!SInv /\ Holds)

LEMMA StolenType ==
  stolen \in BOOLEAN /\ [NextDisplayed]_all_vars => stolen' \in BOOLEAN
BY DEF NextDisplayed, all_vars, vars, display_thread, DisplayLock, DisplayRead,
       DisplayUnlock, Show, Unlock, Next, Simulator, ArriveAtEntrance,
       ArriveAtLevel, ArriveAtExit, Present, Step, SectionStep, Lock, Load,
       Store, Remove, Insert, EndSection, EntranceStep, CheckUnlock,
       TestFreeSpots, UnlockWhenFull, Refuse, PickLevel, OpenBill, ShowLevel,
       ExitStep, SettleBill, SignalGone, CheckLevel

LEMMA StolenForever == [NextDisplayed]_all_vars /\ ~stolen' => ~stolen
BY DEF NextDisplayed, all_vars, vars, display_thread, DisplayLock, DisplayRead,
       DisplayUnlock, Show, Unlock, Next, Simulator, ArriveAtEntrance,
       ArriveAtLevel, ArriveAtExit, Present, Step, SectionStep, Lock, Load,
       Store, Remove, Insert, EndSection, EntranceStep, CheckUnlock,
       TestFreeSpots, UnlockWhenFull, Refuse, PickLevel, OpenBill, ShowLevel,
       ExitStep, SettleBill, SignalGone, CheckLevel

(* No other thread takes level_m from the display or hands it over.        *)
LEMMA OthersKeep ==
  ASSUME Next, ~stolen'
  PROVE  level_m' = display <=> level_m = display
<1> USE ThreadsAssumption, DisplayAssumption
<1>1. CASE Simulator
  BY <1>1 DEF Simulator, ArriveAtEntrance, ArriveAtLevel, ArriveAtExit, Present
<1>2. ASSUME NEW t \in Threads, Step(t)
      PROVE  level_m' = display <=> level_m = display
  <2>1. Unlock(t) => (level_m' = display <=> level_m = display)
    BY DEF Unlock
  <2>2. Lock(t) => (level_m' = display <=> level_m = display)
    BY DEF Lock
  <2> QED
    BY <1>2, <2>1, <2>2
    DEF Step, SectionStep, Load, Store, Remove, Insert, EndSection,
        EntranceStep, CheckUnlock, TestFreeSpots, UnlockWhenFull, Refuse,
        PickLevel, OpenBill, ShowLevel, ExitStep, SettleBill, SignalGone,
        CheckLevel
<1> QED BY <1>1, <1>2 DEF Next

LEMMA InitDInv == Init /\ DisplayInit => DInv
<1> SUFFICES ASSUME Init, DisplayInit PROVE MP!SInv /\ Holds
  BY DEF DInv, Init
<1>1. MP!Init
  BY SameConstants, ThreadsAssumption, DisplayAssumption
  DEF Init, MP!Init, view, init_level_data, MP!init_level_data
<1>2. MP!SInv
  BY <1>1, SameConstants, SameFinite, ThreadsAssumption, RegosAssumption,
     SizeAssumption, LevelsAssumption, CapacityAssumption, MP!InitSInv
<1>3. Holds BY ThreadsAssumption, DisplayAssumption DEF Init, DisplayInit, Holds
<1> QED BY <1>2, <1>3

LEMMA NextDInv == DInv /\ [NextDisplayed]_all_vars => DInv'
<1> SUFFICES ASSUME DInv, [NextDisplayed]_all_vars, ~stolen'
             PROVE  MP!SInv' /\ Holds'
  BY StolenType DEF DInv
<1>1. MP!SInv /\ Holds /\ stolen \in BOOLEAN BY StolenForever DEF DInv
<1>2. MP!SInv'
  <2>1. [MP!Next]_(MP!vars) BY <1>1, Seen
  <2> QED
    BY <1>1, <2>1, SameConstants, SameFinite, ThreadsAssumption, RegosAssumption,
       SizeAssumption, LevelsAssumption, CapacityAssumption, MP!NextSInv
<1>3. Holds'
  <2>1. CASE display_thread
    BY <1>1, <2>1, ThreadsAssumption, DisplayAssumption
    DEF Holds, display_thread, DisplayAt, DisplayLock, DisplayRead,
        DisplayUnlock, Show, Unlock, vars
  <2>2. CASE Next /\ UNCHANGED display_vars
    BY <1>1, <2>2, OthersKeep DEF Holds, display_vars
  <2>3. CASE UNCHANGED all_vars
    BY <1>1, <2>3 DEF Holds, all_vars, vars, display_vars
  <2> QED BY <2>1, <2>2, <2>3 DEF NextDisplayed
<1> QED BY <1>2, <1>3

LEMMA DInvInductive == SpecDisplayed => []DInv
BY InitDInv, NextDInv, PTL DEF SpecDisplayed

-----------------------------------------------------------------------------
(* While the display holds level_m the table it reads and free_spots add   *)
(* up to all parks: what it prints of the levels is a whole table.         *)
THEOREM ReadsTableCorrectly == SpecDisplayed => []ReadsWholeTable
<1>1. DInv => ReadsWholeTable
  <2> SUFFICES ASSUME DInv, ~stolen, display_pc \in {"read", "unlock"}
               PROVE  free_spots + Cardinality(UNION {levels[l] : l \in Levels})
                        = Total
    BY DEF ReadsWholeTable
  <2>1. MP!SInv /\ view = None BY DEF DInv, Holds, view
  <2>2. free_spots + MP!Cardinality(UNION {levels[l] : l \in MP!Levels}) = MP!Total
    BY <2>1, SameConstants, SameFinite, ThreadsAssumption, RegosAssumption,
       SizeAssumption, LevelsAssumption, CapacityAssumption, MP!QuietTable
  <2> QED BY <2>2, SameConstants, SameSize
<1> QED BY <1>1, DInvInductive, PTL

(* Every step of the manager with its display is a step the manager could  *)
(* take alone, or none it can notice, until a level_m is stolen.           *)
THEOREM DisplayIsReader == SpecDisplayed => DisplayOnlyReads
<1>1. DInv /\ [NextDisplayed]_all_vars
        => [~stolen' => M!Next \/ UNCHANGED M!vars]_all_vars
  <2> SUFFICES ASSUME DInv, [NextDisplayed]_all_vars, ~stolen'
               PROVE  M!Next \/ UNCHANGED M!vars
    OBVIOUS
  <2>1. [MP!Next]_(MP!vars) BY Seen DEF DInv
  <2>2. M!vars' = MP!vars' BY DEF M!vars, MP!vars, view
  <2> QED BY <2>1, <2>2, SameNext, SameVars
<1> QED BY <1>1, DInvInductive, PTL DEF SpecDisplayed, DisplayOnlyReads

-----------------------------------------------------------------------------
(* A car park with room for every plate on the allow list, with a display. *)

LEMMA NextRoom ==
  ASSUME DInv, MP!Room, Cardinality(AllowList) <= Total,
         [NextDisplayed]_all_vars
  PROVE  MP!Room'
<1>1. /\ ~stolen /\ stolen \in BOOLEAN /\ MP!SInv /\ Holds
      /\ \A e \in Entrances : pc[e] # "full"
  BY DEF DInv, MP!Room
<1>2. \A t \in Threads : MP!InSection(t) => level_m = t
  BY <1>1, SameConstants, ThreadsAssumption
  DEF MP!SInv, MP!Inv, MP!LevelSectionsExclusive, view
<1>3. ~stolen'
  <2>1. CASE display_thread
    BY <1>1, <2>1
    DEF display_thread, DisplayLock, DisplayRead, DisplayUnlock, Show, Unlock,
        DisplayAt, Holds, vars
  <2>2. \A t \in Threads : MP!InSection(t) /\ Unlock(t) => ~stolen'
    BY <1>1, <1>2 DEF Unlock
  <2>3. \A t \in Threads : EndSection(t) => ~stolen'
    BY <2>2 DEF EndSection, At, MP!InSection
  <2>4. \A e \in Entrances : CheckUnlock(e) => ~stolen'
    BY <2>2 DEF CheckUnlock, At, MP!InSection, Threads
  <2>5. \A e \in Entrances : ~ UnlockWhenFull(e)
    BY <1>1 DEF UnlockWhenFull, At
  <2>6. CASE Next
    BY <1>1, <2>3, <2>4, <2>5, <2>6
    DEF Next, Simulator, ArriveAtEntrance, ArriveAtLevel, ArriveAtExit,
        Present, Step, SectionStep, Lock, Load, Store, Remove, Insert,
        EntranceStep, TestFreeSpots, Refuse, PickLevel, OpenBill, ShowLevel,
        ExitStep, SettleBill, SignalGone, CheckLevel
  <2>7. CASE UNCHANGED all_vars BY <1>1, <2>7 DEF all_vars, vars
  <2> QED BY <2>1, <2>6, <2>7 DEF NextDisplayed
<1>4. MP!SInv' BY <1>3, NextDInv DEF DInv
<1>5. [MP!Next]_(MP!vars) BY <1>1, <1>3, Seen
<1>6. MP!Cardinality(AllowList) <= MP!Total BY SameConstants, SameSize
<1> QED
  BY <1>1, <1>4, <1>5, <1>6, SameConstants, SameFinite, ThreadsAssumption,
     RegosAssumption, SizeAssumption, LevelsAssumption, CapacityAssumption,
     MP!NextRoom

LEMMA InitRoom == Init => MP!Room
BY ThreadsAssumption DEF Init, MP!Room, Threads

(* Reading the table never costs the manager its mutex: with no more       *)
(* plates than parks it runs for ever next to its display.                 *)
THEOREM RoomWithDisplay == SpecDisplayed => []RoomForAllIsSafe
<1> DEFINE Fits == Cardinality(AllowList) <= Total
<1>1. Init => (Fits => MP!Room) BY InitRoom
<1>2. DInv /\ (Fits => MP!Room) /\ [NextDisplayed]_all_vars => (Fits => MP!Room)'
  BY NextRoom
<1>3. (Fits => MP!Room) => RoomForAllIsSafe BY DEF MP!Room, RoomForAllIsSafe
<1> HIDE DEF Fits
<1> QED BY <1>1, <1>2, <1>3, DInvInductive, PTL DEF SpecDisplayed

(* What a car can notice does not depend on level_m. *)
LEMMA SameStage == MP!Stage = Stage
BY DEF MP!Stage, Stage, MP!Held, Held, MP!Carried, Carried, MP!Levels, Levels

LEMMA SameCarPark == MP!CP!Next <=> CP!Next
BY DEF MP!CP!Next, CP!Next, MP!CP!Assign, CP!Assign, MP!CP!OpenBill, CP!OpenBill,
       MP!CP!Vacate, CP!Vacate, MP!CP!Settle, CP!Settle, MP!CP!Step, CP!Step,
       MP!CP!Holding, CP!Holding, MP!CP!Cardinality, CP!Cardinality,
       MP!CP!IsFiniteSet, CP!IsFiniteSet, MP!Stage, Stage, MP!Held, Held,
       MP!Carried, Carried, MP!Total, Total, MP!Levels, Levels

(* ... and it still implements the abstract car park.                      *)
THEOREM ImplementsWithDisplay ==
  ASSUME Cardinality(AllowList) <= Total
  PROVE  SpecDisplayed => ImplementsCarPark
<1>1. Init => CP!Init
  <2> SUFFICES ASSUME Init PROVE CP!Init OBVIOUS
  <2>1. Held = {} /\ billing = {}
    BY ThreadsAssumption
    DEF Init, init_level_data, Held, Carried, Threads
  <2> QED BY <2>1 DEF Stage, CP!Init
<1>2. DInv /\ DInv' /\ RoomForAllIsSafe' /\ [NextDisplayed]_all_vars
        => [CP!Next]_Stage
  <2> SUFFICES ASSUME DInv, DInv', RoomForAllIsSafe', [NextDisplayed]_all_vars
               PROVE  [CP!Next]_Stage
    OBVIOUS
  <2>1. ~stolen' /\ ~stolen BY StolenForever DEF RoomForAllIsSafe
  <2>2. MP!SInv /\ MP!SInv' /\ [MP!Next]_(MP!vars) BY <2>1, Seen DEF DInv
  <2>3. MP!CP!Next \/ UNCHANGED MP!Stage
    BY <2>1, <2>2, SameConstants, SameFinite, ThreadsAssumption,
       RegosAssumption, SizeAssumption, LevelsAssumption, CapacityAssumption,
       MP!CarParkStep
  <2>4. MP!Stage' = Stage'
    BY DEF MP!Stage, Stage, MP!Held, Held, MP!Carried, Carried, MP!Levels, Levels
  <2> QED BY <2>3, <2>4, SameStage, SameCarPark
<1> QED
  BY <1>1, <1>2, DInvInductive, RoomWithDisplay, PTL
  DEF SpecDisplayed, ImplementsCarPark, CP!Spec

=============================================================================
