------------------------------ MODULE Manager ------------------------------
(***************************************************************************)
(* The shared data of the manager process (manager.c, manager_funcs.c) and *)
(* every thread that changes it: one entrance thread per entrance, one     *)
(* exit thread per exit and one level thread per level.                    *)
(*                                                                         *)
(* Each action is what a thread does between two points where another      *)
(* thread can observe or disturb it.  Loading and storing free_spots are   *)
(* steps of their own because one of its readers does not hold level_m.    *)
(* Billing sections are single steps: billing_m is locked and unlocked     *)
(* around each of them and nowhere else, and nothing blocks inside.        *)
(*                                                                         *)
(* The simulator appears as the position of each car.  It presents a car   *)
(* to a licence plate reader only when the thread behind that reader waits *)
(* for it; the gate and reader modules model that hand-over call by call.  *)
(***************************************************************************)
EXTENDS LevelData

CONSTANTS
  Entrances,  \* one manager thread each
  Exits,      \* one manager thread each
  Regos,      \* every licence plate that may show up
  AllowList,  \* the plates loaded from plates.txt
  SizeMax,    \* largest size_t
  None        \* owner of an unlocked mutex, content of a fresh buffer

Threads == Entrances \union Exits \union Levels

ASSUME ThreadsAssumption ==
  /\ Entrances \intersect Exits = {}
  /\ (Entrances \union Exits) \intersect Levels = {}
  /\ None \notin Threads
ASSUME RegosAssumption ==
  AllowList \subseteq Regos /\ IsFiniteSet(Regos) /\ None \notin Regos
ASSUME SizeAssumption == SizeMax \in Nat /\ SizeMax > Total

VARIABLES
  free_spots,  \* the counter that all entrances and exits share
  levels,      \* level_data: the cars assigned to each level
  billing,     \* cars with an open entry in billing.map
  level_m,     \* owner of the mutex meant to protect the first two
  pc,          \* where each thread is
  rego,        \* the plate each thread last read from its reader
  loaded,      \* free_spots as loaded by a thread that is changing it
  level,       \* the level each entrance thread picked
  car,         \* simulator: where each car is
  stolen,      \* history: level_m was unlocked under a thread that held it
  failed       \* the assertion that aborted the process, or "none"

vars == <<free_spots, levels, billing, level_m, pc, rego, loaded, level, car,
          stolen, failed>>

Init ==
  /\ free_spots = Total
  /\ levels = init_level_data
  /\ billing = {}
  /\ level_m = None
  /\ pc = [t \in Threads |-> "wait"]
  /\ rego = [t \in Threads |-> None]
  /\ loaded = [t \in Entrances \union Exits |-> 0]
  /\ level = [e \in Entrances |-> 0]
  /\ car = [r \in Regos |-> "outside"]
  /\ stolen = FALSE
  /\ failed = "none"

Goto(t, label) == pc' = [pc EXCEPT ![t] = label]
At(t, label) == pc[t] = label /\ failed = "none"
MoveCar(r, place) == car' = [car EXCEPT ![r] = place]

(* Back to the reader.  The plate that the thread keeps in its buffer is    *)
(* overwritten before it is read again, so the model forgets it.           *)
WaitForNext(t) == Goto(t, "wait") /\ rego' = [rego EXCEPT ![t] = None]
AssertThat(condition, name) == failed' = IF condition THEN "none" ELSE name

(* size_t arithmetic wraps. *)
Increment(n) == IF n = SizeMax THEN 0 ELSE n + 1

(* Mutant: a signed counter. *)
DecrementSigned(n) == n - 1

Decrement(n) == IF n = 0 THEN SizeMax ELSE n - 1

-----------------------------------------------------------------------------
(* The simulator presents a car to a waiting thread, which copies its      *)
(* plate and, at an entrance, looks it up in the allow list.               *)

Present(t, r, from, to, label) ==
  /\ At(t, "wait")
  /\ car[r] = from
  /\ MoveCar(r, to)
  /\ rego' = [rego EXCEPT ![t] = r]
  /\ Goto(t, label)
  /\ UNCHANGED <<free_spots, levels, billing, level_m, loaded, level, stolen,
                 failed>>

(* Mutant: the allow list is not consulted. *)
ArriveAtEntranceUnchecked(e, r) ==
  Present(e, r, "outside", "entering", "check lock")

ArriveAtEntrance(e, r) ==
  Present(e, r, "outside", "entering",
          IF r \in AllowList THEN "check lock" ELSE "refuse")

ArriveAtLevel(l, r) == Present(l, r, "inside", "onLevel", "lock")

ArriveAtExit(x, r) == Present(x, r, "inside", "exiting", "lock")

-----------------------------------------------------------------------------
(* level_m.  An entrance thread takes it twice: for an assertion that no   *)
(* size_t can fail, and for its update.                                    *)

FirstInSection(t) ==
  IF t \in Levels THEN "check" ELSE "load"

(* Mutant: exit threads update the counter without the mutex. *)
LockNotTakenByExits(t) ==
  /\ \/ /\ level_m = None
        /\ level_m' = t
        /\ \/ At(t, "check lock") /\ Goto(t, "check unlock")
           \/ t \notin Exits /\ At(t, "lock") /\ Goto(t, FirstInSection(t))
     \/ /\ t \in Exits
        /\ At(t, "lock")
        /\ Goto(t, "load")
        /\ UNCHANGED level_m
  /\ UNCHANGED <<free_spots, levels, billing, rego, loaded, level, car, stolen,
                 failed>>

Lock(t) ==
  /\ level_m = None
  /\ level_m' = t
  /\ \/ At(t, "check lock") /\ Goto(t, "check unlock")
     \/ At(t, "lock") /\ Goto(t, FirstInSection(t))
  /\ UNCHANGED <<free_spots, levels, billing, rego, loaded, level, car, stolen,
                 failed>>

(* A default mutex does not remember who may unlock it: whoever holds it   *)
(* loses it.                                                               *)
Unlock(t) ==
  /\ level_m' = None
  /\ stolen' = (stolen \/ level_m \notin {None, t})

-----------------------------------------------------------------------------
(* Steps of an entrance thread.                                            *)

CheckUnlock(e) ==
  /\ At(e, "check unlock")
  /\ Unlock(e)
  /\ Goto(e, "test")
  /\ UNCHANGED <<free_spots, levels, billing, rego, loaded, level, car, failed>>

(* Reads free_spots after giving level_m back. *)
TestFreeSpots(e) ==
  /\ At(e, "test")
  /\ Goto(e, IF free_spots = 0 THEN "full" ELSE "lock")
  /\ UNCHANGED <<free_spots, levels, billing, level_m, rego, loaded, level, car,
                 stolen, failed>>

(* The "no spaces" path unlocks a level_m that this thread does not hold. *)
UnlockWhenFull(e) ==
  /\ At(e, "full")
  /\ Unlock(e)
  /\ Goto(e, "refuse")
  /\ UNCHANGED <<free_spots, levels, billing, rego, loaded, level, car, failed>>

(* Shows 'X' or 'F'; the simulator takes the car away. *)
Refuse(e) ==
  /\ At(e, "refuse")
  /\ MoveCar(rego[e], "outside")
  /\ WaitForNext(e)
  /\ UNCHANGED <<free_spots, levels, billing, level_m, loaded, level, stolen,
                 failed>>

PickLevel(e) ==
  /\ At(e, "pick")
  /\ level' = [level EXCEPT ![e] = get_available_level(levels)]
  /\ AssertThat(level'[e] # 0, "level != 0")
  /\ Goto(e, "insert")
  /\ UNCHANGED <<free_spots, levels, billing, level_m, rego, loaded, car, stolen>>

OpenBill(e) ==
  /\ At(e, "bill")
  /\ billing' = billing \union {rego[e]}
  /\ AssertThat(rego[e] \notin billing, "not yet billed")
  /\ Goto(e, "show")
  /\ UNCHANGED <<free_spots, levels, level_m, rego, loaded, level, car, stolen>>

(* Shows the level; the simulator lets the car through the gate. *)
ShowLevel(e) ==
  /\ At(e, "show")
  /\ MoveCar(rego[e], "inside")
  /\ level' = [level EXCEPT ![e] = 0]
  /\ WaitForNext(e)
  /\ UNCHANGED <<free_spots, levels, billing, level_m, loaded, stolen, failed>>

-----------------------------------------------------------------------------
(* Steps that several kinds of thread take inside a level_m section.       *)

Load(t) ==
  /\ At(t, "load")
  /\ loaded' = [loaded EXCEPT ![t] = free_spots]
  /\ Goto(t, "store")
  /\ UNCHANGED <<free_spots, levels, billing, level_m, rego, level, car, stolen,
                 failed>>

(* Mutant: an exit thread forgets to give the spot back. *)
StoreKeepsSpot(t) ==
  /\ At(t, "store")
  /\ \/ /\ t \in Entrances
        /\ free_spots' = Decrement(loaded[t])
        /\ Goto(t, "pick")
     \/ /\ t \in Exits
        /\ UNCHANGED free_spots
        /\ Goto(t, "remove")
  /\ loaded' = [loaded EXCEPT ![t] = 0]
  /\ UNCHANGED <<levels, billing, level_m, rego, level, car, stolen, failed>>

Store(t) ==
  /\ At(t, "store")
  /\ \/ /\ t \in Entrances
        /\ free_spots' = Decrement(loaded[t])
        /\ Goto(t, "pick")
     \/ /\ t \in Exits
        /\ free_spots' = Increment(loaded[t])
        /\ Goto(t, "remove")
  /\ loaded' = [loaded EXCEPT ![t] = 0]
  /\ UNCHANGED <<levels, billing, level_m, rego, level, car, stolen, failed>>

(* Mutant: a level thread takes every car it does not know. *)
CheckLevelIgnoresRoom(l) ==
  /\ At(l, "check")
  /\ Goto(l, IF ~exists_in_level(levels, l, rego[l])
             THEN "remove" ELSE "unlock")
  /\ UNCHANGED <<free_spots, levels, billing, level_m, rego, loaded, level, car,
                 stolen, failed>>

(* A level thread moves a car it sees to its own level if it has room. *)
CheckLevel(l) ==
  /\ At(l, "check")
  /\ Goto(l, IF /\ ~exists_in_level(levels, l, rego[l])
                /\ cars_in_level(levels, l) < LEVEL_CAPACITY
             THEN "remove" ELSE "unlock")
  /\ UNCHANGED <<free_spots, levels, billing, level_m, rego, loaded, level, car,
                 stolen, failed>>

Remove(t) ==
  /\ At(t, "remove")
  /\ levels' = remove_from_all_levels(levels, rego[t])
  /\ AssertThat(Cardinality(LevelsHolding(levels, rego[t])) = 1, "removed == 1")
  /\ Goto(t, IF t \in Levels THEN "insert" ELSE "unlock")
  /\ UNCHANGED <<free_spots, billing, level_m, rego, loaded, level, car, stolen>>

Target(t) == IF t \in Levels THEN t ELSE level[t]

Insert(t) ==
  /\ At(t, "insert")
  /\ levels' = insert_in_level(levels, Target(t), rego[t])
  /\ AssertThat(\/ free_parks(levels, Target(t)) = 0
            \/ ~exists_in_level(levels, Target(t), rego[t]), "not in level")
  /\ Goto(t, "unlock")
  /\ UNCHANGED <<free_spots, billing, level_m, rego, loaded, level, car, stolen>>

(* Mutant: level threads leave the section with the mutex held. *)
EndSectionKeepsLock(t) ==
  /\ At(t, "unlock")
  /\ IF t \in Levels THEN UNCHANGED <<level_m, stolen>> ELSE Unlock(t)
  /\ \/ t \in Entrances /\ Goto(t, "bill") /\ UNCHANGED <<car, rego>>
     \/ t \in Exits /\ Goto(t, "settle") /\ UNCHANGED <<car, rego>>
     \/ t \in Levels /\ MoveCar(rego[t], "inside") /\ WaitForNext(t)
  /\ UNCHANGED <<free_spots, levels, billing, loaded, level, failed>>

(* Mutant: the entrance shows the level before it opens the bill. *)
EndSectionShowsFirst(t) ==
  /\ At(t, "unlock")
  /\ Unlock(t)
  /\ \/ t \in Entrances /\ Goto(t, "show") /\ UNCHANGED <<car, rego>>
     \/ t \in Exits /\ Goto(t, "settle") /\ UNCHANGED <<car, rego>>
     \/ t \in Levels /\ MoveCar(rego[t], "inside") /\ WaitForNext(t)
  /\ UNCHANGED <<free_spots, levels, billing, loaded, level, failed>>

(* After its section an entrance opens a bill, an exit settles one, and a  *)
(* level thread signals the car, which drives on.                          *)
EndSection(t) ==
  /\ At(t, "unlock")
  /\ Unlock(t)
  /\ \/ t \in Entrances /\ Goto(t, "bill") /\ UNCHANGED <<car, rego>>
     \/ t \in Exits /\ Goto(t, "settle") /\ UNCHANGED <<car, rego>>
     \/ t \in Levels /\ MoveCar(rego[t], "inside") /\ WaitForNext(t)
  /\ UNCHANGED <<free_spots, levels, billing, loaded, level, failed>>

-----------------------------------------------------------------------------
(* Remaining steps of an exit thread.                                      *)

(* remove_rego, the existed map, total_bill and save_billing. *)
SettleBill(x) ==
  /\ At(x, "settle")
  /\ billing' = billing \ {rego[x]}
  /\ AssertThat(rego[x] \in billing, "res == 0")
  /\ Goto(x, "signal")
  /\ UNCHANGED <<free_spots, levels, level_m, rego, loaded, level, car, stolen>>

(* Signals the simulator, which may send the plate to an entrance again. *)
SignalGone(x) ==
  /\ At(x, "signal")
  /\ MoveCar(rego[x], "outside")
  /\ WaitForNext(x)
  /\ UNCHANGED <<free_spots, levels, billing, level_m, loaded, level, stolen,
                 failed>>

-----------------------------------------------------------------------------
Simulator ==
  \E r \in Regos :
     \/ \E e \in Entrances : ArriveAtEntrance(e, r)
     \/ \E l \in Levels : ArriveAtLevel(l, r)
     \/ \E x \in Exits : ArriveAtExit(x, r)

EntranceStep(e) ==
  \/ CheckUnlock(e) \/ TestFreeSpots(e) \/ UnlockWhenFull(e) \/ Refuse(e)
  \/ PickLevel(e) \/ OpenBill(e) \/ ShowLevel(e)

ExitStep(x) == SettleBill(x) \/ SignalGone(x)

SectionStep(t) ==
  Lock(t) \/ Load(t) \/ Store(t) \/ Remove(t) \/ Insert(t) \/ EndSection(t)

Step(t) ==
  \/ SectionStep(t)
  \/ t \in Entrances /\ EntranceStep(t)
  \/ t \in Exits /\ ExitStep(t)
  \/ t \in Levels /\ CheckLevel(t)

Next == Simulator \/ \E t \in Threads : Step(t)

Spec == Init /\ [][Next]_vars

(* The operating system keeps running every thread that can run. *)
FairSpec == Spec /\ \A t \in Threads : WF_vars(Step(t))

-----------------------------------------------------------------------------
(* Properties.                                                             *)

Labels == {"wait", "check lock", "check unlock", "test", "full", "refuse",
           "lock", "load", "store", "pick", "check", "remove", "insert",
           "unlock", "bill", "show", "settle", "signal"}

Places == {"outside", "entering", "inside", "onLevel", "exiting"}

Assertions == {"level != 0", "not in level", "removed == 1", "not yet billed",
               "res == 0"}

(* Every variable keeps its type: in particular free_spots stays a size_t, *)
(* the levels hold plates of the allow list only, and a thread that is not *)
(* waiting has read a plate.                                               *)
TypeOK ==
  /\ free_spots \in 0 .. SizeMax
  /\ levels \in [Levels -> SUBSET AllowList]
  /\ billing \in SUBSET AllowList
  /\ level_m \in Threads \union {None}
  /\ pc \in [Threads -> Labels]
  /\ rego \in [Threads -> Regos \union {None}]
  /\ loaded \in [Entrances \union Exits -> 0 .. SizeMax]
  /\ level \in [Entrances -> 0 .. LEVELS]
  /\ car \in [Regos -> Places]
  /\ stolen \in BOOLEAN
  /\ failed \in Assertions \union {"none"}

InSection(t) ==
  pc[t] \in {"check unlock", "load", "store", "pick", "check", "remove",
             "insert", "unlock"}

(* Only the thread that owns level_m is between its lock and its unlock,   *)
(* as long as no thread has unlocked a level_m it did not own.             *)
LevelSectionsExclusive ==
  ~stolen => \A t \in Threads : InSection(t) <=> level_m = t

(* A thread waits for a level_m that is taken. *)
Stuck(t) == pc[t] \in {"check lock", "lock"} /\ level_m # None

(* No path through the threads leaves level_m locked behind it: while cars *)
(* are being served, one of their threads can go on, even after level_m    *)
(* was stolen (manager_funcs.c:109-115, 242-264, 344-363).                  *)
NeverAllStuck ==
  (\E t \in Threads : pc[t] # "wait") =>
    \E t \in Threads : pc[t] # "wait" /\ ~Stuck(t)

(* The claim of manager.c:22, "level data and free_spots are both          *)
(* protected by level_m": no two threads are inside a level_m section.     *)
LevelDataProtected ==
  \A t, u \in Threads : InSection(t) /\ InSection(u) => t = u

(* Cars that own a park; a level thread carries one between its removal    *)
(* from one level and its insertion into another.                          *)
Carried == {rego[l] : l \in {k \in Levels : pc[k] = "insert"}}
Held == (UNION {levels[l] : l \in Levels}) \union Carried

(* Threads that have changed free_spots but not yet the levels. *)
Taking == {e \in Entrances : pc[e] \in {"pick", "insert"}}
Freeing == {x \in Exits : pc[x] = "remove"}

(* Parks that are not held, up to the update in progress. *)
Unheld ==
  Total - Cardinality(Held) - Cardinality(Taking) + Cardinality(Freeing)

(* free_spots and the level table never drift apart: the counter says how  *)
(* many parks are not held.  It goes one below zero, and there wraps, only *)
(* just before the assertion "level != 0" fails.                           *)
SpotsConserved ==
  ~stolen => free_spots = IF Unheld = -1 THEN SizeMax ELSE Unheld

OwnsPark(r) ==
  \/ car[r] \in {"inside", "onLevel"}
  \/ \E e \in Entrances : rego[e] = r /\ pc[e] \in {"unlock", "bill", "show"}
  \/ \E x \in Exits : rego[x] = r /\ pc[x] \in {"lock", "load", "store", "remove"}

(* A car owns exactly one park from the moment an entrance inserts it to   *)
(* the moment an exit removes it, and none otherwise: the moves of level   *)
(* threads neither lose nor duplicate it.                                  *)
OneParkPerCar ==
  ~stolen => \A r \in Regos :
    Cardinality(LevelsHolding(levels, r))
      + Cardinality({l \in Levels : pc[l] = "insert" /\ rego[l] = r})
    = IF OwnsPark(r) THEN 1 ELSE 0

HasOpenBill(r) ==
  \/ car[r] \in {"inside", "onLevel"}
  \/ \E e \in Entrances : rego[e] = r /\ pc[e] = "show"
  \/ \E x \in Exits : rego[x] = r /\ pc[x] # "signal"

(* Every stay has exactly one bill, opened before the gate lets the car in *)
(* and settled after its park is given back, so neither billing assertion  *)
(* can fail, even after level_m was lost.                                  *)
BillsMatchStays ==
  /\ failed \notin {"not yet billed", "res == 0"}
  /\ billing = {r \in Regos : HasOpenBill(r)}

(* While level_m protects, the one assertion that can fail is the one      *)
(* behind overbooking: two entrances pass the unlocked test of free_spots  *)
(* with one park left.  The assertions of leveldata.c hold.                *)
OnlyOverbookingAborts == ~stolen => failed \in {"none", "level != 0"}

(* manager_funcs.c:262 asserts that a park is left for every car that      *)
(* passed the test of free_spots.                                          *)
AssertLevelFound == failed # "level != 0"

(* With no more plates than parks, nothing ever aborts the manager and     *)
(* nobody unlocks a mutex of somebody else.                                *)
RoomForAllIsSafe ==
  Cardinality(AllowList) <= Total => failed = "none" /\ ~stolen

(* Comment at manager_funcs.c:140: once the exit signals the simulator the *)
(* plate is gone from billing and level data, so that the simulator may    *)
(* send it in again at once.                                               *)
ReturnedCarsForgotten ==
  \A r \in Regos :
    car[r] = "outside" => r \notin billing /\ (~stolen => r \notin Held)

-----------------------------------------------------------------------------
(* What the manager promises about each car: module CarPark.               *)

Stage ==
  [r \in Regos |->
     IF r \in Held THEN IF r \in billing THEN "parked" ELSE "assigned"
                   ELSE IF r \in billing THEN "leaving" ELSE "out"]

CP == INSTANCE CarPark WITH stage <- Stage, Parks <- Total

(* Every step of every thread is a step of the abstract car park or        *)
(* changes nothing a car can notice.  Holds outright when stolen cannot    *)
(* become true.                                                            *)
ImplementsCarPark == CP!Spec

(* ... and up to the first stolen mutex when it can. *)
CarParkUntilStolen == [][~stolen' => CP!Next \/ UNCHANGED Stage]_vars
-----------------------------------------------------------------------------
(* What manager and simulator have to agree on about each car: module      *)
(* Trips, in which a car in front of a level's reader is inside.           *)

Trip == [r \in Regos |-> IF car[r] = "onLevel" THEN "inside" ELSE car[r]]

TR == INSTANCE Trips WITH place <- Trip, Cars <- Regos

(* What the threads do with the car in front of their reader is one step   *)
(* of a trip like those of the simulator: they answer the car they have    *)
(* read, let it in only from the allow list, and none is answered twice or *)
(* at two gates (manager_funcs.c:140-171, 222-305).                        *)
ImplementsTrips == TR!Spec
=============================================================================
