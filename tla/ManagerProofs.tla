--------------------------- MODULE ManagerProofs ---------------------------
(***************************************************************************)
(* The manager for any number of entrances, exits, levels, parks and       *)
(* plates: what the operators of LevelData return; type correctness; mutual *)
(* exclusion of the level_m sections; the balance between stays and bills; *)
(* and, as long as no thread has unlocked a level_m that was not its own,  *)
(* the parks, of which every car inside owns exactly one, and free_spots,  *)
(* which never drifts apart from them.  A car park with room for every     *)
(* plate on its allow list never aborts and never loses level_m.  The      *)
(* manager implements the abstract car park of module CarPark: every step  *)
(* of every thread is a step of the abstract car park or a stutter, up to  *)
(* the first stolen level_m, and for ever when there is room for all.      *)
(***************************************************************************)
EXTENDS Manager, FiniteSetTheorems, WellFoundedInduction, TLAPS

-----------------------------------------------------------------------------
(* The operators of LevelData. *)

(* Every non-empty set of natural numbers has a least element. *)
LEMMA NatMin ==
  ASSUME NEW T \in SUBSET Nat, T # {}
  PROVE  \E x \in T : \A y \in T : x <= y
<1>1. PICK R : R = OpToRel(<, Nat) OBVIOUS
<1>2. IsWellFoundedOn(R, Nat) BY <1>1, NatLessThanWellFounded
<1>3. \E x \in T : \A y \in T : ~ (<<y, x>> \in R) BY <1>2, WFMin
<1>4. \A x, y \in Nat : <<y, x>> \in R <=> y < x BY <1>1 DEF OpToRel
<1>5. PICK x \in T : \A y \in T : ~ (y < x) BY <1>3, <1>4
<1> QED BY <1>5

(* A table whose levels are finite sets that do not exceed the capacity.   *)
Table(ld) ==
  \A l \in Levels : IsFiniteSet(ld[l]) /\ cars_in_level(ld, l) <= LEVEL_CAPACITY

LEMMA CountType ==
  ASSUME NEW ld, Table(ld), NEW l \in Levels
  PROVE  cars_in_level(ld, l) \in Nat /\ free_parks(ld, l) \in Nat
<1>1. cars_in_level(ld, l) \in Nat BY FS_CardinalityType DEF Table, cars_in_level
<1> QED BY <1>1, CapacityAssumption DEF Table, free_parks

(* The scan has a result: some level is the first of the most free ones.   *)
LEMMA MostFreeExists ==
  ASSUME NEW ld, Table(ld)
  PROVE  \E l \in Levels : MostFree(ld, l)
<1> DEFINE Counts == {cars_in_level(ld, l) : l \in Levels}
<1>1. Counts \in SUBSET Nat BY CountType
<1>2. Counts # {} BY LevelsAssumption DEF Levels
<1>3. PICK m \in Counts : \A n \in Counts : m <= n
  <2> HIDE DEF Counts
  <2> QED BY <1>1, <1>2, NatMin
<1> DEFINE Best == {l \in Levels : cars_in_level(ld, l) = m}
<1>4. Best \in SUBSET Nat BY LevelsAssumption DEF Levels
<1>5. Best # {} BY <1>3
<1>6. PICK b \in Best : \A k \in Best : b <= k
  <2> HIDE DEF Best
  <2> QED BY <1>4, <1>5, NatMin
<1>7. b \in Levels /\ cars_in_level(ld, b) = m BY <1>6
<1>8. ASSUME NEW k \in Levels
      PROVE  /\ free_parks(ld, k) <= free_parks(ld, b)
             /\ k < b => free_parks(ld, k) < free_parks(ld, b)
  <2>1. m <= cars_in_level(ld, k) BY <1>3
  <2>2. k < b => cars_in_level(ld, k) # m BY <1>4, <1>6, LevelsAssumption DEF Levels
  <2>3. cars_in_level(ld, k) \in Nat /\ cars_in_level(ld, b) \in Nat
    BY <1>7, CountType
  <2> QED BY <1>7, <2>1, <2>2, <2>3, CapacityAssumption DEF free_parks
<1> QED BY <1>7, <1>8 DEF MostFree

(* leveldata.c:27, "returns a level that has the most free parks": the     *)
(* result is a level with room that no other level beats, or 0 when every  *)
(* level is full.                                                          *)
THEOREM AvailableLevelCorrect ==
  ASSUME NEW ld, Table(ld)
  PROVE  /\ get_available_level(ld) \in 0 .. LEVELS
         /\ get_available_level(ld) # 0 =>
              /\ get_available_level(ld) \in Levels
              /\ cars_in_level(ld, get_available_level(ld)) < LEVEL_CAPACITY
              /\ \A k \in Levels :
                   free_parks(ld, k) <= free_parks(ld, get_available_level(ld))
         /\ get_available_level(ld) = 0 =>
              \A k \in Levels : cars_in_level(ld, k) = LEVEL_CAPACITY
<1> DEFINE best == CHOOSE l \in Levels : MostFree(ld, l)
<1>1. best \in Levels /\ MostFree(ld, best) BY MostFreeExists
<1>2. get_available_level(ld) = IF free_parks(ld, best) = 0 THEN 0 ELSE best
  BY DEF get_available_level
<1> HIDE DEF best
<1>3. \A k \in Levels : free_parks(ld, k) <= free_parks(ld, best)
  BY <1>1 DEF MostFree
<1>4. \A k \in Levels : cars_in_level(ld, k) \in Nat /\ free_parks(ld, k) \in Nat
  BY CountType
<1>5. best \in 1 .. LEVELS BY <1>1 DEF Levels
<1>6. CASE free_parks(ld, best) = 0
  <2>1. \A k \in Levels : free_parks(ld, k) = 0 BY <1>3, <1>4, <1>6
  <2>2. \A k \in Levels : cars_in_level(ld, k) = LEVEL_CAPACITY
    BY <2>1, <1>4, CapacityAssumption DEF free_parks
  <2> QED BY <1>2, <1>6, <2>2, LevelsAssumption
<1>7. CASE free_parks(ld, best) # 0
  <2>1. get_available_level(ld) = best BY <1>2, <1>7
  <2>2. cars_in_level(ld, best) < LEVEL_CAPACITY
    BY <1>1, <1>4, <1>7, CapacityAssumption DEF free_parks
  <2> QED BY <2>1, <2>2, <1>1, <1>3, <1>5, LevelsAssumption
<1> QED BY <1>6, <1>7

(* Insertion never overfills a level, and changes no other one. *)
LEMMA InsertKeepsTable ==
  ASSUME NEW S, NEW ld \in [Levels -> SUBSET S], Table(ld), NEW l \in Levels, NEW r
  PROVE  Table(insert_in_level(ld, l, r))
<1> DEFINE new == insert_in_level(ld, l, r)
<1>1. CASE free_parks(ld, l) > 0
  <2>1. \A k \in Levels : new[k] = IF k = l THEN ld[l] \union {r} ELSE ld[k]
    BY <1>1 DEF insert_in_level
  <2>2. cars_in_level(ld, l) \in Nat /\ cars_in_level(ld, l) < LEVEL_CAPACITY
    BY <1>1, CountType, CapacityAssumption DEF free_parks
  <2>3. IsFiniteSet(ld[l]) BY DEF Table
  <2>4. /\ IsFiniteSet(ld[l] \union {r})
        /\ \/ Cardinality(ld[l] \union {r}) = Cardinality(ld[l])
           \/ Cardinality(ld[l] \union {r}) = Cardinality(ld[l]) + 1
    BY <2>3, FS_AddElement
  <2>5. Cardinality(ld[l] \union {r}) <= LEVEL_CAPACITY
    BY <2>2, <2>4, CapacityAssumption DEF cars_in_level
  <2> QED BY <2>1, <2>4, <2>5 DEF Table, cars_in_level
<1>2. CASE ~ (free_parks(ld, l) > 0)
  BY <1>2 DEF insert_in_level
<1> QED BY <1>1, <1>2

LEMMA RemoveKeepsTable ==
  ASSUME NEW ld, Table(ld), NEW r
  PROVE  Table(remove_from_all_levels(ld, r))
<1> SUFFICES ASSUME NEW l \in Levels
             PROVE  /\ IsFiniteSet(ld[l] \ {r})
                    /\ Cardinality(ld[l] \ {r}) <= LEVEL_CAPACITY
  BY DEF Table, remove_from_all_levels, cars_in_level
<1>1. IsFiniteSet(ld[l]) /\ Cardinality(ld[l]) <= LEVEL_CAPACITY
  BY DEF Table, cars_in_level
<1>2. ld[l] \ {r} \subseteq ld[l] OBVIOUS
<1>3. IsFiniteSet(ld[l] \ {r}) /\ Cardinality(ld[l] \ {r}) <= Cardinality(ld[l])
  BY <1>1, <1>2, FS_Subset
<1> QED BY <1>1, <1>3, FS_CardinalityType, CapacityAssumption

-----------------------------------------------------------------------------
(* The inductive invariant.  TypeOK alone is not inductive: that a level   *)
(* only ever receives plates of the allow list depends on what each thread *)
(* serves at each point of its loop.                                       *)

LabelsOf(t) ==
  IF t \in Entrances
  THEN {"wait", "check lock", "check unlock", "test", "full", "refuse", "lock",
        "load", "store", "pick", "insert", "unlock", "bill", "show"}
  ELSE IF t \in Exits
  THEN {"wait", "lock", "load", "store", "remove", "unlock", "settle", "signal"}
  ELSE {"wait", "lock", "check", "remove", "insert", "unlock"}

Place(t) ==
  IF t \in Entrances THEN "entering"
  ELSE IF t \in Exits THEN "exiting" ELSE "onLevel"

(* Every thread is in its own code. *)
Labelled == \A t \in Threads : pc[t] \in LabelsOf(t)

(* The plate a thread works on is that of the car in front of its reader.  *)
Serving ==
  \A t \in Threads :
     /\ pc[t] = "wait" <=> rego[t] = None
     /\ rego[t] # None => car[rego[t]] = Place(t)
     /\ pc[t] \notin {"wait", "refuse"} => rego[t] \in AllowList

(* No car is in front of two readers. *)
ServedOnce ==
  \A t, u \in Threads : rego[t] = rego[u] /\ rego[t] # None => t = u

(* Only cars of the allow list pass an entrance. *)
Admitted ==
  \A r \in Regos : car[r] \notin {"outside", "entering"} => r \in AllowList

(* An entrance only inserts into a level that exists. *)
Picked ==
  failed = "none" => \A e \in Entrances : pc[e] = "insert" => level[e] \in Levels

Base ==
  /\ TypeOK
  /\ Table(levels)
  /\ Labelled
  /\ Serving
  /\ ServedOnce
  /\ Admitted
  /\ Picked

-----------------------------------------------------------------------------
LEMMA ThreadKinds ==
  /\ \A t \in Threads : t \in Entrances \/ t \in Exits \/ t \in Levels
  /\ \A t \in Levels : t \notin Entrances /\ t \notin Exits
  /\ \A t \in Exits : t \notin Entrances
  /\ Entrances \subseteq Threads /\ Exits \subseteq Threads
  /\ Levels \subseteq Threads
BY ThreadsAssumption DEF Threads

LEMMA InitBase == Init => Base
<1> SUFFICES ASSUME Init PROVE Base OBVIOUS
<1>1. Total \in 0 .. SizeMax
  <2>1. Total \in Nat BY LevelsAssumption, CapacityAssumption DEF Total
  <2> QED BY <2>1, SizeAssumption
<1>2. TypeOK
  <2>1. 0 \in 0 .. SizeMax /\ 0 \in 0 .. LEVELS
    BY SizeAssumption, LevelsAssumption
  <2> QED BY <1>1, <2>1 DEF Init, TypeOK, Labels, Places, init_level_data
<1>3. Table(levels)
  BY FS_EmptySet, CapacityAssumption
  DEF Init, init_level_data, Table, cars_in_level
<1>4. Labelled BY DEF Init, Labelled, LabelsOf
<1>5. Serving /\ ServedOnce BY DEF Init, Serving, ServedOnce
<1>6. Admitted /\ Picked BY ThreadKinds DEF Init, Admitted, Picked
<1> QED BY <1>2, <1>3, <1>4, <1>5, <1>6 DEF Base

(* The simulator puts a car in front of a reader. *)
LEMMA PresentBase ==
  ASSUME Base, NEW t \in Threads, NEW r \in Regos, NEW from, NEW label,
         from \in {"outside", "inside"}, from = "inside" \/ t \in Entrances,
         label \in LabelsOf(t) \ {"wait"},
         label # "refuse" => r \in AllowList, label # "insert",
         t \in Entrances \/ r \in AllowList,
         Present(t, r, from, Place(t), label)
  PROVE  Base'
<1>1. pc[t] = "wait" /\ car[r] = from BY DEF Present, At
<1>2. /\ car' = [car EXCEPT ![r] = Place(t)]
      /\ rego' = [rego EXCEPT ![t] = r]
      /\ pc' = [pc EXCEPT ![t] = label]
      /\ UNCHANGED <<free_spots, levels, billing, level_m, loaded, level,
                     stolen, failed>>
  BY DEF Present, MoveCar, Goto
<1>3. Place(t) \in Places \ {"outside"} /\ label \in Labels
  BY DEF Place, Places, LabelsOf, Labels
<1>4. TypeOK' BY <1>2, <1>3 DEF Base, TypeOK
<1>5. Table(levels)' BY <1>2 DEF Base, Table, cars_in_level
<1>6. Labelled' BY <1>2 DEF Base, TypeOK, Labelled
<1>7. \A u \in Threads : rego[u] # r
  <2>1. \A u \in Threads : Place(u) \notin {"outside", "inside"} BY DEF Place
  <2> QED BY <1>1, <2>1, RegosAssumption DEF Base, Serving
<1>8. Serving'
  BY <1>2, <1>7, RegosAssumption DEF Base, TypeOK, Serving
<1>9. ServedOnce' BY <1>2, <1>7 DEF Base, TypeOK, ServedOnce
<1>10. Admitted' BY <1>2 DEF Base, TypeOK, Admitted, Place
<1>11. Picked' BY <1>2, ThreadKinds DEF Base, TypeOK, Picked
<1> QED BY <1>4, <1>5, <1>6, <1>8, <1>9, <1>10, <1>11 DEF Base

(* A thread moves on in its code, with the same car in front of it. *)
LEMMA MoveOnBase ==
  ASSUME Base, NEW t \in Threads, NEW label, TypeOK', Table(levels)',
         pc[t] \notin {"wait", "refuse"} \/ label = "refuse", pc[t] # "wait",
         label \in LabelsOf(t) \ {"wait"}, Goto(t, label),
         failed = "none", \A e \in Entrances \ {t} : level'[e] = level[e],
         label = "insert" /\ t \in Entrances
           => level'[t] \in Levels \/ failed' # "none",
         UNCHANGED <<rego, car>>
  PROVE  Base'
<1>1. Labelled' BY DEF Goto, Base, TypeOK, Labelled
<1>2. Serving' /\ ServedOnce' /\ Admitted'
  BY DEF Goto, Base, TypeOK, Serving, ServedOnce, Admitted
<1>3. Picked' BY ThreadKinds DEF Goto, Base, TypeOK, Picked
<1> QED BY <1>1, <1>2, <1>3 DEF Base

(* A thread lets its car go and returns to its reader. *)
LEMMA LetGoBase ==
  ASSUME Base, NEW t \in Threads, NEW place, pc[t] # "wait", TypeOK',
         Table(levels)', place = "outside" \/ (place = "inside" /\ pc[t] # "refuse"),
         MoveCar(rego[t], place), WaitForNext(t), failed = "none",
         \A e \in Entrances \ {t} : level'[e] = level[e]
  PROVE  Base'
<1>1. /\ car' = [car EXCEPT ![rego[t]] = place]
      /\ rego' = [rego EXCEPT ![t] = None]
      /\ pc' = [pc EXCEPT ![t] = "wait"]
  BY DEF MoveCar, WaitForNext, Goto
<1>2. Labelled' BY <1>1 DEF Base, TypeOK, Labelled, LabelsOf
<1>3. \A u \in Threads : u # t => rego[u] # rego[t]
  BY DEF Base, Serving, ServedOnce
<1>4. Serving' BY <1>1, <1>3 DEF Base, TypeOK, Serving
<1>5. ServedOnce' BY <1>1 DEF Base, TypeOK, ServedOnce
<1>6. Admitted' BY <1>1 DEF Base, TypeOK, Serving, Admitted
<1>7. Picked' BY <1>1, ThreadKinds DEF Base, TypeOK, Picked
<1> QED BY <1>2, <1>4, <1>5, <1>6, <1>7 DEF Base

LEMMA UnlockType ==
  ASSUME TypeOK, NEW t \in Threads, Unlock(t)
  PROVE  level_m' \in Threads \union {None} /\ stolen' \in BOOLEAN
BY DEF TypeOK, Unlock

LEMMA AssertType ==
  ASSUME NEW c, NEW name \in Assertions, AssertThat(c, name)
  PROVE  failed' \in Assertions \union {"none"}
BY DEF AssertThat

LEMMA SizeArithmetic ==
  ASSUME NEW n \in 0 .. SizeMax
  PROVE  Increment(n) \in 0 .. SizeMax /\ Decrement(n) \in 0 .. SizeMax
BY SizeAssumption DEF Increment, Decrement

(* What a thread in a given place of its code has in its hands. *)
LEMMA Busy ==
  ASSUME Base, NEW t \in Threads, pc[t] # "wait"
  PROVE  rego[t] \in Regos /\ (pc[t] # "refuse" => rego[t] \in AllowList)
BY RegosAssumption DEF Base, TypeOK, Serving

(* Steps of a level_m section. *)
LEMMA SectionBase ==
  ASSUME Base, NEW t \in Threads, SectionStep(t)
  PROVE  Base'
<1> USE ThreadKinds
<1>0. TypeOK /\ Table(levels) /\ pc[t] \in LabelsOf(t) BY DEF Base, Labelled
<1>7. failed = "none"
  BY DEF SectionStep, Lock, Load, Store, Remove, Insert, EndSection, At
<1>1. CASE Lock(t)
  <2>1. Table(levels)' BY <1>0, <1>1 DEF Lock, Table, cars_in_level
  <2>2. PICK label \in {"check unlock", "check", "load"} :
          /\ pc[t] \in {"check lock", "lock"}
          /\ Goto(t, label) /\ label \in LabelsOf(t)
    BY <1>0, <1>1 DEF Lock, At, FirstInSection, LabelsOf
  <2>3. TypeOK' BY <1>0, <1>1, <2>2 DEF Lock, Goto, TypeOK, Labels
  <2> QED BY <1>7, <1>1, <2>1, <2>2, <2>3, MoveOnBase DEF Lock
<1>2. CASE Load(t)
  <2>1. Table(levels)' BY <1>0, <1>2 DEF Load, Table, cars_in_level
  <2>2. pc[t] = "load" /\ Goto(t, "store") /\ "store" \in LabelsOf(t)
    BY <1>0, <1>2 DEF Load, At, LabelsOf
  <2>3. TypeOK' BY <1>0, <1>2, <2>2 DEF Load, Goto, TypeOK, Labels
  <2> QED BY <1>7, <1>2, <2>1, <2>2, <2>3, MoveOnBase DEF Load
<1>3. CASE Store(t)
  <2>1. Table(levels)' BY <1>0, <1>3 DEF Store, Table, cars_in_level
  <2>2. PICK label \in {"pick", "remove"} :
          pc[t] = "store" /\ Goto(t, label) /\ label \in LabelsOf(t)
    BY <1>0, <1>3 DEF Store, At, LabelsOf
  <2>3. free_spots' \in 0 .. SizeMax
    BY <1>0, <1>3, SizeArithmetic DEF Store, TypeOK
  <2>4. 0 \in 0 .. SizeMax BY SizeAssumption
  <2>5. TypeOK' BY <1>0, <1>3, <2>2, <2>3, <2>4 DEF Store, Goto, TypeOK, Labels
  <2> QED BY <1>7, <1>3, <2>1, <2>2, <2>5, MoveOnBase DEF Store
<1>4. CASE Remove(t)
  <2>1. Table(levels)' BY <1>0, <1>4, RemoveKeepsTable DEF Remove, Table, cars_in_level
  <2>2. PICK label \in {"insert", "unlock"} :
          /\ pc[t] = "remove"
          /\ Goto(t, label) /\ label \in LabelsOf(t)
          /\ label = "insert" => t \notin Entrances
    BY <1>0, <1>4 DEF Remove, At, LabelsOf
  <2>3. failed' \in Assertions \union {"none"}
    BY <1>4, AssertType DEF Remove, Assertions
  <2>4. levels' \in [Levels -> SUBSET AllowList]
    BY <1>0, <1>4 DEF Remove, remove_from_all_levels, TypeOK
  <2>5. TypeOK' BY <1>0, <1>4, <2>2, <2>3, <2>4 DEF Remove, Goto, TypeOK, Labels
  <2> QED BY <1>7, <1>4, <2>1, <2>2, <2>5, MoveOnBase DEF Remove
<1>5. CASE Insert(t)
  <2>1. pc[t] = "insert" /\ Goto(t, "unlock") /\ "unlock" \in LabelsOf(t)
    BY <1>0, <1>5 DEF Insert, At, LabelsOf
  <2>2. rego[t] \in AllowList BY <2>1, Busy
  <2>3. failed' \in Assertions \union {"none"}
    BY <1>5, AssertType DEF Insert, Assertions
  <2>4. Target(t) \in Levels
    BY <1>0, <1>5, <2>1 DEF Insert, At, Target, Base, Picked, LabelsOf
  <2>5. levels' \in [Levels -> SUBSET AllowList]
    BY <1>0, <1>5, <2>2 DEF Insert, insert_in_level, TypeOK
  <2>6. TypeOK' BY <1>0, <1>5, <2>1, <2>3, <2>5 DEF Insert, Goto, TypeOK, Labels
  <2>7. Table(levels)'
    BY <1>0, <1>5, <2>4, InsertKeepsTable DEF Insert, Table, cars_in_level, TypeOK
  <2> QED BY <1>7, <1>5, <2>1, <2>6, <2>7, MoveOnBase DEF Insert
<1>6. CASE EndSection(t)
  <2>1. Table(levels)' BY <1>0, <1>6 DEF EndSection, Table, cars_in_level
  <2>2. pc[t] = "unlock" /\ Unlock(t) BY <1>6 DEF EndSection, At
  <2>3. rego[t] \in Regos BY <2>2, Busy
  <2>4. TypeOK'
    BY <1>0, <1>6, <2>2, <2>3, UnlockType
    DEF EndSection, Goto, MoveCar, WaitForNext, TypeOK, Labels, Places
  <2>5. CASE t \in Levels
    BY <1>6, <1>7, <2>1, <2>2, <2>4, <2>5, LetGoBase DEF EndSection
  <2>6. CASE t \notin Levels
    <3>1. PICK label \in {"bill", "settle"} :
            Goto(t, label) /\ label \in LabelsOf(t)
      BY <1>6, <2>6 DEF EndSection, LabelsOf
    <3> QED BY <1>7, <1>6, <2>1, <2>2, <2>4, <2>6, <3>1, MoveOnBase DEF EndSection
  <2> QED BY <2>5, <2>6
<1> QED BY <1>1, <1>2, <1>3, <1>4, <1>5, <1>6 DEF SectionStep

(* Steps of the entrance threads outside the parts that threads share. *)
LEMMA EntranceBase ==
  ASSUME Base, NEW e \in Entrances, EntranceStep(e)
  PROVE  Base'
<1> USE ThreadKinds
<1>0. TypeOK /\ Table(levels) /\ pc[e] \in LabelsOf(e) BY DEF Base, Labelled
<1>1. failed = "none"
  BY DEF EntranceStep, CheckUnlock, TestFreeSpots, UnlockWhenFull, Refuse,
         PickLevel, OpenBill, ShowLevel, At
<1>2. Table(levels)'
  BY <1>0 DEF EntranceStep, CheckUnlock, TestFreeSpots, UnlockWhenFull, Refuse,
              PickLevel, OpenBill, ShowLevel, Table, cars_in_level
<1>3. CASE CheckUnlock(e) \/ TestFreeSpots(e) \/ UnlockWhenFull(e)
  <2>1. PICK label \in {"test", "full", "lock", "refuse"} :
          /\ pc[e] \in {"check unlock", "test", "full"}
          /\ Goto(e, label) /\ label \in LabelsOf(e)
    BY <1>3 DEF CheckUnlock, TestFreeSpots, UnlockWhenFull, At, LabelsOf
  <2>2. level_m' \in Threads \union {None} /\ stolen' \in BOOLEAN
    BY <1>0, <1>3, UnlockType
    DEF CheckUnlock, TestFreeSpots, UnlockWhenFull, TypeOK
  <2>3. TypeOK'
    BY <1>0, <1>3, <2>1, <2>2
    DEF CheckUnlock, TestFreeSpots, UnlockWhenFull, Goto, TypeOK, Labels
  <2> QED
    BY <1>1, <1>2, <1>3, <2>1, <2>3, MoveOnBase
    DEF CheckUnlock, TestFreeSpots, UnlockWhenFull
<1>4. CASE PickLevel(e)
  <2>1. pc[e] = "pick" /\ Goto(e, "insert") /\ "insert" \in LabelsOf(e)
    BY <1>4 DEF PickLevel, At, LabelsOf
  <2>2. level' = [level EXCEPT ![e] = get_available_level(levels)]
    BY <1>4 DEF PickLevel
  <2>3. /\ get_available_level(levels) \in 0 .. LEVELS
        /\ get_available_level(levels) # 0 => get_available_level(levels) \in Levels
    BY <1>0, AvailableLevelCorrect
  <2>4. level'[e] \in Levels \/ failed' # "none"
    BY <1>0, <1>4, <2>2, <2>3 DEF PickLevel, AssertThat, TypeOK
  <2>5. failed' \in Assertions \union {"none"}
    BY <1>4, AssertType DEF PickLevel, Assertions
  <2>6. level' \in [Entrances -> 0 .. LEVELS] BY <1>0, <2>2, <2>3 DEF TypeOK
  <2>7. TypeOK'
    BY <1>0, <1>4, <2>1, <2>5, <2>6 DEF PickLevel, Goto, TypeOK, Labels
  <2>8. \A f \in Entrances \ {e} : level'[f] = level[f] BY <1>0, <2>2 DEF TypeOK
  <2> QED BY <1>1, <1>2, <1>4, <2>1, <2>4, <2>7, <2>8, MoveOnBase DEF PickLevel
<1>5. CASE OpenBill(e)
  <2>1. pc[e] = "bill" /\ Goto(e, "show") /\ "show" \in LabelsOf(e)
    BY <1>5 DEF OpenBill, At, LabelsOf
  <2>2. rego[e] \in AllowList BY <2>1, Busy
  <2>3. failed' \in Assertions \union {"none"}
    BY <1>5, AssertType DEF OpenBill, Assertions
  <2>4. TypeOK' BY <1>0, <1>5, <2>1, <2>2, <2>3 DEF OpenBill, Goto, TypeOK, Labels
  <2> QED BY <1>1, <1>2, <1>5, <2>1, <2>4, MoveOnBase DEF OpenBill
<1>6. CASE Refuse(e) \/ ShowLevel(e)
  <2>1. PICK place \in {"outside", "inside"} :
          /\ pc[e] # "wait" /\ MoveCar(rego[e], place) /\ WaitForNext(e)
          /\ place = "inside" => pc[e] # "refuse"
    BY <1>6 DEF Refuse, ShowLevel, At
  <2>2. rego[e] \in Regos BY <2>1, Busy
  <2>3. level' \in [Entrances -> 0 .. LEVELS]
    BY <1>0, <1>6, LevelsAssumption DEF Refuse, ShowLevel, TypeOK
  <2>4. car' \in [Regos -> Places]
    BY <1>0, <2>1, <2>2 DEF MoveCar, TypeOK, Places
  <2>5. TypeOK'
    BY <1>0, <1>6, <2>1, <2>3, <2>4
    DEF Refuse, ShowLevel, WaitForNext, Goto, TypeOK, Labels
  <2>6. \A f \in Entrances \ {e} : level'[f] = level[f]
    BY <1>0, <1>6 DEF Refuse, ShowLevel, TypeOK
  <2> QED BY <1>1, <1>2, <2>1, <2>5, <2>6, LetGoBase
<1> QED BY <1>3, <1>4, <1>5, <1>6 DEF EntranceStep

(* Steps of the exit threads, and the test of the level threads. *)
LEMMA ExitBase ==
  ASSUME Base, NEW x \in Exits, ExitStep(x)
  PROVE  Base'
<1> USE ThreadKinds
<1>0. TypeOK /\ Table(levels) BY DEF Base
<1>1. failed = "none" BY DEF ExitStep, SettleBill, SignalGone, At
<1>2. Table(levels)'
  BY <1>0 DEF ExitStep, SettleBill, SignalGone, Table, cars_in_level
<1>3. CASE SettleBill(x)
  <2>1. pc[x] = "settle" /\ Goto(x, "signal") /\ "signal" \in LabelsOf(x)
    BY <1>3 DEF SettleBill, At, LabelsOf
  <2>2. failed' \in Assertions \union {"none"}
    BY <1>3, AssertType DEF SettleBill, Assertions
  <2>3. TypeOK' BY <1>0, <1>3, <2>1, <2>2 DEF SettleBill, Goto, TypeOK, Labels
  <2> QED BY <1>1, <1>2, <1>3, <2>1, <2>3, MoveOnBase DEF SettleBill
<1>4. CASE SignalGone(x)
  <2>1. pc[x] # "wait" BY <1>4 DEF SignalGone, At
  <2>2. rego[x] \in Regos BY <2>1, Busy
  <2>3. TypeOK'
    BY <1>0, <1>4, <2>2
    DEF SignalGone, MoveCar, WaitForNext, Goto, TypeOK, Labels, Places
  <2> QED BY <1>1, <1>2, <1>4, <2>1, <2>3, LetGoBase DEF SignalGone
<1> QED BY <1>3, <1>4 DEF ExitStep

LEMMA LevelBase ==
  ASSUME Base, NEW l \in Levels, CheckLevel(l)
  PROVE  Base'
<1> USE ThreadKinds
<1>0. TypeOK /\ Table(levels) BY DEF Base
<1>1. Table(levels)' BY <1>0 DEF CheckLevel, Table, cars_in_level
<1>2. PICK label \in {"remove", "unlock"} :
        pc[l] = "check" /\ Goto(l, label) /\ label \in LabelsOf(l)
  BY DEF CheckLevel, At, LabelsOf
<1>3. TypeOK' BY <1>0, <1>2 DEF CheckLevel, Goto, TypeOK, Labels
<1> QED BY <1>1, <1>2, <1>3, MoveOnBase DEF CheckLevel, At

(* The simulator only presents cars that have not passed an entrance, or   *)
(* that have and are therefore on the allow list.                          *)
LEMMA Arrivals ==
  ASSUME Base, Simulator
  PROVE  \E t \in Threads, r \in Regos :
           \E from \in {"outside", "inside"}, label \in LabelsOf(t) :
              /\ Present(t, r, from, Place(t), label)
              /\ label \in {"check lock", "refuse", "lock"}
              /\ label # "refuse" => r \in AllowList
              /\ t \in Entrances \/ r \in AllowList
              /\ from = "outside" <=> t \in Entrances
<1> USE ThreadKinds
<1>1. PICK r \in Regos :
        \/ \E e \in Entrances : ArriveAtEntrance(e, r)
        \/ \E l \in Levels : ArriveAtLevel(l, r)
        \/ \E x \in Exits : ArriveAtExit(x, r)
  BY DEF Simulator
<1>2. ASSUME NEW e \in Entrances, ArriveAtEntrance(e, r)
      PROVE  \E label \in LabelsOf(e) :
               /\ Present(e, r, "outside", Place(e), label)
               /\ label \in {"check lock", "refuse"}
               /\ label # "refuse" => r \in AllowList
  BY <1>2 DEF ArriveAtEntrance, LabelsOf, Place
<1>3. ASSUME NEW t \in Levels \union Exits,
             \/ t \in Levels /\ ArriveAtLevel(t, r)
             \/ t \in Exits /\ ArriveAtExit(t, r)
      PROVE  /\ Present(t, r, "inside", Place(t), "lock")
             /\ r \in AllowList /\ "lock" \in LabelsOf(t) /\ t \notin Entrances
  <2>1. Present(t, r, "inside", Place(t), "lock")
    BY <1>3 DEF ArriveAtLevel, ArriveAtExit, Place
  <2>2. r \in AllowList BY <2>1 DEF Present, Base, Admitted
  <2> QED BY <2>1, <2>2 DEF LabelsOf
<1>4. CASE \E e \in Entrances : ArriveAtEntrance(e, r)
  <2>1. PICK e \in Entrances : ArriveAtEntrance(e, r) BY <1>4
  <2>2. PICK label \in LabelsOf(e) :
          /\ Present(e, r, "outside", Place(e), label)
          /\ label \in {"check lock", "refuse"}
          /\ label # "refuse" => r \in AllowList
    BY <1>2, <2>1
  <2> QED BY <2>2
<1>5. CASE ~ \E e \in Entrances : ArriveAtEntrance(e, r)
  <2>1. PICK t \in Levels \union Exits :
          /\ Present(t, r, "inside", Place(t), "lock")
          /\ r \in AllowList /\ "lock" \in LabelsOf(t) /\ t \notin Entrances
    BY <1>1, <1>3, <1>5
  <2> QED BY <2>1
<1> QED BY <1>4, <1>5

LEMMA SimulatorBase ==
  ASSUME Base, Simulator
  PROVE  Base'
<1>1. PICK t \in Threads, r \in Regos :
        \E from \in {"outside", "inside"}, label \in LabelsOf(t) :
           /\ Present(t, r, from, Place(t), label)
           /\ label \in {"check lock", "refuse", "lock"}
           /\ label # "refuse" => r \in AllowList
           /\ t \in Entrances \/ r \in AllowList
           /\ from = "outside" <=> t \in Entrances
  BY Arrivals
<1>2. PICK from \in {"outside", "inside"}, label \in LabelsOf(t) :
        /\ Present(t, r, from, Place(t), label)
        /\ label \in {"check lock", "refuse", "lock"}
        /\ label # "refuse" => r \in AllowList
        /\ t \in Entrances \/ r \in AllowList
        /\ from = "outside" <=> t \in Entrances
  BY <1>1
<1>3. /\ from = "inside" \/ t \in Entrances
      /\ label \in LabelsOf(t) \ {"wait"} /\ label # "insert"
  BY <1>2
<1>4. from \in {"outside", "inside"} /\ (label # "refuse" => r \in AllowList)
      /\ (t \in Entrances \/ r \in AllowList) /\ Present(t, r, from, Place(t), label)
  BY <1>2
<1> QED BY <1>3, <1>4, PresentBase, SMTT(30)

LEMMA NextBase ==
  ASSUME Base, [Next]_vars
  PROVE  Base'
<1>1. CASE Next
  <2>1. CASE Simulator BY <2>1, SimulatorBase
  <2>2. ASSUME NEW t \in Threads, Step(t) PROVE Base'
    BY <2>2, SectionBase, EntranceBase, ExitBase, LevelBase DEF Step
  <2> QED BY <1>1, <2>1, <2>2 DEF Next
<1>2. CASE UNCHANGED vars
  BY <1>2 DEF vars, Base, TypeOK, Table, cars_in_level, Labelled, Serving,
              ServedOnce, Admitted, Picked
<1> QED BY <1>1, <1>2

(* The manager keeps the types of its data: free_spots stays a size_t, and *)
(* no plate outside the allow list ever reaches a level or a bill.         *)
THEOREM TypeCorrect == Spec => []TypeOK
<1>1. Spec => []Base BY InitBase, NextBase, PTL DEF Spec
<1>2. Base => TypeOK BY DEF Base
<1> QED BY <1>1, <1>2, PTL

-----------------------------------------------------------------------------
(* Mutual exclusion of the level_m sections.  The invariant is inductive   *)
(* relative to Base; what carries it through the two unlocks is that, as   *)
(* long as nothing was stolen, an unlock from inside a section is by the   *)
(* owner, and an unlock from outside finds the mutex free.                 *)

LEMMA SectionsStay ==
  ASSUME Base, NEW t \in Threads, NEW label, Goto(t, label),
         LevelSectionsExclusive, UNCHANGED <<level_m, stolen>>,
         InSection(t) <=> label \in {"check unlock", "load", "store", "pick",
                                     "check", "remove", "insert", "unlock"}
  PROVE  LevelSectionsExclusive'
BY DEF Goto, Base, TypeOK, InSection, LevelSectionsExclusive

LEMMA SectionsUnlock ==
  ASSUME Base, NEW t \in Threads, NEW label, Goto(t, label),
         LevelSectionsExclusive, Unlock(t),
         label \notin {"check unlock", "load", "store", "pick",
                       "check", "remove", "insert", "unlock"}
  PROVE  LevelSectionsExclusive'
<1> SUFFICES ASSUME ~stolen', NEW u \in Threads
             PROVE  ~ InSection(u)'
  BY ThreadsAssumption DEF Unlock, LevelSectionsExclusive
<1>1. ~stolen /\ level_m \in {None, t} BY DEF Unlock
<1>2. CASE u = t BY <1>2 DEF Goto, Base, TypeOK, InSection
<1>3. CASE u # t
  <2>1. ~ InSection(u) BY <1>1, <1>3, ThreadsAssumption DEF LevelSectionsExclusive
  <2> QED BY <1>3, <2>1 DEF Goto, Base, TypeOK, InSection
<1> QED BY <1>2, <1>3

LEMMA NextSections ==
  ASSUME Base, LevelSectionsExclusive, [Next]_vars
  PROVE  LevelSectionsExclusive'
<1> USE ThreadKinds
<1>1. CASE Simulator
  <2>1. PICK t \in Threads, r \in Regos :
          \E from \in {"outside", "inside"}, label \in LabelsOf(t) :
             /\ Present(t, r, from, Place(t), label)
             /\ label \in {"check lock", "refuse", "lock"}
    BY <1>1, Arrivals
  <2> QED BY <2>1, SectionsStay DEF Present, At, InSection
<1>2. ASSUME NEW t \in Threads, SectionStep(t) PROVE LevelSectionsExclusive'
  <2>1. CASE Lock(t)
    <3>1. /\ level_m = None /\ level_m' = t /\ stolen' = stolen
          /\ \A u \in Threads \ {t} : InSection(u)' <=> InSection(u)
          /\ InSection(t)'
      BY <2>1 DEF Lock, At, Goto, FirstInSection, InSection, Base, TypeOK
    <3> QED BY <3>1, ThreadsAssumption DEF LevelSectionsExclusive
  <2>2. CASE Load(t) \/ Store(t) \/ Remove(t) \/ Insert(t)
    <3>1. PICK label \in {"store", "pick", "remove", "insert", "unlock"} :
            /\ Goto(t, label) /\ InSection(t)
            /\ UNCHANGED <<level_m, stolen>>
      BY <2>2 DEF Load, Store, Remove, Insert, At, InSection
    <3> QED BY <3>1, SectionsStay
  <2>3. CASE EndSection(t)
    <3>1. PICK label \in {"bill", "settle", "wait"} : Goto(t, label) /\ Unlock(t)
      BY <2>3 DEF EndSection, WaitForNext
    <3> QED BY <3>1, SectionsUnlock
  <2> QED BY <1>2, <2>1, <2>2, <2>3 DEF SectionStep
<1>3. ASSUME NEW e \in Entrances, EntranceStep(e) PROVE LevelSectionsExclusive'
  <2>1. CASE CheckUnlock(e) \/ UnlockWhenFull(e)
    <3>1. PICK label \in {"test", "refuse"} : Goto(e, label) /\ Unlock(e)
      BY <2>1 DEF CheckUnlock, UnlockWhenFull
    <3> QED BY <3>1, SectionsUnlock
  <2>2. CASE ~ (CheckUnlock(e) \/ UnlockWhenFull(e))
    <3>1. PICK label \in {"full", "lock", "wait", "insert", "show"} :
            /\ Goto(e, label) /\ UNCHANGED <<level_m, stolen>>
            /\ InSection(e) <=> label = "insert"
      BY <1>3, <2>2 DEF EntranceStep, TestFreeSpots, Refuse, PickLevel, OpenBill,
                        ShowLevel, WaitForNext, At, InSection
    <3> QED BY <3>1, SectionsStay
  <2> QED BY <2>1, <2>2
<1>4. ASSUME NEW x \in Exits, ExitStep(x) PROVE LevelSectionsExclusive'
  <2>1. PICK label \in {"signal", "wait"} :
          Goto(x, label) /\ ~ InSection(x) /\ UNCHANGED <<level_m, stolen>>
    BY <1>4 DEF ExitStep, SettleBill, SignalGone, WaitForNext, At, InSection
  <2> QED BY <2>1, SectionsStay
<1>5. ASSUME NEW l \in Levels, CheckLevel(l) PROVE LevelSectionsExclusive'
  <2>1. PICK label \in {"remove", "unlock"} :
          Goto(l, label) /\ InSection(l) /\ UNCHANGED <<level_m, stolen>>
    BY <1>5 DEF CheckLevel, At, InSection
  <2> QED BY <2>1, SectionsStay
<1>6. CASE UNCHANGED vars
  BY <1>6 DEF vars, LevelSectionsExclusive, InSection
<1> QED BY <1>1, <1>2, <1>3, <1>4, <1>5, <1>6 DEF Next, Step

(* Until a thread unlocks a level_m it does not own, exactly the owner is  *)
(* between its lock and its unlock.                                        *)
THEOREM SectionsExclusive == Spec => []LevelSectionsExclusive
<1>1. Init => LevelSectionsExclusive
  BY ThreadsAssumption DEF Init, LevelSectionsExclusive, InSection
<1>2. Spec => [](Base /\ LevelSectionsExclusive)
  BY <1>1, InitBase, NextBase, NextSections, PTL DEF Spec
<1> QED BY <1>2, PTL

-----------------------------------------------------------------------------
(* level_m is given back on every path, stolen or not.                     *)

(* Nobody holds level_m outside of its section. *)
HolderInside == \A t \in Threads : level_m = t => InSection(t)

LEMMA HolderStays ==
  ASSUME Base, NEW t \in Threads, NEW label, Goto(t, label), HolderInside,
         UNCHANGED level_m,
         InSection(t) => label \in {"check unlock", "load", "store", "pick",
                                   "check", "remove", "insert", "unlock"}
  PROVE  HolderInside'
BY DEF Goto, Base, TypeOK, InSection, HolderInside

LEMMA HolderGone ==
  ASSUME NEW t \in Threads, Unlock(t)
  PROVE  HolderInside'
BY ThreadsAssumption DEF Unlock, HolderInside

LEMMA NextHolder ==
  ASSUME Base, HolderInside, [Next]_vars
  PROVE  HolderInside'
<1> USE ThreadKinds
<1>1. CASE Simulator
  <2>1. PICK t \in Threads, r \in Regos :
          \E from \in {"outside", "inside"}, label \in LabelsOf(t) :
             /\ Present(t, r, from, Place(t), label)
             /\ label \in {"check lock", "refuse", "lock"}
    BY <1>1, Arrivals
  <2> QED BY <2>1, HolderStays DEF Present, At, InSection
<1>2. ASSUME NEW t \in Threads, SectionStep(t) PROVE HolderInside'
  <2>1. CASE Lock(t)
    <3>1. level_m' = t /\ InSection(t)'
      BY <2>1 DEF Lock, At, Goto, FirstInSection, InSection, Base, TypeOK
    <3> QED BY <3>1 DEF HolderInside
  <2>2. CASE Load(t) \/ Store(t) \/ Remove(t) \/ Insert(t)
    <3>1. PICK label \in {"store", "pick", "remove", "insert", "unlock"} :
            Goto(t, label) /\ UNCHANGED level_m
      BY <2>2 DEF Load, Store, Remove, Insert
    <3> QED BY <3>1, HolderStays
  <2>3. CASE EndSection(t) BY <2>3, HolderGone DEF EndSection
  <2> QED BY <1>2, <2>1, <2>2, <2>3 DEF SectionStep
<1>3. ASSUME NEW e \in Entrances, EntranceStep(e) PROVE HolderInside'
  <2>1. CASE CheckUnlock(e) \/ UnlockWhenFull(e)
    BY <2>1, HolderGone DEF CheckUnlock, UnlockWhenFull
  <2>2. CASE ~ (CheckUnlock(e) \/ UnlockWhenFull(e))
    <3>1. PICK label \in {"full", "lock", "wait", "insert", "show"} :
            /\ Goto(e, label) /\ UNCHANGED level_m
            /\ InSection(e) <=> label = "insert"
      BY <1>3, <2>2 DEF EntranceStep, TestFreeSpots, Refuse, PickLevel, OpenBill,
                        ShowLevel, WaitForNext, At, InSection
    <3> QED BY <3>1, HolderStays
  <2> QED BY <2>1, <2>2
<1>4. ASSUME NEW x \in Exits, ExitStep(x) PROVE HolderInside'
  <2>1. PICK label \in {"signal", "wait"} :
          Goto(x, label) /\ ~ InSection(x) /\ UNCHANGED level_m
    BY <1>4 DEF ExitStep, SettleBill, SignalGone, WaitForNext, At, InSection
  <2> QED BY <2>1, HolderStays
<1>5. ASSUME NEW l \in Levels, CheckLevel(l) PROVE HolderInside'
  <2>1. PICK label \in {"remove", "unlock"} : Goto(l, label) /\ UNCHANGED level_m
    BY <1>5 DEF CheckLevel
  <2> QED BY <2>1, HolderStays
<1>6. CASE UNCHANGED vars BY <1>6 DEF vars, HolderInside, InSection
<1> QED BY <1>1, <1>2, <1>3, <1>4, <1>5, <1>6 DEF Next, Step

(* Whoever holds level_m is in its section and not at a lock, so it can go *)
(* on; if nobody holds it, everybody can (manager_funcs.c:109-115,         *)
(* 242-264, 344-363).                                                      *)
THEOREM SomebodyGoesOn == Spec => []NeverAllStuck
<1>1. Init => HolderInside BY ThreadsAssumption DEF Init, HolderInside
<1>2. Spec => [](Base /\ HolderInside)
  BY <1>1, InitBase, NextBase, NextHolder, PTL DEF Spec
<1>3. Base /\ HolderInside => NeverAllStuck
  <2> SUFFICES ASSUME Base, HolderInside, NEW t \in Threads, pc[t] # "wait"
               PROVE  \E u \in Threads : pc[u] # "wait" /\ ~ Stuck(u)
    BY DEF NeverAllStuck
  <2>1. CASE level_m = None BY <2>1 DEF Stuck
  <2>2. CASE level_m # None
    <3>1. level_m \in Threads /\ InSection(level_m)
      BY <2>2 DEF Base, TypeOK, HolderInside
    <3>2. pc[level_m] # "wait" /\ ~ Stuck(level_m) BY <3>1 DEF InSection, Stuck
    <3> QED BY <3>1, <3>2
  <2> QED BY <2>1, <2>2
<1> QED BY <1>2, <1>3, PTL

-----------------------------------------------------------------------------
(* Stays and bills.                                                        *)

(* One thread moves, and whether its car has a bill changes as billing     *)
(* does.                                                                   *)
LEMMA BillsStay ==
  ASSUME Base, NEW t \in Threads, NEW label, BillsMatchStays,
         pc[t] # "wait", Goto(t, label), UNCHANGED <<billing, rego, car>>,
         failed' \notin {"not yet billed", "res == 0"},
         t \in Entrances => (pc[t] = "show" <=> label = "show"),
         t \in Exits => (pc[t] = "signal" <=> label = "signal")
  PROVE  BillsMatchStays'
<1>1. \A r \in Regos : HasOpenBill(r)' <=> HasOpenBill(r)
  BY ThreadKinds DEF Goto, Base, TypeOK, HasOpenBill
<1> QED BY <1>1 DEF BillsMatchStays

(* The car of a busy thread has a bill exactly when the thread says so,    *)
(* because it is in front of no other reader.                              *)
LEMMA BillOfServed ==
  ASSUME Base, NEW t \in Threads, pc[t] # "wait"
  PROVE  HasOpenBill(rego[t]) <=>
           \/ t \in Levels
           \/ t \in Entrances /\ pc[t] = "show"
           \/ t \in Exits /\ pc[t] # "signal"
<1>1. rego[t] # None /\ car[rego[t]] = Place(t) BY DEF Base, Serving
<1>2. \A u \in Threads : rego[u] = rego[t] => u = t BY <1>1 DEF Base, ServedOnce
<1> QED BY <1>1, <1>2, ThreadKinds DEF HasOpenBill, Place

LEMMA BillsLetGo ==
  ASSUME Base, NEW t \in Threads, NEW place, BillsMatchStays, pc[t] # "wait",
         MoveCar(rego[t], place), WaitForNext(t), UNCHANGED <<billing, failed>>,
         \/ place = "inside" /\ HasOpenBill(rego[t])
         \/ place = "outside" /\ ~ HasOpenBill(rego[t])
  PROVE  BillsMatchStays'
<1>1. PICK c \in Regos : c = rego[t] /\ c # None BY Busy, RegosAssumption
<1>2. /\ car' = [car EXCEPT ![c] = place]
      /\ rego' = [rego EXCEPT ![t] = None]
      /\ pc' = [pc EXCEPT ![t] = "wait"]
  BY <1>1 DEF MoveCar, WaitForNext, Goto
<1>3. \A u \in Threads : u # t => rego[u] # c BY <1>1 DEF Base, ServedOnce
<1>4. ASSUME NEW r \in Regos, r # c PROVE HasOpenBill(r)' <=> HasOpenBill(r)
  BY <1>1, <1>2, <1>4, ThreadKinds, RegosAssumption DEF Base, TypeOK, HasOpenBill
<1>5. \A u \in Threads : rego'[u] # c BY <1>1, <1>2, <1>3 DEF Base, TypeOK
<1>6. HasOpenBill(c)' <=> place = "inside"
  BY <1>1, <1>2, <1>5, ThreadKinds DEF Base, TypeOK, HasOpenBill
<1> QED BY <1>1, <1>4, <1>6 DEF BillsMatchStays

LEMMA NextBills ==
  ASSUME Base, BillsMatchStays, [Next]_vars
  PROVE  BillsMatchStays'
<1> USE ThreadKinds
<1>1. CASE Simulator
  <2>1. PICK t \in Threads, r \in Regos :
          \E from \in {"outside", "inside"}, label \in LabelsOf(t) :
             /\ Present(t, r, from, Place(t), label)
             /\ label \in {"check lock", "refuse", "lock"}
             /\ from = "outside" <=> t \in Entrances
    BY <1>1, Arrivals
  <2>2. PICK from \in {"outside", "inside"}, label \in {"check lock", "refuse", "lock"} :
          /\ Present(t, r, from, Place(t), label)
          /\ from = "outside" <=> t \in Entrances
    BY <2>1
  <2>3. /\ pc[t] = "wait" /\ rego[t] = None /\ car[r] = from
        /\ car' = [car EXCEPT ![r] = Place(t)]
        /\ rego' = [rego EXCEPT ![t] = r]
        /\ pc' = [pc EXCEPT ![t] = label]
        /\ UNCHANGED <<billing, failed>>
    BY <2>2 DEF Present, At, MoveCar, Goto, Base, Serving
  <2>4. \A u \in Threads : rego[u] # r
    <3>1. \A u \in Threads : Place(u) \notin {"outside", "inside"} BY DEF Place
    <3> QED BY <2>3, <3>1, RegosAssumption DEF Base, Serving
  <2>5. ASSUME NEW q \in Regos, q # r PROVE HasOpenBill(q)' <=> HasOpenBill(q)
    BY <2>3, <2>5, RegosAssumption DEF Base, TypeOK, HasOpenBill
  <2>6. HasOpenBill(r) <=> t \notin Entrances
    BY <2>2, <2>3, <2>4 DEF HasOpenBill
  <2>7. HasOpenBill(r)' <=> t \notin Entrances
    BY <2>3, <2>4 DEF HasOpenBill, Base, TypeOK, Place
  <2> QED BY <2>3, <2>5, <2>6, <2>7 DEF BillsMatchStays
<1>2. ASSUME NEW t \in Threads, SectionStep(t) PROVE BillsMatchStays'
  <2>1. pc[t] # "wait" /\ pc[t] \in LabelsOf(t) /\ failed = "none"
    BY <1>2 DEF SectionStep, Lock, Load, Store, Remove, Insert, EndSection, At,
                Base, Labelled
  <2>2. CASE ~ EndSection(t)
    <3>1. PICK label \in Labels \ {"wait", "show", "signal"} : Goto(t, label)
      BY <1>2, <2>2 DEF SectionStep, Lock, Load, Store, Remove, Insert,
                        FirstInSection, Labels
    <3>2. /\ pc[t] \notin {"show", "signal"} /\ UNCHANGED <<billing, rego, car>>
          /\ failed' \notin {"not yet billed", "res == 0"}
      BY <1>2, <2>1, <2>2 DEF SectionStep, Lock, Load, Store, Remove, Insert, At,
                              AssertThat
    <3> QED BY <2>1, <3>1, <3>2, BillsStay
  <2>3. CASE EndSection(t) /\ t \in Levels
    <3>1. HasOpenBill(rego[t]) BY <2>1, <2>3, BillOfServed
    <3> QED BY <2>1, <2>3, <3>1, BillsLetGo DEF EndSection
  <2>4. CASE EndSection(t) /\ t \notin Levels
    <3>1. PICK label \in {"bill", "settle"} : Goto(t, label)
      BY <2>4 DEF EndSection
    <3> QED BY <2>1, <2>4, <3>1, BillsStay DEF EndSection, At
  <2> QED BY <2>2, <2>3, <2>4
<1>3. ASSUME NEW e \in Entrances, EntranceStep(e) PROVE BillsMatchStays'
  <2>1. CASE OpenBill(e)
    <3>1. pc[e] = "bill" /\ ~ HasOpenBill(rego[e]) /\ rego[e] \in Regos
      BY <2>1, BillOfServed, Busy DEF OpenBill, At
    <3>2. rego[e] \notin billing BY <3>1 DEF BillsMatchStays
    <3>3. failed' = "none" BY <2>1, <3>2 DEF OpenBill, AssertThat
    <3>4. \A r \in Regos : HasOpenBill(r)' <=> HasOpenBill(r) \/ r = rego[e]
      BY <2>1, <3>1 DEF OpenBill, At, Goto, Base, TypeOK, HasOpenBill
    <3> QED BY <2>1, <3>1, <3>3, <3>4 DEF OpenBill, BillsMatchStays
  <2>2. CASE Refuse(e) \/ ShowLevel(e)
    <3>1. \/ pc[e] = "refuse" /\ Refuse(e)
          \/ pc[e] = "show" /\ ShowLevel(e)
      BY <2>2 DEF Refuse, ShowLevel, At
    <3>2. HasOpenBill(rego[e]) <=> pc[e] = "show" BY <3>1, BillOfServed
    <3> QED BY <3>1, <3>2, BillsLetGo DEF Refuse, ShowLevel
  <2>3. CASE CheckUnlock(e) \/ TestFreeSpots(e) \/ UnlockWhenFull(e) \/ PickLevel(e)
    <3>1. PICK label \in {"test", "full", "lock", "refuse", "insert"} : Goto(e, label)
      BY <2>3 DEF CheckUnlock, TestFreeSpots, UnlockWhenFull, PickLevel
    <3>2. /\ pc[e] \notin {"wait", "show"} /\ UNCHANGED <<billing, rego, car>>
          /\ failed' \notin {"not yet billed", "res == 0"}
      BY <2>3 DEF CheckUnlock, TestFreeSpots, UnlockWhenFull, PickLevel, At,
                  AssertThat
    <3> QED BY <3>1, <3>2, BillsStay
  <2> QED BY <1>3, <2>1, <2>2, <2>3 DEF EntranceStep
<1>4. ASSUME NEW x \in Exits, ExitStep(x) PROVE BillsMatchStays'
  <2>1. CASE SettleBill(x)
    <3>1. PICK c \in Regos : pc[x] = "settle" /\ HasOpenBill(c) /\ c = rego[x]
      BY <2>1, BillOfServed, Busy DEF SettleBill, At
    <3>2. failed' = "none" BY <2>1, <3>1 DEF SettleBill, AssertThat, BillsMatchStays
    <3>3. \A u \in Threads : rego[u] = c => u = x
      BY <3>1, RegosAssumption DEF Base, ServedOnce
    <3>4. /\ pc' = [pc EXCEPT ![x] = "signal"] /\ UNCHANGED <<rego, car>>
          /\ billing' = billing \ {c} /\ car[c] = "exiting"
      BY <2>1, <3>1, RegosAssumption DEF SettleBill, Goto, Base, Serving, Place
    <3>5. ~ HasOpenBill(c)'
      BY <3>1, <3>3, <3>4 DEF Base, TypeOK, HasOpenBill
    <3>6. \A r \in Regos : r # c => (HasOpenBill(r)' <=> HasOpenBill(r))
      BY <3>1, <3>4 DEF Base, TypeOK, HasOpenBill
    <3> QED BY <3>2, <3>4, <3>5, <3>6 DEF BillsMatchStays
  <2>2. CASE SignalGone(x)
    <3>1. pc[x] = "signal" /\ ~ HasOpenBill(rego[x])
      BY <2>2, BillOfServed DEF SignalGone, At
    <3> QED BY <2>2, <3>1, BillsLetGo DEF SignalGone
  <2> QED BY <1>4, <2>1, <2>2 DEF ExitStep
<1>5. ASSUME NEW l \in Levels, CheckLevel(l) PROVE BillsMatchStays'
  <2>1. PICK label \in {"remove", "unlock"} :
          /\ Goto(l, label) /\ pc[l] = "check"
          /\ UNCHANGED <<billing, rego, car, failed>>
    BY <1>5 DEF CheckLevel, At
  <2> QED BY <2>1, BillsStay DEF BillsMatchStays
<1>6. CASE UNCHANGED vars
  BY <1>6 DEF vars, BillsMatchStays, HasOpenBill
<1> QED BY <1>1, <1>2, <1>3, <1>4, <1>5, <1>6 DEF Next, Step

(* Every stay has exactly one bill, and neither billing assertion can      *)
(* fail: billing_m and the order of the steps are enough, whatever becomes *)
(* of level_m.                                                             *)
THEOREM BillsCorrect == Spec => []BillsMatchStays
<1>1. Init => BillsMatchStays
  BY ThreadKinds, RegosAssumption DEF Init, BillsMatchStays, HasOpenBill
<1>2. Spec => [](Base /\ BillsMatchStays)
  BY <1>1, InitBase, NextBase, NextBills, PTL DEF Spec
<1> QED BY <1>2, PTL

-----------------------------------------------------------------------------
(* One park for each car. *)

(* Only cars that own a park are in a level ... *)
LevelsOwned ==
  \A r \in Regos, l \in Levels : r \in levels[l] => OwnsPark(r)

(* ... and in one level only. *)
LevelsDisjoint ==
  \A r \in Regos, l, k \in Levels : r \in levels[l] /\ r \in levels[k] => l = k

(* A car that owns a park is in a level or on its way to one. *)
OwnersPlaced ==
  \A r \in Regos : OwnsPark(r) =>
    \/ \E l \in Levels : r \in levels[l]
    \/ \E l \in Levels : pc[l] = "insert" /\ rego[l] = r

(* A car on its way to a level is in none. *)
CarriedAway ==
  \A l, k \in Levels : pc[l] = "insert" => rego[l] \notin levels[k]

(* Nobody fills the level that a thread found to have room. *)
RoomAtLevel ==
  \A l \in Levels : pc[l] \in {"remove", "insert"} => free_parks(levels, l) > 0

RoomAtEntrance ==
  failed = "none" =>
    \A e \in Entrances : pc[e] = "insert" => free_parks(levels, level[e]) > 0

ParksInv ==
  /\ LevelsOwned
  /\ LevelsDisjoint
  /\ OwnersPlaced
  /\ CarriedAway
  /\ RoomAtLevel
  /\ RoomAtEntrance
  /\ failed \in {"none", "level != 0"}

Inv ==
  /\ Base
  /\ LevelSectionsExclusive
  /\ BillsMatchStays
  /\ ~stolen => ParksInv

-----------------------------------------------------------------------------
(* The car of a busy thread owns a park exactly when the thread says so. *)
LEMMA ParkOfServed ==
  ASSUME Base, NEW t \in Threads, pc[t] # "wait"
  PROVE  OwnsPark(rego[t]) <=>
           \/ t \in Levels
           \/ t \in Entrances /\ pc[t] \in {"unlock", "bill", "show"}
           \/ t \in Exits /\ pc[t] \in {"lock", "load", "store", "remove"}
<1>1. rego[t] # None /\ car[rego[t]] = Place(t) BY DEF Base, Serving
<1>2. \A u \in Threads : rego[u] = rego[t] => u = t BY <1>1 DEF Base, ServedOnce
<1> QED BY <1>1, <1>2, ThreadKinds DEF OwnsPark, Place

(* A step that leaves levels alone and changes nobody's ownership. *)
LEMMA ParksSame ==
  ASSUME Base, ParksInv, NEW t \in Threads, NEW label,
         pc' = [pc EXCEPT ![t] = label],
         UNCHANGED levels, failed = "none", failed' \in {"none", "level != 0"},
         \A r \in Regos : OwnsPark(r)' <=> OwnsPark(r),
         \A u \in Threads \ {t} : rego'[u] = rego[u],
         \A e \in Entrances \ {t} : level'[e] = level[e],
         t \in Levels => pc[t] # "insert" /\ label # "insert",
         t \in Levels /\ label = "remove" => free_parks(levels, t) > 0,
         t \in Entrances /\ label = "insert" /\ failed' = "none"
           => free_parks(levels, level'[t]) > 0
  PROVE  ParksInv'
<1> USE ThreadKinds
<1>1. LevelsOwned' BY DEF ParksInv, LevelsOwned
<1>2. LevelsDisjoint' BY DEF ParksInv, LevelsDisjoint
<1>3. \A l \in Levels : /\ pc'[l] = "insert" <=> pc[l] = "insert"
                        /\ pc[l] = "insert" => rego'[l] = rego[l]
  BY DEF Base, TypeOK
<1>4. OwnersPlaced'
  <2> SUFFICES ASSUME NEW r \in Regos, OwnsPark(r)
               PROVE  \/ \E l \in Levels : r \in levels'[l]
                      \/ \E l \in Levels : pc'[l] = "insert" /\ rego'[l] = r
    BY DEF OwnersPlaced
  <2>1. \/ \E l \in Levels : r \in levels[l]
        \/ \E l \in Levels : pc[l] = "insert" /\ rego[l] = r
    BY DEF ParksInv, OwnersPlaced
  <2> QED BY <2>1, <1>3
<1>5. CarriedAway' BY <1>3 DEF ParksInv, CarriedAway
<1>6. RoomAtLevel'
  BY DEF ParksInv, RoomAtLevel, Base, TypeOK, free_parks, cars_in_level
<1>7. RoomAtEntrance'
  BY DEF ParksInv, RoomAtEntrance, Base, TypeOK, free_parks, cars_in_level
<1> QED BY <1>1, <1>2, <1>4, <1>5, <1>6, <1>7 DEF ParksInv

(* In particular a step within the code of one thread. *)
LEMMA ParksMoveOn ==
  ASSUME Base, ParksInv, NEW t \in Threads, NEW label, Goto(t, label),
         pc[t] # "wait",
         UNCHANGED <<levels, rego, car>>, failed = "none",
         failed' \in {"none", "level != 0"},
         \A e \in Entrances \ {t} : level'[e] = level[e],
         t \in Levels => pc[t] # "insert" /\ label # "insert",
         t \in Levels /\ label = "remove" => free_parks(levels, t) > 0,
         t \in Entrances /\ label = "insert" /\ failed' = "none"
           => free_parks(levels, level'[t]) > 0,
         t \in Entrances => (pc[t] \in {"unlock", "bill", "show"}
                               <=> label \in {"unlock", "bill", "show"}),
         t \in Exits => (pc[t] \in {"lock", "load", "store", "remove"}
                           <=> label \in {"lock", "load", "store", "remove"})
  PROVE  ParksInv'
<1>1. pc' = [pc EXCEPT ![t] = label] BY DEF Goto
<1>2. \A r \in Regos : OwnsPark(r)' <=> OwnsPark(r)
  BY <1>1, ThreadKinds DEF Base, TypeOK, OwnsPark
<1>3. \A u \in Threads \ {t} : rego'[u] = rego[u] OBVIOUS
<1> QED BY <1>1, <1>2, <1>3, ParksSame

(* The car of a thread drives on. *)
LEMMA ParksLetGo ==
  ASSUME Base, ParksInv, NEW t \in Threads, NEW place, pc[t] \notin {"wait", "insert"},
         MoveCar(rego[t], place), WaitForNext(t), failed = "none",
         UNCHANGED <<levels, failed>>,
         \A e \in Entrances \ {t} : level'[e] = level[e],
         \/ place = "inside" /\ OwnsPark(rego[t])
         \/ place = "outside" /\ ~ OwnsPark(rego[t])
  PROVE  ParksInv'
<1>1. PICK c \in Regos : c = rego[t] /\ c # None BY Busy, RegosAssumption
<1>2. /\ car' = [car EXCEPT ![c] = place]
      /\ rego' = [rego EXCEPT ![t] = None]
      /\ pc' = [pc EXCEPT ![t] = "wait"]
  BY <1>1 DEF MoveCar, WaitForNext, Goto
<1>3. \A u \in Threads : u # t => rego[u] # c BY <1>1 DEF Base, ServedOnce
<1>4. ASSUME NEW r \in Regos, r # c PROVE OwnsPark(r)' <=> OwnsPark(r)
  BY <1>1, <1>2, <1>4, ThreadKinds, RegosAssumption DEF Base, TypeOK, OwnsPark
<1>5. \A u \in Threads : rego'[u] # c BY <1>1, <1>2, <1>3 DEF Base, TypeOK
<1>6. OwnsPark(c)' <=> place = "inside"
  BY <1>1, <1>2, <1>5, ThreadKinds DEF Base, TypeOK, OwnsPark
<1>7. \A r \in Regos : OwnsPark(r)' <=> OwnsPark(r) BY <1>1, <1>4, <1>6
<1>8. \A u \in Threads \ {t} : rego'[u] = rego[u] BY <1>2 DEF Base, TypeOK
<1> QED BY <1>2, <1>7, <1>8, ParksSame

(* The car of a thread that is about to remove it is in exactly one level, *)
(* so that the assertion of remove_from_all_levels holds, and no longer    *)
(* in any afterwards.                                                      *)
LEMMA RemoveParks ==
  ASSUME Base, ParksInv, LevelSectionsExclusive, ~stolen, NEW t \in Threads,
         Remove(t)
  PROVE  ParksInv'
<1> USE ThreadKinds
<1>0. pc[t] = "remove" /\ failed = "none" /\ t \notin Entrances
  BY DEF Remove, At, Base, Labelled, LabelsOf
<1>1. PICK c \in Regos : c = rego[t] /\ c # None
  BY <1>0, Busy, RegosAssumption
<1>2. \A u \in Threads : u # t => rego[u] # c /\ ~ InSection(u)
  BY <1>0, <1>1 DEF Base, ServedOnce, LevelSectionsExclusive, InSection
<1>3. /\ pc' = [pc EXCEPT ![t] = IF t \in Levels THEN "insert" ELSE "unlock"]
      /\ levels' = [l \in Levels |-> levels[l] \ {c}]
      /\ UNCHANGED <<rego, car, level, stolen>>
  BY <1>1 DEF Remove, Goto, remove_from_all_levels
<1>4. OwnsPark(c) BY <1>0, <1>1, ParkOfServed
<1>5. PICK h \in Levels : c \in levels[h]
  BY <1>0, <1>1, <1>2, <1>4 DEF ParksInv, OwnersPlaced
<1>6. LevelsHolding(levels, c) = {h}
  BY <1>5 DEF ParksInv, LevelsDisjoint, LevelsHolding, exists_in_level
<1>7. failed' = "none" BY <1>1, <1>6, FS_Singleton DEF Remove, AssertThat
<1>8. \A r \in Regos : r # c => (OwnsPark(r)' <=> OwnsPark(r))
  BY <1>1, <1>3 DEF OwnsPark, Base, TypeOK
<1>9. OwnsPark(c)' => t \in Levels
  BY <1>0, <1>1, <1>2, <1>3 DEF OwnsPark, Base, TypeOK, Serving, Place
<1>10. \A l \in Levels : pc[l] # "insert"
  BY <1>0, <1>2 DEF InSection
<1>11. LevelsOwned' BY <1>3, <1>8 DEF ParksInv, LevelsOwned
<1>12. LevelsDisjoint' BY <1>3 DEF ParksInv, LevelsDisjoint
<1>13. OwnersPlaced'
  <2> SUFFICES ASSUME NEW r \in Regos, OwnsPark(r)'
               PROVE  \/ \E l \in Levels : r \in levels'[l]
                      \/ \E l \in Levels : pc'[l] = "insert" /\ rego'[l] = r
    BY DEF OwnersPlaced
  <2>1. CASE r = c BY <2>1, <1>1, <1>3, <1>9 DEF Base, TypeOK
  <2>2. CASE r # c
    <3>1. \E l \in Levels : r \in levels[l]
      BY <2>2, <1>8, <1>10 DEF ParksInv, OwnersPlaced
    <3> QED BY <2>2, <3>1, <1>3
  <2> QED BY <2>1, <2>2
<1>14. CarriedAway'
  BY <1>1, <1>3, <1>10 DEF CarriedAway, Base, TypeOK
<1>15. \A l \in Levels : free_parks(levels, l) > 0 => free_parks(levels, l)' > 0
  <2> SUFFICES ASSUME NEW l \in Levels, free_parks(levels, l) > 0
               PROVE  free_parks(levels, l)' > 0
    OBVIOUS
  <2>1. levels'[l] \subseteq levels[l] /\ IsFiniteSet(levels[l])
    BY <1>3 DEF Base, Table
  <2>2. Cardinality(levels'[l]) <= Cardinality(levels[l])
    BY <2>1, FS_Subset
  <2>3. Cardinality(levels'[l]) \in Nat /\ Cardinality(levels[l]) \in Nat
    BY <2>1, FS_Subset, FS_CardinalityType
  <2> QED BY <2>2, <2>3, CapacityAssumption DEF free_parks, cars_in_level
<1>16. RoomAtLevel'
  BY <1>0, <1>2, <1>3, <1>15 DEF ParksInv, RoomAtLevel, Base, TypeOK, InSection
<1>17. RoomAtEntrance'
  BY <1>0, <1>2, <1>3 DEF RoomAtEntrance, Base, TypeOK, InSection
<1> QED BY <1>7, <1>11, <1>12, <1>13, <1>14, <1>16, <1>17 DEF ParksInv

(* A car is inserted into a level with room, and was in none before.       *)
LEMMA InsertParks ==
  ASSUME Base, ParksInv, LevelSectionsExclusive, ~stolen, NEW t \in Threads,
         Insert(t)
  PROVE  ParksInv'
<1> USE ThreadKinds
<1>0. pc[t] = "insert" /\ failed = "none" /\ t \notin Exits
  BY DEF Insert, At, Base, Labelled, LabelsOf
<1>1. PICK c \in Regos : c = rego[t] /\ c # None
  BY <1>0, Busy, RegosAssumption
<1>2. \A u \in Threads : u # t => rego[u] # c /\ ~ InSection(u)
  BY <1>0, <1>1 DEF Base, ServedOnce, LevelSectionsExclusive, InSection
<1>3. PICK h \in Levels : h = Target(t) /\ free_parks(levels, h) > 0
  BY <1>0 DEF Target, ParksInv, RoomAtLevel, RoomAtEntrance, Base, Picked
<1>4. /\ pc' = [pc EXCEPT ![t] = "unlock"]
      /\ levels' = [levels EXCEPT ![h] = @ \union {c}]
      /\ UNCHANGED <<rego, car, level, stolen>>
  BY <1>1, <1>3 DEF Insert, Goto, insert_in_level
<1>5. \A l \in Levels : levels'[l] = IF l = h THEN levels[l] \union {c} ELSE levels[l]
  BY <1>4 DEF Base, TypeOK
<1>6. \A l \in Levels : c \notin levels[l]
  <2>1. CASE t \in Levels BY <2>1, <1>0, <1>1 DEF ParksInv, CarriedAway
  <2>2. CASE t \in Entrances
    <3>1. ~ OwnsPark(c) BY <2>2, <1>0, <1>1, ParkOfServed
    <3> QED BY <3>1 DEF ParksInv, LevelsOwned
  <2> QED BY <1>0, <2>1, <2>2
<1>7. failed' = "none"
  BY <1>0, <1>1, <1>3, <1>6 DEF Insert, AssertThat, exists_in_level
<1>8. \A r \in Regos : r # c => (OwnsPark(r)' <=> OwnsPark(r))
  BY <1>1, <1>4 DEF OwnsPark, Base, TypeOK
<1>9. OwnsPark(c)'
  BY <1>0, <1>1, <1>4 DEF OwnsPark, Base, TypeOK, Serving, Place
<1>10. \A l \in Levels : pc'[l] # "insert"
  BY <1>0, <1>2, <1>4 DEF InSection, Base, TypeOK
<1>11. LevelsOwned' BY <1>5, <1>8, <1>9 DEF ParksInv, LevelsOwned
<1>12. LevelsDisjoint'
  <2> SUFFICES ASSUME NEW r \in Regos, NEW l \in Levels, NEW k \in Levels,
                      r \in levels'[l], r \in levels'[k]
               PROVE  l = k
    BY DEF LevelsDisjoint
  <2>1. CASE r = c BY <2>1, <1>5, <1>6
  <2>2. CASE r # c
    <3>1. r \in levels[l] /\ r \in levels[k] BY <2>2, <1>5
    <3> QED BY <3>1 DEF ParksInv, LevelsDisjoint
  <2> QED BY <2>1, <2>2
<1>13. OwnersPlaced'
  <2> SUFFICES ASSUME NEW r \in Regos, OwnsPark(r)'
               PROVE  \E l \in Levels : r \in levels'[l]
    BY DEF OwnersPlaced
  <2>1. CASE r = c BY <2>1, <1>3, <1>5
  <2>2. CASE r # c
    <3>1. OwnsPark(r) BY <2>2, <1>8
    <3>2. ~ \E l \in Levels : pc[l] = "insert" /\ rego[l] = r
      BY <2>2, <1>1, <1>2 DEF InSection
    <3>3. \E l \in Levels : r \in levels[l]
      BY <3>1, <3>2 DEF ParksInv, OwnersPlaced
    <3> QED BY <3>3, <1>5
  <2> QED BY <2>1, <2>2
<1>14. CarriedAway' BY <1>10 DEF CarriedAway
<1>15. \A u \in Threads : pc'[u] \notin {"remove", "insert"}
  BY <1>0, <1>2, <1>4 DEF InSection, Base, TypeOK
<1>16. RoomAtLevel' /\ RoomAtEntrance' BY <1>15 DEF RoomAtLevel, RoomAtEntrance
<1> QED BY <1>7, <1>11, <1>12, <1>13, <1>14, <1>16 DEF ParksInv

LEMMA NextParks ==
  ASSUME Inv, [Next]_vars, ~stolen'
  PROVE  ParksInv'
<1> USE ThreadKinds
<1>0. Base /\ LevelSectionsExclusive /\ ~stolen /\ ParksInv
  <2>1. ~stolen
    BY DEF vars, Next, Simulator, ArriveAtEntrance, ArriveAtLevel, ArriveAtExit,
           Present, Step, SectionStep, Lock, Load, Store, Remove, Insert,
           EndSection, Unlock, EntranceStep, CheckUnlock, TestFreeSpots,
           UnlockWhenFull, Refuse, PickLevel, OpenBill, ShowLevel, ExitStep,
           SettleBill, SignalGone, CheckLevel
  <2> QED BY <2>1 DEF Inv
<1>1. CASE Simulator
  <2>1. PICK t \in Threads, r \in Regos :
          \E from \in {"outside", "inside"}, label \in LabelsOf(t) :
             /\ Present(t, r, from, Place(t), label)
             /\ label \in {"check lock", "refuse", "lock"}
             /\ from = "outside" <=> t \in Entrances
    BY <1>0, <1>1, Arrivals
  <2>2. PICK from \in {"outside", "inside"}, label \in LabelsOf(t) :
          /\ Present(t, r, from, Place(t), label)
          /\ label \in {"check lock", "refuse", "lock"}
          /\ from = "outside" <=> t \in Entrances
    BY <2>1
  <2>3. /\ pc[t] = "wait" /\ rego[t] = None /\ car[r] = from /\ failed = "none"
        /\ car' = [car EXCEPT ![r] = Place(t)]
        /\ rego' = [rego EXCEPT ![t] = r]
        /\ pc' = [pc EXCEPT ![t] = label]
        /\ UNCHANGED <<levels, level, failed>>
    BY <1>0, <2>2 DEF Present, At, MoveCar, Goto, Base, Serving
  <2>4. \A u \in Threads : rego[u] # r
    <3>1. \A u \in Threads : Place(u) \notin {"outside", "inside"} BY DEF Place
    <3> QED BY <1>0, <2>3, <3>1, RegosAssumption DEF Base, Serving
  <2>5. ASSUME NEW q \in Regos, q # r PROVE OwnsPark(q)' <=> OwnsPark(q)
    BY <1>0, <2>3, <2>5, RegosAssumption DEF Base, TypeOK, OwnsPark
  <2>6. OwnsPark(r) <=> t \notin Entrances
    BY <2>2, <2>3, <2>4 DEF OwnsPark
  <2>7. label = "lock" \/ t \in Entrances
    BY <2>2 DEF LabelsOf
  <2>8. OwnsPark(r)' <=> t \notin Entrances
    <3>1. \A u \in Threads : rego'[u] = r <=> u = t
      BY <1>0, <2>3, <2>4 DEF Base, TypeOK
    <3>2. car'[r] = Place(t) /\ pc'[t] = label BY <1>0, <2>3 DEF Base, TypeOK
    <3> QED BY <2>2, <2>7, <3>1, <3>2 DEF OwnsPark, Place
  <2>9. \A q \in Regos : OwnsPark(q)' <=> OwnsPark(q) BY <2>5, <2>6, <2>8
  <2>10. \A u \in Threads \ {t} : rego'[u] = rego[u]
    BY <1>0, <2>3 DEF Base, TypeOK
  <2> QED BY <1>0, <2>2, <2>3, <2>9, <2>10, ParksSame
<1>2. ASSUME NEW t \in Threads, SectionStep(t) PROVE ParksInv'
  <2>1. pc[t] # "wait" /\ pc[t] \in LabelsOf(t) /\ failed = "none"
    BY <1>0, <1>2 DEF SectionStep, Lock, Load, Store, Remove, Insert, EndSection,
                      At, Base, Labelled
  <2>2. CASE Lock(t) \/ Load(t) \/ Store(t)
    <3>1. PICK label \in {"check unlock", "check", "load", "store", "pick", "remove"} :
            /\ Goto(t, label)
            /\ t \in Levels => label = "check" \/ label = "check unlock"
            /\ t \in Exits => /\ pc[t] \in {"lock", "load", "store"}
                              /\ label \in {"load", "store", "remove"}
            /\ pc[t] \in {"check lock", "lock", "load", "store"}
      BY <2>1, <2>2 DEF Lock, Load, Store, At, FirstInSection, LabelsOf
    <3>2. UNCHANGED <<levels, rego, car, level, failed>>
      BY <2>2 DEF Lock, Load, Store
    <3> QED BY <1>0, <2>1, <3>1, <3>2, ParksMoveOn
  <2>3. CASE Remove(t) BY <1>0, <2>3, RemoveParks
  <2>4. CASE Insert(t) BY <1>0, <2>4, InsertParks
  <2>5. CASE EndSection(t) /\ t \in Levels
    <3>1. OwnsPark(rego[t]) BY <1>0, <2>1, <2>5, ParkOfServed
    <3> QED BY <1>0, <2>1, <2>5, <3>1, ParksLetGo DEF EndSection, At
  <2>6. CASE EndSection(t) /\ t \notin Levels
    <3>1. PICK label \in {"bill", "settle"} :
            Goto(t, label) /\ (t \in Exits <=> label = "settle")
      BY <2>6 DEF EndSection
    <3> QED BY <1>0, <2>1, <2>6, <3>1, ParksMoveOn DEF EndSection, At
  <2> QED BY <1>2, <2>2, <2>3, <2>4, <2>5, <2>6 DEF SectionStep
<1>3. ASSUME NEW e \in Entrances, EntranceStep(e) PROVE ParksInv'
  <2>1. CASE PickLevel(e)
    <3>1. /\ pc[e] = "pick" /\ Goto(e, "insert") /\ failed = "none"
          /\ level' = [level EXCEPT ![e] = get_available_level(levels)]
          /\ UNCHANGED <<levels, rego, car>>
      BY <2>1 DEF PickLevel, At
    <3>2. level'[e] = get_available_level(levels)
      BY <1>0, <3>1 DEF Base, TypeOK
    <3>3. /\ failed' \in {"none", "level != 0"}
          /\ failed' = "none" => level'[e] # 0
      BY <2>1 DEF PickLevel, AssertThat
    <3>4. failed' = "none" => free_parks(levels, level'[e]) > 0
      <4> SUFFICES ASSUME failed' = "none" PROVE free_parks(levels, level'[e]) > 0
        OBVIOUS
      <4>1. /\ level'[e] \in Levels
            /\ cars_in_level(levels, level'[e]) < LEVEL_CAPACITY
        BY <1>0, <3>2, <3>3, AvailableLevelCorrect DEF Base
      <4>2. cars_in_level(levels, level'[e]) \in Nat
        BY <1>0, <4>1, CountType DEF Base
      <4> QED BY <4>1, <4>2, CapacityAssumption DEF free_parks
    <3>5. \A f \in Entrances \ {e} : level'[f] = level[f]
      BY <1>0, <3>1 DEF Base, TypeOK
    <3> QED BY <1>0, <3>1, <3>3, <3>4, <3>5, ParksMoveOn
  <2>2. CASE Refuse(e) \/ ShowLevel(e)
    <3>1. /\ \/ pc[e] = "refuse" /\ MoveCar(rego[e], "outside")
             \/ pc[e] = "show" /\ MoveCar(rego[e], "inside")
          /\ WaitForNext(e) /\ failed = "none" /\ UNCHANGED <<levels, failed>>
      BY <2>2 DEF Refuse, ShowLevel, At
    <3>2. OwnsPark(rego[e]) <=> pc[e] = "show" BY <1>0, <3>1, ParkOfServed
    <3>3. \A f \in Entrances \ {e} : level'[f] = level[f]
      BY <1>0, <2>2 DEF Refuse, ShowLevel, Base, TypeOK
    <3> QED BY <1>0, <3>1, <3>2, <3>3, ParksLetGo
  <2>3. CASE CheckUnlock(e) \/ TestFreeSpots(e) \/ UnlockWhenFull(e)
    <3>1. PICK label \in {"test", "full", "lock", "refuse"} : Goto(e, label)
      BY <2>3 DEF CheckUnlock, TestFreeSpots, UnlockWhenFull
    <3>2. /\ pc[e] \in {"check unlock", "test", "full"} /\ failed = "none"
          /\ UNCHANGED <<levels, rego, car, level, failed>>
      BY <2>3 DEF CheckUnlock, TestFreeSpots, UnlockWhenFull, At
    <3> QED BY <1>0, <3>1, <3>2, ParksMoveOn
  <2>4. CASE OpenBill(e)
    <3>1. pc[e] = "bill" BY <2>4 DEF OpenBill, At
    <3>2. failed' = "none"
      BY <2>4, NextBills DEF Inv, Next, Step, BillsMatchStays, OpenBill,
                             EntranceStep, AssertThat
    <3> QED BY <1>0, <2>4, <3>1, <3>2, ParksMoveOn DEF OpenBill, At
  <2> QED BY <1>3, <2>1, <2>2, <2>3, <2>4 DEF EntranceStep
<1>4. ASSUME NEW x \in Exits, ExitStep(x) PROVE ParksInv'
  <2>1. CASE SettleBill(x)
    <3>1. pc[x] = "settle" BY <2>1 DEF SettleBill, At
    <3>2. failed' = "none"
      BY <2>1, NextBills DEF Inv, Next, Step, BillsMatchStays, SettleBill,
                             ExitStep, AssertThat
    <3> QED BY <1>0, <2>1, <3>1, <3>2, ParksMoveOn DEF SettleBill, At
  <2>2. CASE SignalGone(x)
    <3>1. pc[x] = "signal" /\ ~ OwnsPark(rego[x])
      BY <1>0, <2>2, ParkOfServed DEF SignalGone, At
    <3> QED BY <1>0, <2>2, <3>1, ParksLetGo DEF SignalGone, At
  <2> QED BY <1>4, <2>1, <2>2 DEF ExitStep
<1>5. ASSUME NEW l \in Levels, CheckLevel(l) PROVE ParksInv'
  <2>1. cars_in_level(levels, l) \in Nat BY <1>0, CountType DEF Base
  <2>2. PICK label \in {"remove", "unlock"} :
          /\ Goto(l, label) /\ pc[l] = "check" /\ failed = "none"
          /\ label = "remove" => free_parks(levels, l) > 0
          /\ UNCHANGED <<levels, rego, car, level, failed>>
    BY <1>5, <2>1, CapacityAssumption DEF CheckLevel, At, free_parks
  <2> QED BY <1>0, <2>2, ParksMoveOn
<1>6. CASE UNCHANGED vars
  BY <1>0, <1>6 DEF vars, ParksInv, LevelsOwned, LevelsDisjoint, OwnersPlaced,
       CarriedAway, RoomAtLevel, RoomAtEntrance, OwnsPark, free_parks, cars_in_level
<1> QED BY <1>1, <1>2, <1>3, <1>4, <1>5, <1>6 DEF Next, Step

LEMMA InitInv == Init => Inv
<1> SUFFICES ASSUME Init PROVE Inv OBVIOUS
<1>1. Base BY InitBase
<1>2. LevelSectionsExclusive
  BY ThreadsAssumption DEF Init, LevelSectionsExclusive, InSection
<1>3. BillsMatchStays
  BY ThreadKinds, RegosAssumption DEF Init, BillsMatchStays, HasOpenBill
<1>4. ParksInv
  BY ThreadKinds, RegosAssumption
  DEF Init, init_level_data, ParksInv, LevelsOwned, LevelsDisjoint,
      OwnersPlaced, CarriedAway, RoomAtLevel, RoomAtEntrance, OwnsPark
<1> QED BY <1>1, <1>2, <1>3, <1>4 DEF Inv

LEMMA NextInv == Inv /\ [Next]_vars => Inv'
BY NextBase, NextSections, NextBills, NextParks DEF Inv

LEMMA InvInductive == Spec => []Inv
BY InitInv, NextInv, PTL DEF Spec

(* While level_m protects, a car owns exactly one park from its insertion  *)
(* by an entrance to its removal by an exit, and none otherwise.           *)
THEOREM ParksCorrect == Spec => []OneParkPerCar
<1>1. Inv => OneParkPerCar
  <2> SUFFICES ASSUME Inv, ~stolen, NEW r \in Regos
               PROVE  Cardinality(LevelsHolding(levels, r))
                        + Cardinality({l \in Levels : pc[l] = "insert" /\ rego[l] = r})
                      = IF OwnsPark(r) THEN 1 ELSE 0
    BY DEF OneParkPerCar
  <2> DEFINE holding == LevelsHolding(levels, r)
             carrying == {l \in Levels : pc[l] = "insert" /\ rego[l] = r}
  <2>1. /\ LevelsOwned /\ LevelsDisjoint /\ OwnersPlaced /\ CarriedAway
        /\ Base
    BY DEF Inv, ParksInv
  <2>2. \A l, k \in holding : l = k
    BY <2>1 DEF LevelsDisjoint, LevelsHolding, exists_in_level
  <2>3. \A l, k \in carrying : l = k
    BY <2>1, ThreadKinds, RegosAssumption DEF Base, ServedOnce
  <2>4. holding = {} \/ carrying = {}
    BY <2>1 DEF CarriedAway, LevelsHolding, exists_in_level
  <2>5. OwnsPark(r) <=> holding # {} \/ carrying # {}
    <3>1. OwnsPark(r) => holding # {} \/ carrying # {}
      BY <2>1 DEF OwnersPlaced, LevelsHolding, exists_in_level
    <3>2. holding # {} => OwnsPark(r)
      BY <2>1 DEF LevelsOwned, LevelsHolding, exists_in_level
    <3>3. carrying # {} => OwnsPark(r)
      BY <2>1, ParkOfServed, ThreadKinds
    <3> QED BY <3>1, <3>2, <3>3
  <2>6. \A T : (\A l, k \in T : l = k) => T = {} \/ \E l : T = {l} OBVIOUS
  <2>7. Cardinality({}) = 0 /\ \A l : Cardinality({l}) = 1
    BY FS_EmptySet, FS_Singleton
  <2> HIDE DEF holding, carrying
  <2>8. /\ Cardinality(holding) = IF holding = {} THEN 0 ELSE 1
        /\ Cardinality(carrying) = IF carrying = {} THEN 0 ELSE 1
    BY <2>2, <2>3, <2>6, <2>7
  <2>9. Cardinality(holding) + Cardinality(carrying) = IF OwnsPark(r) THEN 1 ELSE 0
    BY <2>4, <2>5, <2>8
  <2> QED BY <2>9 DEF holding, carrying
<1> QED BY <1>1, InvInductive, PTL

(* While level_m protects, overbooking is the only way to abort: the       *)
(* assertions of leveldata.c and of the billing never fail.                *)
THEOREM AbortsCorrect == Spec => []OnlyOverbookingAborts
<1>1. Inv => OnlyOverbookingAborts BY DEF Inv, ParksInv, OnlyOverbookingAborts
<1> QED BY <1>1, InvInductive, PTL

(* A plate that the simulator may send in again is in no bill and, while   *)
(* level_m protects, in no level.                                          *)
THEOREM ReturnedCorrect == Spec => []ReturnedCarsForgotten
<1>1. Inv => ReturnedCarsForgotten
  <2> SUFFICES ASSUME Inv, NEW r \in Regos, car[r] = "outside"
               PROVE  r \notin billing /\ (~stolen => r \notin Held)
    BY DEF ReturnedCarsForgotten
  <2>1. \A t \in Threads : rego[t] # r
    BY RegosAssumption DEF Inv, Base, Serving, Place
  <2>2. ~ HasOpenBill(r) /\ ~ OwnsPark(r)
    BY <2>1, ThreadKinds DEF HasOpenBill, OwnsPark
  <2>3. r \notin billing BY <2>2 DEF Inv, BillsMatchStays
  <2>4. ~stolen => r \notin Held
    BY <2>1, <2>2, ThreadKinds DEF Inv, ParksInv, LevelsOwned, Held, Carried
  <2> QED BY <2>3, <2>4
<1> QED BY <1>1, InvInductive, PTL

-----------------------------------------------------------------------------
(* How many cars a table holds.                                            *)

Below(ld, n) == UNION {ld[l] : l \in 1 .. n}

(* A property that holds at zero and passes from each number to the next   *)
(* fails nowhere: the numbers where it fails have no least element.        *)
LEMMA NoLeastBad ==
  ASSUME NEW Bad \in SUBSET Nat, 0 \notin Bad,
         \A n \in Bad : n # 0 => n - 1 \in Bad
  PROVE  Bad = {}
<1> SUFFICES ASSUME Bad # {} PROVE FALSE OBVIOUS
<1>1. PICK m \in Bad : \A n \in Bad : m <= n BY NatMin
<1>2. m - 1 \in Bad /\ m \in Nat BY <1>1
<1> QED BY <1>1, <1>2

(* Levels within their capacity hold no more cars than there are parks.    *)
LEMMA TableBound ==
  ASSUME NEW ld, Table(ld)
  PROVE  /\ IsFiniteSet(Below(ld, LEVELS))
         /\ Cardinality(Below(ld, LEVELS)) <= Total
<1> DEFINE Good(n) == /\ IsFiniteSet(Below(ld, n))
                      /\ Cardinality(Below(ld, n)) <= n * LEVEL_CAPACITY
           Bad == {n \in 0 .. LEVELS : ~ Good(n)}
<1>1. LEVELS \in Nat /\ LEVEL_CAPACITY \in Nat
  BY LevelsAssumption, CapacityAssumption
<1>2. 0 \notin Bad
  <2>1. Below(ld, 0) = {} BY DEF Below
  <2> QED BY <1>1, <2>1, FS_EmptySet
<1>3. ASSUME NEW n \in Bad, n # 0 PROVE n - 1 \in Bad
  <2>1. n \in Nat /\ n - 1 \in 0 .. LEVELS /\ n \in Levels
    BY <1>1, <1>3 DEF Levels
  <2>2. SUFFICES ASSUME Good(n - 1) PROVE Good(n)
    BY <1>3, <2>1
  <2>3. Below(ld, n) = Below(ld, n - 1) \union ld[n]
    <3>1. 1 .. n = (1 .. n - 1) \union {n} BY <2>1 DEF Levels
    <3> QED BY <3>1 DEF Below
  <2>4. IsFiniteSet(ld[n]) /\ Cardinality(ld[n]) <= LEVEL_CAPACITY
    BY <2>1 DEF Table, cars_in_level
  <2> DEFINE S == Below(ld, n - 1)
  <2>5. IsFiniteSet(S) /\ Cardinality(S) <= (n - 1) * LEVEL_CAPACITY BY <2>2
  <2>6. /\ IsFiniteSet(S \union ld[n])
        /\ Cardinality(S \union ld[n])
             = Cardinality(S) + Cardinality(ld[n]) - Cardinality(S \intersect ld[n])
    <3> HIDE DEF S
    <3> QED BY <2>4, <2>5, FS_Union
  <2>7. /\ Cardinality(S) \in Nat /\ Cardinality(ld[n]) \in Nat
        /\ Cardinality(S \intersect ld[n]) \in Nat
    <3>1. S \intersect ld[n] \subseteq ld[n] OBVIOUS
    <3>2. IsFiniteSet(S \intersect ld[n]) BY <2>4, <3>1, FS_Subset
    <3> QED BY <2>4, <2>5, <3>2, FS_CardinalityType
  <2>8. (n - 1) * LEVEL_CAPACITY + LEVEL_CAPACITY = n * LEVEL_CAPACITY
    BY <1>1, <2>1
  <2>9. (n - 1) * LEVEL_CAPACITY \in Int /\ n * LEVEL_CAPACITY \in Int
    BY <1>1, <2>1
  <2>10. Cardinality(S \union ld[n]) <= n * LEVEL_CAPACITY
    <3> HIDE DEF S
    <3> QED BY <1>1, <2>4, <2>5, <2>6, <2>7, <2>8, <2>9
  <2> QED BY <2>3, <2>6, <2>10
<1>4. Bad \in SUBSET Nat BY <1>1
<1>5. Bad = {}
  <2> HIDE DEF Bad
  <2> QED BY <1>2, <1>3, <1>4, NoLeastBad
<1>6. Good(LEVELS) BY <1>1, <1>5
<1> QED BY <1>6 DEF Total

(* Full levels that share no car hold as many cars as there are parks.     *)
LEMMA TableFull ==
  ASSUME NEW ld, Table(ld),
         \A l \in Levels : cars_in_level(ld, l) = LEVEL_CAPACITY,
         \A l, k \in Levels : l # k => ld[l] \intersect ld[k] = {}
  PROVE  Cardinality(Below(ld, LEVELS)) = Total
<1> DEFINE Good(n) == /\ IsFiniteSet(Below(ld, n))
                      /\ Cardinality(Below(ld, n)) = n * LEVEL_CAPACITY
           Bad == {n \in 0 .. LEVELS : ~ Good(n)}
<1>1. LEVELS \in Nat /\ LEVEL_CAPACITY \in Nat
  BY LevelsAssumption, CapacityAssumption
<1>2. 0 \notin Bad
  <2>1. Below(ld, 0) = {} BY DEF Below
  <2> QED BY <1>1, <2>1, FS_EmptySet
<1>3. ASSUME NEW n \in Bad, n # 0 PROVE n - 1 \in Bad
  <2>1. n \in Nat /\ n - 1 \in 0 .. LEVELS /\ n \in Levels
    BY <1>1, <1>3 DEF Levels
  <2>2. SUFFICES ASSUME Good(n - 1) PROVE Good(n)
    BY <1>3, <2>1
  <2>3. Below(ld, n) = Below(ld, n - 1) \union ld[n]
    <3>1. 1 .. n = (1 .. n - 1) \union {n} BY <2>1 DEF Levels
    <3> QED BY <3>1 DEF Below
  <2>4. IsFiniteSet(ld[n]) /\ Cardinality(ld[n]) = LEVEL_CAPACITY
    BY <2>1 DEF Table, cars_in_level
  <2> DEFINE S == Below(ld, n - 1)
  <2>5. IsFiniteSet(S) /\ Cardinality(S) = (n - 1) * LEVEL_CAPACITY BY <2>2
  <2>6. S \intersect ld[n] = {}
    <3>1. \A l \in 1 .. n - 1 : l \in Levels /\ l # n
      BY <1>1, <2>1 DEF Levels
    <3> QED BY <2>1, <3>1 DEF Below
  <2>7. /\ IsFiniteSet(S \union ld[n])
        /\ Cardinality(S \union ld[n])
             = Cardinality(S) + Cardinality(ld[n]) - Cardinality(S \intersect ld[n])
    <3> HIDE DEF S
    <3> QED BY <2>4, <2>5, FS_Union
  <2>8. (n - 1) * LEVEL_CAPACITY + LEVEL_CAPACITY = n * LEVEL_CAPACITY
    BY <1>1, <2>1
  <2>9. (n - 1) * LEVEL_CAPACITY \in Int /\ n * LEVEL_CAPACITY \in Int
    BY <1>1, <2>1
  <2>10. Cardinality(S \union ld[n]) = n * LEVEL_CAPACITY
    <3>1. Cardinality(S \intersect ld[n]) = 0 BY <2>6, FS_EmptySet
    <3> HIDE DEF S
    <3> QED BY <1>1, <2>4, <2>5, <2>7, <2>8, <2>9, <3>1
  <2> QED BY <2>3, <2>7, <2>10
<1>4. Bad \in SUBSET Nat BY <1>1
<1>5. Bad = {}
  <2> HIDE DEF Bad
  <2> QED BY <1>2, <1>3, <1>4, NoLeastBad
<1>6. Good(LEVELS) BY <1>1, <1>5
<1> QED BY <1>6 DEF Total

-----------------------------------------------------------------------------
(* The cars that own a park are finitely many, all of the allow list, and  *)
(* no more than there are parks: a car on its way to a level will fit.     *)

LEMMA HeldLevels ==
  ASSUME NEW ld
  PROVE  UNION {ld[l] : l \in Levels} = Below(ld, LEVELS)
BY DEF Below, Levels

(* At most one thread is inside a level_m section. *)
LEMMA OneInside ==
  ASSUME Inv, ~stolen, NEW t \in Threads, InSection(t)
  PROVE  \A u \in Threads : InSection(u) => u = t
BY DEF Inv, LevelSectionsExclusive

LEMMA HeldFinite ==
  ASSUME Inv
  PROVE  /\ Held \subseteq AllowList /\ IsFiniteSet(AllowList)
         /\ IsFiniteSet(Held) /\ Cardinality(Held) \in Nat
<1>1. IsFiniteSet(AllowList) BY RegosAssumption, FS_Subset
<1>2. \A l \in Levels : pc[l] = "insert" => rego[l] \in AllowList
  BY Busy, ThreadKinds DEF Inv
<1>3. Held \subseteq AllowList
  BY <1>2 DEF Held, Carried, Inv, Base, TypeOK
<1>4. IsFiniteSet(Held) BY <1>1, <1>3, FS_Subset
<1> QED BY <1>1, <1>3, <1>4, FS_CardinalityType

LEMMA HeldBound ==
  ASSUME Inv, ~stolen
  PROVE  Cardinality(Held) <= Total
<1> USE ThreadKinds
<1>1. Base /\ Table(levels) /\ levels \in [Levels -> SUBSET AllowList]
  BY DEF Inv, Base, TypeOK
<1>2. CASE \A l \in Levels : pc[l] # "insert"
  <2>1. Carried = {} BY <1>2 DEF Carried
  <2>2. Held = Below(levels, LEVELS) BY <2>1, HeldLevels DEF Held
  <2> QED BY <1>1, <2>2, TableBound
<1>3. CASE \E l \in Levels : pc[l] = "insert"
  <2>1. PICK l \in Levels : pc[l] = "insert" BY <1>3
  <2>2. \A k \in Levels : pc[k] = "insert" => k = l
    BY <2>1, OneInside DEF InSection
  <2>3. Carried = {rego[l]} BY <2>1, <2>2 DEF Carried
  <2>4. free_parks(levels, l) > 0 BY <2>1 DEF Inv, ParksInv, RoomAtLevel
  <2> DEFINE ld == insert_in_level(levels, l, rego[l])
  <2>5. Table(ld) BY <1>1, InsertKeepsTable
  <2>6. ld = [levels EXCEPT ![l] = @ \union {rego[l]}]
    BY <2>4 DEF insert_in_level
  <2>7. \A k \in Levels : ld[k] = IF k = l THEN levels[k] \union {rego[l]} ELSE levels[k]
    BY <1>1, <2>6
  <2>8. Held = UNION {ld[k] : k \in Levels}
    <3> HIDE DEF ld
    <3> QED BY <2>3, <2>7 DEF Held
  <2>9. Held = Below(ld, LEVELS)
    <3> HIDE DEF ld
    <3> QED BY <2>8, HeldLevels
  <2> HIDE DEF ld
  <2> QED BY <2>5, <2>9, TableBound
<1> QED BY <1>2, <1>3

(* An update of the counter that the levels do not show yet is that of the *)
(* one thread inside.                                                      *)
LEMMA NobodyUpdating ==
  ASSUME Inv, ~stolen, NEW t \in Threads, InSection(t),
         t \in Entrances => pc[t] \notin {"pick", "insert"},
         t \in Exits => pc[t] # "remove"
  PROVE  Taking = {} /\ Freeing = {}
BY OneInside, ThreadKinds DEF Taking, Freeing, InSection

LEMMA UpdatingAlone ==
  ASSUME Inv, ~stolen
  PROVE  \/ Taking = {} /\ Freeing = {}
         \/ \E e \in Entrances : Taking = {e} /\ Freeing = {} /\ pc[e] \in {"pick", "insert"}
         \/ \E x \in Exits : Taking = {} /\ Freeing = {x} /\ pc[x] = "remove"
<1> USE ThreadKinds
<1>1. ASSUME NEW e \in Entrances, pc[e] \in {"pick", "insert"}
      PROVE  Taking = {e} /\ Freeing = {}
  <2>1. InSection(e) BY <1>1 DEF InSection
  <2>2. \A u \in Threads : InSection(u) => u = e BY <2>1, OneInside
  <2> QED BY <1>1, <2>2 DEF Taking, Freeing, InSection
<1>2. ASSUME NEW x \in Exits, pc[x] = "remove"
      PROVE  Taking = {} /\ Freeing = {x}
  <2>1. InSection(x) BY <1>2 DEF InSection
  <2>2. \A u \in Threads : InSection(u) => u = x BY <2>1, OneInside
  <2> QED BY <1>2, <2>2 DEF Taking, Freeing, InSection
<1>3. CASE /\ \A e \in Entrances : pc[e] \notin {"pick", "insert"}
           /\ \A x \in Exits : pc[x] # "remove"
  BY <1>3 DEF Taking, Freeing
<1> QED BY <1>1, <1>2, <1>3

(* The car of a busy thread is held exactly when it owns a park. *)
LEMMA HeldIsOwned ==
  ASSUME Inv, ~stolen, NEW r \in Regos
  PROVE  r \in Held <=> OwnsPark(r)
<1>1. LevelsOwned /\ OwnersPlaced /\ Base BY DEF Inv, ParksInv
<1>2. (\E l \in Levels : r \in levels[l]) => OwnsPark(r) BY <1>1 DEF LevelsOwned
<1>3. (\E l \in Levels : pc[l] = "insert" /\ rego[l] = r) => OwnsPark(r)
  BY <1>1, ParkOfServed, ThreadKinds
<1> QED BY <1>1, <1>2, <1>3 DEF OwnersPlaced, Held, Carried

-----------------------------------------------------------------------------
(* The counter.                                                            *)

AsSize(n) == IF n = -1 THEN SizeMax ELSE n

(* The counter is right, and whoever is about to change it has read it.    *)
SpotsInv ==
  /\ free_spots = AsSize(Unheld)
  /\ \A t \in Entrances \union Exits : pc[t] = "store" => loaded[t] = free_spots

SInv == Inv /\ (~stolen => SpotsInv)

LEMMA TotalType == Total \in Nat /\ Total < SizeMax
BY LevelsAssumption, CapacityAssumption, SizeAssumption DEF Total

(* A step that changes neither the counter nor what it counts. *)
LEMMA SpotsSame ==
  ASSUME Inv, SpotsInv, NEW t \in Threads, NEW label,
         pc' = [pc EXCEPT ![t] = label],
         UNCHANGED <<levels, free_spots>>,
         \A u \in Threads \ {t} : rego'[u] = rego[u],
         t \in Levels => pc[t] # "insert" /\ label # "insert",
         t \in Entrances => (pc[t] \in {"pick", "insert"} <=> label \in {"pick", "insert"}),
         t \in Exits => (pc[t] = "remove" <=> label = "remove"),
         \A u \in (Entrances \union Exits) \ {t} : loaded'[u] = loaded[u],
         label = "store" => loaded'[t] = free_spots
  PROVE  SpotsInv'
<1> USE ThreadKinds
<1>1. pc \in [Threads -> Labels] BY DEF Inv, Base, TypeOK
<1>2. \A u \in Threads : pc'[u] = IF u = t THEN label ELSE pc[u] BY <1>1
<1>3. \A l \in Levels : /\ pc'[l] = "insert" <=> pc[l] = "insert"
                        /\ pc[l] = "insert" => rego'[l] = rego[l]
  BY <1>2
<1>4. Carried' = Carried BY <1>3 DEF Carried
<1>5. Held' = Held BY <1>4 DEF Held
<1>6. Taking' = Taking /\ Freeing' = Freeing BY <1>2 DEF Taking, Freeing
<1>7. Unheld' = Unheld BY <1>5, <1>6 DEF Unheld
<1>8. \A u \in Entrances \union Exits : pc'[u] = "store" => loaded'[u] = free_spots'
  BY <1>2 DEF SpotsInv
<1> QED BY <1>7, <1>8 DEF SpotsInv, AsSize

(* Storing takes effect together with the update that it announces. *)
LEMMA SpotsStore ==
  ASSUME Inv, SpotsInv, ~stolen, NEW t \in Threads, Store(t)
  PROVE  SpotsInv'
<1> USE ThreadKinds
<1>0. pc[t] = "store" /\ InSection(t) /\ t \in Entrances \union Exits
  BY DEF Store, At, InSection
<1>1. \A u \in Threads : InSection(u) => u = t BY <1>0, OneInside
<1>2. Taking = {} /\ Freeing = {} BY <1>0, NobodyUpdating
<1>3. Unheld = Total - Cardinality(Held) /\ Unheld \in 0 .. Total
  <2>1. Cardinality({}) = 0 BY FS_EmptySet
  <2> QED BY <1>2, <2>1, HeldFinite, HeldBound, TotalType DEF Unheld
<1>4. loaded[t] = Unheld BY <1>0, <1>3 DEF SpotsInv, AsSize
<1>5. pc \in [Threads -> Labels] BY DEF Inv, Base, TypeOK
<1>6. Held' = Held
  <2>1. Carried' = Carried BY <1>0, <1>5 DEF Carried, Store, Goto
  <2> QED BY <2>1 DEF Held, Store
<1>7. \A u \in Entrances \union Exits : pc'[u] # "store"
  BY <1>0, <1>1, <1>5 DEF Store, Goto, InSection
<1>8. CASE t \in Entrances
  <2>1. Taking' = {t} /\ Freeing' = {}
    BY <1>2, <1>5, <1>8 DEF Store, Goto, Taking, Freeing
  <2>2. Unheld' = Unheld - 1
    <3>1. Cardinality({}) = 0 /\ Cardinality({t}) = 1 BY FS_EmptySet, FS_Singleton
    <3> QED BY <1>3, <1>6, <2>1, <3>1, HeldFinite, TotalType DEF Unheld
  <2>3. free_spots' = Decrement(Unheld) BY <1>4, <1>8 DEF Store
  <2>4. free_spots' = AsSize(Unheld)'
    BY <1>3, <2>2, <2>3, TotalType DEF Decrement, AsSize
  <2> QED BY <1>7, <2>4 DEF SpotsInv
<1>9. CASE t \in Exits
  <2>1. Taking' = {} /\ Freeing' = {t}
    BY <1>2, <1>5, <1>9 DEF Store, Goto, Taking, Freeing
  <2>2. Unheld' = Unheld + 1
    <3>1. Cardinality({}) = 0 /\ Cardinality({t}) = 1 BY FS_EmptySet, FS_Singleton
    <3> QED BY <1>3, <1>6, <2>1, <3>1, HeldFinite, TotalType DEF Unheld
  <2>3. free_spots' = Increment(Unheld) BY <1>4, <1>9 DEF Store
  <2>4. free_spots' = AsSize(Unheld)'
    BY <1>3, <2>2, <2>3, TotalType DEF Increment, AsSize
  <2> QED BY <1>7, <2>4 DEF SpotsInv
<1> QED BY <1>0, <1>8, <1>9

(* Removing and inserting change the cars held by the one that the counter *)
(* was changed for, or by none when a level thread moves a car.            *)
LEMMA HeldAfterRemove ==
  ASSUME Inv, ~stolen, NEW t \in Threads, Remove(t)
  PROVE  /\ rego[t] \in Held /\ t \in Levels \union Exits
         /\ Held' = IF t \in Levels THEN Held ELSE Held \ {rego[t]}
<1> USE ThreadKinds
<1>0. /\ pc[t] = "remove" /\ InSection(t) /\ t \notin Entrances /\ rego' = rego
  BY DEF Remove, At, InSection, Inv, Base, Labelled, LabelsOf
<1>1. \A u \in Threads : InSection(u) => u = t BY <1>0, OneInside
<1>2. PICK c \in Regos : c = rego[t] BY <1>0, Busy DEF Inv
<1>3. pc \in [Threads -> Labels] /\ Base BY DEF Inv, Base, TypeOK
<1>4. \A u \in Threads :
        pc'[u] = IF u = t THEN IF t \in Levels THEN "insert" ELSE "unlock" ELSE pc[u]
  BY <1>3 DEF Remove, Goto
<1>5. \A l \in Levels : levels'[l] = levels[l] \ {c}
  BY <1>2 DEF Remove, remove_from_all_levels
<1>6. Carried = {} BY <1>0, <1>1 DEF Carried, InSection
<1>7. UNION {levels'[l] : l \in Levels} = (UNION {levels[l] : l \in Levels}) \ {c}
  BY <1>5
<1>8. c \in Held BY <1>0, <1>2, <1>3, HeldIsOwned, ParkOfServed
<1>9. CASE t \in Levels
  <2>1. Carried' = {c} BY <1>0, <1>2, <1>4, <1>6, <1>9 DEF Carried
  <2> QED BY <1>2, <1>6, <1>7, <1>8, <1>9, <2>1 DEF Held
<1>10. CASE t \in Exits
  <2>1. Carried' = {} BY <1>4, <1>6, <1>10 DEF Carried
  <2> QED BY <1>2, <1>6, <1>7, <1>8, <1>10, <2>1 DEF Held
<1> QED BY <1>0, <1>9, <1>10

LEMMA HeldAfterInsert ==
  ASSUME Inv, ~stolen, NEW t \in Threads, Insert(t)
  PROVE  /\ t \in Levels \union Entrances
         /\ t \in Entrances => rego[t] \notin Held
         /\ Held' = IF t \in Levels THEN Held ELSE Held \union {rego[t]}
<1> USE ThreadKinds
<1>0. /\ pc[t] = "insert" /\ InSection(t) /\ t \notin Exits /\ failed = "none"
      /\ rego' = rego
  BY DEF Insert, At, InSection, Inv, Base, Labelled, LabelsOf
<1>1. \A u \in Threads : InSection(u) => u = t BY <1>0, OneInside
<1>2. PICK c \in Regos : c = rego[t] BY <1>0, Busy DEF Inv
<1>3. /\ pc \in [Threads -> Labels] /\ Base /\ ParksInv
      /\ levels \in [Levels -> SUBSET AllowList]
  BY DEF Inv, Base, TypeOK
<1>4. \A u \in Threads : pc'[u] = IF u = t THEN "unlock" ELSE pc[u]
  BY <1>3 DEF Insert, Goto
<1>5. PICK h \in Levels : h = Target(t) /\ free_parks(levels, h) > 0
  BY <1>0, <1>3 DEF Target, ParksInv, RoomAtLevel, RoomAtEntrance, Base, Picked
<1>6. \A l \in Levels : levels'[l] = IF l = h THEN levels[l] \union {c} ELSE levels[l]
  BY <1>2, <1>3, <1>5 DEF Insert, insert_in_level
<1>7. UNION {levels'[l] : l \in Levels} = (UNION {levels[l] : l \in Levels}) \union {c}
  BY <1>5, <1>6
<1>8. Carried' = {} BY <1>0, <1>1, <1>4 DEF Carried, InSection
<1>9. CASE t \in Levels
  <2>1. Carried = {c} BY <1>0, <1>1, <1>2, <1>9 DEF Carried, InSection
  <2> QED BY <1>2, <1>7, <1>8, <1>9, <2>1 DEF Held
<1>10. CASE t \in Entrances
  <2>1. Carried = {} BY <1>0, <1>1, <1>10 DEF Carried, InSection
  <2>2. c \notin Held BY <1>0, <1>2, <1>3, <1>10, HeldIsOwned, ParkOfServed
  <2> QED BY <1>2, <1>7, <1>8, <1>10, <2>1, <2>2 DEF Held
<1> QED BY <1>0, <1>9, <1>10

LEMMA SpotsRemove ==
  ASSUME Inv, SpotsInv, ~stolen, NEW t \in Threads, Remove(t)
  PROVE  SpotsInv'
<1> USE ThreadKinds
<1>0. /\ pc[t] = "remove" /\ InSection(t) /\ t \notin Entrances
      /\ UNCHANGED <<free_spots, loaded>>
  BY DEF Remove, At, InSection, Inv, Base, Labelled, LabelsOf
<1>1. \A u \in Threads : InSection(u) => u = t BY <1>0, OneInside
<1>2. \A u \in Threads :
        pc'[u] = IF u = t THEN IF t \in Levels THEN "insert" ELSE "unlock" ELSE pc[u]
  BY DEF Remove, Goto, Inv, Base, TypeOK
<1>3. Taking' = {} /\ Taking = {} /\ Freeing' = {}
  BY <1>0, <1>1, <1>2 DEF Taking, Freeing, InSection
<1>4. Unheld' = Unheld
  <2>1. CASE t \in Levels
    <3>1. Freeing = {} BY <1>0, <1>1, <2>1 DEF Freeing, InSection
    <3>2. Held' = Held BY <2>1, HeldAfterRemove
    <3> QED BY <1>3, <3>1, <3>2 DEF Unheld
  <2>2. CASE t \in Exits
    <3>1. Freeing = {t} BY <1>0, <1>1, <2>2 DEF Freeing, InSection
    <3>2. Held' = Held \ {rego[t]} /\ rego[t] \in Held BY <2>2, HeldAfterRemove
    <3>3. Cardinality(Held') = Cardinality(Held) - 1
      BY <3>2, HeldFinite, FS_RemoveElement
    <3>4. Cardinality({}) = 0 /\ Cardinality({t}) = 1 BY FS_EmptySet, FS_Singleton
    <3> QED BY <1>3, <3>1, <3>3, <3>4, HeldFinite, TotalType DEF Unheld
  <2> QED BY <1>0, <2>1, <2>2
<1> QED BY <1>0, <1>2, <1>4 DEF SpotsInv, AsSize

LEMMA SpotsInsert ==
  ASSUME Inv, SpotsInv, ~stolen, NEW t \in Threads, Insert(t)
  PROVE  SpotsInv'
<1> USE ThreadKinds
<1>0. /\ pc[t] = "insert" /\ InSection(t) /\ t \notin Exits
      /\ UNCHANGED <<free_spots, loaded>>
  BY DEF Insert, At, InSection, Inv, Base, Labelled, LabelsOf
<1>1. \A u \in Threads : InSection(u) => u = t BY <1>0, OneInside
<1>2. \A u \in Threads : pc'[u] = IF u = t THEN "unlock" ELSE pc[u]
  BY DEF Insert, Goto, Inv, Base, TypeOK
<1>3. Taking' = {} /\ Freeing' = {} /\ Freeing = {}
  BY <1>0, <1>1, <1>2 DEF Taking, Freeing, InSection
<1>4. Unheld' = Unheld
  <2>1. CASE t \in Levels
    <3>1. Taking = {} BY <1>0, <1>1, <2>1 DEF Taking, InSection
    <3>2. Held' = Held BY <2>1, HeldAfterInsert
    <3> QED BY <1>3, <3>1, <3>2 DEF Unheld
  <2>2. CASE t \in Entrances
    <3>1. Taking = {t} BY <1>0, <1>1, <2>2 DEF Taking, InSection
    <3>2. Held' = Held \union {rego[t]} /\ rego[t] \notin Held
      BY <2>2, HeldAfterInsert
    <3>3. Cardinality(Held') = Cardinality(Held) + 1
      BY <3>2, HeldFinite, FS_AddElement
    <3>4. Cardinality({}) = 0 /\ Cardinality({t}) = 1 BY FS_EmptySet, FS_Singleton
    <3> QED BY <1>3, <3>1, <3>3, <3>4, HeldFinite, TotalType DEF Unheld
  <2> QED BY <1>0, <2>1, <2>2
<1> QED BY <1>0, <1>2, <1>4 DEF SpotsInv, AsSize

LEMMA StolenForever ==
  ASSUME [Next]_vars, ~stolen'
  PROVE  ~stolen
BY DEF vars, Next, Simulator, ArriveAtEntrance, ArriveAtLevel, ArriveAtExit,
       Present, Step, SectionStep, Lock, Load, Store, Remove, Insert,
       EndSection, Unlock, EntranceStep, CheckUnlock, TestFreeSpots,
       UnlockWhenFull, Refuse, PickLevel, OpenBill, ShowLevel, ExitStep,
       SettleBill, SignalGone, CheckLevel

LEMMA NextSpots ==
  ASSUME SInv, [Next]_vars, ~stolen'
  PROVE  SpotsInv'
<1> USE ThreadKinds
<1>0. Inv /\ SpotsInv /\ ~stolen /\ Base
  BY StolenForever DEF SInv, Inv
<1>1. /\ rego \in [Threads -> Regos \union {None}]
      /\ loaded \in [Entrances \union Exits -> 0 .. SizeMax]
      /\ \A t \in Threads : pc[t] \in LabelsOf(t)
  BY <1>0 DEF Base, TypeOK, Labelled
<1>2. CASE Simulator
  <2>1. PICK t \in Threads, r \in Regos :
          \E from \in {"outside", "inside"}, label \in LabelsOf(t) :
             /\ Present(t, r, from, Place(t), label)
             /\ label \in {"check lock", "refuse", "lock"}
    BY <1>0, <1>2, Arrivals
  <2>2. PICK from \in {"outside", "inside"}, label \in {"check lock", "refuse", "lock"} :
          Present(t, r, from, Place(t), label)
    BY <2>1
  <2>3. /\ pc[t] = "wait" /\ pc' = [pc EXCEPT ![t] = label]
        /\ rego' = [rego EXCEPT ![t] = r]
        /\ UNCHANGED <<levels, free_spots, loaded>>
    BY <2>2 DEF Present, At, Goto
  <2>4. \A u \in Threads \ {t} : rego'[u] = rego[u] BY <1>1, <2>3
  <2> QED BY <1>0, <2>2, <2>3, <2>4, SpotsSame
<1>3. ASSUME NEW t \in Threads, SectionStep(t) PROVE SpotsInv'
  <2>1. CASE Lock(t)
    <3>1. PICK label \in {"check unlock", "check", "load"} : Goto(t, label)
      BY <2>1 DEF Lock, FirstInSection
    <3>2. /\ pc[t] \in {"check lock", "lock"}
          /\ UNCHANGED <<levels, free_spots, loaded, rego>>
      BY <2>1 DEF Lock, At
    <3> QED BY <1>0, <3>1, <3>2, SpotsSame DEF Goto
  <2>2. CASE Load(t)
    <3>1. /\ pc[t] = "load" /\ pc' = [pc EXCEPT ![t] = "store"]
          /\ loaded' = [loaded EXCEPT ![t] = free_spots]
          /\ UNCHANGED <<levels, free_spots, rego>>
          /\ t \in Entrances \union Exits
      BY <1>1, <2>2 DEF Load, At, Goto, LabelsOf
    <3>2. /\ loaded'[t] = free_spots
          /\ \A u \in (Entrances \union Exits) \ {t} : loaded'[u] = loaded[u]
      BY <1>1, <3>1
    <3> QED BY <1>0, <3>1, <3>2, SpotsSame
  <2>3. CASE Store(t) BY <1>0, <2>3, SpotsStore
  <2>4. CASE Remove(t) BY <1>0, <2>4, SpotsRemove
  <2>5. CASE Insert(t) BY <1>0, <2>5, SpotsInsert
  <2>6. CASE EndSection(t)
    <3>1. PICK label \in {"bill", "settle", "wait"} : Goto(t, label)
      BY <2>6 DEF EndSection, WaitForNext
    <3>2. pc[t] = "unlock" /\ UNCHANGED <<levels, free_spots, loaded>>
      BY <2>6 DEF EndSection, At
    <3>3. \A u \in Threads \ {t} : rego'[u] = rego[u]
      BY <1>1, <2>6 DEF EndSection, WaitForNext
    <3> QED BY <1>0, <3>1, <3>2, <3>3, SpotsSame DEF Goto
  <2> QED BY <1>3, <2>1, <2>2, <2>3, <2>4, <2>5, <2>6 DEF SectionStep
<1>4. ASSUME NEW e \in Entrances, EntranceStep(e) PROVE SpotsInv'
  <2>1. PICK label \in {"test", "full", "lock", "refuse", "wait", "insert", "show"} :
          /\ Goto(e, label)
          /\ pc[e] \in {"pick", "insert"} <=> label = "insert"
    BY <1>4 DEF EntranceStep, CheckUnlock, TestFreeSpots, UnlockWhenFull, Refuse,
                PickLevel, OpenBill, ShowLevel, WaitForNext, At
  <2>2. UNCHANGED <<levels, free_spots, loaded>>
    BY <1>4 DEF EntranceStep, CheckUnlock, TestFreeSpots, UnlockWhenFull, Refuse,
                PickLevel, OpenBill, ShowLevel
  <2>3. \A u \in Threads \ {e} : rego'[u] = rego[u]
    BY <1>1, <1>4
    DEF EntranceStep, CheckUnlock, TestFreeSpots, UnlockWhenFull, Refuse,
        PickLevel, OpenBill, ShowLevel, WaitForNext
  <2> QED BY <1>0, <2>1, <2>2, <2>3, SpotsSame DEF Goto
<1>5. ASSUME NEW x \in Exits, ExitStep(x) PROVE SpotsInv'
  <2>1. PICK label \in {"signal", "wait"} : Goto(x, label) /\ pc[x] # "remove"
    BY <1>5 DEF ExitStep, SettleBill, SignalGone, WaitForNext, At
  <2>2. UNCHANGED <<levels, free_spots, loaded>>
    BY <1>5 DEF ExitStep, SettleBill, SignalGone
  <2>3. \A u \in Threads \ {x} : rego'[u] = rego[u]
    BY <1>1, <1>5 DEF ExitStep, SettleBill, SignalGone, WaitForNext
  <2> QED BY <1>0, <2>1, <2>2, <2>3, SpotsSame DEF Goto
<1>6. ASSUME NEW l \in Levels, CheckLevel(l) PROVE SpotsInv'
  <2>1. PICK label \in {"remove", "unlock"} : Goto(l, label) /\ pc[l] = "check"
    BY <1>6 DEF CheckLevel, At
  <2>2. UNCHANGED <<levels, free_spots, loaded, rego>> BY <1>6 DEF CheckLevel
  <2> QED BY <1>0, <2>1, <2>2, SpotsSame DEF Goto
<1>7. CASE UNCHANGED vars
  BY <1>0, <1>7 DEF vars, SpotsInv, AsSize, Unheld, Held, Carried, Taking, Freeing
<1> QED BY <1>2, <1>3, <1>4, <1>5, <1>6, <1>7 DEF Next, Step

LEMMA InitSInv == Init => SInv
<1> SUFFICES ASSUME Init PROVE SpotsInv /\ Inv BY DEF SInv
<1>1. Inv BY InitInv
<1>2. Held = {} /\ Taking = {} /\ Freeing = {}
  BY ThreadKinds DEF Init, init_level_data, Held, Carried, Taking, Freeing
<1>3. Unheld = Total BY <1>2, FS_EmptySet, TotalType DEF Unheld
<1>4. SpotsInv
  BY <1>3, ThreadKinds, TotalType DEF Init, SpotsInv, AsSize
<1> QED BY <1>1, <1>4

LEMMA NextSInv == SInv /\ [Next]_vars => SInv'
BY NextInv, NextSpots DEF SInv

LEMMA SInvInductive == Spec => []SInv
BY InitSInv, NextSInv, PTL DEF Spec

(* While level_m protects, free_spots is the number of parks that no car   *)
(* holds, up to the update in progress; below zero it is the largest       *)
(* size_t.                                                                 *)
THEOREM SpotsCorrect == Spec => []SpotsConserved
<1>1. SInv => SpotsConserved BY DEF SInv, SpotsInv, AsSize, SpotsConserved
<1> QED BY <1>1, SInvInductive, PTL

(* While nobody holds level_m, counter and table add up to all parks.      *)
LEMMA QuietTable ==
  ASSUME SInv, ~stolen, level_m = None
  PROVE  free_spots + Cardinality(UNION {levels[l] : l \in Levels}) = Total
<1> USE ThreadKinds
<1>1. Inv /\ SpotsInv BY DEF SInv
<1>2. \A t \in Threads : ~ InSection(t)
  BY <1>1, ThreadsAssumption DEF Inv, LevelSectionsExclusive
<1>3. Taking = {} /\ Freeing = {} /\ Carried = {}
  BY <1>2 DEF Taking, Freeing, Carried, InSection
<1>4. Held = UNION {levels[l] : l \in Levels}
  BY <1>3 DEF Held
<1>5. Unheld = Total - Cardinality(Held) /\ Cardinality(Held) \in 0 .. Total
  <2>1. Cardinality({}) = 0 BY FS_EmptySet
  <2>2. Cardinality(Held) \in 0 .. Total
    BY <1>1, HeldFinite, HeldBound, TotalType
  <2> QED BY <1>3, <2>1, <2>2, TotalType DEF Unheld
<1>6. free_spots = Total - Cardinality(Held)
  BY <1>1, <1>5, TotalType DEF SpotsInv, AsSize
<1> QED BY <1>4, <1>5, <1>6, TotalType

-----------------------------------------------------------------------------
(* A car park with room for every plate on the allow list.                 *)

Room == failed = "none" /\ ~stolen /\ \A e \in Entrances : pc[e] # "full"

(* A car that is at an entrance and not yet inserted is not held. *)
LEMMA NotHeldYet ==
  ASSUME Inv, ~stolen, NEW e \in Entrances,
         pc[e] \notin {"wait", "refuse", "unlock", "bill", "show"}
  PROVE  rego[e] \in AllowList \ Held
BY Busy, ParkOfServed, HeldIsOwned, ThreadKinds DEF Inv

(* An entrance that tests the counter finds a spot left: its own car is on *)
(* the allow list and not inside, and so is that of an entrance that has   *)
(* taken a spot already.                                                   *)
LEMMA SpotLeft ==
  ASSUME SInv, ~stolen, Cardinality(AllowList) <= Total,
         NEW e \in Entrances, pc[e] = "test"
  PROVE  free_spots # 0
<1> USE ThreadKinds
<1>1. Inv /\ SpotsInv BY DEF SInv
<1>2. rego[e] \in AllowList \ Held BY <1>1, NotHeldYet
<1>3. /\ Cardinality(Held \union {rego[e]}) = Cardinality(Held) + 1
      /\ IsFiniteSet(Held \union {rego[e]})
  BY <1>1, <1>2, HeldFinite, FS_AddElement
<1>4. /\ Held \union {rego[e]} \subseteq AllowList /\ IsFiniteSet(AllowList)
      /\ Cardinality(AllowList) \in Nat /\ Cardinality(Held) \in Nat
  BY <1>1, <1>2, HeldFinite, FS_CardinalityType
<1>5. Cardinality(Held) + 1 <= Total
  BY <1>3, <1>4, FS_Subset, TotalType
<1>6. CASE Taking = {}
  <2>1. Cardinality(Taking) = 0 BY <1>6, FS_EmptySet
  <2>2. Cardinality(Freeing) = 0 \/ Cardinality(Freeing) = 1
    BY <1>1, UpdatingAlone, FS_EmptySet, FS_Singleton
  <2>3. Unheld >= 1 /\ Unheld \in Int BY <1>4, <1>5, <2>1, <2>2, TotalType DEF Unheld
  <2> QED BY <1>1, <2>3 DEF SpotsInv, AsSize
<1>7. CASE Taking # {}
  <2>1. PICK f \in Entrances : /\ Taking = {f} /\ Freeing = {}
                               /\ pc[f] \in {"pick", "insert"}
    BY <1>1, <1>7, UpdatingAlone
  <2>2. rego[f] \in AllowList \ Held BY <1>1, <2>1, NotHeldYet
  <2>3. rego[f] # rego[e]
    BY <1>1, <1>2, <2>1, RegosAssumption DEF Inv, Base, ServedOnce
  <2> DEFINE S == Held \union {rego[e]}
  <2>4. rego[f] \notin S /\ IsFiniteSet(S) /\ Cardinality(S) = Cardinality(Held) + 1
    BY <1>3, <2>2, <2>3
  <2>5. Cardinality(S \union {rego[f]}) = Cardinality(S) + 1
    <3> HIDE DEF S
    <3> QED BY <2>4, FS_AddElement
  <2>6. S \union {rego[f]} \subseteq AllowList BY <1>4, <2>2
  <2>7. Cardinality(S \union {rego[f]}) <= Cardinality(AllowList)
    <3> HIDE DEF S
    <3> QED BY <1>4, <2>6, FS_Subset
  <2>8. Cardinality(Held) + 2 <= Total
    <3> HIDE DEF S
    <3> QED BY <1>4, <2>4, <2>5, <2>7, TotalType
  <2>9. Cardinality(Taking) = 1 /\ Cardinality(Freeing) = 0
    BY <2>1, FS_EmptySet, FS_Singleton
  <2>10. Unheld >= 1 /\ Unheld \in Int BY <1>4, <2>8, <2>9, TotalType DEF Unheld
  <2> QED BY <1>1, <2>10 DEF SpotsInv, AsSize
<1> QED BY <1>6, <1>7

(* An entrance that picks a level finds one.                               *)
LEMMA LevelLeft ==
  ASSUME SInv, ~stolen, Cardinality(AllowList) <= Total,
         NEW e \in Entrances, pc[e] = "pick"
  PROVE  get_available_level(levels) # 0
<1> USE ThreadKinds
<1>1. Inv /\ Table(levels) /\ LevelsDisjoint
      /\ levels \in [Levels -> SUBSET AllowList]
  BY DEF SInv, Inv, ParksInv, Base, TypeOK
<1>2. rego[e] \in AllowList \ Held BY <1>1, NotHeldYet
<1>3. Cardinality(Held) + 1 <= Total
  <2>1. /\ Cardinality(Held \union {rego[e]}) = Cardinality(Held) + 1
        /\ IsFiniteSet(Held \union {rego[e]})
    BY <1>1, <1>2, HeldFinite, FS_AddElement
  <2>2. /\ Held \union {rego[e]} \subseteq AllowList /\ IsFiniteSet(AllowList)
        /\ Cardinality(AllowList) \in Nat /\ Cardinality(Held) \in Nat
    BY <1>1, <1>2, HeldFinite, FS_CardinalityType
  <2> QED BY <2>1, <2>2, FS_Subset, TotalType
<1>4. Held = Below(levels, LEVELS)
  <2>1. InSection(e) BY DEF InSection
  <2>2. Carried = {} BY <1>1, <2>1, OneInside DEF Carried, InSection
  <2> QED BY <2>2, HeldLevels DEF Held
<1>5. \A l, k \in Levels : l # k => levels[l] \intersect levels[k] = {}
  BY <1>1, RegosAssumption DEF LevelsDisjoint
<1>6. SUFFICES ASSUME get_available_level(levels) = 0 PROVE FALSE OBVIOUS
<1>7. \A l \in Levels : cars_in_level(levels, l) = LEVEL_CAPACITY
  BY <1>1, <1>6, AvailableLevelCorrect
<1>8. Cardinality(Held) = Total BY <1>1, <1>4, <1>5, <1>7, TableFull
<1> QED BY <1>3, <1>8, TotalType

LEMMA NextRoom ==
  ASSUME SInv, SInv', Room, Cardinality(AllowList) <= Total, [Next]_vars
  PROVE  Room'
<1> USE ThreadKinds
<1>1. Inv /\ Base /\ ~stolen /\ failed = "none" BY DEF SInv, Inv, Room
<1>2. \A e \in Entrances : pc'[e] # "full"
  <2> SUFFICES ASSUME NEW e \in Entrances, pc'[e] = "full" PROVE FALSE OBVIOUS
  <2>1. pc[e] # "full" /\ pc \in [Threads -> Labels]
    BY <1>1 DEF Room, Base, TypeOK
  <2>2. TestFreeSpots(e)
    BY <2>1
    DEF vars, Next, Simulator, ArriveAtEntrance, ArriveAtLevel, ArriveAtExit,
        Present, Step, SectionStep, Lock, FirstInSection, Load, Store, Remove,
        Insert, EndSection, EntranceStep, CheckUnlock, TestFreeSpots,
        UnlockWhenFull, Refuse, PickLevel, OpenBill, ShowLevel, ExitStep,
        SettleBill, SignalGone, CheckLevel, Goto, WaitForNext
  <2>3. free_spots = 0 /\ pc[e] = "test"
    BY <2>1, <2>2 DEF TestFreeSpots, At, Goto
  <2> QED BY <1>1, <2>3, SpotLeft
<1>3. ~stolen'
  <2>1. \A t \in Threads : InSection(t) /\ Unlock(t) => ~stolen'
    BY <1>1 DEF Inv, LevelSectionsExclusive, Unlock
  <2>2. \A e \in Entrances : ~ UnlockWhenFull(e)
    BY DEF Room, UnlockWhenFull, At
  <2>3. \A t \in Threads : EndSection(t) => ~stolen'
    BY <2>1 DEF EndSection, At, InSection
  <2>4. \A e \in Entrances : CheckUnlock(e) => ~stolen'
    BY <2>1 DEF CheckUnlock, At, InSection
  <2> QED
    BY <1>1, <2>2, <2>3, <2>4
    DEF vars, Next, Simulator, ArriveAtEntrance, ArriveAtLevel, ArriveAtExit,
        Present, Step, SectionStep, Lock, Load, Store, Remove, Insert,
        EntranceStep, TestFreeSpots, Refuse, PickLevel, OpenBill, ShowLevel,
        ExitStep, SettleBill, SignalGone, CheckLevel
<1>4. failed' = "none"
  <2>1. failed' \in {"none", "level != 0"}
    BY <1>3 DEF SInv, Inv, ParksInv
  <2>2. \A e \in Entrances : PickLevel(e) => failed' = "none"
    <3> SUFFICES ASSUME NEW e \in Entrances, PickLevel(e) PROVE failed' = "none"
      OBVIOUS
    <3>1. level'[e] = get_available_level(levels) /\ pc[e] = "pick"
      BY <1>1 DEF PickLevel, At, Base, TypeOK
    <3>2. level'[e] # 0 BY <1>1, <3>1, LevelLeft
    <3> QED BY <3>2 DEF PickLevel, AssertThat
  <2> QED
    BY <1>1, <2>1, <2>2
    DEF vars, Next, Simulator, ArriveAtEntrance, ArriveAtLevel, ArriveAtExit,
        Present, Step, SectionStep, Lock, Load, Store, Remove, Insert,
        EndSection, EntranceStep, CheckUnlock, TestFreeSpots, UnlockWhenFull,
        Refuse, OpenBill, ShowLevel, ExitStep, SettleBill, SignalGone,
        CheckLevel, AssertThat
<1> QED BY <1>2, <1>3, <1>4 DEF Room

(* With no more plates on the allow list than parks, the manager never     *)
(* aborts and no thread unlocks the level_m of another: the overbooking    *)
(* and the second unlock both need a car too many.                         *)
THEOREM RoomCorrect == Spec => []RoomForAllIsSafe
<1> DEFINE Fits == Cardinality(AllowList) <= Total
<1>1. Init => (Fits => Room) BY ThreadKinds DEF Init, Room
<1>2. SInv /\ SInv' /\ (Fits => Room) /\ [Next]_vars => (Fits => Room)'
  BY NextRoom
<1>3. (Fits => Room) => RoomForAllIsSafe BY DEF Room, RoomForAllIsSafe
<1> HIDE DEF Fits
<1> QED BY <1>1, <1>2, <1>3, SInvInductive, PTL DEF Spec

-----------------------------------------------------------------------------
(* The abstract car park. *)

(* Only inserting, removing, opening and settling change a car's stage.    *)
LEMMA QuietSteps ==
  ASSUME Inv, [Next]_vars,
         \A t \in Threads : ~ Insert(t) /\ ~ Remove(t),
         \A e \in Entrances : ~ OpenBill(e),
         \A x \in Exits : ~ SettleBill(x)
  PROVE  UNCHANGED Stage
<1> USE ThreadKinds
<1>1. UNCHANGED <<levels, billing>>
  BY DEF vars, Next, Simulator, ArriveAtEntrance, ArriveAtLevel, ArriveAtExit,
         Present, Step, SectionStep, Lock, Load, Store, EndSection, EntranceStep,
         CheckUnlock, TestFreeSpots, UnlockWhenFull, Refuse, PickLevel, ShowLevel,
         ExitStep, SignalGone, CheckLevel
<1>2. ASSUME NEW l \in Levels
      PROVE  /\ pc'[l] = "insert" <=> pc[l] = "insert"
             /\ pc[l] = "insert" => rego'[l] = rego[l]
  <2>1. /\ pc \in [Threads -> Labels] /\ rego \in [Threads -> Regos \union {None}]
    BY DEF Inv, Base, TypeOK
  <2>2. ASSUME NEW t \in Threads, NEW label, Goto(t, label), pc[t] # "insert",
               label # "insert" \/ t \notin Levels,
               \A u \in Threads \ {t} : rego'[u] = rego[u]
        PROVE  /\ pc'[l] = "insert" <=> pc[l] = "insert"
               /\ pc[l] = "insert" => rego'[l] = rego[l]
    BY <2>1, <2>2 DEF Goto
  <2>3. CASE Simulator
    <3>1. PICK t \in Threads, r \in Regos :
            \E from \in {"outside", "inside"}, label \in LabelsOf(t) :
               /\ Present(t, r, from, Place(t), label)
               /\ label \in {"check lock", "refuse", "lock"}
      BY <2>3, Arrivals DEF Inv
    <3>2. PICK label \in {"check lock", "refuse", "lock"} :
            Goto(t, label) /\ pc[t] # "insert" /\ rego' = [rego EXCEPT ![t] = r]
      BY <3>1 DEF Present, At
    <3> QED BY <2>1, <2>2, <3>2
  <2>4. ASSUME NEW t \in Threads, Step(t)
        PROVE  /\ pc'[l] = "insert" <=> pc[l] = "insert"
               /\ pc[l] = "insert" => rego'[l] = rego[l]
    <3>1. PICK label \in Labels : Goto(t, label) /\ (label # "insert" \/ t \notin Levels)
      BY <2>4 DEF Labels, Step, SectionStep, Lock, FirstInSection, Load, Store,
                  EndSection, EntranceStep, CheckUnlock, TestFreeSpots,
                  UnlockWhenFull, Refuse, PickLevel, ShowLevel, ExitStep,
                  SignalGone, CheckLevel, WaitForNext
    <3>2. pc[t] # "insert" /\ \A u \in Threads \ {t} : rego'[u] = rego[u]
      BY <2>1, <2>4
      DEF Step, SectionStep, Lock, Load, Store, EndSection, EntranceStep,
          CheckUnlock, TestFreeSpots, UnlockWhenFull, Refuse, PickLevel,
          ShowLevel, ExitStep, SignalGone, CheckLevel, WaitForNext, At
    <3> QED BY <2>2, <3>1, <3>2
  <2>5. CASE UNCHANGED vars BY <2>5 DEF vars
  <2> QED BY <2>3, <2>4, <2>5 DEF Next
<1>3. Carried' = Carried BY <1>2 DEF Carried
<1>4. Held' = Held BY <1>1, <1>3 DEF Held
<1> QED BY <1>1, <1>4 DEF Stage

(* HeldBound in the next state. *)
LEMMA HeldBoundNext == Inv' /\ ~stolen' => (Cardinality(Held) <= Total)'
<1>1. Inv /\ ~stolen => Cardinality(Held) <= Total BY HeldBound
<1> QED BY <1>1, PTL

(* CarPark counts with the same operator.                                  *)
LEMMA SameSize == ASSUME NEW S PROVE CP!Cardinality(S) = Cardinality(S)
BY DEF CP!Cardinality, Cardinality, CP!IsFiniteSet, IsFiniteSet

(* How the stage of the one car that a step is about changes.              *)
LEMMA StageOf ==
  ASSUME NEW c \in Regos, NEW to,
         \A r \in Regos \ {c} : /\ r \in Held' <=> r \in Held
                                /\ r \in billing' <=> r \in billing,
         to = IF c \in Held' THEN IF c \in billing' THEN "parked" ELSE "assigned"
                             ELSE IF c \in billing' THEN "leaving" ELSE "out"
  PROVE  Stage' = [Stage EXCEPT ![c] = to]
BY DEF Stage

LEMMA CarParkStep ==
  ASSUME SInv, SInv', [Next]_vars, ~stolen'
  PROVE  CP!Next \/ UNCHANGED Stage
<1> USE ThreadKinds
<1>1. Inv /\ Inv' /\ ~stolen /\ Base /\ BillsMatchStays
  BY StolenForever DEF SInv, Inv
<1>2. ASSUME NEW t \in Threads, Insert(t) PROVE CP!Next \/ UNCHANGED Stage
  <2>1. /\ pc[t] = "insert" /\ billing' = billing
        /\ t \in Levels => Held' = Held
        /\ t \in Levels \union Entrances
    BY <1>1, <1>2, HeldAfterInsert DEF Insert, At
  <2>2. CASE t \in Levels BY <2>1, <2>2 DEF Stage
  <2>3. CASE t \in Entrances
    <3>1. PICK c \in AllowList : c = rego[t] BY <1>1, <2>1, Busy
    <3>2. c \in Regos BY RegosAssumption
    <3>3. c \notin Held /\ Held' = Held \union {c}
      BY <1>1, <1>2, <2>3, <3>1, HeldAfterInsert
    <3>4. c \notin billing
      BY <1>1, <2>1, <2>3, <3>1, BillOfServed DEF BillsMatchStays
    <3>5. Stage' = [Stage EXCEPT ![c] = "assigned"]
      BY <2>1, <3>2, <3>3, <3>4, StageOf
    <3>6. Stage[c] = "out" BY <3>2, <3>3, <3>4 DEF Stage
    <3>7. CP!Holding = Held
      <4>1. Held \subseteq Regos BY <1>1, HeldFinite, RegosAssumption
      <4> QED BY <4>1 DEF CP!Holding, Stage
    <3>8. Cardinality(Held) < Total
      <4>1. Cardinality(Held') = Cardinality(Held) + 1
        BY <1>1, <3>3, HeldFinite, FS_AddElement
      <4>2. Cardinality(Held') <= Total BY <1>1, HeldBoundNext
      <4> QED BY <1>1, <4>1, <4>2, HeldFinite, TotalType
    <3>9. CP!Cardinality(CP!Holding) < Total BY <3>7, <3>8, SameSize
    <3>10. CP!Assign(c) BY <3>5, <3>6, <3>9 DEF CP!Assign, CP!Step
    <3> QED BY <3>2, <3>10 DEF CP!Next
  <2> QED BY <2>1, <2>2, <2>3
<1>3. ASSUME NEW t \in Threads, Remove(t) PROVE CP!Next \/ UNCHANGED Stage
  <2>1. /\ pc[t] = "remove" /\ billing' = billing /\ t \in Levels \union Exits
        /\ t \in Levels => Held' = Held
    BY <1>1, <1>3, HeldAfterRemove DEF Remove, At
  <2>2. CASE t \in Levels BY <2>1, <2>2 DEF Stage
  <2>3. CASE t \in Exits
    <3>1. PICK c \in Regos : c = rego[t] BY <1>1, <2>1, Busy
    <3>2. c \in Held /\ Held' = Held \ {c}
      BY <1>1, <1>3, <2>3, <3>1, HeldAfterRemove
    <3>3. c \in billing
      BY <1>1, <2>1, <2>3, <3>1, BillOfServed DEF BillsMatchStays
    <3>4. Stage' = [Stage EXCEPT ![c] = "leaving"] BY <2>1, <3>2, <3>3, StageOf
    <3>5. Stage[c] = "parked" BY <3>2, <3>3 DEF Stage
    <3> QED BY <3>4, <3>5 DEF CP!Next, CP!Vacate, CP!Step
  <2> QED BY <2>1, <2>2, <2>3
<1>4. ASSUME NEW e \in Entrances, OpenBill(e) PROVE CP!Next \/ UNCHANGED Stage
  <2>1. pc[e] = "bill" BY <1>4 DEF OpenBill, At
  <2>2. PICK c \in Regos : c = rego[e] BY <1>1, <2>1, Busy
  <2>3. billing' = billing \union {c} /\ Held' = Held
    <3>1. /\ billing' = billing \union {c} /\ levels' = levels /\ rego' = rego
          /\ \A l \in Levels : pc'[l] = pc[l]
      BY <1>1, <1>4, <2>2 DEF OpenBill, Goto, Base, TypeOK
    <3>2. Carried' = Carried BY <3>1 DEF Carried
    <3> QED BY <3>1, <3>2 DEF Held
  <2>4. c \in Held BY <1>1, <2>1, <2>2, ParkOfServed, HeldIsOwned
  <2>5. c \notin billing BY <1>1, <2>1, <2>2, BillOfServed DEF BillsMatchStays
  <2>6. Stage' = [Stage EXCEPT ![c] = "parked"] BY <2>3, <2>4, StageOf
  <2>7. Stage[c] = "assigned" BY <2>4, <2>5 DEF Stage
  <2> QED BY <2>6, <2>7 DEF CP!Next, CP!OpenBill, CP!Step
<1>5. ASSUME NEW x \in Exits, SettleBill(x) PROVE CP!Next \/ UNCHANGED Stage
  <2>1. pc[x] = "settle" BY <1>5 DEF SettleBill, At
  <2>2. PICK c \in Regos : c = rego[x] BY <1>1, <2>1, Busy
  <2>3. billing' = billing \ {c} /\ Held' = Held
    <3>1. /\ billing' = billing \ {c} /\ levels' = levels /\ rego' = rego
          /\ \A l \in Levels : pc'[l] = pc[l]
      BY <1>1, <1>5, <2>2 DEF SettleBill, Goto, Base, TypeOK
    <3>2. Carried' = Carried BY <3>1 DEF Carried
    <3> QED BY <3>1, <3>2 DEF Held
  <2>4. c \notin Held BY <1>1, <2>1, <2>2, ParkOfServed, HeldIsOwned
  <2>5. c \in billing BY <1>1, <2>1, <2>2, BillOfServed DEF BillsMatchStays
  <2>6. Stage' = [Stage EXCEPT ![c] = "out"] BY <2>3, <2>4, StageOf
  <2>7. Stage[c] = "leaving" BY <2>4, <2>5 DEF Stage
  <2> QED BY <2>6, <2>7 DEF CP!Next, CP!Settle, CP!Step
<1> QED BY <1>1, <1>2, <1>3, <1>4, <1>5, QuietSteps

(* Every step is one of the abstract car park, or none a car can notice,   *)
(* until an entrance unlocks a level_m it does not hold.                   *)
THEOREM ImplementsUntilStolen == Spec => CarParkUntilStolen
<1>1. SInv /\ SInv' /\ [Next]_vars
        => [~stolen' => CP!Next \/ UNCHANGED Stage]_vars
  BY CarParkStep
<1> QED BY <1>1, SInvInductive, PTL DEF Spec, CarParkUntilStolen

(* With no more plates on the allow list than parks the manager implements *)
(* the abstract car park.                                                  *)
THEOREM Implements ==
  ASSUME Cardinality(AllowList) <= Total
  PROVE  Spec => ImplementsCarPark
<1>1. Init => CP!Init
  BY ThreadKinds DEF Init, init_level_data, Held, Carried, Stage, CP!Init
<1>2. SInv /\ SInv' /\ RoomForAllIsSafe' /\ [Next]_vars => [CP!Next]_Stage
  BY CarParkStep DEF RoomForAllIsSafe
<1> QED
  BY <1>1, <1>2, SInvInductive, RoomCorrect, PTL
  DEF Spec, ImplementsCarPark, CP!Spec

-----------------------------------------------------------------------------
(* The trips of the cars, which manager and simulator both follow.         *)

(* Where a car goes when its position changes. *)
LEMMA TripOf ==
  ASSUME TypeOK, NEW r \in Regos, NEW place \in Places, MoveCar(r, place)
  PROVE  /\ place = "onLevel" => Trip' = [Trip EXCEPT ![r] = "inside"]
         /\ place # "onLevel" => Trip' = [Trip EXCEPT ![r] = place]
BY DEF TypeOK, Trip, MoveCar

(* A level's reader is inside, so a car that comes to it or leaves it does *)
(* not get further on its trip.                                            *)
LEMMA AtLevelInside ==
  ASSUME TypeOK, NEW r \in Regos, NEW place \in {"inside", "onLevel"},
         car[r] \in {"inside", "onLevel"}, MoveCar(r, place)
  PROVE  Trip' = Trip
<1>1. place \in Places /\ Trip[r] = "inside" BY DEF Places, Trip
<1>2. Trip' = [Trip EXCEPT ![r] = "inside"] BY <1>1, TripOf
<1> QED BY <1>1, <1>2 DEF Trip

(* The car that a thread answers is in front of its reader. *)
LEMMA ServedHere ==
  ASSUME Base, NEW t \in Threads, pc[t] # "wait"
  PROVE  rego[t] \in Regos /\ car[rego[t]] = Place(t)
BY Busy DEF Base, Serving

LEMMA TripStep ==
  ASSUME Base, [Next]_vars
  PROVE  [TR!Next]_Trip
<1> USE ThreadKinds
<1> SUFFICES ASSUME car' # car PROVE [TR!Next]_Trip
  BY DEF Trip
<1>0. TypeOK BY DEF Base
<1>1. CASE Simulator
  <2>1. PICK r \in Regos :
          \/ \E e \in Entrances : ArriveAtEntrance(e, r)
          \/ \E l \in Levels : ArriveAtLevel(l, r)
          \/ \E x \in Exits : ArriveAtExit(x, r)
    BY <1>1 DEF Simulator
  <2>2. CASE \E e \in Entrances : ArriveAtEntrance(e, r)
    <3>1. car[r] = "outside" /\ MoveCar(r, "entering")
      BY <2>2 DEF ArriveAtEntrance, Present
    <3>2. Trip[r] = "outside" /\ Trip' = [Trip EXCEPT ![r] = "entering"]
      BY <1>0, <3>1, TripOf DEF Trip, Places
    <3> QED BY <3>2 DEF TR!Next, TR!DriveUp, TR!Move
  <2>3. CASE \E l \in Levels : ArriveAtLevel(l, r)
    <3>1. car[r] = "inside" /\ MoveCar(r, "onLevel")
      BY <2>3 DEF ArriveAtLevel, Present
    <3> QED BY <1>0, <3>1, AtLevelInside
  <2>4. CASE \E x \in Exits : ArriveAtExit(x, r)
    <3>1. car[r] = "inside" /\ MoveCar(r, "exiting")
      BY <2>4 DEF ArriveAtExit, Present
    <3>2. Trip[r] = "inside" /\ Trip' = [Trip EXCEPT ![r] = "exiting"]
      BY <1>0, <3>1, TripOf DEF Trip, Places
    <3> QED BY <3>2 DEF TR!Next, TR!Leave, TR!Move
  <2> QED BY <2>1, <2>2, <2>3, <2>4
<1>2. ASSUME NEW e \in Entrances, Refuse(e) PROVE TR!Next
  <2>1. pc[e] # "wait" /\ MoveCar(rego[e], "outside") BY <1>2 DEF Refuse, At
  <2>2. PICK r \in Regos : r = rego[e] /\ car[r] = "entering"
    BY <2>1, ServedHere DEF Place
  <2>3. Trip[r] = "entering" /\ Trip' = [Trip EXCEPT ![r] = "outside"]
    BY <1>0, <2>1, <2>2, TripOf DEF Trip, Places
  <2> QED BY <2>3 DEF TR!Next, TR!TurnAway, TR!Move
<1>3. ASSUME NEW e \in Entrances, ShowLevel(e) PROVE TR!Next
  <2>1. pc[e] = "show" /\ MoveCar(rego[e], "inside") BY <1>3 DEF ShowLevel, At
  <2>2. PICK r \in Regos : r = rego[e] /\ car[r] = "entering"
    BY <2>1, ServedHere DEF Place
  <2>3. r \in AllowList BY <2>1, <2>2, Busy
  <2>4. Trip[r] = "entering" /\ Trip' = [Trip EXCEPT ![r] = "inside"]
    BY <1>0, <2>1, <2>2, TripOf DEF Trip, Places
  <2> QED BY <2>3, <2>4 DEF TR!Next, TR!DriveIn, TR!Move
<1>4. ASSUME NEW l \in Levels, EndSection(l) PROVE Trip' = Trip
  <2>1. pc[l] # "wait" /\ MoveCar(rego[l], "inside") BY <1>4 DEF EndSection, At
  <2>2. rego[l] \in Regos /\ car[rego[l]] = "onLevel"
    BY <2>1, ServedHere DEF Place
  <2> QED BY <1>0, <2>1, <2>2, AtLevelInside
<1>5. ASSUME NEW x \in Exits, SignalGone(x) PROVE TR!Next
  <2>1. pc[x] # "wait" /\ MoveCar(rego[x], "outside") BY <1>5 DEF SignalGone, At
  <2>2. PICK r \in Regos : r = rego[x] /\ car[r] = "exiting"
    BY <2>1, ServedHere DEF Place
  <2>3. Trip[r] = "exiting" /\ Trip' = [Trip EXCEPT ![r] = "outside"]
    BY <1>0, <2>1, <2>2, TripOf DEF Trip, Places
  <2> QED BY <2>3 DEF TR!Next, TR!DriveOff, TR!Move
<1>6. ASSUME NEW t \in Threads, SectionStep(t)
      PROVE  t \in Levels /\ EndSection(t)
  BY <1>6 DEF SectionStep, Lock, Load, Store, Remove, Insert, EndSection
<1>7. ASSUME NEW e \in Entrances, EntranceStep(e)
      PROVE  Refuse(e) \/ ShowLevel(e)
  BY <1>7 DEF EntranceStep, CheckUnlock, TestFreeSpots, UnlockWhenFull, PickLevel, OpenBill
<1>8. ASSUME NEW x \in Exits, ExitStep(x) PROVE SignalGone(x)
  BY <1>8 DEF ExitStep, SettleBill
<1>9. ASSUME NEW l \in Levels, CheckLevel(l) PROVE FALSE
  BY <1>9 DEF CheckLevel
<1>10. CASE \E t \in Threads : Step(t)
  <2>1. PICK t \in Threads : Step(t) BY <1>10
  <2> QED BY <2>1, <1>2, <1>3, <1>4, <1>5, <1>6, <1>7, <1>8, <1>9 DEF Step
<1>11. CASE UNCHANGED vars BY <1>11 DEF vars
<1> QED BY <1>1, <1>10, <1>11 DEF Next

(* Whatever the interleaving of its threads, and even after a stolen       *)
(* level_m, the manager answers each car once, at the gate where it is,    *)
(* and lets in only cars of the allow list: its cars make the same trips   *)
(* as those of the simulator (manager_funcs.c:97-366).                     *)
THEOREM ManagerMakesTrips == Spec => ImplementsTrips
<1>1. Init => TR!Init BY DEF Init, Trip, TR!Init
<1>2. Inv /\ [Next]_vars => [TR!Next]_Trip BY TripStep DEF Inv
<1> QED BY <1>1, <1>2, InvInductive, PTL DEF Spec, ImplementsTrips, TR!Spec

=============================================================================
