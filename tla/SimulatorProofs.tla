-------------------------- MODULE SimulatorProofs --------------------------
(***************************************************************************)
(* The simulator never loses a plate and never sends two cars with the     *)
(* same one, for any number of gates, plates and allowed plates.           *)
(*                                                                         *)
(* Its invariant says that data keep their types, that the generator has a *)
(* plate exactly between its choice and its push, that only allowed plates *)
(* get past an entrance, and that a plate is at one place of its way while *)
(* it circulates and at none otherwise.  Every step then moves one car     *)
(* from one place to another, moves up a line of cars, or lets one car in  *)
(* or out of circulation.                                                  *)
(***************************************************************************)
EXTENDS Simulator, SequenceTheorems, FiniteSetTheorems, TLAPS

-----------------------------------------------------------------------------
(* Types.                                                                  *)

GeneratorTyped ==
  /\ generating \in {"choose", "insert", "push"}
  /\ rego \in Plates \union {None}
  /\ rego = None <=> generating = "choose"

(* Only a level on the sign gets a car into the car park. *)
OnlyAllowedInside ==
  /\ \A r \in Plates : visits[r] # None => r \in AllowList
  /\ exit_queues \in [Exits -> Seq(AllowList)]
  /\ leaving \in [Exits -> AllowList \union {None}]

Typed ==
  /\ outside \subseteq AllowList
  /\ inside \subseteq Plates
  /\ GeneratorTyped
  /\ entrance_queues \in [Entrances -> Seq(Plates)]
  /\ head \in [Entrances -> Plates \union {None}]
  /\ visits \in [Plates -> 0 .. 4 \union {None}]
  /\ OnlyAllowedInside
  /\ exited \in BOOLEAN

LEMMA TypedInit == Init => Typed
<1> SUFFICES ASSUME Init PROVE Typed
  OBVIOUS
<1>1. <<>> \in Seq(Plates) /\ <<>> \in Seq(AllowList)
  BY EmptySeq
<1> QED
  BY <1>1, PlatesAssumption DEF Init, Typed, GeneratorTyped, OnlyAllowedInside

LEMMA TypedGenerator == Typed /\ Generator => Typed'
<1> SUFFICES ASSUME Typed, Generator PROVE Typed'
  OBVIOUS
<1> USE PlatesAssumption
<1>1. ASSUME NEW r \in Plates, TakeOutside(r) \/ GeneratePlate(r)
      PROVE  Typed'
  BY <1>1 DEF Typed, GeneratorTyped, OnlyAllowedInside, TakeOutside, GeneratePlate, gates
<1>2. CASE InsertInside
  BY <1>2 DEF Typed, GeneratorTyped, OnlyAllowedInside, InsertInside, gates
<1>3. ASSUME NEW e \in Entrances, PushToEntrance(e)
      PROVE  Typed'
  <2>1. rego \in Plates /\ entrance_queues[e] \in Seq(Plates)
    BY <1>3 DEF Typed, GeneratorTyped, PushToEntrance
  <2>2. Append(entrance_queues[e], rego) \in Seq(Plates)
    BY <2>1, AppendProperties
  <2> QED
    BY <1>3, <2>2 DEF Typed, GeneratorTyped, OnlyAllowedInside, PushToEntrance
<1> QED BY <1>1, <1>2, <1>3 DEF Generator, Push

LEMMA TypedEntrance ==
  ASSUME NEW e \in Entrances, Typed, Entrance(e)
  PROVE  Typed'
<1> USE PlatesAssumption
<1>1. CASE PopEntrance(e)
  <2>1. /\ Head(entrance_queues[e]) \in Plates
        /\ Tail(entrance_queues[e]) \in Seq(Plates)
    BY <1>1, HeadTailProperties DEF Typed, PopEntrance
  <2> QED
    BY <1>1, <2>1
    DEF Typed, GeneratorTyped, OnlyAllowedInside, PopEntrance, generator
<1>2. CASE Admit(e)
  BY <1>2 DEF Typed, GeneratorTyped, OnlyAllowedInside, Admit, generator
<1>3. CASE Refuse(e)
  BY <1>3
  DEF Typed, GeneratorTyped, OnlyAllowedInside, Refuse, remove_inside, generator
<1> QED BY <1>1, <1>2, <1>3 DEF Entrance

LEMMA TypedCar ==
  ASSUME NEW r \in Plates, Typed, Car(r)
  PROVE  Typed'
<1> USE PlatesAssumption
<1>1. CASE VisitLevel(r)
  <2>1. PICK d \in exit_decision : d + 2 * visits[r] <= 7
    BY <1>1 DEF VisitLevel
  <2>2. visits[r] \in 0 .. 4
    BY <1>1 DEF Typed, VisitLevel
  <2>3. visits[r] + 1 \in 0 .. 4
    BY <2>1, <2>2 DEF exit_decision
  <2> QED
    BY <1>1, <2>3
    DEF Typed, GeneratorTyped, OnlyAllowedInside, VisitLevel, generator, gates
<1>2. ASSUME NEW x \in Exits, PushToExit(r, x)
      PROVE  Typed'
  <2>1. r \in AllowList /\ exit_queues[x] \in Seq(AllowList)
    BY <1>2 DEF Typed, OnlyAllowedInside, PushToExit
  <2>2. Append(exit_queues[x], r) \in Seq(AllowList)
    BY <2>1, AppendProperties
  <2> QED
    BY <1>2, <2>2
    DEF Typed, GeneratorTyped, OnlyAllowedInside, PushToExit, generator
<1> QED BY <1>1, <1>2 DEF Car

LEMMA TypedExit ==
  ASSUME NEW x \in Exits, Typed, Exit(x)
  PROVE  Typed'
<1> USE PlatesAssumption
<1>1. CASE PopExit(x)
  <2>1. /\ Head(exit_queues[x]) \in AllowList
        /\ Tail(exit_queues[x]) \in Seq(AllowList)
    BY <1>1, HeadTailProperties DEF Typed, OnlyAllowedInside, PopExit
  <2> QED
    BY <1>1, <2>1
    DEF Typed, GeneratorTyped, OnlyAllowedInside, PopExit, generator
<1>2. CASE TakeOut(x)
  BY <1>2
  DEF Typed, GeneratorTyped, OnlyAllowedInside, TakeOut, remove_inside, generator
<1> QED BY <1>1, <1>2 DEF Exit

LEMMA TypedNext == Typed /\ [Next]_vars => Typed'
<1>1. Typed /\ UNCHANGED vars => Typed'
  BY DEF Typed, GeneratorTyped, OnlyAllowedInside, vars, generator, gates
<1> QED
  BY <1>1, TypedGenerator, TypedEntrance, TypedCar, TypedExit DEF Next

LEMMA AllowedSequences == Seq(AllowList) \subseteq Seq(Plates)
BY PlatesAssumption, SeqMonotonic

LEMMA TypedIsType == Typed => TypeOK
BY PlatesAssumption, AllowedSequences
DEF Typed, GeneratorTyped, OnlyAllowedInside, TypeOK

(* All data of the simulator keep their types, and no car visits a fifth   *)
(* level: by then its decision to leave is certain (simulator_funcs.c:396).*)
THEOREM TypeCorrect == Spec => []TypeOK
<1>1. Spec => []Typed
  BY TypedInit, TypedNext, PTL DEF Spec
<1> QED BY <1>1, TypedIsType, PTL

-----------------------------------------------------------------------------
(* Lines of cars: one in front of a gate, the others in its queue.         *)

LEMMA AllowedIsFiner == \A r \in AllowList \union {None} : r \in Plates \union {None}
BY PlatesAssumption

LEMMA PositionsOfNobody ==
  ASSUME NEW r \in Plates
  PROVE  Positions(r, None, <<>>) = {}
BY PlatesAssumption, EmptySeq DEF Positions

LEMMA PositionsOfLonger ==
  ASSUME NEW r, NEW front, NEW queue \in Seq(Plates), NEW c \in Plates
  PROVE  /\ r = c => Positions(r, front, Append(queue, c))
                       = Positions(r, front, queue) \union {Len(queue) + 1}
         /\ r # c => Positions(r, front, Append(queue, c))
                       = Positions(r, front, queue)
<1> DEFINE longer == Append(queue, c)
<1>1. /\ Len(queue) \in Nat
      /\ Len(longer) = Len(queue) + 1
      /\ \A i \in 1 .. Len(queue) : longer[i] = queue[i]
      /\ longer[Len(queue) + 1] = c
  BY AppendProperties, LenProperties
<1> HIDE DEF longer
<1>2. r = c => Positions(r, front, longer)
                = Positions(r, front, queue) \union {Len(queue) + 1}
  BY <1>1 DEF Positions
<1>3. r # c => Positions(r, front, longer) = Positions(r, front, queue)
  BY <1>1 DEF Positions
<1> QED BY <1>2, <1>3 DEF longer

LEMMA PositionsMoveUp ==
  ASSUME NEW r \in Plates, NEW queue \in Seq(Plates), queue # <<>>
  PROVE  Positions(r, Head(queue), Tail(queue))
           = {i - 1 : i \in Positions(r, None, queue)}
<1>1. /\ Len(queue) \in Nat \ {0}
      /\ Len(Tail(queue)) = Len(queue) - 1
      /\ \A i \in 1 .. Len(queue) - 1 : Tail(queue)[i] = queue[i + 1]
      /\ Head(queue) = queue[1]
  BY HeadTailProperties, EmptySeq
<1>2. r # None BY PlatesAssumption
<1>3. ASSUME NEW j \in Positions(r, Head(queue), Tail(queue))
      PROVE  j + 1 \in Positions(r, None, queue) /\ j = (j + 1) - 1
  BY <1>1, <1>2 DEF Positions
<1>4. ASSUME NEW i \in Positions(r, None, queue)
      PROVE  i - 1 \in Positions(r, Head(queue), Tail(queue))
  BY <1>1, <1>2 DEF Positions
<1> QED BY <1>3, <1>4

LEMMA PositionsWithoutFront ==
  ASSUME NEW r \in Plates, NEW front, NEW queue \in Seq(Plates)
  PROVE  Positions(r, None, queue) = Positions(r, front, queue) \ {0}
<1>1. Len(queue) \in Nat /\ r # None
  BY LenProperties, PlatesAssumption
<1> QED BY <1>1 DEF Positions

LEMMA FrontPosition ==
  ASSUME NEW r, NEW front, NEW queue \in Seq(Plates)
  PROVE  0 \in Positions(r, front, queue) <=> r = front
<1>1. Len(queue) \in Nat BY LenProperties
<1> QED BY <1>1 DEF Positions

(* What it means to be at a place. *)
MeaningOfPlaces ==
  \A r : \A p : p \in Places(r) <=>
    \/ p = <<"generator", None, 0>> /\ rego = r
    \/ \E e \in Entrances : \E i \in Positions(r, head[e], entrance_queues[e]) :
         p = <<"entrance", e, i>>
    \/ p = <<"road", None, 0>> /\ visits[r] # None
    \/ \E x \in Exits : \E i \in Positions(r, leaving[x], exit_queues[x]) :
         p = <<"exit", x, i>>

LEMMA AtPlace == MeaningOfPlaces
<1> SUFFICES ASSUME NEW r PROVE MeaningOfPlaces!(r)
  BY DEF MeaningOfPlaces
<1>1. \A p : p \in {<<"generator", None, 0>> : hand \in {rego} \intersect {r}}
               <=> p = <<"generator", None, 0>> /\ rego = r
  OBVIOUS
<1>2. \A p : p \in InLines(r, "entrance", Entrances, head, entrance_queues) <=>
               \E e \in Entrances : \E i \in Positions(r, head[e], entrance_queues[e]) :
                 p = <<"entrance", e, i>>
  BY DEF InLines
<1>3. \A p : p \in {<<"road", None, 0>> : v \in {visits[r]} \ {None}}
               <=> p = <<"road", None, 0>> /\ visits[r] # None
  OBVIOUS
<1>4. \A p : p \in InLines(r, "exit", Exits, leaving, exit_queues) <=>
               \E x \in Exits : \E i \in Positions(r, leaving[x], exit_queues[x]) :
                 p = <<"exit", x, i>>
  BY DEF InLines
<1> QED BY <1>1, <1>2, <1>3, <1>4, Zenon DEF Places

LEMMA AtPlaceNext == MeaningOfPlaces'
BY AtPlace, PTL

(* The places of a plate depend on nothing but these. *)
LEMMA SamePlaces ==
  ASSUME NEW r \in Plates,
         rego' = r <=> rego = r,
         \A e \in Entrances : Positions(r, head[e], entrance_queues[e])'
                                = Positions(r, head[e], entrance_queues[e]),
         visits'[r] # None <=> visits[r] # None,
         \A x \in Exits : Positions(r, leaving[x], exit_queues[x])'
                            = Positions(r, leaving[x], exit_queues[x])
  PROVE  Places(r)' = Places(r)
BY DEF Places, InLines

-----------------------------------------------------------------------------
(* The invariant.                                                          *)

(* A plate that circulates has one place, and any other has none. *)
Placed(r) == IF Circulates(r) THEN \E p : Places(r) = {p} ELSE Places(r) = {}

Inv ==
  /\ Typed
  /\ \A r \in Plates : Placed(r)
  /\ MapsSound
  /\ AllowedCarsCirculate

(* A plate in the hand of the generator, in front of a gate or in a thread *)
(* is nowhere else, and circulates.                                        *)
LEMMA AtItsOnlyPlace ==
  ASSUME Inv, NEW r \in Plates, NEW p \in Places(r)
  PROVE  Places(r) = {p} /\ Circulates(r)
BY DEF Inv, Placed

(* The cars that a step leaves alone. *)
LEMMA Unmoved ==
  ASSUME Inv, NEW r \in Plates, Places(r)' = Places(r),
         Circulates(r)' <=> Circulates(r)
  PROVE  Placed(r)'
BY DEF Inv, Placed

LEMMA PlacesInit == Init => Inv
<1> SUFFICES ASSUME Init PROVE Inv
  OBVIOUS
<1>1. Typed BY TypedInit
<1>2. ASSUME NEW r \in Plates
      PROVE  Places(r) = {}
  <2>1. \A e \in Entrances : Positions(r, head[e], entrance_queues[e]) = {}
    BY PositionsOfNobody DEF Init
  <2>2. \A x \in Exits : Positions(r, leaving[x], exit_queues[x]) = {}
    BY PositionsOfNobody DEF Init
  <2>3. rego # r /\ visits[r] = None
    BY PlatesAssumption DEF Init
  <2> QED BY <2>1, <2>2, <2>3, AtPlace DEF MeaningOfPlaces
<1>3. \A r \in Plates : Placed(r)
  BY <1>2 DEF Placed, Circulates, Init
<1>4. MapsSound /\ AllowedCarsCirculate
  BY DEF Init, MapsSound, AllowedCarsCirculate
<1> QED BY <1>1, <1>3, <1>4 DEF Inv

-----------------------------------------------------------------------------
(* The generator.                                                          *)

LEMMA ChooseKeeps ==
  ASSUME Inv, NEW r \in Plates, TakeOutside(r) \/ GeneratePlate(r)
  PROVE  Inv'
<1> DEFINE hand == <<"generator", None, 0>>
<1>1. Typed' BY TypedGenerator DEF Inv, Generator
<1>2. /\ generating = "choose" /\ generating' = "insert"
      /\ rego = None /\ rego' = r /\ r # None
      /\ inside' = inside /\ r \notin inside
      /\ UNCHANGED <<gates, visits>>
  BY PlatesAssumption
  DEF Inv, Typed, GeneratorTyped, MapsSound, TakeOutside, GeneratePlate
<1>3. ASSUME NEW s \in Plates, s # r
      PROVE  Placed(s)'
  <2>1. Places(s)' = Places(s)
    BY <1>2, <1>3, PlatesAssumption, SamePlaces DEF gates
  <2>2. Circulates(s)' <=> Circulates(s)
    BY <1>2, <1>3 DEF Circulates
  <2> QED BY <2>1, <2>2, Unmoved
<1>4. Places(r) = {}
  BY <1>2 DEF Inv, Placed, Circulates
<1>5. Placed(r)'
  <2>1. \A p : p \in Places(r)' <=> p \in Places(r) \/ p = hand
    BY <1>2, AtPlace, AtPlaceNext DEF MeaningOfPlaces, gates
  <2>2. Places(r)' = {hand}
    BY <1>4, <2>1
  <2> QED BY <1>2, <2>2 DEF Placed, Circulates
<1>6. \A s \in Plates : Placed(s)'
  BY <1>3, <1>5
<1>7. MapsSound' /\ AllowedCarsCirculate'
  BY <1>2, PlatesAssumption
  DEF Inv, MapsSound, AllowedCarsCirculate, TakeOutside, GeneratePlate
<1> QED BY <1>1, <1>6, <1>7 DEF Inv

LEMMA InsertKeeps == Inv /\ InsertInside => Inv'
<1> SUFFICES ASSUME Inv, InsertInside PROVE Inv'
  OBVIOUS
<1>1. Typed' BY TypedGenerator DEF Inv, Generator, Push
<1>2. ASSUME NEW s \in Plates
      PROVE  Placed(s)'
  <2>1. Places(s)' = Places(s)
    BY SamePlaces DEF InsertInside, gates
  <2>2. Circulates(s)' <=> Circulates(s)
    BY DEF Circulates, InsertInside
  <2> QED BY <2>1, <2>2, Unmoved
<1>4. MapsSound' /\ AllowedCarsCirculate'
  BY DEF Inv, MapsSound, AllowedCarsCirculate, InsertInside
<1> QED BY <1>1, <1>2, <1>4 DEF Inv

LEMMA PushToEntranceKeeps ==
  ASSUME Inv, NEW e \in Entrances, PushToEntrance(e)
  PROVE  Inv'
<1> DEFINE hand == <<"generator", None, 0>>
           behind == Len(entrance_queues[e]) + 1
           last == <<"entrance", e, behind>>
<1>1. Typed' BY TypedGenerator DEF Inv, Generator, Push
<1>2. /\ rego \in Plates /\ rego' = None /\ None \notin Plates
      /\ entrance_queues[e] \in Seq(Plates)
      /\ entrance_queues' = [entrance_queues EXCEPT ![e] = Append(@, rego)]
      /\ entrance_queues'[e] = Append(entrance_queues[e], rego)
      /\ UNCHANGED <<inside, outside, exited, head, visits, exit_queues, leaving>>
      /\ generating = "push" /\ generating' = "choose"
  BY PlatesAssumption DEF Inv, Typed, GeneratorTyped, PushToEntrance
<1>3. ASSUME NEW s \in Plates
      PROVE  /\ s = rego => Positions(s, head[e], entrance_queues[e])'
                 = Positions(s, head[e], entrance_queues[e]) \union {behind}
             /\ s # rego => Positions(s, head[e], entrance_queues[e])'
                 = Positions(s, head[e], entrance_queues[e])
  BY <1>2, PositionsOfLonger
<1>4. \A s \in Plates, f \in Entrances \ {e} :
        Positions(s, head[f], entrance_queues[f])'
          = Positions(s, head[f], entrance_queues[f])
  BY <1>2
<1>5. PICK c \in Plates : c = rego BY <1>2
<1>6. Places(c) = {hand} /\ c \in inside
  <2>1. hand \in Places(c)
    BY <1>5, AtPlace DEF MeaningOfPlaces
  <2> QED BY <1>2, <2>1, AtItsOnlyPlace DEF Circulates
<1>7. \A s \in Plates : Circulates(s)' <=> Circulates(s)
  BY <1>2 DEF Circulates
<1>8. ASSUME NEW s \in Plates, s # c
      PROVE  Placed(s)'
  <2>1. \A f \in Entrances : Positions(s, head[f], entrance_queues[f])'
                               = Positions(s, head[f], entrance_queues[f])
    BY <1>3, <1>4, <1>5, <1>8
  <2>2. Places(s)' = Places(s)
    BY <1>2, <1>5, <1>8, <2>1, SamePlaces
  <2> QED BY <1>7, <2>2, Unmoved
<1>9. Placed(c)'
  <2>1. /\ Positions(c, head[e], entrance_queues[e])'
             = Positions(c, head[e], entrance_queues[e]) \union {behind}
        /\ \A f \in Entrances \ {e} :
             Positions(c, head[f], entrance_queues[f])'
               = Positions(c, head[f], entrance_queues[f])
    BY <1>3, <1>4, <1>5
  <2>2. \A p : p \in Places(c)' <=> (p \in Places(c) /\ p # hand) \/ p = last
    <3> HIDE DEF behind
    <3> QED
      BY <1>2, <1>5, <2>1, AtPlace, AtPlaceNext DEF MeaningOfPlaces
  <2>3. Places(c)' = {last}
    BY <1>6, <2>2
  <2>4. Circulates(c)'
    BY <1>2, <1>6 DEF Circulates
  <2> QED BY <2>3, <2>4 DEF Placed
<1>10. MapsSound' /\ AllowedCarsCirculate'
  BY <1>2, <1>5, <1>6 DEF Inv, MapsSound, AllowedCarsCirculate
<1> QED BY <1>1, <1>8, <1>9, <1>10 DEF Inv

-----------------------------------------------------------------------------
(* The entrances.                                                          *)

LEMMA PopEntranceKeeps ==
  ASSUME Inv, NEW e \in Entrances, PopEntrance(e)
  PROVE  Inv'
<1> DEFINE Forth(p) == IF p[1] = "entrance" /\ p[2] = e
                       THEN <<"entrance", e, p[3] - 1>> ELSE p
<1>1. Typed' BY TypedEntrance DEF Inv, Entrance
<1>2. /\ entrance_queues[e] \in Seq(Plates) /\ entrance_queues[e] # <<>>
      /\ head[e] = None
      /\ head'[e] = Head(entrance_queues[e])
      /\ entrance_queues'[e] = Tail(entrance_queues[e])
      /\ \A f \in Entrances \ {e} : /\ head'[f] = head[f]
                                    /\ entrance_queues'[f] = entrance_queues[f]
      /\ UNCHANGED <<outside, inside, generating, rego, exit_queues, leaving, visits,
                     exited>>
  BY DEF Inv, Typed, PopEntrance, generator
<1>3. ASSUME NEW s \in Plates
      PROVE  Positions(s, head[e], entrance_queues[e])'
               = {i - 1 : i \in Positions(s, head[e], entrance_queues[e])}
  BY <1>2, PositionsMoveUp
<1>4. \A s \in Plates, f \in Entrances \ {e} :
        Positions(s, head[f], entrance_queues[f])'
          = Positions(s, head[f], entrance_queues[f])
  BY <1>2
<1>5. ASSUME NEW s \in Plates
      PROVE  Placed(s)'
  <2>1. Circulates(s)' <=> Circulates(s)
    BY <1>2 DEF Circulates
  <2>2. ASSUME NEW p \in Places(s)
        PROVE  Forth(p) \in Places(s)'
    BY <1>2, <1>3, <1>4, <2>2, AtPlace, AtPlaceNext DEF MeaningOfPlaces
  <2>3. ASSUME NEW q \in Places(s)'
        PROVE  \E p \in Places(s) : q = Forth(p)
    <3>1. ASSUME NEW i \in Positions(s, head[e], entrance_queues[e])',
                 q = <<"entrance", e, i>>
          PROVE  \E p \in Places(s) : q = Forth(p)
      <4>1. PICK j \in Positions(s, head[e], entrance_queues[e]) : i = j - 1
        BY <1>3, <3>1
      <4>2. <<"entrance", e, j>> \in Places(s)
        BY <4>1, AtPlace DEF MeaningOfPlaces
      <4>3. q = Forth(<<"entrance", e, j>>) BY <3>1, <4>1
      <4> QED BY <4>2, <4>3
    <3>2. CASE ~ (q[1] = "entrance" /\ q[2] = e)
      <4>1. q = Forth(q) BY <3>2
      <4>2. q \in Places(s)
        BY <1>2, <1>4, <2>3, <3>2, AtPlace, AtPlaceNext DEF MeaningOfPlaces
      <4> QED BY <4>1, <4>2
    <3>3. q[1] = "entrance" /\ q[2] = e =>
            \E i \in Positions(s, head[e], entrance_queues[e])' :
              q = <<"entrance", e, i>>
      BY <2>3, AtPlaceNext DEF MeaningOfPlaces
    <3> QED BY <3>1, <3>2, <3>3
  <2> HIDE DEF Forth
  <2>4. CASE Circulates(s)
    <3>1. PICK p : Places(s) = {p} BY <2>4 DEF Inv, Placed
    <3>2. Places(s)' = {Forth(p)} BY <2>2, <2>3, <3>1
    <3> QED BY <2>1, <2>4, <3>2 DEF Placed
  <2>5. CASE ~Circulates(s)
    <3>1. Places(s)' = {} BY <2>3, <2>5 DEF Inv, Placed
    <3> QED BY <2>1, <2>5, <3>1 DEF Placed
  <2> QED BY <2>4, <2>5
<1>6. MapsSound' /\ AllowedCarsCirculate'
  BY <1>2 DEF Inv, MapsSound, AllowedCarsCirculate
<1> QED BY <1>1, <1>5, <1>6 DEF Inv

(* The car in front of an entrance leaves it. *)
LEMMA FrontIsFree ==
  ASSUME Inv, NEW e \in Entrances, head[e] # None,
         head' = [head EXCEPT ![e] = None],
         UNCHANGED <<rego, entrance_queues, exit_queues, leaving>>
  PROVE  /\ head[e] \in Plates
         /\ Places(head[e]) = {<<"entrance", e, 0>>}
         /\ head[e] \in inside
         /\ generating = "insert" => rego # head[e]
         /\ \A s \in Plates, f \in Entrances :
              f # e \/ s # head[e] => Positions(s, head[f], entrance_queues[f])'
                                        = Positions(s, head[f], entrance_queues[f])
         /\ \A s \in Plates : s = head[e] =>
              Positions(s, head[e], entrance_queues[e])'
                = Positions(s, head[e], entrance_queues[e]) \ {0}
<1> DEFINE front == <<"entrance", e, 0>>
<1>1. /\ head[e] \in Plates
      /\ \A f \in Entrances : entrance_queues[f] \in Seq(Plates)
      /\ head'[e] = None
      /\ \A f \in Entrances \ {e} : head'[f] = head[f]
  BY DEF Inv, Typed
<1>2. front \in Places(head[e])
  BY <1>1, FrontPosition, AtPlace DEF MeaningOfPlaces
<1>3. Places(head[e]) = {front} /\ Circulates(head[e])
  BY <1>1, <1>2, AtItsOnlyPlace
<1>4. rego # head[e]
  <2>1. <<"generator", None, 0>> \notin Places(head[e])
    BY <1>3
  <2> QED BY <2>1, AtPlace DEF MeaningOfPlaces
<1>5. ASSUME NEW s \in Plates, NEW f \in Entrances, f # e \/ s # head[e]
      PROVE  Positions(s, head[f], entrance_queues[f])'
               = Positions(s, head[f], entrance_queues[f])
  <2>1. CASE f # e BY <1>1, <2>1
  <2>2. CASE f = e
    <3>1. 0 \notin Positions(s, head[e], entrance_queues[e])
      BY <1>1, <1>5, <2>2, FrontPosition
    <3>2. Positions(s, None, entrance_queues[e])
            = Positions(s, head[e], entrance_queues[e]) \ {0}
      BY <1>1, PositionsWithoutFront
    <3>3. Positions(s, None, entrance_queues[e])
            = Positions(s, head[e], entrance_queues[e])
      BY <3>1, <3>2
    <3> QED BY <1>1, <2>2, <3>3
  <2> QED BY <2>1, <2>2
<1>6. head[e] \in inside
  BY <1>3, <1>4 DEF Circulates
<1>7. ASSUME NEW s \in Plates
      PROVE  Positions(s, head[e], entrance_queues[e])'
               = Positions(s, head[e], entrance_queues[e]) \ {0}
  <2>1. Positions(s, None, entrance_queues[e])
          = Positions(s, head[e], entrance_queues[e]) \ {0}
    BY <1>1, PositionsWithoutFront
  <2> QED BY <1>1, <2>1
<1> QED BY <1>1, <1>3, <1>4, <1>5, <1>6, <1>7

LEMMA AdmitKeeps ==
  ASSUME Inv, NEW e \in Entrances, Admit(e)
  PROVE  Inv'
<1> DEFINE road == <<"road", None, 0>>
<1>1. Typed' BY TypedEntrance DEF Inv, Entrance
<1>2. /\ head[e] \in AllowList /\ head[e] # None
      /\ visits' = [visits EXCEPT ![head[e]] = 0]
      /\ head' = [head EXCEPT ![e] = None]
      /\ UNCHANGED <<outside, inside, generating, rego, entrance_queues, exit_queues,
                     leaving, exited>>
      /\ visits \in [Plates -> 0 .. 4 \union {None}] /\ None # 0
  BY PlatesAssumption DEF Inv, Typed, Admit, generator
<1>3. PICK c \in Plates : c = head[e]
  BY <1>2, PlatesAssumption
<1>4. /\ Places(c) = {<<"entrance", e, 0>>}
      /\ c \in inside
      /\ \A s \in Plates, f \in Entrances :
           f # e \/ s # c => Positions(s, head[f], entrance_queues[f])'
                               = Positions(s, head[f], entrance_queues[f])
      /\ Positions(c, head[e], entrance_queues[e])'
           = Positions(c, head[e], entrance_queues[e]) \ {0}
  <2>1. /\ Places(head[e]) = {<<"entrance", e, 0>>}
        /\ head[e] \in inside
        /\ \A s \in Plates, f \in Entrances :
             f # e \/ s # head[e] => Positions(s, head[f], entrance_queues[f])'
                                       = Positions(s, head[f], entrance_queues[f])
        /\ \A s \in Plates : s = head[e] =>
             Positions(s, head[e], entrance_queues[e])'
               = Positions(s, head[e], entrance_queues[e]) \ {0}
    BY <1>2, FrontIsFree
  <2> QED BY <1>3, <2>1
<1>5. visits'[c] = 0 /\ \A s \in Plates \ {c} : visits'[s] = visits[s]
  BY <1>2, <1>3
<1>6. \A s \in Plates : Circulates(s)' <=> Circulates(s)
  BY <1>2 DEF Circulates
<1>7. ASSUME NEW s \in Plates, s # c
      PROVE  Placed(s)'
  <2>1. \A f \in Entrances : Positions(s, head[f], entrance_queues[f])'
                               = Positions(s, head[f], entrance_queues[f])
    BY <1>4, <1>7
  <2>2. \A x \in Exits : Positions(s, leaving[x], exit_queues[x])'
                            = Positions(s, leaving[x], exit_queues[x])
    BY <1>2
  <2>3. Places(s)' = Places(s)
    BY <1>2, <1>5, <1>7, <2>1, <2>2, SamePlaces
  <2> QED BY <1>6, <2>3, Unmoved
<1>8. Placed(c)'
  <2>1. \A p : p \in Places(c)' => p \in Places(c) \/ p = road
    <3>1. \A x \in Exits : Positions(c, leaving[x], exit_queues[x])'
                              = Positions(c, leaving[x], exit_queues[x])
      BY <1>2
    <3>2. \A f \in Entrances : Positions(c, head[f], entrance_queues[f])'
                                 \subseteq Positions(c, head[f], entrance_queues[f])
      BY <1>4
    <3> QED
      BY <1>2, <3>1, <3>2, AtPlace, AtPlaceNext DEF MeaningOfPlaces
  <2>2. <<"entrance", e, 0>> \notin Places(c)'
    BY <1>4, AtPlaceNext DEF MeaningOfPlaces
  <2>3. road \in Places(c)'
    BY <1>2, <1>5, AtPlaceNext DEF MeaningOfPlaces
  <2>4. Places(c)' = {road}
    BY <1>4, <2>1, <2>2, <2>3
  <2>5. Circulates(c)'
    BY <1>2, <1>4 DEF Circulates
  <2> QED BY <2>4, <2>5 DEF Placed
<1>9. MapsSound' /\ AllowedCarsCirculate'
  BY <1>2 DEF Inv, MapsSound, AllowedCarsCirculate
<1> QED BY <1>1, <1>7, <1>8, <1>9 DEF Inv

LEMMA RefuseKeeps ==
  ASSUME Inv, NEW e \in Entrances, Refuse(e)
  PROVE  Inv'
<1>1. Typed' BY TypedEntrance DEF Inv, Entrance
<1>2. /\ head[e] # None
      /\ head' = [head EXCEPT ![e] = None]
      /\ outside' = outside \union ({head[e]} \intersect AllowList)
      /\ inside' = inside \ {head[e]} /\ exited' = (inside = {})
      /\ UNCHANGED <<generating, rego, entrance_queues, visits, exit_queues, leaving>>
  BY DEF Refuse, remove_inside, generator
<1>3. /\ head[e] \in Plates
      /\ Places(head[e]) = {<<"entrance", e, 0>>}
      /\ head[e] \in inside
      /\ generating = "insert" => rego # head[e]
      /\ \A s \in Plates, f \in Entrances :
           f # e \/ s # head[e] => Positions(s, head[f], entrance_queues[f])'
                                     = Positions(s, head[f], entrance_queues[f])
      /\ \A s \in Plates : s = head[e] =>
           Positions(s, head[e], entrance_queues[e])'
             = Positions(s, head[e], entrance_queues[e]) \ {0}
  BY <1>2, FrontIsFree
<1>4. PICK c \in Plates : c = head[e]
  BY <1>3
<1>5. ASSUME NEW s \in Plates, s # c
      PROVE  Placed(s)'
  <2>1. \A f \in Entrances : Positions(s, head[f], entrance_queues[f])'
                               = Positions(s, head[f], entrance_queues[f])
    BY <1>3, <1>4, <1>5
  <2>2. \A x \in Exits : Positions(s, leaving[x], exit_queues[x])'
                            = Positions(s, leaving[x], exit_queues[x])
    BY <1>2
  <2>3. Places(s)' = Places(s)
    BY <1>2, <2>1, <2>2, SamePlaces
  <2>4. Circulates(s)' <=> Circulates(s)
    BY <1>2, <1>4, <1>5 DEF Circulates
  <2> QED BY <2>3, <2>4, Unmoved
<1>6. Placed(c)'
  <2>1. \A p : p \in Places(c)' => p \in Places(c)
    <3>1. \A x \in Exits : Positions(c, leaving[x], exit_queues[x])'
                              = Positions(c, leaving[x], exit_queues[x])
      BY <1>2
    <3>2. \A f \in Entrances : Positions(c, head[f], entrance_queues[f])'
                                 \subseteq Positions(c, head[f], entrance_queues[f])
      BY <1>3, <1>4
    <3> QED
      BY <1>2, <3>1, <3>2, AtPlace, AtPlaceNext DEF MeaningOfPlaces
  <2>2. <<"entrance", e, 0>> \notin Places(c)'
    BY <1>3, <1>4, AtPlaceNext DEF MeaningOfPlaces
  <2>3. Places(c)' = {}
    BY <1>3, <1>4, <2>1, <2>2
  <2>4. ~Circulates(c)'
    BY <1>2, <1>3, <1>4 DEF Circulates
  <2> QED BY <2>3, <2>4 DEF Placed
<1>7. MapsSound' /\ AllowedCarsCirculate'
  BY <1>2, <1>3 DEF Inv, MapsSound, AllowedCarsCirculate
<1> QED BY <1>1, <1>5, <1>6, <1>7 DEF Inv

-----------------------------------------------------------------------------
(* The threads of the cars.                                                *)

LEMMA VisitLevelKeeps ==
  ASSUME Inv, NEW r \in Plates, VisitLevel(r)
  PROVE  Inv'
<1>1. Typed' BY TypedCar DEF Inv, Car
<1>2. /\ visits[r] \in 0 .. 4
      /\ visits' = [visits EXCEPT ![r] = @ + 1]
      /\ UNCHANGED <<outside, inside, generator, gates, exited>>
      /\ visits \in [Plates -> 0 .. 4 \union {None}]
  BY DEF Inv, Typed, VisitLevel
<1>3. \A s \in Plates : visits'[s] # None <=> visits[s] # None
  <2>1. visits'[r] # None
    <3>1. PICK d \in exit_decision : d + 2 * visits[r] <= 7
      BY DEF VisitLevel
    <3>2. visits[r] + 1 \in 0 .. 4
      BY <1>2, <3>1 DEF exit_decision
    <3> QED BY <1>2, <3>2, PlatesAssumption
  <2> QED BY <1>2, <2>1, PlatesAssumption
<1>4. ASSUME NEW s \in Plates
      PROVE  Placed(s)'
  <2>1. Places(s)' = Places(s)
    BY <1>2, <1>3, SamePlaces DEF generator, gates
  <2>2. Circulates(s)' <=> Circulates(s)
    BY <1>2 DEF Circulates, generator
  <2> QED BY <2>1, <2>2, Unmoved
<1>5. MapsSound' /\ AllowedCarsCirculate'
  BY <1>2 DEF Inv, MapsSound, AllowedCarsCirculate, generator
<1> QED BY <1>1, <1>4, <1>5 DEF Inv

LEMMA PushToExitKeeps ==
  ASSUME Inv, NEW r \in Plates, NEW x \in Exits, PushToExit(r, x)
  PROVE  Inv'
<1> DEFINE road == <<"road", None, 0>>
           behind == Len(exit_queues[x]) + 1
           last == <<"exit", x, behind>>
<1>1. Typed' BY TypedCar DEF Inv, Car
<1>2. /\ visits[r] # None /\ visits'[r] = None
      /\ \A s \in Plates \ {r} : visits'[s] = visits[s]
      /\ exit_queues[x] \in Seq(Plates)
      /\ exit_queues'[x] = Append(exit_queues[x], r)
      /\ \A y \in Exits \ {x} : exit_queues'[y] = exit_queues[y]
      /\ UNCHANGED <<outside, inside, generating, rego, entrance_queues, head, leaving,
                     exited>>
  BY AllowedSequences DEF Inv, Typed, OnlyAllowedInside, PushToExit, generator
<1>3. ASSUME NEW s \in Plates
      PROVE  /\ s = r => Positions(s, leaving[x], exit_queues[x])'
                 = Positions(s, leaving[x], exit_queues[x]) \union {behind}
             /\ s # r => Positions(s, leaving[x], exit_queues[x])'
                 = Positions(s, leaving[x], exit_queues[x])
             /\ \A y \in Exits \ {x} : Positions(s, leaving[y], exit_queues[y])'
                 = Positions(s, leaving[y], exit_queues[y])
  <2>1. exit_queues[x] \in Seq(Plates) BY <1>2
  <2>2. /\ s = r => Positions(s, leaving[x], Append(exit_queues[x], r))
            = Positions(s, leaving[x], exit_queues[x]) \union {behind}
        /\ s # r => Positions(s, leaving[x], Append(exit_queues[x], r))
            = Positions(s, leaving[x], exit_queues[x])
    BY <2>1, PositionsOfLonger
  <2> HIDE DEF behind
  <2> QED BY <1>2, <2>2
<1>4. Places(r) = {road} /\ Circulates(r)
  <2>1. road \in Places(r)
    BY <1>2, AtPlace DEF MeaningOfPlaces
  <2> QED BY <2>1, AtItsOnlyPlace
<1>5. \A s \in Plates : Circulates(s)' <=> Circulates(s)
  BY <1>2 DEF Circulates
<1>6. ASSUME NEW s \in Plates, s # r
      PROVE  Placed(s)'
  <2>1. \A f \in Entrances : Positions(s, head[f], entrance_queues[f])'
                               = Positions(s, head[f], entrance_queues[f])
    BY <1>2
  <2>2. \A y \in Exits : Positions(s, leaving[y], exit_queues[y])'
                            = Positions(s, leaving[y], exit_queues[y])
    BY <1>3, <1>6
  <2>3. Places(s)' = Places(s)
    BY <1>2, <1>6, <2>1, <2>2, SamePlaces
  <2> QED BY <1>5, <2>3, Unmoved
<1>7. Placed(r)'
  <2>1. /\ \A f \in Entrances : Positions(r, head[f], entrance_queues[f])'
                                  = Positions(r, head[f], entrance_queues[f])
        /\ rego' = rego /\ visits'[r] = None
    BY <1>2
  <2> HIDE DEF behind
  <2>2. \A p : p \in Places(r)' => p \in Places(r) \/ p = last
    BY <2>1, <1>3, AtPlace, AtPlaceNext DEF MeaningOfPlaces
  <2>3. road \notin Places(r)'
    BY <2>1, AtPlaceNext DEF MeaningOfPlaces
  <2>4. last \in Places(r)'
    BY <1>3, AtPlaceNext DEF MeaningOfPlaces
  <2>5. Places(r)' = {last}
    BY <1>4, <2>2, <2>3, <2>4
  <2> QED BY <1>4, <1>5, <2>5 DEF Placed
<1>8. MapsSound' /\ AllowedCarsCirculate'
  BY <1>2 DEF Inv, MapsSound, AllowedCarsCirculate
<1> QED BY <1>1, <1>6, <1>7, <1>8 DEF Inv

-----------------------------------------------------------------------------
(* The exits.                                                              *)

LEMMA PopExitKeeps ==
  ASSUME Inv, NEW x \in Exits, PopExit(x)
  PROVE  Inv'
<1> DEFINE Forth(p) == IF p[1] = "exit" /\ p[2] = x
                       THEN <<"exit", x, p[3] - 1>> ELSE p
<1>1. Typed' BY TypedExit DEF Inv, Exit
<1>2. /\ exit_queues[x] \in Seq(Plates) /\ exit_queues[x] # <<>>
      /\ leaving[x] = None
      /\ leaving'[x] = Head(exit_queues[x])
      /\ exit_queues'[x] = Tail(exit_queues[x])
      /\ \A y \in Exits \ {x} : /\ leaving'[y] = leaving[y]
                               /\ exit_queues'[y] = exit_queues[y]
      /\ UNCHANGED <<outside, inside, generating, rego, entrance_queues, head, visits,
                     exited>>
  BY AllowedSequences DEF Inv, Typed, OnlyAllowedInside, PopExit, generator
<1>3. ASSUME NEW s \in Plates
      PROVE  Positions(s, leaving[x], exit_queues[x])'
               = {i - 1 : i \in Positions(s, leaving[x], exit_queues[x])}
  BY <1>2, PositionsMoveUp
<1>4. \A s \in Plates, y \in Exits \ {x} :
        Positions(s, leaving[y], exit_queues[y])'
          = Positions(s, leaving[y], exit_queues[y])
  BY <1>2
<1>5. ASSUME NEW s \in Plates
      PROVE  Placed(s)'
  <2>1. Circulates(s)' <=> Circulates(s)
    BY <1>2 DEF Circulates
  <2>2. ASSUME NEW p \in Places(s)
        PROVE  Forth(p) \in Places(s)'
    BY <1>2, <1>3, <1>4, <2>2, AtPlace, AtPlaceNext DEF MeaningOfPlaces
  <2>3. ASSUME NEW q \in Places(s)'
        PROVE  \E p \in Places(s) : q = Forth(p)
    <3>1. ASSUME NEW i \in Positions(s, leaving[x], exit_queues[x])',
                 q = <<"exit", x, i>>
          PROVE  \E p \in Places(s) : q = Forth(p)
      <4>1. PICK j \in Positions(s, leaving[x], exit_queues[x]) : i = j - 1
        BY <1>3, <3>1
      <4>2. <<"exit", x, j>> \in Places(s)
        BY <4>1, AtPlace DEF MeaningOfPlaces
      <4>3. q = Forth(<<"exit", x, j>>) BY <3>1, <4>1
      <4> QED BY <4>2, <4>3
    <3>2. CASE ~ (q[1] = "exit" /\ q[2] = x)
      <4>1. q = Forth(q) BY <3>2
      <4>2. q \in Places(s)
        BY <1>2, <1>4, <2>3, <3>2, AtPlace, AtPlaceNext DEF MeaningOfPlaces
      <4> QED BY <4>1, <4>2
    <3>3. q[1] = "exit" /\ q[2] = x =>
            \E i \in Positions(s, leaving[x], exit_queues[x])' :
              q = <<"exit", x, i>>
      BY <2>3, AtPlaceNext DEF MeaningOfPlaces
    <3> QED BY <3>1, <3>2, <3>3
  <2> HIDE DEF Forth
  <2>4. CASE Circulates(s)
    <3>1. PICK p : Places(s) = {p} BY <2>4 DEF Inv, Placed
    <3>2. Places(s)' = {Forth(p)} BY <2>2, <2>3, <3>1
    <3> QED BY <2>1, <2>4, <3>2 DEF Placed
  <2>5. CASE ~Circulates(s)
    <3>1. Places(s)' = {} BY <2>3, <2>5 DEF Inv, Placed
    <3> QED BY <2>1, <2>5, <3>1 DEF Placed
  <2> QED BY <2>4, <2>5
<1>6. MapsSound' /\ AllowedCarsCirculate'
  BY <1>2 DEF Inv, MapsSound, AllowedCarsCirculate
<1> QED BY <1>1, <1>5, <1>6 DEF Inv

LEMMA TakeOutKeeps ==
  ASSUME Inv, NEW x \in Exits, TakeOut(x)
  PROVE  Inv'
<1> DEFINE front == <<"exit", x, 0>>
<1>1. Typed' BY TypedExit DEF Inv, Exit
<1>2. /\ leaving[x] # None /\ leaving'[x] = None
      /\ leaving[x] \in Plates /\ leaving[x] \in AllowList
      /\ \A y \in Exits \ {x} : leaving'[y] = leaving[y]
      /\ \A y \in Exits : exit_queues[y] \in Seq(Plates)
      /\ outside' = outside \union {leaving[x]}
      /\ inside' = inside \ {leaving[x]} /\ exited' = (inside = {})
      /\ UNCHANGED <<generating, rego, entrance_queues, head, visits, exit_queues>>
  BY AllowedSequences, PlatesAssumption
  DEF Inv, Typed, OnlyAllowedInside, TakeOut, remove_inside, generator
<1>3. PICK c \in Plates : c = leaving[x] BY <1>2
<1>4. ASSUME NEW s \in Plates
      PROVE  Positions(s, leaving[x], exit_queues[x])'
               = Positions(s, leaving[x], exit_queues[x]) \ {0}
  <2>1. Positions(s, None, exit_queues[x])
          = Positions(s, leaving[x], exit_queues[x]) \ {0}
    BY <1>2, PositionsWithoutFront
  <2> QED BY <1>2, <2>1
<1>5. \A s \in Plates, y \in Exits \ {x} :
        Positions(s, leaving[y], exit_queues[y])'
          = Positions(s, leaving[y], exit_queues[y])
  BY <1>2
<1>6. Places(c) = {front} /\ Circulates(c)
  <2>1. front \in Places(c)
    BY <1>2, <1>3, FrontPosition, AtPlace DEF MeaningOfPlaces
  <2> QED BY <2>1, AtItsOnlyPlace
<1>7. rego # c /\ c \in inside
  <2>1. <<"generator", None, 0>> \notin Places(c)
    BY <1>6
  <2>2. rego # c
    BY <2>1, AtPlace DEF MeaningOfPlaces
  <2> QED BY <1>6, <2>2 DEF Circulates
<1>8. ASSUME NEW s \in Plates, s # c
      PROVE  Placed(s)'
  <2>1. \A y \in Exits : Positions(s, leaving[y], exit_queues[y])'
                            = Positions(s, leaving[y], exit_queues[y])
    <3>1. 0 \notin Positions(s, leaving[x], exit_queues[x])
      BY <1>2, <1>3, <1>8, FrontPosition
    <3>2. Positions(s, leaving[x], exit_queues[x])'
            = Positions(s, leaving[x], exit_queues[x])
      BY <1>4, <3>1
    <3> QED BY <1>5, <3>2
  <2>2. \A e \in Entrances : Positions(s, head[e], entrance_queues[e])'
                               = Positions(s, head[e], entrance_queues[e])
    BY <1>2
  <2>3. Places(s)' = Places(s)
    BY <1>2, <2>1, <2>2, SamePlaces
  <2>4. Circulates(s)' <=> Circulates(s)
    BY <1>2, <1>3, <1>8 DEF Circulates
  <2> QED BY <2>3, <2>4, Unmoved
<1>9. Placed(c)'
  <2>1. \A p : p \in Places(c)' => p \in Places(c)
    <3>1. \A e \in Entrances : Positions(c, head[e], entrance_queues[e])'
                                 = Positions(c, head[e], entrance_queues[e])
      BY <1>2
    <3>2. \A y \in Exits : Positions(c, leaving[y], exit_queues[y])'
                              \subseteq Positions(c, leaving[y], exit_queues[y])
      BY <1>4, <1>5
    <3> QED
      BY <1>2, <3>1, <3>2, AtPlace, AtPlaceNext DEF MeaningOfPlaces
  <2>2. front \notin Places(c)'
    BY <1>4, AtPlaceNext DEF MeaningOfPlaces
  <2>3. Places(c)' = {}
    BY <1>6, <2>1, <2>2
  <2>4. ~Circulates(c)'
    BY <1>2, <1>3, <1>7 DEF Circulates
  <2> QED BY <2>3, <2>4 DEF Placed
<1>10. MapsSound' /\ AllowedCarsCirculate'
  BY <1>2, <1>3, <1>7 DEF Inv, MapsSound, AllowedCarsCirculate
<1> QED BY <1>1, <1>8, <1>9, <1>10 DEF Inv

-----------------------------------------------------------------------------
(* All steps, and what follows from the invariant.                         *)

LEMMA InvNext == Inv /\ [Next]_vars => Inv'
<1> SUFFICES ASSUME Inv, [Next]_vars PROVE Inv'
  OBVIOUS
<1>1. CASE Generator
  BY <1>1, ChooseKeeps, InsertKeeps, PushToEntranceKeeps DEF Generator, Push
<1>2. ASSUME NEW e \in Entrances, Entrance(e)
      PROVE  Inv'
  BY <1>2, PopEntranceKeeps, AdmitKeeps, RefuseKeeps DEF Entrance
<1>3. ASSUME NEW r \in Plates, Car(r)
      PROVE  Inv'
  BY <1>3, VisitLevelKeeps, PushToExitKeeps DEF Car
<1>4. ASSUME NEW x \in Exits, Exit(x)
      PROVE  Inv'
  BY <1>4, PopExitKeeps, TakeOutKeeps DEF Exit
<1>5. CASE UNCHANGED vars
  <2>1. Typed' BY <1>5, TypedNext DEF Inv
  <2>2. ASSUME NEW s \in Plates
        PROVE  Placed(s)'
    <3>1. Places(s)' = Places(s)
      BY <1>5, SamePlaces DEF vars, generator, gates
    <3>2. Circulates(s)' <=> Circulates(s)
      BY <1>5 DEF Circulates, vars, generator
    <3> QED BY <3>1, <3>2, Unmoved
  <2>3. MapsSound' /\ AllowedCarsCirculate'
    BY <1>5 DEF Inv, MapsSound, AllowedCarsCirculate, vars, generator
  <2> QED BY <2>1, <2>2, <2>3 DEF Inv
<1> QED BY <1>1, <1>2, <1>3, <1>4, <1>5 DEF Next

LEMMA SimulatorInv == Spec => []Inv
BY PlacesInit, InvNext, PTL DEF Spec

(* No two cars ever carry the same plate, however many gates, plates and   *)
(* cars under way there are (simulator_funcs.c:50-140, 173-219, 302-312).  *)
THEOREM PlatesUnique == Spec => []EveryPlateOnce
<1>1. Inv => EveryPlateOnce
  <2> SUFFICES ASSUME Inv, NEW r \in Plates
               PROVE  Cardinality(Places(r)) = IF Circulates(r) THEN 1 ELSE 0
    BY DEF EveryPlateOnce
  <2>1. CASE Circulates(r)
    <3>1. PICK p : Places(r) = {p} BY <2>1 DEF Inv, Placed
    <3> QED BY <2>1, <3>1, FS_Singleton
  <2>2. CASE ~Circulates(r)
    <3>1. Places(r) = {} BY <2>2 DEF Inv, Placed
    <3> QED BY <2>2, <3>1, FS_EmptySet
  <2> QED BY <2>1, <2>2
<1> QED BY <1>1, SimulatorInv, PTL

(* The maps of the cars inside and outside never share a plate, a fresh    *)
(* plate stays fresh until it is entered although both locks are released  *)
(* in between, and remove_key never ends the simulator (map.c:118).        *)
THEOREM MapsAlwaysSound == Spec => []MapsSound
<1>1. Inv => MapsSound BY DEF Inv
<1> QED BY <1>1, SimulatorInv, PTL

(* No allowed plate is ever lost, sent away or not. *)
THEOREM AllowedNeverLost == Spec => []AllowedCarsCirculate
<1>1. Inv => AllowedCarsCirculate BY DEF Inv
<1> QED BY <1>1, SimulatorInv, PTL

-----------------------------------------------------------------------------
(* The trips: every step moves at most one car, one stage on.              *)

(* The places of a plate that decide its stage, and the queue of an        *)
(* entrance, where a car is still outside.                                 *)
LEMMA WhereItIs ==
  ASSUME Inv, NEW r \in Plates
  PROVE  /\ \A e \in Entrances : head[e] = r => <<"entrance", e, 0>> \in Places(r)
         /\ \A e \in Entrances : \A i \in 1 .. Len(entrance_queues[e]) :
              entrance_queues[e][i] = r => <<"entrance", e, i>> \in Places(r)
         /\ visits[r] # None => <<"road", None, 0>> \in Places(r)
         /\ \A x \in Exits : leaving[x] = r => <<"exit", x, 0>> \in Places(r)
         /\ \A x \in Exits : \A i \in 1 .. Len(exit_queues[x]) :
              exit_queues[x][i] = r => <<"exit", x, i>> \in Places(r)
<1>1. /\ \A e \in Entrances : entrance_queues[e] \in Seq(Plates)
      /\ \A x \in Exits : exit_queues[x] \in Seq(Plates)
  BY AllowedSequences DEF Inv, Typed, OnlyAllowedInside
<1>2. ASSUME NEW e \in Entrances, NEW i \in 1 .. Len(entrance_queues[e]),
             entrance_queues[e][i] = r
      PROVE  i \in Positions(r, head[e], entrance_queues[e])
  <2>1. Len(entrance_queues[e]) \in Nat BY <1>1, LenProperties
  <2> QED BY <1>2, <2>1 DEF Positions
<1>3. ASSUME NEW x \in Exits, NEW i \in 1 .. Len(exit_queues[x]), exit_queues[x][i] = r
      PROVE  i \in Positions(r, leaving[x], exit_queues[x])
  <2>1. Len(exit_queues[x]) \in Nat BY <1>1, LenProperties
  <2> QED BY <1>3, <2>1 DEF Positions
<1>4. \A e \in Entrances : head[e] = r => 0 \in Positions(r, head[e], entrance_queues[e])
  BY <1>1, FrontPosition
<1>5. \A x \in Exits : leaving[x] = r => 0 \in Positions(r, leaving[x], exit_queues[x])
  BY <1>1, FrontPosition
<1> QED BY <1>2, <1>3, <1>4, <1>5, AtPlace DEF MeaningOfPlaces

(* A car is at one gate, in one thread or in one queue. *)
OnlyAtGate(e) ==
  /\ \A f \in Entrances \ {e} : head[f] # head[e]
  /\ \A x \in Exits : leaving[x] # head[e]
  /\ visits[head[e]] = None /\ ~Queued(head[e], exit_queues)

OnlyAtExit(x) ==
  /\ \A y \in Exits \ {x} : leaving[y] # leaving[x]
  /\ \A e \in Entrances : head[e] # leaving[x]
  /\ visits[leaving[x]] = None /\ ~Queued(leaving[x], exit_queues)

OnlyInside(r) == ~InFront(r, head) /\ ~InFront(r, leaving)

LEMMA Gates ==
  ASSUME Inv
  PROVE  DOMAIN head = Entrances /\ DOMAIN leaving = Exits /\ DOMAIN exit_queues = Exits
BY DEF Inv, Typed, OnlyAllowedInside

LEMMA GateAlone ==
  ASSUME Inv, NEW e \in Entrances, head[e] # None
  PROVE  head[e] \in Plates /\ OnlyAtGate(e)
<1>1. head[e] \in Plates BY DEF Inv, Typed
<1>2. PICK r \in Plates : r = head[e] BY <1>1
<1>3. Places(r) = {<<"entrance", e, 0>>} BY <1>2, WhereItIs, AtItsOnlyPlace
<1>4. /\ \A f \in Entrances \ {e} : head[f] # r
      /\ \A x \in Exits : leaving[x] # r
      /\ visits[r] = None
      /\ \A x \in Exits : \A i \in 1 .. Len(exit_queues[x]) : exit_queues[x][i] # r
  BY <1>3, WhereItIs
<1> QED BY <1>1, <1>2, <1>4, Gates DEF OnlyAtGate, Queued

LEMMA ExitAlone ==
  ASSUME Inv, NEW x \in Exits, leaving[x] # None
  PROVE  leaving[x] \in Plates /\ OnlyAtExit(x)
<1>1. leaving[x] \in Plates BY PlatesAssumption DEF Inv, Typed, OnlyAllowedInside
<1>2. PICK r \in Plates : r = leaving[x] BY <1>1
<1>3. Places(r) = {<<"exit", x, 0>>} BY <1>2, WhereItIs, AtItsOnlyPlace
<1>4. /\ \A y \in Exits \ {x} : leaving[y] # r
      /\ \A e \in Entrances : head[e] # r
      /\ visits[r] = None
      /\ \A y \in Exits : \A i \in 1 .. Len(exit_queues[y]) : exit_queues[y][i] # r
  <2>1. \A y \in Exits : \A i \in 1 .. Len(exit_queues[y]) : i # 0 OBVIOUS
  <2> QED BY <1>3, <2>1, WhereItIs
<1> QED BY <1>1, <1>2, <1>4, Gates DEF OnlyAtExit, Queued

LEMMA RoadAlone ==
  ASSUME Inv, NEW r \in Plates, visits[r] # None
  PROVE  OnlyInside(r)
<1>1. Places(r) = {<<"road", None, 0>>} BY WhereItIs, AtItsOnlyPlace
<1>2. /\ \A e \in Entrances : head[e] # r
      /\ \A x \in Exits : leaving[x] # r
  BY <1>1, WhereItIs
<1> QED BY <1>2, Gates DEF OnlyInside, InFront

(* Who waits for an exit is inside, who waits for an entrance outside. *)
LEMMA QueueAlone ==
  ASSUME Inv, NEW x \in Exits, NEW i \in 1 .. Len(exit_queues[x])
  PROVE  exit_queues[x][i] \in Plates => OnlyInside(exit_queues[x][i])
<1> SUFFICES ASSUME NEW r \in Plates, r = exit_queues[x][i] PROVE OnlyInside(r)
  OBVIOUS
<1>1. Places(r) = {<<"exit", x, i>>} BY WhereItIs, AtItsOnlyPlace
<1>2. i # 0 OBVIOUS
<1>3. /\ \A e \in Entrances : head[e] # r
      /\ \A y \in Exits : leaving[y] # r
  BY <1>1, <1>2, WhereItIs
<1> QED BY <1>3, Gates DEF OnlyInside, InFront

LEMMA QueuedOutside ==
  ASSUME Inv, NEW e \in Entrances, NEW i \in 1 .. Len(entrance_queues[e])
  PROVE  entrance_queues[e][i] \in Plates => Trip[entrance_queues[e][i]] = "outside"
<1> SUFFICES ASSUME NEW r \in Plates, r = entrance_queues[e][i]
             PROVE  Trip[r] = "outside"
  OBVIOUS
<1>1. Places(r) = {<<"entrance", e, i>>} BY WhereItIs, AtItsOnlyPlace
<1>2. i # 0 OBVIOUS
<1>3. /\ \A f \in Entrances : head[f] # r
      /\ \A y \in Exits : leaving[y] # r
      /\ visits[r] = None
      /\ \A y \in Exits : \A j \in 1 .. Len(exit_queues[y]) : exit_queues[y][j] # r
  BY <1>1, <1>2, WhereItIs
<1> QED BY <1>3, Gates DEF Trip, InFront, Queued

(* What a change in front of a gate or in a queue means for a plate.       *)
LEMMA FrontChanges ==
  ASSUME NEW fronts, NEW g \in DOMAIN fronts, NEW c, NEW r, r # fronts[g]
  PROVE  InFront(r, [fronts EXCEPT ![g] = c]) <=> InFront(r, fronts) \/ r = c
BY DEF InFront

LEMMA QueueGrows ==
  ASSUME NEW queues, NEW g \in DOMAIN queues, queues[g] \in Seq(Plates),
         NEW c \in Plates, NEW r
  PROVE  Queued(r, [queues EXCEPT ![g] = Append(@, c)]) <=> Queued(r, queues) \/ r = c
<1> DEFINE longer == Append(queues[g], c)
<1>1. /\ Len(queues[g]) \in Nat
      /\ Len(longer) = Len(queues[g]) + 1
      /\ \A i \in 1 .. Len(queues[g]) : longer[i] = queues[g][i]
      /\ longer[Len(queues[g]) + 1] = c
  BY AppendProperties, LenProperties
<1> HIDE DEF longer
<1>2. (\E i \in 1 .. Len(longer) : longer[i] = r)
        <=> (\E i \in 1 .. Len(queues[g]) : queues[g][i] = r) \/ r = c
  BY <1>1
<1> DEFINE after == [queues EXCEPT ![g] = longer]
<1>3. /\ DOMAIN after = DOMAIN queues /\ after[g] = longer
      /\ \A h \in DOMAIN queues \ {g} : after[h] = queues[h]
  OBVIOUS
<1> HIDE DEF after
<1>4. Queued(r, after) <=> Queued(r, queues) \/ r = c
  BY <1>2, <1>3 DEF Queued
<1> QED BY <1>4 DEF after, longer

LEMMA QueueMovesUp ==
  ASSUME NEW queues, NEW g \in DOMAIN queues, queues[g] \in Seq(Plates),
         queues[g] # <<>>, NEW r, r # Head(queues[g])
  PROVE  Queued(r, [queues EXCEPT ![g] = Tail(@)]) <=> Queued(r, queues)
<1> DEFINE shorter == Tail(queues[g])
<1>1. /\ Len(queues[g]) \in Nat \ {0}
      /\ Len(shorter) = Len(queues[g]) - 1
      /\ \A i \in 1 .. Len(queues[g]) - 1 : shorter[i] = queues[g][i + 1]
      /\ Head(queues[g]) = queues[g][1]
  BY HeadTailProperties, EmptySeq
<1> HIDE DEF shorter
<1>2. (\E i \in 1 .. Len(shorter) : shorter[i] = r)
        <=> (\E i \in 1 .. Len(queues[g]) : queues[g][i] = r)
  <2>1. ASSUME NEW i \in 1 .. Len(queues[g]), queues[g][i] = r
        PROVE  i - 1 \in 1 .. Len(shorter) /\ shorter[i - 1] = r
    BY <1>1, <2>1
  <2>2. ASSUME NEW i \in 1 .. Len(shorter), shorter[i] = r
        PROVE  i + 1 \in 1 .. Len(queues[g]) /\ queues[g][i + 1] = r
    BY <1>1, <2>2
  <2> QED BY <2>1, <2>2
<1> DEFINE after == [queues EXCEPT ![g] = shorter]
<1>3. /\ DOMAIN after = DOMAIN queues /\ after[g] = shorter
      /\ \A h \in DOMAIN queues \ {g} : after[h] = queues[h]
  OBVIOUS
<1> HIDE DEF after
<1>4. Queued(r, after) <=> Queued(r, queues)
  BY <1>2, <1>3 DEF Queued
<1> QED BY <1>4 DEF after, shorter

(* A step that leaves a plate where it is, as far as a trip tells places   *)
(* apart.                                                                  *)
Stays(r) ==
  /\ InFront(r, head)' <=> InFront(r, head)
  /\ InFront(r, leaving)' <=> InFront(r, leaving)
  /\ visits'[r] # None \/ Queued(r, exit_queues)'
       <=> visits[r] # None \/ Queued(r, exit_queues)

LEMMA OneMoves ==
  ASSUME NEW c \in Plates, \A r \in Plates \ {c} : Stays(r)
  PROVE  Trip' = [Trip EXCEPT ![c] = Trip'[c]]
BY DEF Trip, Stays

LEMMA NobodyMoves ==
  ASSUME \A r \in Plates : Stays(r)
  PROVE  Trip' = Trip
BY DEF Trip, Stays

LEMMA PopEntranceTrip ==
  ASSUME Inv, NEW e \in Entrances, PopEntrance(e)
  PROVE  \E r \in Plates : TR!DriveUp(r)
<1>1. /\ head[e] = None /\ entrance_queues[e] # <<>>
      /\ head' = [head EXCEPT ![e] = Head(entrance_queues[e])]
      /\ UNCHANGED <<exit_queues, leaving, visits>>
      /\ entrance_queues[e] \in Seq(Plates)
  BY DEF Inv, Typed, PopEntrance
<1>2. PICK c \in Plates : c = Head(entrance_queues[e]) BY <1>1, HeadTailProperties
<1>3. Trip[c] = "outside"
  <2>1. Len(entrance_queues[e]) \in Nat \ {0} /\ c = entrance_queues[e][1]
    BY <1>1, <1>2, HeadTailProperties, EmptySeq, LenProperties
  <2> QED BY <2>1, QueuedOutside
<1>4. \A r \in Plates : InFront(r, head)' <=> InFront(r, head) \/ r = c
  BY <1>1, <1>2, Gates, FrontChanges, PlatesAssumption
<1>5. Trip'[c] = "entering" BY <1>4 DEF Trip
<1>6. \A r \in Plates \ {c} : Stays(r) BY <1>1, <1>4 DEF Stays
<1> QED BY <1>3, <1>5, <1>6, OneMoves DEF TR!DriveUp, TR!Move

LEMMA AdmitTrip ==
  ASSUME Inv, NEW e \in Entrances, Admit(e)
  PROVE  \E r \in Plates : TR!DriveIn(r)
<1>1. /\ head[e] \in AllowList /\ head[e] # None
      /\ head' = [head EXCEPT ![e] = None]
      /\ visits' = [visits EXCEPT ![head[e]] = 0]
      /\ UNCHANGED <<exit_queues, leaving>>
      /\ visits \in [Plates -> 0 .. 4 \union {None}] /\ None # 0
  BY PlatesAssumption DEF Inv, Typed, Admit
<1>2. PICK c \in Plates : c = head[e] BY <1>1, PlatesAssumption
<1>3. OnlyAtGate(e) BY <1>1, GateAlone
<1>4. Trip[c] = "entering" BY <1>2, Gates DEF Trip, InFront
<1>5. \A r \in Plates \ {c} : Stays(r)
  <2>1. \A r \in Plates \ {c} : InFront(r, head)' <=> InFront(r, head)
    BY <1>1, <1>2, Gates, FrontChanges, PlatesAssumption
  <2> QED BY <1>1, <1>2, <2>1 DEF Stays
<1>6. Trip'[c] = "inside"
  <2>1. ~InFront(c, head)'
    BY <1>1, <1>2, <1>3, Gates, PlatesAssumption DEF InFront, OnlyAtGate
  <2>2. ~InFront(c, leaving)'
    BY <1>1, <1>2, <1>3, Gates DEF InFront, OnlyAtGate
  <2>3. visits'[c] # None BY <1>1, <1>2
  <2> QED BY <2>1, <2>2, <2>3 DEF Trip
<1> QED BY <1>1, <1>2, <1>4, <1>5, <1>6, OneMoves DEF TR!DriveIn, TR!Move

LEMMA RefuseTrip ==
  ASSUME Inv, NEW e \in Entrances, Refuse(e)
  PROVE  \E r \in Plates : TR!TurnAway(r)
<1>1. /\ head[e] # None
      /\ head' = [head EXCEPT ![e] = None]
      /\ UNCHANGED <<exit_queues, leaving, visits>>
  BY DEF Refuse
<1>2. PICK c \in Plates : c = head[e] BY <1>1, GateAlone
<1>3. OnlyAtGate(e) BY <1>1, GateAlone
<1>4. Trip[c] = "entering" BY <1>2, Gates DEF Trip, InFront
<1>5. \A r \in Plates \ {c} : Stays(r)
  <2>1. \A r \in Plates \ {c} : InFront(r, head)' <=> InFront(r, head)
    BY <1>1, <1>2, Gates, FrontChanges, PlatesAssumption
  <2> QED BY <1>1, <2>1 DEF Stays
<1>6. Trip'[c] = "outside"
  <2>1. ~InFront(c, head)'
    BY <1>1, <1>2, <1>3, Gates, PlatesAssumption DEF InFront, OnlyAtGate
  <2>2. ~InFront(c, leaving)'
    BY <1>1, <1>2, <1>3, Gates DEF InFront, OnlyAtGate
  <2>3. visits'[c] = None /\ ~Queued(c, exit_queues)'
    BY <1>1, <1>2, <1>3 DEF OnlyAtGate
  <2> QED BY <2>1, <2>2, <2>3 DEF Trip
<1> QED BY <1>2, <1>4, <1>5, <1>6, OneMoves DEF TR!TurnAway, TR!Move

LEMMA CarTrip ==
  ASSUME Inv, NEW r \in Plates, Car(r)
  PROVE  Trip' = Trip
<1>1. ASSUME VisitLevel(r) PROVE Trip' = Trip
  <2>1. /\ visits[r] # None
        /\ visits' = [visits EXCEPT ![r] = visits[r] + 1]
        /\ UNCHANGED <<head, exit_queues, leaving>>
    BY <1>1 DEF VisitLevel, gates
  <2>2. visits'[r] # None
    <3>1. visits \in [Plates -> 0 .. 4 \union {None}] BY DEF Inv, Typed
    <3>2. PICK d \in exit_decision : d + 2 * visits[r] <= 7 BY <1>1 DEF VisitLevel
    <3>3. visits[r] \in 0 .. 4 BY <2>1, <3>1
    <3>4. visits[r] + 1 \in 0 .. 4 BY <3>2, <3>3 DEF exit_decision
    <3> QED BY <2>1, <3>1, <3>4, PlatesAssumption
  <2>3. \A s \in Plates : Stays(s)
    BY <2>1, <2>2 DEF Stays, Inv, Typed
  <2> QED BY <2>3, NobodyMoves
<1>2. ASSUME NEW x \in Exits, PushToExit(r, x) PROVE Trip' = Trip
  <2>1. /\ visits[r] # None
        /\ visits' = [visits EXCEPT ![r] = None]
        /\ exit_queues' = [exit_queues EXCEPT ![x] = Append(@, r)]
        /\ UNCHANGED <<head, leaving>>
        /\ exit_queues[x] \in Seq(Plates)
    BY <1>2, AllowedSequences DEF PushToExit, Inv, Typed, OnlyAllowedInside
  <2>2. \A s \in Plates : Queued(s, exit_queues)' <=> Queued(s, exit_queues) \/ s = r
    BY <2>1, Gates, QueueGrows
  <2>3. \A s \in Plates : Stays(s) BY <2>1, <2>2 DEF Stays, Inv, Typed
  <2> QED BY <2>3, NobodyMoves
<1> QED BY <1>1, <1>2 DEF Car

LEMMA PopExitTrip ==
  ASSUME Inv, NEW x \in Exits, PopExit(x)
  PROVE  \E r \in Plates : TR!Leave(r)
<1>1. /\ leaving[x] = None /\ exit_queues[x] # <<>>
      /\ leaving' = [leaving EXCEPT ![x] = Head(exit_queues[x])]
      /\ exit_queues' = [exit_queues EXCEPT ![x] = Tail(@)]
      /\ UNCHANGED <<head, visits>>
      /\ exit_queues[x] \in Seq(Plates)
  BY AllowedSequences DEF Inv, Typed, OnlyAllowedInside, PopExit
<1>2. PICK c \in Plates : c = Head(exit_queues[x]) BY <1>1, HeadTailProperties
<1>3. 1 \in 1 .. Len(exit_queues[x]) /\ c = exit_queues[x][1]
  BY <1>1, <1>2, HeadTailProperties, EmptySeq, LenProperties
<1>4. OnlyInside(c) BY <1>3, QueueAlone
<1>5. Trip[c] = "inside"
  BY <1>3, <1>4, Gates DEF Trip, OnlyInside, Queued
<1>6. \A r \in Plates : InFront(r, leaving)' <=> InFront(r, leaving) \/ r = c
  BY <1>1, <1>2, Gates, FrontChanges, PlatesAssumption
<1>7. Trip'[c] = "exiting" BY <1>1, <1>4, <1>6 DEF Trip, OnlyInside
<1>8. \A r \in Plates \ {c} : Stays(r)
  <2>1. \A r \in Plates \ {c} : Queued(r, exit_queues)' <=> Queued(r, exit_queues)
    BY <1>1, <1>2, Gates, QueueMovesUp
  <2> QED BY <1>1, <1>6, <2>1 DEF Stays
<1> QED BY <1>5, <1>7, <1>8, OneMoves DEF TR!Leave, TR!Move

LEMMA TakeOutTrip ==
  ASSUME Inv, NEW x \in Exits, TakeOut(x)
  PROVE  \E r \in Plates : TR!DriveOff(r)
<1>1. /\ leaving[x] # None
      /\ leaving' = [leaving EXCEPT ![x] = None]
      /\ UNCHANGED <<head, exit_queues, visits>>
  BY DEF TakeOut
<1>2. PICK c \in Plates : c = leaving[x] BY <1>1, ExitAlone
<1>3. OnlyAtExit(x) BY <1>1, ExitAlone
<1>4. Trip[c] = "exiting" BY <1>2, <1>3, Gates DEF Trip, InFront, OnlyAtExit
<1>5. \A r \in Plates \ {c} : Stays(r)
  <2>1. \A r \in Plates \ {c} : InFront(r, leaving)' <=> InFront(r, leaving)
    BY <1>1, <1>2, Gates, FrontChanges, PlatesAssumption
  <2> QED BY <1>1, <2>1 DEF Stays
<1>6. Trip'[c] = "outside"
  <2>1. ~InFront(c, leaving)'
    BY <1>1, <1>2, <1>3, Gates, PlatesAssumption DEF InFront, OnlyAtExit
  <2>2. ~InFront(c, head)'
    BY <1>1, <1>2, <1>3, Gates DEF InFront, OnlyAtExit
  <2>3. visits'[c] = None /\ ~Queued(c, exit_queues)'
    BY <1>1, <1>2, <1>3 DEF OnlyAtExit
  <2> QED BY <2>1, <2>2, <2>3 DEF Trip
<1> QED BY <1>2, <1>4, <1>5, <1>6, OneMoves DEF TR!DriveOff, TR!Move

LEMMA GeneratorTrip == Generator \/ UNCHANGED vars => Trip' = Trip
<1> SUFFICES ASSUME Generator \/ UNCHANGED vars PROVE Trip' = Trip
  OBVIOUS
<1>1. UNCHANGED <<head, leaving, visits, exit_queues>>
  BY DEF Generator, Push, TakeOutside, GeneratePlate, InsertInside, PushToEntrance,
         gates, vars
<1> QED BY <1>1 DEF Trip

(* With any number of gates and cars, the simulator sends every car on     *)
(* trips as the manager expects them: no car appears at an entrance while  *)
(* it is inside or already at a gate, none drives in that is not allowed,  *)
(* and none leaves that is not inside (simulator_funcs.c:137-313, 391-436).*)
THEOREM SimulatorMakesTrips == Spec => ImplementsTrips
<1>1. Init => TR!Init
  <2> SUFFICES ASSUME Init PROVE Trip = [r \in Plates |-> "outside"]
    BY DEF TR!Init
  <2>1. \A r \in Plates : ~InFront(r, head) /\ ~InFront(r, leaving)
    BY PlatesAssumption DEF Init, InFront
  <2>2. \A r \in Plates : visits[r] = None /\ ~Queued(r, exit_queues)
    BY EmptySeq DEF Init, Queued
  <2> QED BY <2>1, <2>2 DEF Trip
<1>2. Inv /\ [Next]_vars => [TR!Next]_Trip
  <2> SUFFICES ASSUME Inv, [Next]_vars PROVE [TR!Next]_Trip OBVIOUS
  <2>1. ASSUME NEW e \in Entrances, Entrance(e) PROVE TR!Next
    BY <2>1, PopEntranceTrip, AdmitTrip, RefuseTrip DEF Entrance, TR!Next
  <2>2. ASSUME NEW x \in Exits, Exit(x) PROVE TR!Next
    BY <2>2, PopExitTrip, TakeOutTrip DEF Exit, TR!Next
  <2> QED BY <2>1, <2>2, GeneratorTrip, CarTrip DEF Next
<1> QED BY <1>1, <1>2, SimulatorInv, PTL DEF Spec, ImplementsTrips, TR!Spec
=============================================================================
