------------------------- MODULE EntranceGateProofs -------------------------
(***************************************************************************)
(* One entrance, with any set of cars: its gate only goes round its cycle, *)
(* cars drive in only while it is open, and whenever the simulator takes   *)
(* the next car both processes agree on who is in the car park, up to an   *)
(* alarm.                                                                  *)
(***************************************************************************)
EXTENDS EntranceGate, Integers, FiniteSetTheorems, TLAPS

-----------------------------------------------------------------------------
(* The inductive invariant: who holds each mutex, who waits on each        *)
(* condition, what each thread knows of the gate, and how far the          *)
(* hand-over of a car has got.                                             *)

Labels ==
  /\ pc[mgr] \in ManagerLabels
  /\ pc[sim] \in SimulatorLabels
  /\ pc[mgr] = "start" =>
       pc[sim] = "start" \/ (pc[sim] = "await ready" /\ sim \in waits["lpr"])
  /\ ~alarm => pc[opener] = "off" /\ pc[evacuation] = "off"

Owners ==
  /\ owner["lpr"] = mgr <=> pc[mgr] \notin {"start", "await car"}
  /\ owner["lpr"] = sim <=> pc[sim] \in {"lock sign", "lock boom"}
  /\ owner["lpr"] \in {mgr, sim, None}
  /\ owner["sign"] = IF pc[sim] = "lock boom" THEN sim ELSE None
  /\ owner["boom"] = mgr <=> pc[mgr] = "lower"
  /\ owner["boom"] = sim <=> pc[sim] = "await answer"
  /\ owner["boom"] \in {mgr, sim, None}

Waiting ==
  /\ waits["lpr"] \subseteq {mgr, sim}
  /\ waits["sign"] \subseteq {mgr, sim}
  /\ mgr \in waits["lpr"] => pc[mgr] = "await car"
  /\ sim \in waits["lpr"] => pc[sim] = "await ready"
  /\ mgr \in waits["sign"] => pc[mgr] = "await read"
  /\ sim \in waits["sign"] => pc[sim] = "await answer"
  /\ mgr \in waits["boom"] => pc[mgr] \in {"await closed", "await open"}
  /\ sim \in waits["boom"] => pc[sim] \in {"await gate", "await reopen"}

Gate ==
  /\ boom = "L" => pc[mgr] = "await closed"
  /\ pc[mgr] = "lower" => boom = "O"
  /\ pc[mgr] = "await open" => boom \in {"R", "O"}
  /\ pc[mgr] = "await closed" /\ ~alarm =>
       boom = "C" \/ (boom = "L" /\ mgr \in waits["boom"])
  /\ pc[sim] = "await gate" => boom # "C" \/ sim \in waits["boom"]
  /\ pc[sim] = "await reopen" =>
       /\ pc[mgr] \in {"await closed", "await open"}
       /\ pc[mgr] = "await open" => mgr \in waits["boom"]
       /\ boom \in {"R", "O"} \/ (boom = "C" /\ sim \in waits["boom"])

(* Between taking a car from its queue and taking the next one. *)
Serving == pc[sim] \notin {"start", "await ready", "pop"}

Plates ==
  /\ Serving => head \in Cars \ inside
  /\ pc[mgr] = "await car" /\ mgr \notin waits["lpr"] => lpr \in Cars

Agreed == registered = inside
OneAhead == registered = inside \union {head}
Decided == IF verdict = "level" THEN OneAhead ELSE Agreed

(* No car is shown that the manager has not answered. *)
Idle ==
  /\ pc[mgr] # "answer"
  /\ pc[mgr] = "await car" => mgr \in waits["lpr"]

AnswerPending ==
  \/ /\ pc[mgr] = "await car" /\ mgr \notin waits["lpr"] /\ lpr = head
     /\ sim \in waits["sign"] /\ Agreed
  \/ pc[mgr] = "answer" /\ sim \in waits["sign"] /\ Decided
  \/ /\ pc[mgr] = "await read" /\ mgr \in waits["sign"] /\ sim \notin waits["sign"]
     /\ display = verdict /\ Decided

HandOver ==
  /\ ~aborted
  /\ pc[sim] \notin {"await answer", "await gate", "await reopen"} => Idle /\ Agreed
  /\ pc[sim] = "await answer" => AnswerPending
  /\ pc[sim] \in {"await gate", "await reopen"} => Idle /\ OneAhead

(* Who will wake a thread that waits, until an alarm: whoever waits on the *)
(* reader, the sign or the gate has a partner that is awake on its way to  *)
(* the signal.                                                             *)
Awake ==
  /\ waits["boom"] \subseteq {mgr, sim}
  /\ mgr \in waits["sign"] =>
       pc[sim] = "await answer" /\ sim \notin waits["sign"]
  /\ mgr \in waits["boom"] =>
       /\ pc[sim] \in {"await gate", "await reopen"} /\ sim \notin waits["boom"]
       /\ boom \in {"R", "L"}
  /\ pc[sim] = "await gate" /\ sim \in waits["boom"] <=>
       \/ pc[mgr] = "await read" /\ mgr \notin waits["sign"] /\ verdict = "level"
       \/ pc[mgr] \in {"boom", "lower"}
  /\ pc[sim] = "await reopen" /\ sim \in waits["boom"] <=>
       pc[mgr] = "await closed" /\ mgr \notin waits["boom"]

Inv ==
  /\ TypeOK
  /\ Labels
  /\ Owners
  /\ Waiting
  /\ Gate
  /\ Plates
  /\ ~alarm => HandOver
  /\ ~alarm => Awake

-----------------------------------------------------------------------------
(* Threads, mutexes and signals.                                           *)

LEMMA Distinct ==
  ASSUME DistinctThreads
  PROVE  /\ mgr # sim /\ mgr # opener /\ mgr # evacuation
         /\ sim # opener /\ sim # evacuation /\ opener # evacuation
         /\ None \notin Threads
<1>1. ASSUME NEW S, NEW x, IsFiniteSet(S)
      PROVE  /\ IsFiniteSet(S \union {x})
             /\ Cardinality(S) \in Nat
             /\ Cardinality(S \union {x}) <= Cardinality(S) + 1
  <2>1. Cardinality(S) \in Nat BY <1>1, FS_CardinalityType
  <2>2. IsFiniteSet(S \union {x}) /\
        (Cardinality(S \union {x}) = Cardinality(S)
          \/ Cardinality(S \union {x}) = Cardinality(S) + 1)
    BY <1>1, FS_AddElement
  <2> QED BY <2>1, <2>2
<1>2. ASSUME NEW x, NEW y, NEW z PROVE Cardinality({x, y, z}) <= 3
  <2>1. IsFiniteSet({x}) /\ Cardinality({x}) = 1 BY FS_Singleton
  <2>2. {x} \union {y} = {x, y} /\ {x, y} \union {z} = {x, y, z} OBVIOUS
  <2>3. IsFiniteSet({x, y}) /\ Cardinality({x, y}) <= 2
    <3>1. IsFiniteSet({x} \union {y}) /\ Cardinality({x} \union {y}) <= 1 + 1
      BY <1>1, <2>1
    <3> QED BY <2>2, <3>1
  <2>4. Cardinality({x, y}) \in Nat /\ Cardinality({x, y, z}) \in Nat
    BY <1>1, <2>2, <2>3, FS_CardinalityType
  <2>5. Cardinality({x, y, z}) <= Cardinality({x, y}) + 1 BY <1>1, <2>2, <2>3
  <2> QED BY <2>3, <2>4, <2>5
<1>3. ASSUME NEW x, NEW y, NEW z PROVE Threads # {x, y, z}
  <2>1. Cardinality({x, y, z}) <= 3 /\ Cardinality(Threads) = 4
    BY <1>2 DEF DistinctThreads
  <2>2. Cardinality({x, y, z}) # 4 BY <2>1
  <2> QED BY <2>1, <2>2
<1>4. mgr # sim
  BY <1>3 DEF Threads
<1>5. mgr # opener
  BY <1>3 DEF Threads
<1> QED BY <1>3, <1>4, <1>5 DEF Threads, DistinctThreads

(* Thread t goes from one label to another. *)
Moves(t, from, to) ==
  /\ pc[t] = from
  /\ pc' \in [Threads -> AllLabels]
  /\ pc'[t] = to
  /\ \A u \in Threads : u # t => pc'[u] = pc[u]

LEMMA Move ==
  ASSUME TypeOK, NEW t \in Threads, NEW from, NEW to \in AllLabels, At(t, from), Goto(t, to)
  PROVE  Moves(t, from, to)
BY DEF TypeOK, At, Goto, Moves

(* The mutex of o goes to t. *)
Hands(o, t) ==
  /\ owner' \in [Objects -> Threads \union {None}]
  /\ owner'[o] = t
  /\ \A p \in Objects : p # o => owner'[p] = owner[p]

LEMMA GiveOne ==
  ASSUME NEW o \in Objects, NEW t \in Threads \union {None}, TypeOK, Give({o}, t)
  PROVE  Hands(o, t)
<1>1. owner' = [owner EXCEPT ![o] = t] BY DEF Give, TypeOK
<1> QED BY <1>1 DEF Hands, TypeOK

Waits(t, o) ==
  /\ waits' \in [Objects -> SUBSET Threads]
  /\ \A p \in Objects : waits'[p] = IF p = o THEN waits[p] \union {t} ELSE waits[p]

LEMMA JustWait ==
  ASSUME TypeOK, NEW t \in Threads, NEW o \in Objects, Wait(t, o)
  PROVE  Waits(t, o)
BY DEF TypeOK, Wait, Waits

(* A signal on s, with or without a wait on o after it, wakes at most one  *)
(* thread, one that waits on s; if only one waits it is that one.          *)
Signalled(s) ==
  /\ waits' \in [Objects -> SUBSET Threads]
  /\ \A p \in Objects : p # s => waits'[p] = waits[p]
  /\ waits'[s] \subseteq waits[s]
  /\ \A u : waits[s] = {u} => waits'[s] = {}
  /\ \A u : (\A v \in waits[s] : v = u) => u \notin waits'[s]

SignalledAndWaits(t, s, o) ==
  /\ waits' \in [Objects -> SUBSET Threads]
  /\ t \in waits'[o]
  /\ \A p \in Objects, u \in Threads :
       /\ u \in waits'[p] => u \in waits[p] \/ (p = o /\ u = t)
       /\ p # s /\ u \in waits[p] => u \in waits'[p]
  /\ \A u : waits[s] = {u} => u \notin waits'[s] \/ (s = o /\ u = t)
  /\ \A u : (\A v \in waits[s] : v = u) => u \notin waits'[s] \/ (s = o /\ u = t)

LEMMA SignalOnly ==
  ASSUME TypeOK, NEW s \in Objects, Signal(s)
  PROVE  Signalled(s)
<1>1. waits' \in AfterSignal(s) BY DEF Signal
<1>2. CASE waits[s] = {}
  <2>1. waits' = waits BY <1>1, <1>2 DEF AfterSignal
  <2> QED BY <1>2, <2>1 DEF Signalled, TypeOK
<1>3. CASE waits[s] # {}
  <2>1. PICK t \in waits[s] : waits' = [waits EXCEPT ![s] = @ \ {t}]
    BY <1>1, <1>3 DEF AfterSignal
  <2>2. waits'[s] = waits[s] \ {t} BY <2>1 DEF TypeOK
  <2> QED BY <2>1, <2>2 DEF Signalled, TypeOK
<1> QED BY <1>2, <1>3

LEMMA SignalThenWait ==
  ASSUME TypeOK, NEW s \in Objects, NEW o \in Objects, NEW t \in Threads,
         SignalAndWait(t, s, o)
  PROVE  SignalledAndWaits(t, s, o)
<1>1. PICK w \in AfterSignal(s) : waits' = [w EXCEPT ![o] = @ \union {t}]
  BY DEF SignalAndWait
<1>2. /\ w \in [Objects -> SUBSET Threads]
      /\ \A p \in Objects : p # s => w[p] = waits[p]
      /\ w[s] \subseteq waits[s]
      /\ \A u : waits[s] = {u} => w[s] = {}
      /\ \A u : (\A v \in waits[s] : v = u) => u \notin w[s]
  <2>1. CASE waits[s] = {}
    <3>1. w = waits BY <1>1, <2>1 DEF AfterSignal
    <3> QED BY <2>1, <3>1 DEF TypeOK
  <2>2. CASE waits[s] # {}
    <3>1. PICK x \in waits[s] : w = [waits EXCEPT ![s] = @ \ {x}]
      BY <1>1, <2>2 DEF AfterSignal
    <3>2. w[s] = waits[s] \ {x} BY <3>1 DEF TypeOK
    <3> QED BY <3>1, <3>2 DEF TypeOK
  <2> QED BY <2>1, <2>2
<1>3. waits'[o] = w[o] \union {t} /\ \A p \in Objects : p # o => waits'[p] = w[p]
  BY <1>1, <1>2
<1>4. waits' \in [Objects -> SUBSET Threads] BY <1>1, <1>2
<1> QED BY <1>2, <1>3, <1>4 DEF SignalledAndWaits

-----------------------------------------------------------------------------
(* Each step keeps the invariant.                                          *)

LEMMA Names ==
  ASSUME DistinctThreads
  PROVE  /\ mgr # sim /\ mgr # opener /\ mgr # evacuation
         /\ sim # opener /\ sim # evacuation /\ opener # evacuation
         /\ None \notin Threads
         /\ mgr \in Threads /\ sim \in Threads
         /\ opener \in Threads /\ evacuation \in Threads
         /\ "lpr" \in Objects /\ "sign" \in Objects /\ "boom" \in Objects
         /\ None # mgr /\ None # sim
BY Distinct DEF Threads, Objects

LEMMA InitInv == DistinctThreads /\ Init => Inv
<1> SUFFICES ASSUME DistinctThreads, Init PROVE Inv OBVIOUS
<1> USE Names DEF Init
<1>1. TypeOK BY DEF TypeOK, Objects, Threads, AllLabels, ManagerLabels, SimulatorLabels,
         FireAlarmLabels
<1>2. Labels BY DEF Labels, ManagerLabels, SimulatorLabels, Threads, Objects
<1>3. Owners BY DEF Owners, Threads, Objects
<1>4. Waiting BY DEF Waiting, Threads, Objects
<1>5. Gate BY DEF Gate, Threads, Objects
<1>6. Plates BY DEF Plates, Serving, Threads, Objects
<1>7. HandOver BY DEF HandOver, Idle, Agreed, Threads, Objects
<1>8. Awake BY DEF Awake, Threads, Objects
<1> QED BY <1>1, <1>2, <1>3, <1>4, <1>5, <1>6, <1>7, <1>8 DEF Inv

LEMMA SignalReadyKeeps ==
  ASSUME DistinctThreads, Inv, SignalReady
  PROVE  Inv'
<1>1. Moves(mgr, "start", "clear")
  BY Names, Move DEF Inv, AllLabels, ManagerLabels, SimulatorLabels, SignalReady
<1>2. Hands("lpr", mgr)
  BY Names, GiveOne DEF Inv, SignalReady, Take, Release
<1>3. Signalled("lpr")
  BY Names, SignalOnly DEF Inv, SignalReady
<1>4. TypeOK'
  BY <1>1, <1>2, <1>3, Names
     DEF SignalReady, gate, cars, Inv, TypeOK, Plates, Serving, Resumes, Moves, Hands,
         Signalled
<1>5. Labels'
  BY <1>1, <1>2, <1>3, Names
     DEF SignalReady, gate, cars, Inv, Labels, ManagerLabels, SimulatorLabels, Owners,
         Waiting, Resumes, IsFree, Moves, Hands, Signalled
<1>6. Owners'
  BY <1>1, <1>2, <1>3, Names
     DEF SignalReady, gate, cars, Inv, Owners, Labels, Resumes, IsFree, Moves, Hands,
         Signalled
<1>7. Waiting'
  BY <1>1, <1>2, <1>3, Names
     DEF SignalReady, gate, cars, Inv, Waiting, Owners, Labels, Resumes, IsFree, Moves,
         Hands, Signalled
<1>8. Gate'
  BY <1>1, <1>2, <1>3, Names
     DEF SignalReady, gate, cars, Inv, Labels, Owners, Waiting, Gate, IsFree, Resumes,
         Moves, Hands, Signalled
<1>9. Plates'
  BY <1>1, <1>2, <1>3, Names
     DEF SignalReady, gate, cars, Inv, Labels, Owners, Waiting, Plates, Serving, Moves,
         Hands, Signalled
<1>10. ~alarm' => HandOver'
  BY <1>1, <1>2, <1>3, Names
     DEF SignalReady, gate, cars, Inv, Labels, Owners, Waiting, Plates, Serving,
         HandOver, Idle, AnswerPending, Decided, Agreed, OneAhead, IsFree, Resumes,
         Moves, Hands, Signalled
<1>11. ~alarm' => Awake'
  BY <1>1, <1>2, <1>3, Names
     DEF SignalReady, gate, cars, Inv, Labels, Owners, Waiting, Gate, IsFree, Resumes,
         Moves, Hands, Signalled, HandOver, Idle, AnswerPending, Admits, Awake
<1> QED BY <1>4, <1>5, <1>6, <1>7, <1>8, <1>9, <1>10, <1>11 DEF Inv

LEMMA ClearSignKeeps ==
  ASSUME DistinctThreads, Inv, ClearSign
  PROVE  Inv'
<1>1. Moves(mgr, "clear", "await car")
  BY Names, Move DEF Inv, AllLabels, ManagerLabels, SimulatorLabels, ClearSign
<1>2. Hands("lpr", None)
  BY Names, GiveOne DEF Inv, ClearSign, Take, Release
<1>3. Waits(mgr, "lpr")
  BY Names, JustWait DEF Inv, ClearSign
<1>4. TypeOK'
  BY <1>1, <1>2, <1>3, Names
     DEF ClearSign, gate, cars, Inv, TypeOK, Plates, Serving, Resumes, Moves, Hands,
         Waits
<1>5. Labels'
  BY <1>1, <1>2, <1>3, Names
     DEF ClearSign, gate, cars, Inv, Labels, ManagerLabels, SimulatorLabels, Owners,
         Waiting, Resumes, IsFree, Moves, Hands, Waits
<1>6. Owners'
  BY <1>1, <1>2, <1>3, Names
  DEF ClearSign, gate, cars, Inv, Owners, Labels, Resumes, IsFree, Moves, Hands, Waits
<1>7. Waiting'
  <2>1. /\ waits'["lpr"] = waits["lpr"] \union {mgr}
        /\ waits'["sign"] = waits["sign"] /\ waits'["boom"] = waits["boom"]
    BY <1>3, Names DEF Waits
  <2> QED BY <1>1, <2>1, Names DEF Inv, Waiting, Moves
<1>8. Gate'
  BY <1>1, <1>2, <1>3, Names
     DEF ClearSign, gate, cars, Inv, Labels, Owners, Waiting, Gate, IsFree, Resumes,
         Moves, Hands, Waits
<1>9. Plates'
  BY <1>1, <1>2, <1>3, Names
     DEF ClearSign, gate, cars, Inv, Labels, Owners, Waiting, Plates, Serving, Moves,
         Hands, Waits
<1>10. ~alarm' => HandOver'
  BY <1>1, <1>2, <1>3, Names
     DEF ClearSign, gate, cars, Inv, Labels, Owners, Waiting, Plates, Serving, HandOver,
         Idle, AnswerPending, Decided, Agreed, OneAhead, IsFree, Resumes, Moves, Hands,
         Waits
<1>11. ~alarm' => Awake'
  BY <1>1, <1>2, <1>3, Names
     DEF ClearSign, gate, cars, Inv, Labels, Owners, Waiting, Gate, IsFree, Resumes,
         Moves, Hands, Waits, HandOver, Idle, AnswerPending, Admits, Awake
<1> QED BY <1>4, <1>5, <1>6, <1>7, <1>8, <1>9, <1>10, <1>11 DEF Inv

LEMMA DecideKeeps ==
  ASSUME DistinctThreads, Inv, Decide
  PROVE  Inv'
<1>1. Moves(mgr, "await car", "answer")
  BY Names, Move DEF Inv, AllLabels, ManagerLabels, SimulatorLabels, Decide
<1>2. Hands("lpr", mgr)
  BY Names, GiveOne DEF Inv, Decide, Take, Release
<1>3. waits' = waits BY DEF Decide
<1>4. TypeOK'
  <2>1. lpr \in Cars
    BY <1>1 DEF Decide, Resumes, Inv, Plates, Moves
  <2>2. registered' \subseteq Cars /\ aborted' \in BOOLEAN
    <3>1. CASE UNCHANGED <<registered, aborted>> BY <3>1 DEF Inv, TypeOK
    <3>2. CASE /\ aborted' = (lpr \in registered)
               /\ registered' = registered \union {lpr}
      <4>1. aborted' \in BOOLEAN BY <3>2
      <4> QED BY <2>1, <3>2, <4>1 DEF Inv, TypeOK
    <3> QED BY <3>1, <3>2 DEF Decide
  <2>3. verdict' \in {" ", "level", "X", "F"}
    BY DEF Decide
  <2> QED
    BY <1>1, <1>2, <1>3, <2>2, <2>3, Names
    DEF Decide, gate, Inv, TypeOK, Moves, Hands
<1>5. Labels'
  BY <1>1, <1>2, <1>3, Names
     DEF Decide, gate, cars, Inv, Labels, ManagerLabels, SimulatorLabels, Owners,
         Waiting, Resumes, IsFree, Moves, Hands
<1>6. Owners'
  BY <1>1, <1>2, <1>3, Names
  DEF Decide, gate, cars, Inv, Owners, Labels, Resumes, IsFree, Moves, Hands
<1>7. Waiting'
  BY <1>1, <1>2, <1>3, Names
  DEF Decide, gate, cars, Inv, Waiting, Owners, Labels, Resumes, IsFree, Moves, Hands
<1>8. Gate'
  BY <1>1, <1>2, <1>3, Names
     DEF Decide, gate, cars, Inv, Labels, Owners, Waiting, Gate, IsFree, Resumes, Moves,
         Hands
<1>9. Plates'
  BY <1>1, <1>2, <1>3, Names
  DEF Decide, gate, cars, Inv, Labels, Owners, Waiting, Plates, Serving, Moves, Hands
<1>10. ~alarm' => HandOver'
  BY <1>1, <1>2, <1>3, Names
     DEF Decide, gate, cars, Inv, Labels, Owners, Waiting, Plates, Serving, HandOver,
         Idle, AnswerPending, Decided, Agreed, OneAhead, IsFree, Resumes, Moves, Hands
<1>11. ~alarm' => Awake'
  BY <1>1, <1>2, <1>3, Names
     DEF Decide, gate, cars, Inv, Labels, Owners, Waiting, Gate, IsFree, Resumes, Moves,
         Hands, HandOver, Idle, AnswerPending, Admits, Awake
<1> QED BY <1>4, <1>5, <1>6, <1>7, <1>8, <1>9, <1>10, <1>11 DEF Inv

LEMMA AnswerKeeps ==
  ASSUME DistinctThreads, Inv, Answer
  PROVE  Inv'
<1>1. Moves(mgr, "answer", "await read")
  BY Names, Move DEF Inv, AllLabels, ManagerLabels, SimulatorLabels, Answer
<1>2. owner' = owner BY DEF Answer
<1>3. SignalledAndWaits(mgr, "sign", "sign")
  BY Names, SignalThenWait DEF Inv, Answer
<1>4. TypeOK'
  BY <1>1, <1>2, <1>3, Names
     DEF Answer, gate, cars, Inv, TypeOK, Plates, Serving, Resumes, Moves,
         SignalledAndWaits
<1>5. Labels'
  BY <1>1, <1>2, <1>3, Names
     DEF Answer, gate, cars, Inv, Labels, ManagerLabels, SimulatorLabels, Owners,
         Waiting, Resumes, IsFree, Moves, SignalledAndWaits
<1>6. Owners'
  BY <1>1, <1>2, <1>3, Names
  DEF Answer, gate, cars, Inv, Owners, Labels, Resumes, IsFree, Moves, SignalledAndWaits
<1>7. Waiting'
  BY <1>1, <1>2, <1>3, Names
     DEF Answer, gate, cars, Inv, Waiting, Owners, Labels, Resumes, IsFree, Moves,
         SignalledAndWaits
<1>8. Gate'
  BY <1>1, <1>2, <1>3, Names
     DEF Answer, gate, cars, Inv, Labels, Owners, Waiting, Gate, IsFree, Resumes, Moves,
         SignalledAndWaits
<1>9. Plates'
  BY <1>1, <1>2, <1>3, Names
     DEF Answer, gate, cars, Inv, Labels, Owners, Waiting, Plates, Serving, Moves,
         SignalledAndWaits
<1>10. ~alarm' => HandOver'
  <2> SUFFICES ASSUME ~alarm PROVE HandOver' BY DEF Answer
  <2>1. HandOver /\ pc[sim] = "await answer"
    BY <1>1 DEF Inv, HandOver, Idle, Moves, Labels, SimulatorLabels
  <2>2. sim \in waits["sign"] /\ Decided
    BY <1>1, <2>1 DEF HandOver, AnswerPending, Moves
  <2>3. waits["sign"] = {sim}
    BY <1>1, <2>2 DEF Inv, Waiting, Moves
  <2>4. sim \notin waits'["sign"] /\ mgr \in waits'["sign"]
    BY <1>3, <2>3, Names DEF SignalledAndWaits
  <2>5. Decided' /\ display' = verdict'
    BY <2>2 DEF Answer, cars, Decided, OneAhead, Agreed
  <2>6. pc'[mgr] = "await read" /\ pc'[sim] = "await answer" /\ ~aborted'
    BY <1>1, <2>1, Names DEF Moves, HandOver, Answer
  <2> QED BY <2>4, <2>5, <2>6 DEF HandOver, AnswerPending
<1>11. ~alarm' => Awake'
  BY <1>1, <1>2, <1>3, Names, ZenonT(40)
     DEF Answer, gate, cars, Inv, Labels, Owners, Waiting, Gate, IsFree, Resumes, Moves,
         SignalledAndWaits, HandOver, Idle, AnswerPending, Admits, Awake
<1> QED BY <1>4, <1>5, <1>6, <1>7, <1>8, <1>9, <1>10, <1>11 DEF Inv

LEMMA AnswerReadKeeps ==
  ASSUME DistinctThreads, Inv, AnswerRead
  PROVE  Inv'
<1>1. Moves(mgr, "await read", IF verdict = "level" THEN "boom" ELSE "clear")
  BY Names, Move DEF Inv, AllLabels, ManagerLabels, SimulatorLabels, AnswerRead
<1>2. owner' = owner BY DEF AnswerRead
<1>3. waits' = waits BY DEF AnswerRead
<1>4. TypeOK'
  BY <1>1, <1>2, <1>3, Names
     DEF AnswerRead, gate, cars, Inv, TypeOK, Plates, Serving, Resumes, Moves
<1>5. Labels'
  BY <1>1, <1>2, <1>3, Names
     DEF AnswerRead, gate, cars, Inv, Labels, ManagerLabels, SimulatorLabels, Owners,
         Waiting, Resumes, IsFree, Moves
<1>6. Owners'
  BY <1>1, <1>2, <1>3, Names
  DEF AnswerRead, gate, cars, Inv, Owners, Labels, Resumes, IsFree, Moves
<1>7. Waiting'
  BY <1>1, <1>2, <1>3, Names
  DEF AnswerRead, gate, cars, Inv, Waiting, Owners, Labels, Resumes, IsFree, Moves
<1>8. Gate'
  BY <1>1, <1>2, <1>3, Names
  DEF AnswerRead, gate, cars, Inv, Labels, Owners, Waiting, Gate, IsFree, Resumes, Moves
<1>9. Plates'
  BY <1>1, <1>2, <1>3, Names
  DEF AnswerRead, gate, cars, Inv, Labels, Owners, Waiting, Plates, Serving, Moves
<1>10. ~alarm' => HandOver'
  BY <1>1, <1>2, <1>3, Names
     DEF AnswerRead, gate, cars, Inv, Labels, Owners, Waiting, Plates, Serving,
         HandOver, Idle, AnswerPending, Decided, Agreed, OneAhead, IsFree, Resumes,
         Moves
<1>11. ~alarm' => Awake'
  BY <1>1, <1>2, <1>3, Names
     DEF AnswerRead, gate, cars, Inv, Labels, Owners, Waiting, Gate, IsFree, Resumes,
         Moves, HandOver, Idle, AnswerPending, Admits, Awake
<1> QED BY <1>4, <1>5, <1>6, <1>7, <1>8, <1>9, <1>10, <1>11 DEF Inv

LEMMA OpenClosedGateKeeps ==
  ASSUME DistinctThreads, Inv, OpenClosedGate
  PROVE  Inv'
<1>1. Moves(mgr, "boom", "await open")
  BY Names, Move
     DEF Inv, AllLabels, ManagerLabels, SimulatorLabels, OpenClosedGate, RaiseGate
<1>2. Hands("boom", None)
  BY Names, GiveOne DEF Inv, OpenClosedGate, RaiseGate, Take, Release
<1>3. SignalledAndWaits(mgr, "boom", "boom")
  BY Names, SignalThenWait DEF Inv, OpenClosedGate, RaiseGate
<1>4. TypeOK'
  BY <1>1, <1>2, <1>3, Names
     DEF OpenClosedGate, RaiseGate, gate, cars, Inv, TypeOK, Plates, Serving, Resumes,
         Moves, Hands, SignalledAndWaits
<1>5. Labels'
  BY <1>1, <1>2, <1>3, Names
     DEF OpenClosedGate, RaiseGate, gate, cars, Inv, Labels, ManagerLabels,
         SimulatorLabels, Owners, Waiting, Resumes, IsFree, Moves, Hands,
         SignalledAndWaits
<1>6. Owners'
  BY <1>1, <1>2, <1>3, Names
     DEF OpenClosedGate, RaiseGate, gate, cars, Inv, Owners, Labels, Resumes, IsFree,
         Moves, Hands, SignalledAndWaits
<1>7. Waiting'
  BY <1>1, <1>2, <1>3, Names
     DEF OpenClosedGate, RaiseGate, gate, cars, Inv, Waiting, Owners, Labels, Resumes,
         IsFree, Moves, Hands, SignalledAndWaits
<1>8. Gate'
  BY <1>1, <1>2, <1>3, Names
     DEF OpenClosedGate, RaiseGate, gate, cars, Inv, Labels, Owners, Waiting, Gate,
         IsFree, Resumes, Moves, Hands, SignalledAndWaits
<1>9. Plates'
  BY <1>1, <1>2, <1>3, Names
     DEF OpenClosedGate, RaiseGate, gate, cars, Inv, Labels, Owners, Waiting, Plates,
         Serving, Moves, Hands, SignalledAndWaits
<1>10. ~alarm' => HandOver'
  BY <1>1, <1>2, <1>3, Names
     DEF OpenClosedGate, RaiseGate, gate, cars, Inv, Labels, Owners, Waiting, Plates,
         Serving, HandOver, Idle, AnswerPending, Decided, Agreed, OneAhead, IsFree,
         Resumes, Moves, Hands, SignalledAndWaits
<1>11. ~alarm' => Awake'
  <2> SUFFICES ASSUME ~alarm PROVE Awake' BY DEF OpenClosedGate, RaiseGate
  <2>1. Awake /\ pc[sim] = "await gate" /\ sim \in waits["boom"] /\ mgr \notin waits["boom"]
    BY <1>1 DEF Inv, Awake, Waiting, Moves
  <2>2. waits["boom"] \subseteq {mgr, sim} BY <2>1 DEF Awake
  <2>3. /\ sim \notin waits'["boom"] /\ waits'["boom"] \subseteq {mgr, sim}
        /\ mgr \in waits'["boom"]
        /\ sim \notin waits'["lpr"] /\ mgr \notin waits'["sign"]
    BY <1>1, <1>3, <2>1, <2>2, Names DEF SignalledAndWaits, Inv, Waiting, Moves
  <2>4. /\ pc'[sim] = "await gate" /\ pc'[mgr] = "await open" /\ boom' = "R"
    BY <1>1, <2>1, Names DEF Moves, OpenClosedGate, RaiseGate
  <2> QED BY <2>3, <2>4 DEF Awake
<1> QED BY <1>4, <1>5, <1>6, <1>7, <1>8, <1>9, <1>10, <1>11 DEF Inv

LEMMA LowerGateKeeps ==
  ASSUME DistinctThreads, Inv, LowerGate
  PROVE  Inv'
<1>1. Moves(mgr, "lower", "await closed")
  BY Names, Move DEF Inv, AllLabels, ManagerLabels, SimulatorLabels, LowerGate
<1>2. Hands("boom", None)
  BY Names, GiveOne DEF Inv, LowerGate, Take, Release
<1>3. SignalledAndWaits(mgr, "boom", "boom")
  BY Names, SignalThenWait DEF Inv, LowerGate
<1>4. TypeOK'
  BY <1>1, <1>2, <1>3, Names
     DEF LowerGate, gate, cars, Inv, TypeOK, Plates, Serving, Resumes, Moves, Hands,
         SignalledAndWaits
<1>5. Labels'
  BY <1>1, <1>2, <1>3, Names
     DEF LowerGate, gate, cars, Inv, Labels, ManagerLabels, SimulatorLabels, Owners,
         Waiting, Resumes, IsFree, Moves, Hands, SignalledAndWaits
<1>6. Owners'
  BY <1>1, <1>2, <1>3, Names
     DEF LowerGate, gate, cars, Inv, Owners, Labels, Resumes, IsFree, Moves, Hands,
         SignalledAndWaits
<1>7. Waiting'
  BY <1>1, <1>2, <1>3, Names
     DEF LowerGate, gate, cars, Inv, Waiting, Owners, Labels, Resumes, IsFree, Moves,
         Hands, SignalledAndWaits
<1>8. Gate'
  BY <1>1, <1>2, <1>3, Names
     DEF LowerGate, gate, cars, Inv, Labels, Owners, Waiting, Gate, IsFree, Resumes,
         Moves, Hands, SignalledAndWaits
<1>9. Plates'
  BY <1>1, <1>2, <1>3, Names
     DEF LowerGate, gate, cars, Inv, Labels, Owners, Waiting, Plates, Serving, Moves,
         Hands, SignalledAndWaits
<1>10. ~alarm' => HandOver'
  BY <1>1, <1>2, <1>3, Names
     DEF LowerGate, gate, cars, Inv, Labels, Owners, Waiting, Plates, Serving, HandOver,
         Idle, AnswerPending, Decided, Agreed, OneAhead, IsFree, Resumes, Moves, Hands,
         SignalledAndWaits
<1>11. ~alarm' => Awake'
  <2> SUFFICES ASSUME ~alarm PROVE Awake' BY DEF LowerGate
  <2>1. Awake /\ pc[sim] = "await gate" /\ sim \in waits["boom"] /\ mgr \notin waits["boom"]
    BY <1>1 DEF Inv, Awake, Waiting, Moves
  <2>2. waits["boom"] \subseteq {mgr, sim} BY <2>1 DEF Awake
  <2>3. /\ sim \notin waits'["boom"] /\ waits'["boom"] \subseteq {mgr, sim}
        /\ mgr \in waits'["boom"]
        /\ sim \notin waits'["lpr"] /\ mgr \notin waits'["sign"]
    BY <1>1, <1>3, <2>1, <2>2, Names DEF SignalledAndWaits, Inv, Waiting, Moves
  <2>4. /\ pc'[sim] = "await gate" /\ pc'[mgr] = "await closed" /\ boom' = "L"
    BY <1>1, <2>1, Names DEF Moves, LowerGate
  <2> QED BY <2>3, <2>4 DEF Awake
<1> QED BY <1>4, <1>5, <1>6, <1>7, <1>8, <1>9, <1>10, <1>11 DEF Inv

LEMMA ReopenGateKeeps ==
  ASSUME DistinctThreads, Inv, ReopenGate
  PROVE  Inv'
<1>1. Moves(mgr, "await closed", "await open")
  BY Names, Move
     DEF Inv, AllLabels, ManagerLabels, SimulatorLabels, ReopenGate, RaiseGate
<1>2. Hands("boom", None)
  BY Names, GiveOne DEF Inv, ReopenGate, RaiseGate, Take, Release
<1>3. SignalledAndWaits(mgr, "boom", "boom")
  BY Names, SignalThenWait DEF Inv, ReopenGate, RaiseGate
<1>4. TypeOK'
  BY <1>1, <1>2, <1>3, Names
     DEF ReopenGate, RaiseGate, gate, cars, Inv, TypeOK, Plates, Serving, Resumes,
         Moves, Hands, SignalledAndWaits
<1>5. Labels'
  BY <1>1, <1>2, <1>3, Names
     DEF ReopenGate, RaiseGate, gate, cars, Inv, Labels, ManagerLabels, SimulatorLabels,
         Owners, Waiting, Resumes, IsFree, Moves, Hands, SignalledAndWaits
<1>6. Owners'
  BY <1>1, <1>2, <1>3, Names
     DEF ReopenGate, RaiseGate, gate, cars, Inv, Owners, Labels, Resumes, IsFree, Moves,
         Hands, SignalledAndWaits
<1>7. Waiting'
  BY <1>1, <1>2, <1>3, Names
     DEF ReopenGate, RaiseGate, gate, cars, Inv, Waiting, Owners, Labels, Resumes,
         IsFree, Moves, Hands, SignalledAndWaits
<1>8. Gate'
  BY <1>1, <1>2, <1>3, Names
     DEF ReopenGate, RaiseGate, gate, cars, Inv, Labels, Owners, Waiting, Gate, IsFree,
         Resumes, Moves, Hands, SignalledAndWaits
<1>9. Plates'
  BY <1>1, <1>2, <1>3, Names
     DEF ReopenGate, RaiseGate, gate, cars, Inv, Labels, Owners, Waiting, Plates,
         Serving, Moves, Hands, SignalledAndWaits
<1>10. ~alarm' => HandOver'
  BY <1>1, <1>2, <1>3, Names
     DEF ReopenGate, RaiseGate, gate, cars, Inv, Labels, Owners, Waiting, Plates,
         Serving, HandOver, Idle, AnswerPending, Decided, Agreed, OneAhead, IsFree,
         Resumes, Moves, Hands, SignalledAndWaits
<1>11. ~alarm' => Awake'
  <2> SUFFICES ASSUME ~alarm' PROVE Awake' OBVIOUS
  <2>1. /\ Awake /\ ~alarm /\ pc[mgr] = "await closed" /\ mgr \notin waits["boom"]
        /\ boom' = "R"
    BY DEF ReopenGate, RaiseGate, Resumes, At, Inv
  <2>2. waits["boom"] = {sim} /\ pc[sim] = "await reopen" BY <2>1 DEF Awake
  <2>3. sim \notin waits'["boom"] /\ waits'["boom"] \subseteq {mgr, sim}
    BY <1>3, <2>2, Names DEF SignalledAndWaits
  <2>4. mgr \notin waits'["sign"]
    <3>1. mgr \notin waits["sign"] BY <2>1 DEF Inv, Waiting
    <3> QED BY <1>3, <3>1, Names DEF SignalledAndWaits
  <2>5. pc'[sim] = "await reopen" /\ pc'[mgr] = "await open"
    BY <1>1, <2>2, Names DEF Moves
  <2> QED BY <2>1, <2>3, <2>4, <2>5, Names DEF Awake
<1> QED BY <1>4, <1>5, <1>6, <1>7, <1>8, <1>9, <1>10, <1>11 DEF Inv

LEMMA GateOpenedKeeps ==
  ASSUME DistinctThreads, Inv, GateOpened
  PROVE  Inv'
<1>1. Moves(mgr, "await open", "clear")
  BY Names, Move DEF Inv, AllLabels, ManagerLabels, SimulatorLabels, GateOpened
<1>2. owner' = owner BY DEF GateOpened
<1>3. waits' = waits BY DEF GateOpened
<1>4. TypeOK'
  BY <1>1, <1>2, <1>3, Names
     DEF GateOpened, gate, cars, Inv, TypeOK, Plates, Serving, Resumes, Moves
<1>5. Labels'
  BY <1>1, <1>2, <1>3, Names
     DEF GateOpened, gate, cars, Inv, Labels, ManagerLabels, SimulatorLabels, Owners,
         Waiting, Resumes, IsFree, Moves
<1>6. Owners'
  BY <1>1, <1>2, <1>3, Names
  DEF GateOpened, gate, cars, Inv, Owners, Labels, Resumes, IsFree, Moves
<1>7. Waiting'
  BY <1>1, <1>2, <1>3, Names
  DEF GateOpened, gate, cars, Inv, Waiting, Owners, Labels, Resumes, IsFree, Moves
<1>8. Gate'
  BY <1>1, <1>2, <1>3, Names
  DEF GateOpened, gate, cars, Inv, Labels, Owners, Waiting, Gate, IsFree, Resumes, Moves
<1>9. Plates'
  BY <1>1, <1>2, <1>3, Names
  DEF GateOpened, gate, cars, Inv, Labels, Owners, Waiting, Plates, Serving, Moves
<1>10. ~alarm' => HandOver'
  BY <1>1, <1>2, <1>3, Names
     DEF GateOpened, gate, cars, Inv, Labels, Owners, Waiting, Plates, Serving,
         HandOver, Idle, AnswerPending, Decided, Agreed, OneAhead, IsFree, Resumes,
         Moves
<1>11. ~alarm' => Awake'
  BY <1>1, <1>2, <1>3, Names
     DEF GateOpened, gate, cars, Inv, Labels, Owners, Waiting, Gate, IsFree, Resumes,
         Moves, HandOver, Idle, AnswerPending, Admits, Awake
<1> QED BY <1>4, <1>5, <1>6, <1>7, <1>8, <1>9, <1>10, <1>11 DEF Inv

LEMMA AwaitReadyKeeps ==
  ASSUME DistinctThreads, Inv, AwaitReady
  PROVE  Inv'
<1>1. Moves(sim, "start", "await ready")
  BY Names, Move DEF Inv, AllLabels, ManagerLabels, SimulatorLabels, AwaitReady
<1>2. owner' = owner BY DEF AwaitReady
<1>3. Waits(sim, "lpr") BY Names, JustWait DEF Inv, AwaitReady
<1>4. TypeOK'
  BY <1>1, <1>2, <1>3, Names
     DEF AwaitReady, gate, cars, Inv, TypeOK, Plates, Serving, Resumes, Moves, Waits
<1>5. Labels'
  BY <1>1, <1>2, <1>3, Names
     DEF AwaitReady, gate, cars, Inv, Labels, ManagerLabels, SimulatorLabels, Owners,
         Waiting, Resumes, IsFree, Moves, Waits
<1>6. Owners'
  BY <1>1, <1>2, <1>3, Names
  DEF AwaitReady, gate, cars, Inv, Owners, Labels, Resumes, IsFree, Moves, Waits
<1>7. Waiting'
  BY <1>1, <1>2, <1>3, Names, ZenonT(40)
     DEF AwaitReady, gate, cars, Inv, Waiting, Owners, Labels, Resumes, IsFree, Moves,
         Waits
<1>8. Gate'
  BY <1>1, <1>2, <1>3, Names
     DEF AwaitReady, gate, cars, Inv, Labels, Owners, Waiting, Gate, IsFree, Resumes,
         Moves, Waits
<1>9. Plates'
  BY <1>1, <1>2, <1>3, Names
     DEF AwaitReady, gate, cars, Inv, Labels, Owners, Waiting, Plates, Serving, Moves,
         Waits
<1>10. ~alarm' => HandOver'
  BY <1>1, <1>2, <1>3, Names
     DEF AwaitReady, gate, cars, Inv, Labels, Owners, Waiting, Plates, Serving,
         HandOver, Idle, AnswerPending, Decided, Agreed, OneAhead, IsFree, Resumes,
         Moves, Waits
<1>11. ~alarm' => Awake'
  BY <1>1, <1>2, <1>3, Names
     DEF AwaitReady, gate, cars, Inv, Labels, Owners, Waiting, Gate, IsFree, Resumes,
         Moves, Waits, HandOver, Idle, AnswerPending, Admits, Awake
<1> QED BY <1>4, <1>5, <1>6, <1>7, <1>8, <1>9, <1>10, <1>11 DEF Inv

LEMMA ManagerReadyKeeps ==
  ASSUME DistinctThreads, Inv, ManagerReady
  PROVE  Inv'
<1>1. Moves(sim, "await ready", "pop")
  BY Names, Move DEF Inv, AllLabels, ManagerLabels, SimulatorLabels, ManagerReady
<1>2. owner' = owner BY DEF ManagerReady
<1>3. waits' = waits BY DEF ManagerReady
<1>4. TypeOK'
  BY <1>1, <1>2, <1>3, Names
     DEF ManagerReady, gate, cars, Inv, TypeOK, Plates, Serving, Resumes, Moves
<1>5. Labels'
  BY <1>1, <1>2, <1>3, Names
     DEF ManagerReady, gate, cars, Inv, Labels, ManagerLabels, SimulatorLabels, Owners,
         Waiting, Resumes, IsFree, Moves
<1>6. Owners'
  BY <1>1, <1>2, <1>3, Names
  DEF ManagerReady, gate, cars, Inv, Owners, Labels, Resumes, IsFree, Moves
<1>7. Waiting'
  BY <1>1, <1>2, <1>3, Names
  DEF ManagerReady, gate, cars, Inv, Waiting, Owners, Labels, Resumes, IsFree, Moves
<1>8. Gate'
  BY <1>1, <1>2, <1>3, Names
     DEF ManagerReady, gate, cars, Inv, Labels, Owners, Waiting, Gate, IsFree, Resumes,
         Moves
<1>9. Plates'
  BY <1>1, <1>2, <1>3, Names
  DEF ManagerReady, gate, cars, Inv, Labels, Owners, Waiting, Plates, Serving, Moves
<1>10. ~alarm' => HandOver'
  BY <1>1, <1>2, <1>3, Names
     DEF ManagerReady, gate, cars, Inv, Labels, Owners, Waiting, Plates, Serving,
         HandOver, Idle, AnswerPending, Decided, Agreed, OneAhead, IsFree, Resumes,
         Moves
<1>11. ~alarm' => Awake'
  BY <1>1, <1>2, <1>3, Names
     DEF ManagerReady, gate, cars, Inv, Labels, Owners, Waiting, Gate, IsFree, Resumes,
         Moves, HandOver, Idle, AnswerPending, Admits, Awake
<1> QED BY <1>4, <1>5, <1>6, <1>7, <1>8, <1>9, <1>10, <1>11 DEF Inv

LEMMA PopCarKeeps ==
  ASSUME DistinctThreads, Inv, NEW r \in Cars, PopCar(r)
  PROVE  Inv'
<1>1. Moves(sim, "pop", "lock lpr")
  BY Names, Move DEF Inv, AllLabels, ManagerLabels, SimulatorLabels, PopCar
<1>2. owner' = owner BY DEF PopCar
<1>3. waits' = waits BY DEF PopCar
<1>4. TypeOK'
  BY <1>1, <1>2, <1>3, Names
     DEF PopCar, gate, cars, Inv, TypeOK, Plates, Serving, Resumes, Moves
<1>5. Labels'
  BY <1>1, <1>2, <1>3, Names
     DEF PopCar, gate, cars, Inv, Labels, ManagerLabels, SimulatorLabels, Owners,
         Waiting, Resumes, IsFree, Moves
<1>6. Owners'
  BY <1>1, <1>2, <1>3, Names
  DEF PopCar, gate, cars, Inv, Owners, Labels, Resumes, IsFree, Moves
<1>7. Waiting'
  BY <1>1, <1>2, <1>3, Names
  DEF PopCar, gate, cars, Inv, Waiting, Owners, Labels, Resumes, IsFree, Moves
<1>8. Gate'
  BY <1>1, <1>2, <1>3, Names
  DEF PopCar, gate, cars, Inv, Labels, Owners, Waiting, Gate, IsFree, Resumes, Moves
<1>9. Plates'
  BY <1>1, <1>2, <1>3, Names
  DEF PopCar, gate, cars, Inv, Labels, Owners, Waiting, Plates, Serving, Moves
<1>10. ~alarm' => HandOver'
  BY <1>1, <1>2, <1>3, Names
     DEF PopCar, gate, cars, Inv, Labels, Owners, Waiting, Plates, Serving, HandOver,
         Idle, AnswerPending, Decided, Agreed, OneAhead, IsFree, Resumes, Moves
<1>11. ~alarm' => Awake'
  BY <1>1, <1>2, <1>3, Names
     DEF PopCar, gate, cars, Inv, Labels, Owners, Waiting, Gate, IsFree, Resumes, Moves,
         HandOver, Idle, AnswerPending, Admits, Awake
<1> QED BY <1>4, <1>5, <1>6, <1>7, <1>8, <1>9, <1>10, <1>11 DEF Inv

LEMMA LockReaderKeeps ==
  ASSUME DistinctThreads, Inv, LockReader
  PROVE  Inv'
<1>1. Moves(sim, "lock lpr", "lock sign")
  BY Names, Move DEF Inv, AllLabels, ManagerLabels, SimulatorLabels, LockReader
<1>2. Hands("lpr", sim)
  BY Names, GiveOne DEF Inv, LockReader, Take, Release
<1>3. waits' = waits BY DEF LockReader
<1>4. TypeOK'
  BY <1>1, <1>2, <1>3, Names
     DEF LockReader, gate, cars, Inv, TypeOK, Plates, Serving, Resumes, Moves, Hands
<1>5. Labels'
  BY <1>1, <1>2, <1>3, Names
     DEF LockReader, gate, cars, Inv, Labels, ManagerLabels, SimulatorLabels, Owners,
         Waiting, Resumes, IsFree, Moves, Hands
<1>6. Owners'
  <2>1. owner["lpr"] = None BY DEF LockReader, Take, IsFree
  <2> QED BY <1>1, <1>2, <2>1, Names DEF Inv, Owners, Moves, Hands
<1>7. Waiting'
  BY <1>1, <1>2, <1>3, Names
     DEF LockReader, gate, cars, Inv, Waiting, Owners, Labels, Resumes, IsFree, Moves,
         Hands
<1>8. Gate'
  BY <1>1, <1>2, <1>3, Names
     DEF LockReader, gate, cars, Inv, Labels, Owners, Waiting, Gate, IsFree, Resumes,
         Moves, Hands
<1>9. Plates'
  BY <1>1, <1>2, <1>3, Names
     DEF LockReader, gate, cars, Inv, Labels, Owners, Waiting, Plates, Serving, Moves,
         Hands
<1>10. ~alarm' => HandOver'
  BY <1>1, <1>2, <1>3, Names
     DEF LockReader, gate, cars, Inv, Labels, Owners, Waiting, Plates, Serving,
         HandOver, Idle, AnswerPending, Decided, Agreed, OneAhead, IsFree, Resumes,
         Moves, Hands
<1>11. ~alarm' => Awake'
  BY <1>1, <1>2, <1>3, Names
     DEF LockReader, gate, cars, Inv, Labels, Owners, Waiting, Gate, IsFree, Resumes,
         Moves, Hands, HandOver, Idle, AnswerPending, Admits, Awake
<1> QED BY <1>4, <1>5, <1>6, <1>7, <1>8, <1>9, <1>10, <1>11 DEF Inv

LEMMA LockSignKeeps ==
  ASSUME DistinctThreads, Inv, LockSign
  PROVE  Inv'
<1>1. Moves(sim, "lock sign", "lock boom")
  BY Names, Move DEF Inv, AllLabels, ManagerLabels, SimulatorLabels, LockSign
<1>2. Hands("sign", sim)
  BY Names, GiveOne DEF Inv, LockSign, Take, Release
<1>3. waits' = waits BY DEF LockSign
<1>4. TypeOK'
  BY <1>1, <1>2, <1>3, Names
     DEF LockSign, gate, cars, Inv, TypeOK, Plates, Serving, Resumes, Moves, Hands
<1>5. Labels'
  BY <1>1, <1>2, <1>3, Names
     DEF LockSign, gate, cars, Inv, Labels, ManagerLabels, SimulatorLabels, Owners,
         Waiting, Resumes, IsFree, Moves, Hands
<1>6. Owners'
  BY <1>1, <1>2, <1>3, Names
  DEF LockSign, gate, cars, Inv, Owners, Labels, Resumes, IsFree, Moves, Hands
<1>7. Waiting'
  BY <1>1, <1>2, <1>3, Names
  DEF LockSign, gate, cars, Inv, Waiting, Owners, Labels, Resumes, IsFree, Moves, Hands
<1>8. Gate'
  BY <1>1, <1>2, <1>3, Names
     DEF LockSign, gate, cars, Inv, Labels, Owners, Waiting, Gate, IsFree, Resumes,
         Moves, Hands
<1>9. Plates'
  BY <1>1, <1>2, <1>3, Names
  DEF LockSign, gate, cars, Inv, Labels, Owners, Waiting, Plates, Serving, Moves, Hands
<1>10. ~alarm' => HandOver'
  BY <1>1, <1>2, <1>3, Names
     DEF LockSign, gate, cars, Inv, Labels, Owners, Waiting, Plates, Serving, HandOver,
         Idle, AnswerPending, Decided, Agreed, OneAhead, IsFree, Resumes, Moves, Hands
<1>11. ~alarm' => Awake'
  BY <1>1, <1>2, <1>3, Names
     DEF LockSign, gate, cars, Inv, Labels, Owners, Waiting, Gate, IsFree, Resumes,
         Moves, Hands, HandOver, Idle, AnswerPending, Admits, Awake
<1> QED BY <1>4, <1>5, <1>6, <1>7, <1>8, <1>9, <1>10, <1>11 DEF Inv

LEMMA ShowPlateKeeps ==
  ASSUME DistinctThreads, Inv, ShowPlate
  PROVE  Inv'
<1>1. Moves(sim, "lock boom", "await answer")
  BY Names, Move DEF Inv, AllLabels, ManagerLabels, SimulatorLabels, ShowPlate
<1>3. SignalledAndWaits(sim, "lpr", "sign")
  BY Names, SignalThenWait DEF Inv, ShowPlate
<1>2. owner' = [o \in Objects |-> IF o = "boom" THEN sim ELSE None] BY DEF ShowPlate
<1>4. TypeOK'
  <2>1. owner' \in [Objects -> Threads \union {None}] BY <1>2, Names
  <2>2. waits' \in [Objects -> SUBSET Threads] BY <1>3 DEF SignalledAndWaits
  <2>3. pc' \in [Threads -> AllLabels] BY <1>1 DEF Moves
  <2> QED BY <2>1, <2>2, <2>3 DEF ShowPlate, cars, Inv, TypeOK
<1>5. Labels'
  BY <1>1, <1>2, <1>3, Names
     DEF ShowPlate, gate, cars, Inv, Labels, ManagerLabels, SimulatorLabels, Owners,
         Waiting, Resumes, IsFree, Moves, Hands, SignalledAndWaits
<1>6. Owners'
  <2>1. /\ owner'["lpr"] = None /\ owner'["sign"] = None /\ owner'["boom"] = sim
        /\ owner["boom"] = None
    BY <1>2, Names DEF ShowPlate, IsFree
  <2>2. owner["lpr"] = sim BY <1>1 DEF Inv, Owners, Moves
  <2> QED BY <1>1, <2>1, <2>2, Names DEF Inv, Owners, Moves
<1>7. Waiting'
  BY <1>1, <1>2, <1>3, Names
     DEF ShowPlate, gate, cars, Inv, Waiting, Owners, Labels, Resumes, IsFree, Moves,
         Hands, SignalledAndWaits
<1>8. Gate'
  BY <1>1, <1>2, <1>3, Names
     DEF ShowPlate, gate, cars, Inv, Labels, Owners, Waiting, Gate, IsFree, Resumes,
         Moves, Hands, SignalledAndWaits
<1>9. Plates'
  BY <1>1, <1>2, <1>3, Names
     DEF ShowPlate, gate, cars, Inv, Labels, Owners, Waiting, Plates, Serving, Moves,
         Hands, SignalledAndWaits
<1>10. ~alarm' => HandOver'
  <2> SUFFICES ASSUME ~alarm PROVE HandOver' BY DEF ShowPlate
  <2>1. HandOver /\ Idle /\ Agreed /\ pc[sim] = "lock boom"
    BY <1>1 DEF Inv, HandOver, Moves
  <2>2. pc[mgr] = "await car"
    BY <2>1, Names DEF Inv, Owners, Labels
  <2>3. waits["lpr"] = {mgr}
    BY <2>1, <2>2 DEF Idle, Inv, Waiting
  <2>4. mgr \notin waits'["lpr"] /\ sim \in waits'["sign"]
    BY <1>3, <2>3, Names DEF SignalledAndWaits
  <2>5. Agreed' /\ lpr' = head' /\ ~aborted'
    BY <2>1 DEF ShowPlate, cars, Agreed, HandOver
  <2>6. pc'[mgr] = "await car" /\ pc'[sim] = "await answer"
    BY <1>1, <2>2, Names DEF Moves
  <2> QED BY <2>4, <2>5, <2>6 DEF HandOver, AnswerPending
<1>11. ~alarm' => Awake'
  BY <1>1, <1>2, <1>3, Names
     DEF ShowPlate, gate, cars, Inv, Labels, Owners, Waiting, Gate, IsFree, Resumes,
         Moves, Hands, SignalledAndWaits, HandOver, Idle, AnswerPending, Admits, Awake
<1> QED BY <1>4, <1>5, <1>6, <1>7, <1>8, <1>9, <1>10, <1>11 DEF Inv

LEMMA FinishLoweringKeeps ==
  ASSUME DistinctThreads, Inv, FinishLowering
  PROVE  Inv'
<1>1. Moves(sim, "await gate", "await reopen")
  BY Names, Move DEF Inv, AllLabels, ManagerLabels, SimulatorLabels, FinishLowering
<1>2. owner' = owner BY DEF FinishLowering
<1>3. SignalledAndWaits(sim, "boom", "boom")
  BY Names, SignalThenWait DEF Inv, FinishLowering
<1>4. TypeOK'
  BY <1>1, <1>2, <1>3, Names
     DEF FinishLowering, gate, cars, Inv, TypeOK, Plates, Serving, Resumes, Moves,
         SignalledAndWaits
<1>5. Labels'
  BY <1>1, <1>2, <1>3, Names
     DEF FinishLowering, gate, cars, Inv, Labels, ManagerLabels, SimulatorLabels,
         Owners, Waiting, Resumes, IsFree, Moves, SignalledAndWaits
<1>6. Owners'
  BY <1>1, <1>2, <1>3, Names
     DEF FinishLowering, gate, cars, Inv, Owners, Labels, Resumes, IsFree, Moves,
         SignalledAndWaits
<1>7. Waiting'
  BY <1>1, <1>2, <1>3, Names
     DEF FinishLowering, gate, cars, Inv, Waiting, Owners, Labels, Resumes, IsFree,
         Moves, SignalledAndWaits
<1>8. Gate'
  BY <1>1, <1>2, <1>3, Names
     DEF FinishLowering, gate, cars, Inv, Labels, Owners, Waiting, Gate, IsFree,
         Resumes, Moves, SignalledAndWaits
<1>9. Plates'
  BY <1>1, <1>2, <1>3, Names
     DEF FinishLowering, gate, cars, Inv, Labels, Owners, Waiting, Plates, Serving,
         Moves, SignalledAndWaits
<1>10. ~alarm' => HandOver'
  BY <1>1, <1>2, <1>3, Names
     DEF FinishLowering, gate, cars, Inv, Labels, Owners, Waiting, Plates, Serving,
         HandOver, Idle, AnswerPending, Decided, Agreed, OneAhead, IsFree, Resumes,
         Moves, SignalledAndWaits
<1>11. ~alarm' => Awake'
  BY <1>1, <1>2, <1>3, Names
     DEF FinishLowering, gate, cars, Inv, Labels, Owners, Waiting, Gate, IsFree,
         Resumes, Moves, SignalledAndWaits, HandOver, Idle, AnswerPending, Admits, Awake
<1> QED BY <1>4, <1>5, <1>6, <1>7, <1>8, <1>9, <1>10, <1>11 DEF Inv

LEMMA UseRaisedGateKeeps ==
  ASSUME DistinctThreads, Inv, UseRaisedGate
  PROVE  Inv'
<1>1. CASE /\ boom = "O" /\ ~alarm
           /\ Take(mgr, "boom")
           /\ Goto(mgr, "lower")
           /\ UNCHANGED waits
  <2>1. Moves(mgr, "boom", "lower")
    BY Names, Move, <1>1
       DEF Inv, AllLabels, ManagerLabels, SimulatorLabels, At, UseRaisedGate
  <2>2. Hands("boom", mgr)
    BY Names, GiveOne, <1>1 DEF Inv, UseRaisedGate, Take, Release
  <2>3. waits' = waits BY <1>1 DEF UseRaisedGate
  <2>4. TypeOK'
    BY <2>1, <2>2, <2>3, Names, <1>1
    DEF UseRaisedGate, gate, cars, Inv, TypeOK, Moves, Hands
  <2>5. Labels'
    BY <2>1, <2>2, <2>3, Names, <1>1
       DEF UseRaisedGate, gate, cars, Inv, Labels, ManagerLabels, SimulatorLabels,
           Owners, Waiting, At, Take, Moves, Hands
  <2>6. Owners'
    BY <2>1, <2>2, <2>3, Names, <1>1
       DEF UseRaisedGate, gate, cars, Inv, Owners, Labels, Resumes, At, Take, IsFree,
           Moves, Hands
  <2>7. Waiting'
    BY <2>1, <2>2, <2>3, Names, <1>1
       DEF UseRaisedGate, gate, cars, Inv, Waiting, Owners, Labels, Resumes, At, Moves,
           Hands
  <2>8. Gate'
    BY <2>1, <2>2, <2>3, Names, <1>1
       DEF UseRaisedGate, gate, cars, Inv, Labels, Owners, Waiting, Gate, Resumes, At,
           IsFree, Moves, Hands
  <2>9. Plates'
    BY <2>1, <2>2, <2>3, Names, <1>1
    DEF UseRaisedGate, gate, cars, Inv, Plates, Serving, At, Moves, Hands
  <2>10. ~alarm' => HandOver'
    BY <2>1, <2>2, <2>3, Names, <1>1
       DEF UseRaisedGate, gate, cars, Inv, Labels, Owners, Waiting, Plates, Serving,
           HandOver, Idle, AnswerPending, Decided, Agreed, OneAhead, Resumes, Admits,
           At, Moves, Hands
  <2>11. ~alarm' => Awake'
    BY <2>1, <2>2, <2>3, Names, <1>1
       DEF UseRaisedGate, gate, cars, Inv, Labels, Owners, Waiting, Gate, Resumes, At,
           IsFree, Moves, Hands, HandOver, Idle, AnswerPending, Admits, Awake
  <2> QED BY <2>4, <2>5, <2>6, <2>7, <2>8, <2>9, <2>10, <2>11 DEF Inv
<1>2. CASE /\ Signal("boom")
           /\ Goto(mgr, "clear")
           /\ UNCHANGED owner
  <2>1. Moves(mgr, "boom", "clear")
    BY Names, Move, <1>2
       DEF Inv, AllLabels, ManagerLabels, SimulatorLabels, At, UseRaisedGate
  <2>2. owner' = owner BY <1>2 DEF UseRaisedGate
  <2>3. Signalled("boom")
    BY Names, SignalOnly, <1>2 DEF Inv, UseRaisedGate
  <2>4. TypeOK'
    BY <2>1, <2>2, <2>3, Names, <1>2
    DEF UseRaisedGate, gate, cars, Inv, TypeOK, Moves, Signalled
  <2>5. Labels'
    BY <2>1, <2>2, <2>3, Names, <1>2
       DEF UseRaisedGate, gate, cars, Inv, Labels, ManagerLabels, SimulatorLabels,
           Owners, Waiting, At, Take, Moves, Signalled
  <2>6. Owners'
    BY <2>1, <2>2, <2>3, Names, <1>2
       DEF UseRaisedGate, gate, cars, Inv, Owners, Labels, Resumes, At, Take, IsFree,
           Moves, Signalled
  <2>7. Waiting'
    BY <2>1, <2>2, <2>3, Names, <1>2
       DEF UseRaisedGate, gate, cars, Inv, Waiting, Owners, Labels, Resumes, At, Moves,
           Signalled
  <2>8. Gate'
    BY <2>1, <2>2, <2>3, Names, <1>2
       DEF UseRaisedGate, gate, cars, Inv, Labels, Owners, Waiting, Gate, Resumes, At,
           IsFree, Moves, Signalled
  <2>9. Plates'
    BY <2>1, <2>2, <2>3, Names, <1>2
    DEF UseRaisedGate, gate, cars, Inv, Plates, Serving, At, Moves, Signalled
  <2>10. ~alarm' => HandOver'
    BY <2>1, <2>2, <2>3, Names, <1>2
       DEF UseRaisedGate, gate, cars, Inv, Labels, Owners, Waiting, Plates, Serving,
           HandOver, Idle, AnswerPending, Decided, Agreed, OneAhead, Resumes, Admits,
           At, Moves, Signalled
  <2>11. ~alarm' => Awake'
    BY <2>1, <2>2, <2>3, Names, <1>2
       DEF UseRaisedGate, gate, cars, Inv, Labels, Owners, Waiting, Gate, Resumes, At,
           IsFree, Moves, Signalled, HandOver, Idle, AnswerPending, Admits, Awake
  <2> QED BY <2>4, <2>5, <2>6, <2>7, <2>8, <2>9, <2>10, <2>11 DEF Inv
<1> QED BY <1>1, <1>2 DEF UseRaisedGate

LEMMA ReadSignKeeps ==
  ASSUME DistinctThreads, Inv, ReadSign
  PROVE  Inv'
<1>1. CASE /\ Admits(display)
           /\ SignalAndWait(sim, "sign", "boom")
           /\ Goto(sim, "await gate")
           /\ UNCHANGED head
  <2>1. Moves(sim, "await answer", "await gate")
    BY Names, Move, <1>1
       DEF Inv, AllLabels, ManagerLabels, SimulatorLabels, At, ReadSign
  <2>2. Hands("boom", None)
    BY Names, GiveOne, <1>1 DEF Inv, ReadSign, Take, Release
  <2>3. SignalledAndWaits(sim, "sign", "boom")
    BY Names, SignalThenWait, <1>1 DEF Inv, ReadSign
  <2>4. TypeOK'
    BY <2>1, <2>2, <2>3, Names, <1>1
    DEF ReadSign, gate, cars, Inv, TypeOK, Moves, Hands, SignalledAndWaits
  <2>5. Labels'
    BY <2>1, <2>2, <2>3, Names, <1>1
       DEF ReadSign, gate, cars, Inv, Labels, ManagerLabels, SimulatorLabels, Owners,
           Waiting, At, Take, Moves, Hands, SignalledAndWaits
  <2>6. Owners'
    BY <2>1, <2>2, <2>3, Names, <1>1
       DEF ReadSign, gate, cars, Inv, Owners, Labels, Resumes, At, Take, IsFree, Moves,
           Hands, SignalledAndWaits
  <2>7. Waiting'
    BY <2>1, <2>2, <2>3, Names, <1>1
       DEF ReadSign, gate, cars, Inv, Waiting, Owners, Labels, Resumes, At, Moves,
           Hands, SignalledAndWaits
  <2>8. Gate'
    BY <2>1, <2>2, <2>3, Names, <1>1
       DEF ReadSign, gate, cars, Inv, Labels, Owners, Waiting, Gate, Resumes, At,
           IsFree, Moves, Hands, SignalledAndWaits
  <2>9. Plates'
    BY <2>1, <2>2, <2>3, Names, <1>1
    DEF ReadSign, gate, cars, Inv, Plates, Serving, At, Moves, Hands, SignalledAndWaits
  <2>10. ~alarm' => HandOver'
    BY <2>1, <2>2, <2>3, Names, <1>1
       DEF ReadSign, gate, cars, Inv, Labels, Owners, Waiting, Plates, Serving,
           HandOver, Idle, AnswerPending, Decided, Agreed, OneAhead, Resumes, Admits,
           At, Moves, Hands, SignalledAndWaits
  <2>11. ~alarm' => Awake'
    BY <2>1, <2>2, <2>3, Names, <1>1
       DEF ReadSign, gate, cars, Inv, Labels, Owners, Waiting, Gate, Resumes, At,
           IsFree, Moves, Hands, SignalledAndWaits, HandOver, Idle, AnswerPending,
           Admits, Awake
  <2> QED BY <2>4, <2>5, <2>6, <2>7, <2>8, <2>9, <2>10, <2>11 DEF Inv
<1>2. CASE /\ ~Admits(display)
           /\ Signal("sign")
           /\ Goto(sim, "pop")
           /\ head' = None
  <2>1. Moves(sim, "await answer", "pop")
    BY Names, Move, <1>2
       DEF Inv, AllLabels, ManagerLabels, SimulatorLabels, At, ReadSign
  <2>2. Hands("boom", None)
    BY Names, GiveOne, <1>2 DEF Inv, ReadSign, Take, Release
  <2>3. Signalled("sign")
    BY Names, SignalOnly, <1>2 DEF Inv, ReadSign
  <2>4. TypeOK'
    BY <2>1, <2>2, <2>3, Names, <1>2
    DEF ReadSign, gate, cars, Inv, TypeOK, Moves, Hands, Signalled
  <2>5. Labels'
    BY <2>1, <2>2, <2>3, Names, <1>2
       DEF ReadSign, gate, cars, Inv, Labels, ManagerLabels, SimulatorLabels, Owners,
           Waiting, At, Take, Moves, Hands, Signalled
  <2>6. Owners'
    BY <2>1, <2>2, <2>3, Names, <1>2
       DEF ReadSign, gate, cars, Inv, Owners, Labels, Resumes, At, Take, IsFree, Moves,
           Hands, Signalled
  <2>7. Waiting'
    BY <2>1, <2>2, <2>3, Names, <1>2
       DEF ReadSign, gate, cars, Inv, Waiting, Owners, Labels, Resumes, At, Moves,
           Hands, Signalled
  <2>8. Gate'
    BY <2>1, <2>2, <2>3, Names, <1>2
       DEF ReadSign, gate, cars, Inv, Labels, Owners, Waiting, Gate, Resumes, At,
           IsFree, Moves, Hands, Signalled
  <2>9. Plates'
    BY <2>1, <2>2, <2>3, Names, <1>2
    DEF ReadSign, gate, cars, Inv, Plates, Serving, At, Moves, Hands, Signalled
  <2>10. ~alarm' => HandOver'
    BY <2>1, <2>2, <2>3, Names, <1>2
       DEF ReadSign, gate, cars, Inv, Labels, Owners, Waiting, Plates, Serving,
           HandOver, Idle, AnswerPending, Decided, Agreed, OneAhead, Resumes, Admits,
           At, Moves, Hands, Signalled
  <2>11. ~alarm' => Awake'
    BY <2>1, <2>2, <2>3, Names, <1>2
       DEF ReadSign, gate, cars, Inv, Labels, Owners, Waiting, Gate, Resumes, At,
           IsFree, Moves, Hands, Signalled, HandOver, Idle, AnswerPending, Admits, Awake
  <2> QED BY <2>4, <2>5, <2>6, <2>7, <2>8, <2>9, <2>10, <2>11 DEF Inv
<1> QED BY <1>1, <1>2 DEF ReadSign

LEMMA DriveInKeeps ==
  ASSUME DistinctThreads, Inv, DriveIn
  PROVE  Inv'
<1>1. CASE boom = "R"
  <2>1. Moves(sim, pc[sim], "pop")
    BY Names, Move, <1>1
       DEF Inv, AllLabels, ManagerLabels, SimulatorLabels, FireAlarmLabels, At, DriveIn
  <2>2. owner' = owner BY <1>1 DEF DriveIn
  <2>3. Signalled("boom")
    BY Names, SignalOnly, <1>1 DEF Inv, DriveIn
  <2>4. TypeOK'
    BY <2>1, <2>2, <2>3, Names, <1>1
    DEF DriveIn, gate, cars, Inv, TypeOK, Plates, Serving, At, Moves, Signalled
  <2>5. Labels'
    BY <2>1, <2>2, <2>3, Names, <1>1
       DEF DriveIn, gate, cars, Inv, Labels, ManagerLabels, SimulatorLabels, Owners,
           Waiting, At, Take, Moves, Signalled
  <2>6. Owners'
    BY <2>1, <2>2, <2>3, Names, <1>1
       DEF DriveIn, gate, cars, Inv, Owners, Labels, Resumes, At, Take, IsFree, Moves,
           Signalled
  <2>7. Waiting'
    BY <2>1, <2>2, <2>3, Names, <1>1
    DEF DriveIn, gate, cars, Inv, Waiting, Owners, Labels, Resumes, At, Moves, Signalled
  <2>8. Gate'
    BY <2>1, <2>2, <2>3, Names, <1>1
       DEF DriveIn, gate, cars, Inv, Labels, Owners, Waiting, Gate, Resumes, At, IsFree,
           Moves, Signalled
  <2>9. Plates'
    BY <2>1, <2>2, <2>3, Names, <1>1
    DEF DriveIn, gate, cars, Inv, Plates, Serving, At, Moves, Signalled
  <2>10. ~alarm' => HandOver'
    BY <2>1, <2>2, <2>3, Names, <1>1
       DEF DriveIn, gate, cars, Inv, Labels, Owners, Waiting, Plates, Serving, HandOver,
           Idle, AnswerPending, Decided, Agreed, OneAhead, Resumes, Admits, At, Moves,
           Signalled
  <2>11. ~alarm' => Awake'
    BY <2>1, <2>2, <2>3, Names, <1>1
       DEF DriveIn, gate, cars, Inv, Labels, Owners, Waiting, Gate, Resumes, At, IsFree,
           Moves, Signalled, HandOver, Idle, AnswerPending, Admits, Awake
  <2> QED BY <2>4, <2>5, <2>6, <2>7, <2>8, <2>9, <2>10, <2>11 DEF Inv
<1>2. CASE boom # "R"
  <2>1. Moves(sim, pc[sim], "pop")
    BY Names, Move, <1>2
       DEF Inv, AllLabels, ManagerLabels, SimulatorLabels, FireAlarmLabels, At, DriveIn
  <2>2. owner' = owner BY <1>2 DEF DriveIn
  <2>3. waits' = waits BY <1>2 DEF DriveIn
  <2>4. TypeOK'
    BY <2>1, <2>2, <2>3, Names, <1>2
    DEF DriveIn, gate, cars, Inv, TypeOK, Plates, Serving, At, Moves
  <2>5. Labels'
    BY <2>1, <2>2, <2>3, Names, <1>2
       DEF DriveIn, gate, cars, Inv, Labels, ManagerLabels, SimulatorLabels, Owners,
           Waiting, At, Take, Moves
  <2>6. Owners'
    BY <2>1, <2>2, <2>3, Names, <1>2
    DEF DriveIn, gate, cars, Inv, Owners, Labels, Resumes, At, Take, IsFree, Moves
  <2>7. Waiting'
    BY <2>1, <2>2, <2>3, Names, <1>2
    DEF DriveIn, gate, cars, Inv, Waiting, Owners, Labels, Resumes, At, Moves
  <2>8. Gate'
    BY <2>1, <2>2, <2>3, Names, <1>2
       DEF DriveIn, gate, cars, Inv, Labels, Owners, Waiting, Gate, Resumes, At, IsFree,
           Moves
  <2>9. Plates'
    BY <2>1, <2>2, <2>3, Names, <1>2
    DEF DriveIn, gate, cars, Inv, Plates, Serving, At, Moves
  <2>10. ~alarm' => HandOver'
    BY <2>1, <2>2, <2>3, Names, <1>2
       DEF DriveIn, gate, cars, Inv, Labels, Owners, Waiting, Plates, Serving, HandOver,
           Idle, AnswerPending, Decided, Agreed, OneAhead, Resumes, Admits, At, Moves
  <2>11. ~alarm' => Awake'
    BY <2>1, <2>2, <2>3, Names, <1>2
       DEF DriveIn, gate, cars, Inv, Labels, Owners, Waiting, Gate, Resumes, At, IsFree,
           Moves, HandOver, Idle, AnswerPending, Admits, Awake
  <2> QED BY <2>4, <2>5, <2>6, <2>7, <2>8, <2>9, <2>10, <2>11 DEF Inv
<1> QED BY <1>1, <1>2 DEF DriveIn

LEMMA LeaveKeeps ==
  ASSUME DistinctThreads, Inv, NEW r \in Cars, Leave(r)
  PROVE  Inv'
<1>4. TypeOK'
  BY Names
  DEF Leave, gate, cars, Inv, TypeOK
<1>5. Labels'
  BY Names
  DEF Leave, gate, cars, Inv, Labels, ManagerLabels, SimulatorLabels
<1>6. Owners'
  BY Names
  DEF Leave, gate, cars, Inv, Owners, Labels
<1>7. Waiting'
  BY Names
  DEF Leave, gate, cars, Inv, Waiting, Labels
<1>8. Gate'
  BY Names
  DEF Leave, gate, cars, Inv, Labels, Waiting, Gate
<1>9. Plates'
  BY Names
  DEF Leave, gate, cars, Inv, Plates, Serving
<1>10. ~alarm' => HandOver'
  BY Names
  DEF Leave, gate, cars, Inv, Labels, HandOver, Idle, AnswerPending,
      Decided, Agreed, OneAhead, Plates, Serving
<1>11. ~alarm' => Awake'
  BY Names
     DEF Leave, gate, cars, Inv, Labels, Waiting, Gate, HandOver, Idle, AnswerPending,
         Admits, Awake
<1> QED BY <1>4, <1>5, <1>6, <1>7, <1>8, <1>9, <1>10, <1>11 DEF Inv

LEMMA RaiseAlarmKeeps ==
  ASSUME DistinctThreads, Inv, RaiseAlarm
  PROVE  Inv'
<1>1. /\ pc' \in [Threads -> AllLabels]
      /\ pc'[mgr] = pc[mgr] /\ pc'[sim] = pc[sim]
  BY Names DEF RaiseAlarm, Inv, TypeOK, AllLabels, FireAlarmLabels
<1>4. TypeOK'
  BY <1>1, Names
  DEF RaiseAlarm, gate, cars, Inv, TypeOK
<1>5. Labels'
  BY <1>1, Names
  DEF RaiseAlarm, gate, cars, Inv, Labels, ManagerLabels, SimulatorLabels
<1>6. Owners'
  BY <1>1, Names
  DEF RaiseAlarm, gate, cars, Inv, Owners, Labels
<1>7. Waiting'
  BY <1>1, Names
  DEF RaiseAlarm, gate, cars, Inv, Waiting, Labels
<1>8. Gate'
  BY <1>1, Names
  DEF RaiseAlarm, gate, cars, Inv, Labels, Waiting, Gate
<1>9. Plates'
  BY <1>1, Names
  DEF RaiseAlarm, gate, cars, Inv, Plates, Serving
<1>10. ~alarm' => HandOver'
  BY <1>1, Names
  DEF RaiseAlarm, gate, cars, Inv, Labels, HandOver, Idle, AnswerPending,
      Decided, Agreed, OneAhead, Plates, Serving
<1>11. ~alarm' => Awake'
  BY <1>1, Names
     DEF RaiseAlarm, gate, cars, Inv, Labels, Waiting, Gate, HandOver, Idle,
         AnswerPending, Admits, Awake
<1> QED BY <1>4, <1>5, <1>6, <1>7, <1>8, <1>9, <1>10, <1>11 DEF Inv

LEMMA OpenBoomGateKeeps ==
  ASSUME DistinctThreads, Inv, OpenBoomGate
  PROVE  Inv'
<1>1. Moves(opener, pc[opener], "await boom")
  BY Names, Move DEF OpenBoomGate, Inv, At, AllLabels, FireAlarmLabels
<1>2. alarm BY DEF OpenBoomGate, At, Inv, Labels
<1>3. /\ waits' \in [Objects -> SUBSET Threads]
      /\ waits'["lpr"] = waits["lpr"] /\ waits'["sign"] = waits["sign"]
      /\ waits'["boom"] \subseteq waits["boom"] \union {opener}
      /\ boom # "C" => waits["boom"] \subseteq waits'["boom"]
  <2>1. CASE boom = "C"
    <3>1. waits' = [waits EXCEPT !["boom"] = {opener}] BY <2>1 DEF OpenBoomGate
    <3>2. waits \in [Objects -> SUBSET Threads] BY DEF Inv, TypeOK
    <3> QED BY <2>1, <3>1, <3>2, Names
  <2>2. CASE boom # "C"
    <3>1. Waits(opener, "boom") BY <2>2, Names, JustWait DEF OpenBoomGate, Inv
    <3> QED BY <3>1, Names DEF Waits
  <2> QED BY <2>1, <2>2
<1>4. TypeOK'
  BY <1>1, <1>2, <1>3, Names
  DEF OpenBoomGate, gate, cars, Inv, TypeOK, Moves
<1>5. Labels'
  BY <1>1, <1>2, <1>3, Names
  DEF OpenBoomGate, gate, cars, Inv, Labels, ManagerLabels, SimulatorLabels, Moves
<1>6. Owners'
  BY <1>1, <1>2, <1>3, Names
  DEF OpenBoomGate, gate, cars, Inv, Owners, Labels, Moves
<1>7. Waiting'
  BY <1>1, <1>2, <1>3, Names
  DEF OpenBoomGate, gate, cars, Inv, Waiting, Labels, Moves
<1>8. Gate'
  BY <1>1, <1>2, <1>3, Names
  DEF OpenBoomGate, gate, cars, Inv, Labels, Waiting, Gate, Moves
<1>9. Plates'
  BY <1>1, <1>2, <1>3, Names
  DEF OpenBoomGate, gate, cars, Inv, Plates, Serving, Moves
<1>10. ~alarm' => HandOver'
  BY <1>1, <1>2, <1>3, Names
  DEF OpenBoomGate, gate, cars, Inv, Labels, HandOver, Idle, AnswerPending,
      Decided, Agreed, OneAhead, Plates, Serving, Moves
<1>11. ~alarm' => Awake'
  BY <1>1, <1>2, <1>3, Names
     DEF OpenBoomGate, gate, cars, Inv, Labels, Waiting, Gate, Moves, HandOver, Idle,
         AnswerPending, Admits, Awake
<1> QED BY <1>4, <1>5, <1>6, <1>7, <1>8, <1>9, <1>10, <1>11 DEF Inv

LEMMA ShowEvacuateKeeps ==
  ASSUME DistinctThreads, Inv, ShowEvacuate
  PROVE  Inv'
<1>1. alarm BY DEF ShowEvacuate, At, Inv, Labels
<1>2. /\ waits' \in [Objects -> SUBSET Threads] /\ waits'["sign"] = {}
      /\ waits'["lpr"] = waits["lpr"] /\ waits'["boom"] = waits["boom"]
  BY Names DEF ShowEvacuate, Broadcast, Inv, TypeOK
<1>4. TypeOK'
  BY <1>1, <1>2, Names
  DEF ShowEvacuate, gate, cars, Inv, TypeOK
<1>5. Labels'
  BY <1>1, <1>2, Names
  DEF ShowEvacuate, gate, cars, Inv, Labels, ManagerLabels, SimulatorLabels
<1>6. Owners'
  BY <1>1, <1>2, Names
  DEF ShowEvacuate, gate, cars, Inv, Owners, Labels
<1>7. Waiting'
  BY <1>1, <1>2, Names
  DEF ShowEvacuate, gate, cars, Inv, Waiting, Labels
<1>8. Gate'
  BY <1>1, <1>2, Names
  DEF ShowEvacuate, gate, cars, Inv, Labels, Waiting, Gate
<1>9. Plates'
  BY <1>1, <1>2, Names
  DEF ShowEvacuate, gate, cars, Inv, Plates, Serving
<1>10. ~alarm' => HandOver'
  BY <1>1, <1>2, Names
  DEF ShowEvacuate, gate, cars, Inv, Labels, HandOver, Idle, AnswerPending,
      Decided, Agreed, OneAhead, Plates, Serving
<1>11. ~alarm' => Awake'
  BY <1>1, <1>2, Names
     DEF ShowEvacuate, gate, cars, Inv, Labels, Waiting, Gate, HandOver, Idle,
         AnswerPending, Admits, Awake
<1> QED BY <1>4, <1>5, <1>6, <1>7, <1>8, <1>9, <1>10, <1>11 DEF Inv

LEMMA NextInv ==
  ASSUME DistinctThreads, Inv, [Next]_vars
  PROVE  Inv'
<1>1. CASE Manager
  BY <1>1, SignalReadyKeeps, ClearSignKeeps, DecideKeeps, AnswerKeeps, AnswerReadKeeps,
     OpenClosedGateKeeps, UseRaisedGateKeeps, LowerGateKeeps, ReopenGateKeeps,
     GateOpenedKeeps
  DEF Manager
<1>2. CASE Simulator
  BY <1>2, AwaitReadyKeeps, ManagerReadyKeeps, LockReaderKeeps, LockSignKeeps,
     ShowPlateKeeps, ReadSignKeeps, FinishLoweringKeeps, DriveInKeeps
     DEF Simulator
<1>3. CASE FireAlarm
  BY <1>3, RaiseAlarmKeeps, OpenBoomGateKeeps, ShowEvacuateKeeps DEF FireAlarm
<1>4. CASE \E r \in Cars : PopCar(r) \/ Leave(r)
  BY <1>4, PopCarKeeps, LeaveKeeps
<1>5. CASE UNCHANGED vars
  <2> USE <1>5 DEF vars, gate, cars
  <2>1. TypeOK' BY DEF Inv, TypeOK
  <2>2. Labels' /\ Owners' BY DEF Inv, Labels, Owners
  <2>3. Waiting' /\ Gate' BY DEF Inv, Waiting, Gate
  <2>4. Plates' BY DEF Inv, Plates, Serving
  <2>5. ~alarm' => HandOver'
    BY DEF Inv, HandOver, Idle, AnswerPending, Decided, Agreed, OneAhead
  <2>6. ~alarm' => Awake' BY DEF Inv, Awake
  <2> QED BY <2>1, <2>2, <2>3, <2>4, <2>5, <2>6 DEF Inv
<1> QED BY <1>1, <1>2, <1>3, <1>4, <1>5 DEF Next

LEMMA Inductive ==
  ASSUME DistinctThreads
  PROVE  Spec => []Inv
<1>1. Init => Inv BY InitInv
<1>2. Inv /\ [Next]_vars => Inv' BY NextInv
<1> QED BY <1>1, <1>2, PTL DEF Spec

-----------------------------------------------------------------------------
(* The results.                                                            *)

(* Every variable of an entrance keeps its type and every thread is at one *)
(* of its blocking calls, alarm or not.                                    *)
THEOREM TypeCorrect ==
  ASSUME DistinctThreads
  PROVE  Spec => []TypeOK
<1>1. Inv => TypeOK BY DEF Inv
<1> QED BY <1>1, Inductive, PTL

(* Whenever the simulator takes the next car, the manager has registered   *)
(* exactly the cars that were driven in and are not out again, until an    *)
(* alarm, for any set of cars (manager_funcs.c:263-281 against             *)
(* simulator_funcs.c:173-219).                                             *)
THEOREM EntranceAgrees ==
  ASSUME DistinctThreads
  PROVE  Spec => []ProcessesAgree
<1>1. Inv => ProcessesAgree BY DEF Inv, HandOver, Agreed, ProcessesAgree
<1> QED BY <1>1, Inductive, PTL

(* Until an alarm the manager never finds a car at the entrance already    *)
(* registered: the assertions of insert_rego and insert_in_level hold.     *)
THEOREM NeverRegisteredTwice ==
  ASSUME DistinctThreads
  PROVE  Spec => []RegisteredOnce
<1>1. Inv => RegisteredOnce BY DEF Inv, HandOver, RegisteredOnce
<1> QED BY <1>1, Inductive, PTL

LEMMA StuckAt ==
  ASSUME DistinctThreads, NEW t \in Threads
  PROVE  Stuck(t) <=>
           \/ t \in waits["lpr"] \/ t \in waits["sign"] \/ t \in waits["boom"]
           \/ /\ owner["lpr"] # None
              /\ pc[t] \in {"start", "await car", "await ready", "lock lpr"}
           \/ /\ owner["sign"] # None
              /\ pc[t] \in {"clear", "answer", "await read", "lock sign",
                            "await answer", "show"}
           \/ /\ owner["boom"] # None
              /\ pc[t] \in {"boom", "await open", "await closed", "lock boom",
                            "await gate", "await reopen", "lock", "await boom"}
<1>1. /\ Needing["lpr"] = {"start", "await car", "await ready", "lock lpr"}
      /\ Needing["sign"] = {"clear", "answer", "await read", "lock sign", "await answer",
                            "show"}
      /\ Needing["boom"] = {"boom", "await open", "await closed", "lock boom",
                            "await gate", "await reopen", "lock", "await boom"}
  BY DEF Needing
<1> QED BY <1>1 DEF Stuck, Objects, IsFree

(* If the simulator waits or finds a mutex taken, the manager does not.    *)
LEMMA OneAwake ==
  ASSUME DistinctThreads, Inv, ~alarm, ~ReadyLost, Stuck(sim)
  PROVE  ~Stuck(mgr)
<1> SUFFICES ASSUME Stuck(mgr) PROVE FALSE OBVIOUS
<1> USE Names DEF Inv
<1>1. CASE pc[mgr] \in {"start", "await car"}
  <2>1. CASE mgr \in waits["lpr"]
    <3>1. pc[mgr] = "await car" BY <2>1 DEF Waiting
    <3>2. owner["lpr"] \in {sim, None} /\ owner["boom"] \in {sim, None} BY <3>1 DEF Owners
    <3>3. sim \notin waits["lpr"] BY <3>1 DEF Waiting, ReadyLost
    <3>4. pc[sim] # "await answer" BY <2>1, <3>1 DEF HandOver, AnswerPending
    <3>5. sim \notin waits["sign"] BY <3>4 DEF Waiting
    <3>6. sim \notin waits["boom"] BY <3>1 DEF Waiting, Awake
    <3> QED BY <3>2, <3>3, <3>4, <3>5, <3>6, StuckAt DEF Owners
  <2>2. CASE mgr \notin waits["lpr"]
    <3>1. owner["lpr"] = sim BY <1>1, <2>2, StuckAt DEF Waiting, Owners
    <3>2. pc[sim] \in {"lock sign", "lock boom"} BY <3>1 DEF Owners
    <3>3. Idle BY <3>2 DEF HandOver
    <3>4. pc[mgr] = "start" BY <1>1, <2>2, <3>3 DEF Idle
    <3> QED BY <3>2, <3>4 DEF Labels
  <2> QED BY <2>1, <2>2
<1>2. CASE pc[mgr] \in {"clear", "answer"}
  <2>1. owner["sign"] = sim BY <1>2, StuckAt DEF Waiting, Owners
  <2>2. owner["lpr"] = sim BY <2>1 DEF Owners
  <2> QED BY <1>2, <2>2 DEF Owners
<1>3. CASE pc[mgr] = "await read"
  <2>1. owner["lpr"] = mgr BY <1>3 DEF Owners
  <2>2. pc[sim] \notin {"lock sign", "lock boom"} BY <2>1 DEF Owners
  <2>3. owner["sign"] = None BY <2>2 DEF Owners
  <2>4. mgr \in waits["sign"] BY <1>3, <2>3, StuckAt DEF Waiting
  <2>5. pc[sim] = "await answer" /\ sim \notin waits["sign"] BY <2>4 DEF Awake
  <2> QED BY <2>3, <2>5, StuckAt DEF Waiting
<1>4. CASE pc[mgr] = "boom"
  <2>1. owner["boom"] = sim BY <1>4, StuckAt DEF Waiting, Owners
  <2>2. pc[sim] = "await answer" BY <2>1 DEF Owners
  <2> QED BY <1>4, <2>2 DEF HandOver, AnswerPending
<1>5. CASE pc[mgr] = "lower"
  BY <1>5, StuckAt DEF Waiting
<1>6. CASE pc[mgr] \in {"await open", "await closed"}
  <2>1. pc[sim] # "await answer" BY <1>6 DEF HandOver, AnswerPending
  <2>2. owner["boom"] = None BY <1>6, <2>1 DEF Owners
  <2>3. mgr \in waits["boom"] BY <1>6, <2>2, StuckAt DEF Waiting
  <2>4. pc[sim] \in {"await gate", "await reopen"} /\ sim \notin waits["boom"]
    BY <2>3 DEF Awake
  <2> QED BY <2>2, <2>4, StuckAt DEF Waiting
<1> QED BY <1>1, <1>2, <1>3, <1>4, <1>5, <1>6 DEF Labels, ManagerLabels

(* The two programs never wait for each other, whatever the order of their *)
(* steps, until an alarm: the three mutexes that the simulator takes one   *)
(* after the other and the four signals of a hand-over cannot end in a     *)
(* deadlock.  The one exception is the race at the start: if the manager   *)
(* is ready before the simulator listens, both may wait (ReadyLost).       *)
THEOREM EntranceNeverStuck ==
  ASSUME DistinctThreads
  PROVE  Spec => []NeverBothStuck
<1>1. Inv => NeverBothStuck BY OneAwake DEF NeverBothStuck
<1> QED BY <1>1, Inductive, PTL

LEMMA GateStep ==
  ASSUME DistinctThreads, Inv, [Next]_vars, ~alarm, boom' # boom
  PROVE  <<boom, boom'>> \in {<<"C", "R">>, <<"R", "O">>, <<"O", "L">>, <<"L", "C">>}
<1>1. CASE Manager
  <2>1. CASE OpenClosedGate BY <2>1 DEF OpenClosedGate, RaiseGate
  <2>2. CASE LowerGate BY <2>2 DEF LowerGate, At, Inv, Gate
  <2>3. CASE ReopenGate
    BY <2>3 DEF ReopenGate, RaiseGate, Resumes, At, Inv, Gate
  <2>4. ASSUME SignalReady \/ ClearSign \/ Decide \/ Answer \/ AnswerRead
                 \/ UseRaisedGate \/ GateOpened
        PROVE  boom' = boom
    BY <2>4
       DEF SignalReady, ClearSign, Decide, Answer, AnswerRead, UseRaisedGate,
           GateOpened, gate
  <2> QED BY <1>1, <2>1, <2>2, <2>3, <2>4 DEF Manager
<1>2. CASE Simulator
  <2>1. CASE FinishLowering BY <2>1 DEF FinishLowering
  <2>2. CASE DriveIn BY <2>2 DEF DriveIn
  <2>3. ASSUME AwaitReady \/ ManagerReady \/ LockReader \/ LockSign \/ ShowPlate \/ ReadSign
        PROVE  boom' = boom
    BY <2>3
       DEF AwaitReady, ManagerReady, LockReader, LockSign, ShowPlate, ReadSign, gate
  <2> QED BY <1>2, <2>1, <2>2, <2>3 DEF Simulator
<1>3. CASE FireAlarm
  <2>1. ~OpenBoomGate /\ ~ShowEvacuate
    BY DEF OpenBoomGate, ShowEvacuate, At, Inv, Labels
  <2> QED BY <1>3, <2>1 DEF FireAlarm, RaiseAlarm
<1>4. CASE \E r \in Cars : PopCar(r) \/ Leave(r) BY <1>4 DEF PopCar, Leave, gate
<1>5. CASE UNCHANGED vars BY <1>5 DEF vars, gate
<1> QED BY <1>1, <1>2, <1>3, <1>4, <1>5 DEF Next

(* Whichever program moves the gate, it goes from closed to raising to     *)
(* open to lowering to closed, until an alarm.                             *)
THEOREM GateGoesRound ==
  ASSUME DistinctThreads
  PROVE  Spec => GateCycle
<1>1. Inv /\ [Next]_vars =>
        [~alarm /\ boom' # boom =>
           <<boom, boom'>> \in {<<"C", "R">>, <<"R", "O">>, <<"O", "L">>, <<"L", "C">>}]_vars
  BY GateStep
<1> QED BY <1>1, Inductive, PTL DEF Spec, GateCycle

LEMMA DriveInStep ==
  ASSUME Inv, [Next]_vars
  PROVE  inside' \subseteq inside \/ boom' = "O"
<1>1. CASE Manager
  BY <1>1
  DEF Manager, SignalReady, ClearSign, Decide, Answer, AnswerRead, OpenClosedGate,
      RaiseGate, UseRaisedGate, LowerGate, ReopenGate, GateOpened, cars
<1>2. CASE Simulator
  <2>1. CASE DriveIn
    <3>1. boom # "C" /\ boom # "L"
      BY <2>1 DEF DriveIn, At, Resumes, Inv, Gate
    <3> QED BY <2>1, <3>1 DEF DriveIn, Inv, TypeOK
  <2>2. ASSUME AwaitReady \/ ManagerReady \/ LockReader \/ LockSign \/ ShowPlate
                 \/ ReadSign \/ FinishLowering
        PROVE  inside' = inside
    BY <2>2
    DEF AwaitReady, ManagerReady, LockReader, LockSign, ShowPlate, ReadSign,
        FinishLowering, cars
  <2> QED BY <1>2, <2>1, <2>2 DEF Simulator
<1>3. CASE FireAlarm
  BY <1>3 DEF FireAlarm, RaiseAlarm, OpenBoomGate, ShowEvacuate, cars
<1>4. CASE \E r \in Cars : PopCar(r) \/ Leave(r) BY <1>4 DEF PopCar, Leave, cars
<1>5. CASE UNCHANGED vars BY <1>5 DEF vars, cars
<1> QED BY <1>1, <1>2, <1>3, <1>4, <1>5 DEF Next

(* The simulator drives a car in only when the gate is open after it, with *)
(* and without an alarm.                                                   *)
THEOREM EntersOpenGate ==
  ASSUME DistinctThreads
  PROVE  Spec => DriveInThroughOpenGate
<1>1. Inv /\ [Next]_vars => [inside' \subseteq inside \/ boom' = "O"]_vars BY DriveInStep
<1> QED BY <1>1, Inductive, PTL DEF Spec, DriveInThroughOpenGate

=============================================================================
