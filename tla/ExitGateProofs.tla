-------------------------- MODULE ExitGateProofs --------------------------
(***************************************************************************)
(* One exit, with any set of cars: the manager knows exactly the cars that *)
(* are not out yet, so its assertions hold, the gate only goes round its   *)
(* cycle until an alarm, and cars drive out only while it is open.         *)
(***************************************************************************)
EXTENDS ExitGate, Integers, SequenceTheorems, FiniteSetTheorems, TLAPS

-----------------------------------------------------------------------------
(* The inductive invariant: who holds each mutex, who waits on each        *)
(* condition, what each thread knows of the gate, and how far the          *)
(* hand-over of a car has got.                                             *)

Labels ==
  /\ pc[mgr] \in ManagerLabels
  /\ pc[sim] \in SimulatorLabels
  /\ ~alarm => pc[opener] = "off"

Owners ==
  /\ owner["lpr"] = mgr <=> pc[mgr] \notin {"start", "await car", "await ack"}
  /\ owner["lpr"] = sim <=> pc[sim] = "lock boom"
  /\ owner["lpr"] \in {mgr, sim, None}
  /\ owner["boom"] = IF pc[sim] = "await done" THEN sim ELSE None
  /\ owner["queue"] = None

Waiting ==
  /\ waits["lpr"] \subseteq {mgr, sim}
  /\ mgr \in waits["lpr"] => pc[mgr] \in {"await car", "await ack"}
  /\ sim \in waits["lpr"] => pc[sim] = "await done"
  /\ mgr \in waits["boom"] => pc[mgr] \in {"await closed", "await open"}
  /\ sim \in waits["boom"] => pc[sim] \in {"await gate", "await reopen"}

Gate ==
  /\ boom = "L" => pc[mgr] = "await closed"
  /\ pc[mgr] = "await open" => boom \in {"R", "O"}
  /\ pc[mgr] = "await closed" /\ ~alarm =>
       boom = "C" \/ (boom = "L" /\ mgr \in waits["boom"])
  /\ pc[sim] = "await gate" => boom # "C" \/ sim \in waits["boom"]
  /\ pc[sim] = "await reopen" =>
       /\ pc[mgr] \in {"await closed", "await open"}
       /\ pc[mgr] = "await open" => mgr \in waits["boom"]
       /\ boom \in {"R", "O"} \/ (boom = "C" /\ sim \in waits["boom"])

(* The two threads at the reader.  If the manager is not there when the    *)
(* plate is shown, both wait for ever.                                     *)
HandOver ==
  /\ pc[mgr] = "await car" /\ mgr \notin waits["lpr"] =>
       pc[sim] = "await done" /\ lpr = head
  /\ pc[mgr] = "deregister" => pc[sim] = "await done" /\ rego = head
  /\ pc[mgr] = "await ack" /\ mgr \in waits["lpr"] <=>
       pc[sim] = "await done" /\ sim \notin waits["lpr"]

Serving == pc[sim] \notin {"pop", "await queue"}

(* The car at the reader is on its way out and the manager has forgotten   *)
(* it already.                                                             *)
Forgotten ==
  \/ pc[sim] \in {"await gate", "await reopen"}
  \/ pc[sim] = "await done" /\ sim \notin waits["lpr"]

Remembered ==
  /\ ~aborted
  /\ IF Serving THEN head \in Cars ELSE head = None
  /\ \A r \in Cars : r \in registered <=>
       r \in inside \/ r \in Queued \/ (Serving /\ ~Forgotten /\ r = head)

(* Who will wake a thread that waits, until an alarm: with a car in the    *)
(* queue exit_thr is awake, and whoever waits on the reader or the gate    *)
(* for the sake of a car has a partner that is awake on its way to the     *)
(* signal.  At the reader that takes a manager that was there first.       *)
Awake ==
  /\ waits["queue"] \subseteq {sim} /\ waits["boom"] \subseteq {mgr, sim}
  /\ sim \in waits["queue"] => pc[sim] = "await queue"
  /\ queue # <<>> => sim \notin waits["queue"]
  /\ ManagerFirst /\ pc[mgr] = "start" =>
       pc[sim] \in {"pop", "await queue", "lock lpr"}
  /\ ManagerFirst /\ sim \in waits["lpr"] =>
       \/ pc[mgr] = "await car" /\ mgr \notin waits["lpr"]
       \/ pc[mgr] = "deregister"
  /\ mgr \in waits["boom"] =>
       /\ pc[sim] \in {"await gate", "await reopen"} /\ sim \notin waits["boom"]
       /\ boom \in {"R", "L"}
  /\ pc[sim] = "await gate" /\ sim \in waits["boom"] <=>
       \/ pc[mgr] = "await ack" /\ mgr \notin waits["lpr"]
       \/ pc[mgr] = "boom"
  /\ pc[sim] = "await reopen" /\ sim \in waits["boom"] <=>
       pc[mgr] = "await closed" /\ mgr \notin waits["boom"]

Inv ==
  /\ TypeOK
  /\ Labels
  /\ Owners
  /\ Waiting
  /\ Gate
  /\ HandOver
  /\ Remembered
  /\ ~alarm => Awake

-----------------------------------------------------------------------------
(* Threads, mutexes and signals.                                           *)

LEMMA Names ==
  ASSUME DistinctThreads
  PROVE  /\ mgr # sim /\ mgr # opener /\ sim # opener
         /\ None \notin Threads /\ None \notin Cars
         /\ mgr \in Threads /\ sim \in Threads /\ opener \in Threads
         /\ "lpr" \in Objects /\ "boom" \in Objects /\ "queue" \in Objects
         /\ None # mgr /\ None # sim
<1>1. ASSUME NEW x, NEW y PROVE Threads # {x, y}
  <2>1. IsFiniteSet({x}) /\ Cardinality({x}) = 1 BY FS_Singleton
  <2>2. Cardinality({x} \union {y}) = 1 \/ Cardinality({x} \union {y}) = 2
    BY <2>1, FS_AddElement
  <2>3. {x} \union {y} = {x, y} OBVIOUS
  <2> QED BY <2>2, <2>3 DEF DistinctThreads
<1> QED BY <1>1 DEF Threads, Objects, DistinctThreads

(* Thread t goes from one label to another. *)
Moves(t, from, to) ==
  /\ pc[t] = from
  /\ pc' \in [Threads -> AllLabels]
  /\ pc'[t] = to
  /\ \A u \in Threads : u # t => pc'[u] = pc[u]

LEMMA Move ==
  ASSUME TypeOK, NEW t \in Threads, NEW from, NEW to \in AllLabels, At(t, from), Goto(t, to)
  PROVE  Moves(t, from, to)
BY DEF TypeOK, At, Goto, Moves

(* The mutex of o goes to t. *)
Hands(o, t) ==
  /\ owner' \in [Objects -> Threads \union {None}]
  /\ owner'[o] = t
  /\ \A p \in Objects : p # o => owner'[p] = owner[p]

LEMMA GiveOne ==
  ASSUME NEW o \in Objects, NEW t \in Threads \union {None}, TypeOK, Give({o}, t)
  PROVE  Hands(o, t)
<1>1. owner' = [owner EXCEPT ![o] = t] BY DEF Give, TypeOK
<1> QED BY <1>1 DEF Hands, TypeOK

Waits(t, o) ==
  /\ waits' \in [Objects -> SUBSET Threads]
  /\ \A p \in Objects : waits'[p] = IF p = o THEN waits[p] \union {t} ELSE waits[p]

LEMMA JustWait ==
  ASSUME TypeOK, NEW t \in Threads, NEW o \in Objects, Wait(t, o)
  PROVE  Waits(t, o)
BY DEF TypeOK, Wait, Waits

(* A signal on s, with or without a wait on o after it, wakes at most one  *)
(* thread, one that waits on s; if only one waits it is that one.          *)
Signalled(s) ==
  /\ waits' \in [Objects -> SUBSET Threads]
  /\ \A p \in Objects : p # s => waits'[p] = waits[p]
  /\ waits'[s] \subseteq waits[s]
  /\ \A u : waits[s] = {u} => waits'[s] = {}
  /\ \A u : (\A v \in waits[s] : v = u) => u \notin waits'[s]

SignalledAndWaits(t, s, o) ==
  /\ waits' \in [Objects -> SUBSET Threads]
  /\ t \in waits'[o]
  /\ \A p \in Objects, u \in Threads :
       /\ u \in waits'[p] => u \in waits[p] \/ (p = o /\ u = t)
       /\ p # s /\ u \in waits[p] => u \in waits'[p]
  /\ \A u : waits[s] = {u} => u \notin waits'[s] \/ (s = o /\ u = t)
  /\ \A u : (\A v \in waits[s] : v = u) => u \notin waits'[s] \/ (s = o /\ u = t)

LEMMA SignalOnly ==
  ASSUME TypeOK, NEW s \in Objects, Signal(s)
  PROVE  Signalled(s)
<1>1. waits' \in AfterSignal(s) BY DEF Signal
<1>2. CASE waits[s] = {}
  <2>1. waits' = waits BY <1>1, <1>2 DEF AfterSignal
  <2> QED BY <1>2, <2>1 DEF Signalled, TypeOK
<1>3. CASE waits[s] # {}
  <2>1. PICK t \in waits[s] : waits' = [waits EXCEPT ![s] = @ \ {t}]
    BY <1>1, <1>3 DEF AfterSignal
  <2>2. waits'[s] = waits[s] \ {t} BY <2>1 DEF TypeOK
  <2> QED BY <2>1, <2>2 DEF Signalled, TypeOK
<1> QED BY <1>2, <1>3

LEMMA SignalThenWait ==
  ASSUME TypeOK, NEW s \in Objects, NEW o \in Objects, NEW t \in Threads,
         SignalAndWait(t, s, o)
  PROVE  SignalledAndWaits(t, s, o)
<1>1. PICK w \in AfterSignal(s) : waits' = [w EXCEPT ![o] = @ \union {t}]
  BY DEF SignalAndWait
<1>2. /\ w \in [Objects -> SUBSET Threads]
      /\ \A p \in Objects : p # s => w[p] = waits[p]
      /\ w[s] \subseteq waits[s]
      /\ \A u : waits[s] = {u} => w[s] = {}
      /\ \A u : (\A v \in waits[s] : v = u) => u \notin w[s]
  <2>1. CASE waits[s] = {}
    <3>1. w = waits BY <1>1, <2>1 DEF AfterSignal
    <3> QED BY <2>1, <3>1 DEF TypeOK
  <2>2. CASE waits[s] # {}
    <3>1. PICK x \in waits[s] : w = [waits EXCEPT ![s] = @ \ {x}]
      BY <1>1, <2>2 DEF AfterSignal
    <3>2. w[s] = waits[s] \ {x} BY <3>1 DEF TypeOK
    <3> QED BY <3>1, <3>2 DEF TypeOK
  <2> QED BY <2>1, <2>2
<1>3. waits'[o] = w[o] \union {t} /\ \A p \in Objects : p # o => waits'[p] = w[p]
  BY <1>1, <1>2
<1>4. waits' \in [Objects -> SUBSET Threads] BY <1>1, <1>2
<1> QED BY <1>2, <1>3, <1>4 DEF SignalledAndWaits

LEMMA InitInv == DistinctThreads /\ Init => Inv
<1> SUFFICES ASSUME DistinctThreads, Init PROVE Inv OBVIOUS
<1> USE Names DEF Init
<1>1. Queued = {} BY DEF Queued
<1>2. TypeOK
  <2>1. queue \in Seq(Cars) /\ DOMAIN queue = {} OBVIOUS
  <2> QED
    BY <1>1, <2>1
       DEF TypeOK, Objects, Threads, AllLabels, ManagerLabels, SimulatorLabels,
           FireAlarmLabels
<1>3. Labels BY DEF Labels, ManagerLabels, SimulatorLabels, Threads, Objects
<1>4. Owners BY DEF Owners, Threads, Objects
<1>5. Waiting BY DEF Waiting, Threads, Objects
<1>6. Gate BY DEF Gate, Threads, Objects
<1>7. HandOver BY DEF HandOver, Threads, Objects
<1>8. Remembered BY <1>1 DEF Remembered, Serving, Threads, Objects
<1>9. Awake BY DEF Awake, Threads, Objects
<1> QED BY <1>2, <1>3, <1>4, <1>5, <1>6, <1>7, <1>8, <1>9 DEF Inv

-----------------------------------------------------------------------------
(* The queue of the exit.                                                  *)

LEMMA Appended ==
  ASSUME NEW r \in Cars, queue \in Seq(Cars), queue' = Append(queue, r), r \notin Queued,
         \A i, j \in DOMAIN queue : queue[i] = queue[j] => i = j
  PROVE  /\ queue' \in Seq(Cars)
         /\ Queued' = Queued \union {r}
         /\ \A i, j \in DOMAIN queue' : queue'[i] = queue'[j] => i = j
<1>1. /\ queue' \in Seq(Cars) /\ Len(queue') = Len(queue) + 1
      /\ \A i \in 1 .. Len(queue) : queue'[i] = queue[i]
      /\ queue'[Len(queue) + 1] = r
      /\ Len(queue) \in Nat /\ DOMAIN queue = 1 .. Len(queue)
      /\ DOMAIN queue' = 1 .. Len(queue')
  OBVIOUS
<1>2. Queued' = Queued \union {r} BY <1>1 DEF Queued
<1>3. \A i \in DOMAIN queue : queue[i] # r BY DEF Queued
<1>4. \A i, j \in DOMAIN queue' : queue'[i] = queue'[j] => i = j
  <2> SUFFICES ASSUME NEW i \in DOMAIN queue', NEW j \in DOMAIN queue', queue'[i] = queue'[j]
               PROVE  i = j
    OBVIOUS
  <2>1. CASE i \in DOMAIN queue /\ j \in DOMAIN queue BY <1>1, <2>1
  <2>2. CASE i \notin DOMAIN queue
    <3>1. i = Len(queue) + 1 BY <1>1, <2>2
    <3> QED BY <1>1, <1>3, <3>1
  <2>3. CASE j \notin DOMAIN queue
    <3>1. j = Len(queue) + 1 BY <1>1, <2>3
    <3> QED BY <1>1, <1>3, <3>1
  <2> QED BY <2>1, <2>2, <2>3
<1> QED BY <1>1, <1>2, <1>4

LEMMA Popped ==
  ASSUME queue \in Seq(Cars), queue # <<>>, queue' = Tail(queue),
         \A i, j \in DOMAIN queue : queue[i] = queue[j] => i = j
  PROVE  /\ Head(queue) \in Queued /\ Head(queue) \in Cars
         /\ queue' \in Seq(Cars)
         /\ Queued' = Queued \ {Head(queue)}
         /\ \A i, j \in DOMAIN queue' : queue'[i] = queue'[j] => i = j
<1>1. /\ queue' \in Seq(Cars) /\ Len(queue') = Len(queue) - 1
      /\ \A i \in 1 .. Len(queue) - 1 : queue'[i] = queue[i + 1]
      /\ Head(queue) = queue[1] /\ Len(queue) \in Nat \ {0}
      /\ DOMAIN queue = 1 .. Len(queue) /\ DOMAIN queue' = 1 .. Len(queue) - 1
  OBVIOUS
<1>2. Head(queue) \in Queued /\ Head(queue) \in Cars BY <1>1 DEF Queued
<1>3. ASSUME NEW x \in Queued' PROVE x \in Queued /\ x # Head(queue)
  <2>1. PICK i \in 1 .. Len(queue) - 1 : x = queue'[i] BY <1>1, <1>3 DEF Queued
  <2>2. x = queue[i + 1] /\ i + 1 \in 1 .. Len(queue) /\ i + 1 # 1 BY <1>1, <2>1
  <2> QED BY <1>1, <2>2 DEF Queued
<1>4. ASSUME NEW x \in Queued, x # Head(queue) PROVE x \in Queued'
  <2>1. PICK i \in 1 .. Len(queue) : x = queue[i] BY <1>1 DEF Queued
  <2>2. i # 1 BY <1>1, <1>4, <2>1
  <2>3. i - 1 \in 1 .. Len(queue) - 1 /\ x = queue'[i - 1] BY <1>1, <2>1, <2>2
  <2> QED BY <1>1, <2>3 DEF Queued
<1>5. \A i, j \in DOMAIN queue' : queue'[i] = queue'[j] => i = j
  <2> SUFFICES ASSUME NEW i \in 1 .. Len(queue) - 1, NEW j \in 1 .. Len(queue) - 1,
                      queue'[i] = queue'[j]
               PROVE  i = j
    BY <1>1
  <2>1. /\ i + 1 \in DOMAIN queue /\ j + 1 \in DOMAIN queue
        /\ queue[i + 1] = queue[j + 1]
    BY <1>1
  <2>2. i + 1 = j + 1 BY <2>1
  <2> QED BY <2>2
<1> QED BY <1>1, <1>2, <1>3, <1>4, <1>5

-----------------------------------------------------------------------------
(* Each step keeps the invariant.                                          *)

(* While the manager cleans up after a car, the simulator waits for it.    *)
LEMMA AtDeregister ==
  ASSUME DistinctThreads, Inv, pc[mgr] = "deregister"
  PROVE  /\ pc[sim] = "await done" /\ rego = head /\ waits["lpr"] = {sim}
         /\ head \in registered
         /\ head \in Cars /\ head \notin inside \union Queued
<1>1. /\ pc[sim] = "await done" /\ rego = head
      /\ sim \in waits["lpr"] /\ mgr \notin waits["lpr"]
  BY DEF Inv, HandOver, Waiting
<1>2. Serving /\ ~Forgotten BY <1>1 DEF Serving, Forgotten
<1>3. head \in Cars /\ head \in registered BY <1>2 DEF Inv, Remembered
<1>4. waits["lpr"] = {sim} BY <1>1 DEF Inv, Waiting
<1> QED BY <1>1, <1>3, <1>4 DEF Inv, TypeOK

LEMMA StartKeeps ==
  ASSUME DistinctThreads, Inv, Start
  PROVE  Inv'
<1>1. Moves(mgr, "start", "await car")
  BY Names, Move
     DEF Inv, AllLabels, ManagerLabels, SimulatorLabels, FireAlarmLabels, At, Start,
         WaitForCar
<1>2. Hands("lpr", None)
  BY Names, GiveOne DEF Inv, Start, WaitForCar, Take, Release
<1>3. Waits(mgr, "lpr")
  BY Names, JustWait DEF Inv, Start, WaitForCar
<1>4. queue' = queue /\ Queued' = Queued BY DEF Start, WaitForCar, Queued
<1>5. TypeOK'
  BY <1>1, <1>2, <1>3, <1>4, Names
  DEF Inv, TypeOK, Start, WaitForCar, Resumes, Moves, Hands, Waits
<1>6. Labels'
  BY <1>1, <1>2, <1>3, <1>4, Names
     DEF Inv, Labels, Start, WaitForCar, ManagerLabels, SimulatorLabels, Owners,
         Waiting, Resumes, IsFree, At, Moves, Hands, Waits
<1>7. Owners'
  BY <1>1, <1>2, <1>3, <1>4, Names
     DEF Inv, Owners, Start, WaitForCar, Labels, Resumes, IsFree, Take, At, Moves,
         Hands, Waits
<1>8. Waiting'
  <2>1. /\ waits'["lpr"] = waits["lpr"] \union {mgr}
        /\ waits'["boom"] = waits["boom"]
    BY <1>3, Names DEF Waits
  <2> QED BY <1>1, <2>1, Names DEF Inv, Waiting, Moves
<1>9. Gate'
  BY <1>1, <1>2, <1>3, <1>4, Names
     DEF Inv, Gate, Start, WaitForCar, Labels, Owners, Waiting, IsFree, Resumes, At,
         Moves, Hands, Waits
<1>10. HandOver'
  BY <1>1, <1>2, <1>3, <1>4, Names
     DEF Inv, HandOver, Start, WaitForCar, Labels, Owners, Waiting, IsFree, Resumes, At,
         Moves, Hands, Waits
<1>11. Remembered'
  BY <1>1, <1>2, <1>3, <1>4, Names
     DEF Inv, Remembered, Start, WaitForCar, Serving, Forgotten, HandOver, Labels,
         Owners, Waiting, Resumes, IsFree, At, TypeOK, Moves, Hands, Waits
<1>12. ~alarm' => Awake'
  <2> SUFFICES ASSUME ~alarm PROVE Awake' BY DEF Start
  <2>1. Awake /\ pc[mgr] = "start" /\ mgr \notin waits["boom"]
    BY <1>1 DEF Inv, Waiting, Moves
  <2>2. /\ waits'["boom"] = waits["boom"] /\ waits'["queue"] = waits["queue"]
        /\ sim \in waits'["lpr"] => sim \in waits["lpr"]
        /\ mgr \in waits'["lpr"]
    BY <1>3, Names DEF Waits
  <2>3. pc'[mgr] = "await car" /\ pc'[sim] = pc[sim] BY <1>1, Names DEF Moves
  <2>4. ManagerFirst => sim \notin waits["lpr"] BY <2>1 DEF Awake
  <2> QED BY <1>4, <2>1, <2>2, <2>3, <2>4 DEF Awake
<1> QED BY <1>5, <1>6, <1>7, <1>8, <1>9, <1>10, <1>11, <1>12 DEF Inv

LEMMA ReadPlateKeeps ==
  ASSUME DistinctThreads, Inv, ReadPlate
  PROVE  Inv'
<1>1. Moves(mgr, "await car", "deregister")
  BY Names, Move
     DEF Inv, AllLabels, ManagerLabels, SimulatorLabels, FireAlarmLabels, At, ReadPlate
<1>2. Hands("lpr", mgr)
  BY Names, GiveOne DEF Inv, ReadPlate, Take, Release
<1>3. waits' = waits BY DEF ReadPlate
<1>4. queue' = queue /\ Queued' = Queued BY DEF ReadPlate, Queued
<1>5. TypeOK'
  BY <1>1, <1>2, <1>3, <1>4, Names
  DEF Inv, TypeOK, ReadPlate, Resumes, Moves, Hands
<1>6. Labels'
  BY <1>1, <1>2, <1>3, <1>4, Names
     DEF Inv, Labels, ReadPlate, ManagerLabels, SimulatorLabels, Owners, Waiting,
         Resumes, IsFree, At, Moves, Hands
<1>7. Owners'
  BY <1>1, <1>2, <1>3, <1>4, Names
  DEF Inv, Owners, ReadPlate, Labels, Resumes, IsFree, Take, At, Moves, Hands
<1>8. Waiting'
  BY <1>1, <1>2, <1>3, <1>4, Names
  DEF Inv, Waiting, ReadPlate, Owners, Labels, Resumes, IsFree, At, Moves, Hands
<1>9. Gate'
  BY <1>1, <1>2, <1>3, <1>4, Names
  DEF Inv, Gate, ReadPlate, Labels, Owners, Waiting, IsFree, Resumes, At, Moves, Hands
<1>10. HandOver'
  BY <1>1, <1>2, <1>3, <1>4, Names
     DEF Inv, HandOver, ReadPlate, Labels, Owners, Waiting, IsFree, Resumes, At, Moves,
         Hands
<1>11. Remembered'
  BY <1>1, <1>2, <1>3, <1>4, Names
     DEF Inv, Remembered, ReadPlate, Serving, Forgotten, HandOver, Labels, Owners,
         Waiting, Resumes, IsFree, At, TypeOK, Moves, Hands
<1>12. ~alarm' => Awake'
  BY <1>1, <1>2, <1>3, <1>4, Names
     DEF Inv, Gate, ReadPlate, Labels, Owners, Waiting, IsFree, Resumes, At, Moves,
         Hands, HandOver, Awake
<1> QED BY <1>5, <1>6, <1>7, <1>8, <1>9, <1>10, <1>11, <1>12 DEF Inv

LEMMA DeregisterKeeps ==
  ASSUME DistinctThreads, Inv, Deregister
  PROVE  Inv'
<1>1. Moves(mgr, "deregister", "await ack")
  BY Names, Move
     DEF Inv, AllLabels, ManagerLabels, SimulatorLabels, FireAlarmLabels, At, Deregister
<1>2. Hands("lpr", None)
  BY Names, GiveOne DEF Inv, Deregister, Take, Release
<1>3. SignalledAndWaits(mgr, "lpr", "lpr")
  BY Names, SignalThenWait DEF Inv, Deregister
<1>4. queue' = queue /\ Queued' = Queued BY DEF Deregister, Queued
<1>5. TypeOK'
  BY <1>1, <1>2, <1>3, <1>4, Names
  DEF Inv, TypeOK, Deregister, Resumes, Moves, Hands, SignalledAndWaits
<1>6. Labels'
  BY <1>1, <1>2, <1>3, <1>4, Names
     DEF Inv, Labels, Deregister, ManagerLabels, SimulatorLabels, Owners, Waiting,
         Resumes, IsFree, At, Moves, Hands, SignalledAndWaits
<1>7. Owners'
  BY <1>1, <1>2, <1>3, <1>4, Names
     DEF Inv, Owners, Deregister, Labels, Resumes, IsFree, Take, At, Moves, Hands,
         SignalledAndWaits
<1>8. Waiting'
  BY <1>1, <1>2, <1>3, <1>4, Names
     DEF Inv, Waiting, Deregister, Owners, Labels, Resumes, IsFree, At, Moves, Hands,
         SignalledAndWaits
<1>9. Gate'
  BY <1>1, <1>2, <1>3, <1>4, Names
     DEF Inv, Gate, Deregister, Labels, Owners, Waiting, IsFree, Resumes, At, Moves,
         Hands, SignalledAndWaits
<1>10. HandOver'
  <2>1. sim \notin waits'["lpr"] /\ mgr \in waits'["lpr"]
    BY <1>1, <1>3, Names, AtDeregister DEF SignalledAndWaits, Moves
  <2>2. pc'[mgr] = "await ack" /\ pc'[sim] = "await done"
    BY <1>1, Names, AtDeregister DEF Moves
  <2> QED BY <2>1, <2>2 DEF HandOver
<1>11. Remembered'
  <2>1. /\ pc[sim] = "await done" /\ rego = head /\ sim \in waits["lpr"]
        /\ head \in registered
        /\ head \in Cars /\ head \notin inside \union Queued
    BY <1>1, AtDeregister DEF Moves
  <2>2. sim \notin waits'["lpr"]
    BY <1>1, <1>3, Names, AtDeregister DEF SignalledAndWaits, Moves
  <2>3. pc'[sim] = "await done" /\ head' = head /\ inside' = inside
    BY <1>1, <2>1, Names DEF Deregister, Moves
  <2>4. ~aborted' /\ registered' = registered \ {head}
    BY <2>1 DEF Deregister
  <2>5. Forgotten' /\ Serving' BY <2>2, <2>3 DEF Forgotten, Serving
  <2>6. Serving /\ ~Forgotten BY <2>1 DEF Forgotten, Serving
  <2> QED BY <1>4, <2>1, <2>3, <2>4, <2>5, <2>6 DEF Inv, Remembered
<1>12. ~alarm' => Awake'
  BY <1>1, <1>2, <1>3, <1>4, Names
     DEF Inv, Gate, Deregister, Labels, Owners, Waiting, IsFree, Resumes, At, Moves,
         Hands, SignalledAndWaits, HandOver, Awake
<1> QED BY <1>5, <1>6, <1>7, <1>8, <1>9, <1>10, <1>11, <1>12 DEF Inv

LEMMA SimulatorSawItKeeps ==
  ASSUME DistinctThreads, Inv, SimulatorSawIt
  PROVE  Inv'
<1>1. Moves(mgr, "await ack", "boom")
  BY Names, Move
     DEF Inv, AllLabels, ManagerLabels, SimulatorLabels, FireAlarmLabels, At,
         SimulatorSawIt
<1>2. Hands("lpr", mgr)
  BY Names, GiveOne DEF Inv, SimulatorSawIt, Take, Release
<1>3. waits' = waits BY DEF SimulatorSawIt
<1>4. queue' = queue /\ Queued' = Queued BY DEF SimulatorSawIt, Queued
<1>5. TypeOK'
  BY <1>1, <1>2, <1>3, <1>4, Names
  DEF Inv, TypeOK, SimulatorSawIt, Resumes, Moves, Hands
<1>6. Labels'
  BY <1>1, <1>2, <1>3, <1>4, Names
     DEF Inv, Labels, SimulatorSawIt, ManagerLabels, SimulatorLabels, Owners, Waiting,
         Resumes, IsFree, At, Moves, Hands
<1>7. Owners'
  BY <1>1, <1>2, <1>3, <1>4, Names
  DEF Inv, Owners, SimulatorSawIt, Labels, Resumes, IsFree, Take, At, Moves, Hands
<1>8. Waiting'
  BY <1>1, <1>2, <1>3, <1>4, Names
  DEF Inv, Waiting, SimulatorSawIt, Owners, Labels, Resumes, IsFree, At, Moves, Hands
<1>9. Gate'
  BY <1>1, <1>2, <1>3, <1>4, Names
     DEF Inv, Gate, SimulatorSawIt, Labels, Owners, Waiting, IsFree, Resumes, At, Moves,
         Hands
<1>10. HandOver'
  BY <1>1, <1>2, <1>3, <1>4, Names
     DEF Inv, HandOver, SimulatorSawIt, Labels, Owners, Waiting, IsFree, Resumes, At,
         Moves, Hands
<1>11. Remembered'
  BY <1>1, <1>2, <1>3, <1>4, Names
     DEF Inv, Remembered, SimulatorSawIt, Serving, Forgotten, HandOver, Labels, Owners,
         Waiting, Resumes, IsFree, At, TypeOK, Moves, Hands
<1>12. ~alarm' => Awake'
  BY <1>1, <1>2, <1>3, <1>4, Names
     DEF Inv, Gate, SimulatorSawIt, Labels, Owners, Waiting, IsFree, Resumes, At, Moves,
         Hands, HandOver, Awake
<1> QED BY <1>5, <1>6, <1>7, <1>8, <1>9, <1>10, <1>11, <1>12 DEF Inv

LEMMA OpenClosedGateKeeps ==
  ASSUME DistinctThreads, Inv, OpenClosedGate
  PROVE  Inv'
<1>1. Moves(mgr, "boom", "await open")
  BY Names, Move
     DEF Inv, AllLabels, ManagerLabels, SimulatorLabels, FireAlarmLabels, At,
         OpenClosedGate
<1>2. owner' = owner BY DEF OpenClosedGate
<1>3. SignalledAndWaits(mgr, "boom", "boom")
  BY Names, SignalThenWait DEF Inv, OpenClosedGate
<1>4. queue' = queue /\ Queued' = Queued BY DEF OpenClosedGate, Queued
<1>5. TypeOK'
  BY <1>1, <1>2, <1>3, <1>4, Names
  DEF Inv, TypeOK, OpenClosedGate, Resumes, Moves, SignalledAndWaits
<1>6. Labels'
  BY <1>1, <1>2, <1>3, <1>4, Names
     DEF Inv, Labels, OpenClosedGate, ManagerLabels, SimulatorLabels, Owners, Waiting,
         Resumes, IsFree, At, Moves, SignalledAndWaits
<1>7. Owners'
  BY <1>1, <1>2, <1>3, <1>4, Names
     DEF Inv, Owners, OpenClosedGate, Labels, Resumes, IsFree, Take, At, Moves,
         SignalledAndWaits
<1>8. Waiting'
  BY <1>1, <1>2, <1>3, <1>4, Names
     DEF Inv, Waiting, OpenClosedGate, Owners, Labels, Resumes, IsFree, At, Moves,
         SignalledAndWaits
<1>9. Gate'
  BY <1>1, <1>2, <1>3, <1>4, Names
     DEF Inv, Gate, OpenClosedGate, Labels, Owners, Waiting, IsFree, Resumes, At, Moves,
         SignalledAndWaits
<1>10. HandOver'
  BY <1>1, <1>2, <1>3, <1>4, Names
     DEF Inv, HandOver, OpenClosedGate, Labels, Owners, Waiting, IsFree, Resumes, At,
         Moves, SignalledAndWaits
<1>11. Remembered'
  BY <1>1, <1>2, <1>3, <1>4, Names
     DEF Inv, Remembered, OpenClosedGate, Serving, Forgotten, HandOver, Labels, Owners,
         Waiting, Resumes, IsFree, At, TypeOK, Moves, SignalledAndWaits
<1>12. ~alarm' => Awake'
  BY <1>1, <1>2, <1>3, <1>4, Names
     DEF Inv, Gate, OpenClosedGate, Labels, Owners, Waiting, IsFree, Resumes, At, Moves,
         SignalledAndWaits, HandOver, Awake
<1> QED BY <1>5, <1>6, <1>7, <1>8, <1>9, <1>10, <1>11, <1>12 DEF Inv

LEMMA LowerGateKeeps ==
  ASSUME DistinctThreads, Inv, LowerGate
  PROVE  Inv'
<1>1. Moves(mgr, "boom", "await closed")
  BY Names, Move
     DEF Inv, AllLabels, ManagerLabels, SimulatorLabels, FireAlarmLabels, At, LowerGate
<1>2. owner' = owner BY DEF LowerGate
<1>3. SignalledAndWaits(mgr, "boom", "boom")
  BY Names, SignalThenWait DEF Inv, LowerGate
<1>4. queue' = queue /\ Queued' = Queued BY DEF LowerGate, Queued
<1>5. TypeOK'
  BY <1>1, <1>2, <1>3, <1>4, Names
  DEF Inv, TypeOK, LowerGate, Resumes, Moves, SignalledAndWaits
<1>6. Labels'
  BY <1>1, <1>2, <1>3, <1>4, Names
     DEF Inv, Labels, LowerGate, ManagerLabels, SimulatorLabels, Owners, Waiting,
         Resumes, IsFree, At, Moves, SignalledAndWaits
<1>7. Owners'
  BY <1>1, <1>2, <1>3, <1>4, Names
     DEF Inv, Owners, LowerGate, Labels, Resumes, IsFree, Take, At, Moves,
         SignalledAndWaits
<1>8. Waiting'
  BY <1>1, <1>2, <1>3, <1>4, Names
     DEF Inv, Waiting, LowerGate, Owners, Labels, Resumes, IsFree, At, Moves,
         SignalledAndWaits
<1>9. Gate'
  BY <1>1, <1>2, <1>3, <1>4, Names
     DEF Inv, Gate, LowerGate, Labels, Owners, Waiting, IsFree, Resumes, At, Moves,
         SignalledAndWaits
<1>10. HandOver'
  BY <1>1, <1>2, <1>3, <1>4, Names
     DEF Inv, HandOver, LowerGate, Labels, Owners, Waiting, IsFree, Resumes, At, Moves,
         SignalledAndWaits
<1>11. Remembered'
  BY <1>1, <1>2, <1>3, <1>4, Names
     DEF Inv, Remembered, LowerGate, Serving, Forgotten, HandOver, Labels, Owners,
         Waiting, Resumes, IsFree, At, TypeOK, Moves, SignalledAndWaits
<1>12. ~alarm' => Awake'
  <2> SUFFICES ASSUME ~alarm PROVE Awake' BY DEF LowerGate
  <2>1. /\ Awake /\ pc[sim] = "await gate" /\ sim \in waits["boom"]
        /\ mgr \notin waits["boom"]
    BY <1>1 DEF Inv, Awake, Waiting, Moves
  <2>2. waits["boom"] \subseteq {mgr, sim} BY <2>1 DEF Awake
  <2>3. /\ sim \notin waits'["boom"] /\ waits'["boom"] \subseteq {mgr, sim}
        /\ mgr \in waits'["boom"]
        /\ sim \notin waits'["lpr"]
        /\ waits'["queue"] \subseteq {sim}
        /\ sim \in waits'["queue"] => sim \in waits["queue"]
    BY <1>1, <1>3, <2>1, <2>2, Names DEF SignalledAndWaits, Inv, Waiting, Awake, Moves
  <2>4. pc'[sim] = "await gate" /\ pc'[mgr] = "await closed" /\ boom' = "L"
    BY <1>1, <2>1, Names DEF Moves, LowerGate
  <2> QED BY <1>4, <2>1, <2>3, <2>4 DEF Awake
<1> QED BY <1>5, <1>6, <1>7, <1>8, <1>9, <1>10, <1>11, <1>12 DEF Inv

LEMMA UseOpenGateKeeps ==
  ASSUME DistinctThreads, Inv, UseOpenGate
  PROVE  Inv'
<1>1. Moves(mgr, "boom", "await car")
  BY Names, Move
     DEF Inv, AllLabels, ManagerLabels, SimulatorLabels, FireAlarmLabels, At,
         UseOpenGate, WaitForCar
<1>2. Hands("lpr", None)
  BY Names, GiveOne DEF Inv, UseOpenGate, WaitForCar, Take, Release
<1>3. SignalledAndWaits(mgr, "boom", "lpr")
  BY Names, SignalThenWait DEF Inv, UseOpenGate, WaitForCar
<1>4. queue' = queue /\ Queued' = Queued BY DEF UseOpenGate, WaitForCar, Queued
<1>5. TypeOK'
  BY <1>1, <1>2, <1>3, <1>4, Names
  DEF Inv, TypeOK, UseOpenGate, WaitForCar, Resumes, Moves, Hands, SignalledAndWaits
<1>6. Labels'
  BY <1>1, <1>2, <1>3, <1>4, Names
     DEF Inv, Labels, UseOpenGate, WaitForCar, ManagerLabels, SimulatorLabels, Owners,
         Waiting, Resumes, IsFree, At, Moves, Hands, SignalledAndWaits
<1>7. Owners'
  BY <1>1, <1>2, <1>3, <1>4, Names
     DEF Inv, Owners, UseOpenGate, WaitForCar, Labels, Resumes, IsFree, Take, At, Moves,
         Hands, SignalledAndWaits
<1>8. Waiting'
  BY <1>1, <1>2, <1>3, <1>4, Names
     DEF Inv, Waiting, UseOpenGate, WaitForCar, Owners, Labels, Resumes, IsFree, At,
         Moves, Hands, SignalledAndWaits
<1>9. Gate'
  BY <1>1, <1>2, <1>3, <1>4, Names
     DEF Inv, Gate, UseOpenGate, WaitForCar, Labels, Owners, Waiting, IsFree, Resumes,
         At, Moves, Hands, SignalledAndWaits
<1>10. HandOver'
  BY <1>1, <1>2, <1>3, <1>4, Names
     DEF Inv, HandOver, UseOpenGate, WaitForCar, Labels, Owners, Waiting, IsFree,
         Resumes, At, Moves, Hands, SignalledAndWaits
<1>11. Remembered'
  BY <1>1, <1>2, <1>3, <1>4, Names
     DEF Inv, Remembered, UseOpenGate, WaitForCar, Serving, Forgotten, HandOver, Labels,
         Owners, Waiting, Resumes, IsFree, At, TypeOK, Moves, Hands, SignalledAndWaits
<1>12. ~alarm' => Awake'
  BY <1>1, <1>2, <1>3, <1>4, Names
     DEF Inv, Gate, UseOpenGate, WaitForCar, Labels, Owners, Waiting, IsFree, Resumes,
         At, Moves, Hands, SignalledAndWaits, HandOver, Awake
<1> QED BY <1>5, <1>6, <1>7, <1>8, <1>9, <1>10, <1>11, <1>12 DEF Inv

LEMMA ReopenGateKeeps ==
  ASSUME DistinctThreads, Inv, ReopenGate
  PROVE  Inv'
<1>1. Moves(mgr, "await closed", "await open")
  BY Names, Move
     DEF Inv, AllLabels, ManagerLabels, SimulatorLabels, FireAlarmLabels, At, ReopenGate
<1>2. owner' = owner BY DEF ReopenGate
<1>3. SignalledAndWaits(mgr, "boom", "boom")
  BY Names, SignalThenWait DEF Inv, ReopenGate
<1>4. queue' = queue /\ Queued' = Queued BY DEF ReopenGate, Queued
<1>5. TypeOK'
  BY <1>1, <1>2, <1>3, <1>4, Names
  DEF Inv, TypeOK, ReopenGate, Resumes, Moves, SignalledAndWaits
<1>6. Labels'
  BY <1>1, <1>2, <1>3, <1>4, Names
     DEF Inv, Labels, ReopenGate, ManagerLabels, SimulatorLabels, Owners, Waiting,
         Resumes, IsFree, At, Moves, SignalledAndWaits
<1>7. Owners'
  BY <1>1, <1>2, <1>3, <1>4, Names
     DEF Inv, Owners, ReopenGate, Labels, Resumes, IsFree, Take, At, Moves,
         SignalledAndWaits
<1>8. Waiting'
  BY <1>1, <1>2, <1>3, <1>4, Names
     DEF Inv, Waiting, ReopenGate, Owners, Labels, Resumes, IsFree, At, Moves,
         SignalledAndWaits
<1>9. Gate'
  BY <1>1, <1>2, <1>3, <1>4, Names
     DEF Inv, Gate, ReopenGate, Labels, Owners, Waiting, IsFree, Resumes, At, Moves,
         SignalledAndWaits
<1>10. HandOver'
  BY <1>1, <1>2, <1>3, <1>4, Names
     DEF Inv, HandOver, ReopenGate, Labels, Owners, Waiting, IsFree, Resumes, At, Moves,
         SignalledAndWaits
<1>11. Remembered'
  BY <1>1, <1>2, <1>3, <1>4, Names
     DEF Inv, Remembered, ReopenGate, Serving, Forgotten, HandOver, Labels, Owners,
         Waiting, Resumes, IsFree, At, TypeOK, Moves, SignalledAndWaits
<1>12. ~alarm' => Awake'
  <2> SUFFICES ASSUME ~alarm PROVE Awake' BY DEF ReopenGate
  <2>1. /\ Awake /\ pc[sim] = "await reopen" /\ sim \in waits["boom"]
        /\ mgr \notin waits["boom"]
    BY <1>1 DEF Inv, Awake, Waiting, Moves, ReopenGate, Resumes
  <2>2. waits["boom"] \subseteq {mgr, sim} BY <2>1 DEF Awake
  <2>3. /\ sim \notin waits'["boom"] /\ waits'["boom"] \subseteq {mgr, sim}
        /\ mgr \in waits'["boom"]
        /\ sim \notin waits'["lpr"]
        /\ waits'["queue"] \subseteq {sim} /\ (sim \in waits'["queue"] => sim \in waits["queue"])
    BY <1>1, <1>3, <2>1, <2>2, Names DEF SignalledAndWaits, Inv, Waiting, Awake, Moves
  <2>4. pc'[sim] = "await reopen" /\ pc'[mgr] = "await open" /\ boom' = "R"
    BY <1>1, <2>1, Names DEF Moves, ReopenGate
  <2> QED BY <1>4, <2>1, <2>3, <2>4 DEF Awake
<1> QED BY <1>5, <1>6, <1>7, <1>8, <1>9, <1>10, <1>11, <1>12 DEF Inv

LEMMA GateOpenedKeeps ==
  ASSUME DistinctThreads, Inv, GateOpened
  PROVE  Inv'
<1>1. Moves(mgr, "await open", "await car")
  BY Names, Move
     DEF Inv, AllLabels, ManagerLabels, SimulatorLabels, FireAlarmLabels, At,
         GateOpened, WaitForCar
<1>2. Hands("lpr", None)
  BY Names, GiveOne DEF Inv, GateOpened, WaitForCar, Take, Release
<1>3. Waits(mgr, "lpr")
  BY Names, JustWait DEF Inv, GateOpened, WaitForCar
<1>4. queue' = queue /\ Queued' = Queued BY DEF GateOpened, WaitForCar, Queued
<1>5. TypeOK'
  BY <1>1, <1>2, <1>3, <1>4, Names
  DEF Inv, TypeOK, GateOpened, WaitForCar, Resumes, Moves, Hands, Waits
<1>6. Labels'
  BY <1>1, <1>2, <1>3, <1>4, Names
     DEF Inv, Labels, GateOpened, WaitForCar, ManagerLabels, SimulatorLabels, Owners,
         Waiting, Resumes, IsFree, At, Moves, Hands, Waits
<1>7. Owners'
  BY <1>1, <1>2, <1>3, <1>4, Names
     DEF Inv, Owners, GateOpened, WaitForCar, Labels, Resumes, IsFree, Take, At, Moves,
         Hands, Waits
<1>8. Waiting'
  <2>1. /\ waits'["lpr"] = waits["lpr"] \union {mgr}
        /\ waits'["boom"] = waits["boom"] /\ mgr \notin waits["boom"]
    BY <1>3, Names DEF Waits, GateOpened, Resumes
  <2> QED BY <1>1, <2>1, Names DEF Inv, Waiting, Moves
<1>9. Gate'
  BY <1>1, <1>2, <1>3, <1>4, Names
     DEF Inv, Gate, GateOpened, WaitForCar, Labels, Owners, Waiting, IsFree, Resumes,
         At, Moves, Hands, Waits
<1>10. HandOver'
  BY <1>1, <1>2, <1>3, <1>4, Names
     DEF Inv, HandOver, GateOpened, WaitForCar, Labels, Owners, Waiting, IsFree,
         Resumes, At, Moves, Hands, Waits
<1>11. Remembered'
  BY <1>1, <1>2, <1>3, <1>4, Names
     DEF Inv, Remembered, GateOpened, WaitForCar, Serving, Forgotten, HandOver, Labels,
         Owners, Waiting, Resumes, IsFree, At, TypeOK, Moves, Hands, Waits
<1>12. ~alarm' => Awake'
  BY <1>1, <1>2, <1>3, <1>4, Names
     DEF Inv, Gate, GateOpened, WaitForCar, Labels, Owners, Waiting, IsFree, Resumes,
         At, Moves, Hands, Waits, HandOver, Awake
<1> QED BY <1>5, <1>6, <1>7, <1>8, <1>9, <1>10, <1>11, <1>12 DEF Inv

LEMMA PopCarKeeps ==
  ASSUME DistinctThreads, Inv, PopCar
  PROVE  Inv'
<1>1. Moves(sim, "pop", "lock lpr")
  BY Names, Move
     DEF Inv, AllLabels, ManagerLabels, SimulatorLabels, FireAlarmLabels, At, PopCar
<1>2. owner' = owner BY DEF PopCar
<1>3. waits' = waits BY DEF PopCar
<1>4. /\ Head(queue) \in Queued /\ Head(queue) \in Cars
      /\ queue' \in Seq(Cars) /\ Queued' = Queued \ {Head(queue)}
      /\ \A i, j \in DOMAIN queue' : queue'[i] = queue'[j] => i = j
  BY Popped DEF PopCar, Inv, TypeOK
<1>5. TypeOK'
  BY <1>1, <1>2, <1>3, <1>4, Names
  DEF Inv, TypeOK, PopCar, Resumes, Moves
<1>6. Labels'
  BY <1>1, <1>2, <1>3, <1>4, Names
     DEF Inv, Labels, PopCar, ManagerLabels, SimulatorLabels, Owners, Waiting, Resumes,
         IsFree, At, Moves
<1>7. Owners'
  BY <1>1, <1>2, <1>3, <1>4, Names
  DEF Inv, Owners, PopCar, Labels, Resumes, IsFree, Take, At, Moves
<1>8. Waiting'
  BY <1>1, <1>2, <1>3, <1>4, Names
  DEF Inv, Waiting, PopCar, Owners, Labels, Resumes, IsFree, At, Moves
<1>9. Gate'
  BY <1>1, <1>2, <1>3, <1>4, Names
  DEF Inv, Gate, PopCar, Labels, Owners, Waiting, IsFree, Resumes, At, Moves
<1>10. HandOver'
  BY <1>1, <1>2, <1>3, <1>4, Names
  DEF Inv, HandOver, PopCar, Labels, Owners, Waiting, IsFree, Resumes, At, Moves
<1>11. Remembered'
  BY <1>1, <1>2, <1>3, <1>4, Names
     DEF Inv, Remembered, PopCar, Serving, Forgotten, HandOver, Labels, Owners, Waiting,
         Resumes, IsFree, At, TypeOK, Moves
<1>12. ~alarm' => Awake'
  BY <1>1, <1>2, <1>3, <1>4, Names
     DEF Inv, Gate, PopCar, Labels, Owners, Waiting, IsFree, Resumes, At, Moves,
         HandOver, Awake
<1> QED BY <1>5, <1>6, <1>7, <1>8, <1>9, <1>10, <1>11, <1>12 DEF Inv

LEMMA AwaitCarKeeps ==
  ASSUME DistinctThreads, Inv, AwaitCar
  PROVE  Inv'
<1>1. Moves(sim, "pop", "await queue")
  BY Names, Move
     DEF Inv, AllLabels, ManagerLabels, SimulatorLabels, FireAlarmLabels, At, AwaitCar
<1>2. owner' = owner BY DEF AwaitCar
<1>3. Waits(sim, "queue")
  BY Names, JustWait DEF Inv, AwaitCar
<1>4. queue' = queue /\ Queued' = Queued BY DEF AwaitCar, Queued
<1>5. TypeOK'
  BY <1>1, <1>2, <1>3, <1>4, Names
  DEF Inv, TypeOK, AwaitCar, Resumes, Moves, Waits
<1>6. Labels'
  BY <1>1, <1>2, <1>3, <1>4, Names
     DEF Inv, Labels, AwaitCar, ManagerLabels, SimulatorLabels, Owners, Waiting,
         Resumes, IsFree, At, Moves, Waits
<1>7. Owners'
  BY <1>1, <1>2, <1>3, <1>4, Names
  DEF Inv, Owners, AwaitCar, Labels, Resumes, IsFree, Take, At, Moves, Waits
<1>8. Waiting'
  BY <1>1, <1>2, <1>3, <1>4, Names
  DEF Inv, Waiting, AwaitCar, Owners, Labels, Resumes, IsFree, At, Moves, Waits
<1>9. Gate'
  BY <1>1, <1>2, <1>3, <1>4, Names
  DEF Inv, Gate, AwaitCar, Labels, Owners, Waiting, IsFree, Resumes, At, Moves, Waits
<1>10. HandOver'
  BY <1>1, <1>2, <1>3, <1>4, Names
     DEF Inv, HandOver, AwaitCar, Labels, Owners, Waiting, IsFree, Resumes, At, Moves,
         Waits
<1>11. Remembered'
  BY <1>1, <1>2, <1>3, <1>4, Names
     DEF Inv, Remembered, AwaitCar, Serving, Forgotten, HandOver, Labels, Owners,
         Waiting, Resumes, IsFree, At, TypeOK, Moves, Waits
<1>12. ~alarm' => Awake'
  BY <1>1, <1>2, <1>3, <1>4, Names
     DEF Inv, Gate, AwaitCar, Labels, Owners, Waiting, IsFree, Resumes, At, Moves,
         Waits, HandOver, Awake
<1> QED BY <1>5, <1>6, <1>7, <1>8, <1>9, <1>10, <1>11, <1>12 DEF Inv

LEMMA CarQueuedKeeps ==
  ASSUME DistinctThreads, Inv, CarQueued
  PROVE  Inv'
<1>1. Moves(sim, "await queue", "pop")
  BY Names, Move
     DEF Inv, AllLabels, ManagerLabels, SimulatorLabels, FireAlarmLabels, At, CarQueued
<1>2. owner' = owner BY DEF CarQueued
<1>3. waits' = waits BY DEF CarQueued
<1>4. queue' = queue /\ Queued' = Queued BY DEF CarQueued, Queued
<1>5. TypeOK'
  BY <1>1, <1>2, <1>3, <1>4, Names
  DEF Inv, TypeOK, CarQueued, Resumes, Moves
<1>6. Labels'
  BY <1>1, <1>2, <1>3, <1>4, Names
     DEF Inv, Labels, CarQueued, ManagerLabels, SimulatorLabels, Owners, Waiting,
         Resumes, IsFree, At, Moves
<1>7. Owners'
  BY <1>1, <1>2, <1>3, <1>4, Names
  DEF Inv, Owners, CarQueued, Labels, Resumes, IsFree, Take, At, Moves
<1>8. Waiting'
  BY <1>1, <1>2, <1>3, <1>4, Names
  DEF Inv, Waiting, CarQueued, Owners, Labels, Resumes, IsFree, At, Moves
<1>9. Gate'
  BY <1>1, <1>2, <1>3, <1>4, Names
  DEF Inv, Gate, CarQueued, Labels, Owners, Waiting, IsFree, Resumes, At, Moves
<1>10. HandOver'
  BY <1>1, <1>2, <1>3, <1>4, Names
  DEF Inv, HandOver, CarQueued, Labels, Owners, Waiting, IsFree, Resumes, At, Moves
<1>11. Remembered'
  BY <1>1, <1>2, <1>3, <1>4, Names
     DEF Inv, Remembered, CarQueued, Serving, Forgotten, HandOver, Labels, Owners,
         Waiting, Resumes, IsFree, At, TypeOK, Moves
<1>12. ~alarm' => Awake'
  BY <1>1, <1>2, <1>3, <1>4, Names
     DEF Inv, Gate, CarQueued, Labels, Owners, Waiting, IsFree, Resumes, At, Moves,
         HandOver, Awake
<1> QED BY <1>5, <1>6, <1>7, <1>8, <1>9, <1>10, <1>11, <1>12 DEF Inv

LEMMA LockReaderKeeps ==
  ASSUME DistinctThreads, Inv, LockReader
  PROVE  Inv'
<1>1. Moves(sim, "lock lpr", "lock boom")
  BY Names, Move
     DEF Inv, AllLabels, ManagerLabels, SimulatorLabels, FireAlarmLabels, At, LockReader
<1>2. Hands("lpr", sim)
  BY Names, GiveOne DEF Inv, LockReader, Take, Release
<1>3. waits' = waits BY DEF LockReader
<1>4. queue' = queue /\ Queued' = Queued BY DEF LockReader, Queued
<1>5. TypeOK'
  BY <1>1, <1>2, <1>3, <1>4, Names
  DEF Inv, TypeOK, LockReader, Resumes, Moves, Hands
<1>6. Labels'
  BY <1>1, <1>2, <1>3, <1>4, Names
     DEF Inv, Labels, LockReader, ManagerLabels, SimulatorLabels, Owners, Waiting,
         Resumes, IsFree, At, Moves, Hands
<1>7. Owners'
  BY <1>1, <1>2, <1>3, <1>4, Names
  DEF Inv, Owners, LockReader, Labels, Resumes, IsFree, Take, At, Moves, Hands
<1>8. Waiting'
  BY <1>1, <1>2, <1>3, <1>4, Names
  DEF Inv, Waiting, LockReader, Owners, Labels, Resumes, IsFree, At, Moves, Hands
<1>9. Gate'
  BY <1>1, <1>2, <1>3, <1>4, Names
  DEF Inv, Gate, LockReader, Labels, Owners, Waiting, IsFree, Resumes, At, Moves, Hands
<1>10. HandOver'
  BY <1>1, <1>2, <1>3, <1>4, Names
     DEF Inv, HandOver, LockReader, Labels, Owners, Waiting, IsFree, Resumes, At, Moves,
         Hands
<1>11. Remembered'
  BY <1>1, <1>2, <1>3, <1>4, Names
     DEF Inv, Remembered, LockReader, Serving, Forgotten, HandOver, Labels, Owners,
         Waiting, Resumes, IsFree, At, TypeOK, Moves, Hands
<1>12. ~alarm' => Awake'
  BY <1>1, <1>2, <1>3, <1>4, Names
     DEF Inv, Gate, LockReader, Labels, Owners, Waiting, IsFree, Resumes, At, Moves,
         Hands, HandOver, Awake
<1> QED BY <1>5, <1>6, <1>7, <1>8, <1>9, <1>10, <1>11, <1>12 DEF Inv

LEMMA ShowPlateKeeps ==
  ASSUME DistinctThreads, Inv, ShowPlate
  PROVE  Inv'
<1>1. Moves(sim, "lock boom", "await done")
  BY Names, Move
     DEF Inv, AllLabels, ManagerLabels, SimulatorLabels, FireAlarmLabels, At, ShowPlate
<1>2. owner' = [owner EXCEPT !["lpr"] = None, !["boom"] = sim] BY DEF ShowPlate
<1>3. SignalledAndWaits(sim, "lpr", "lpr")
  BY Names, SignalThenWait DEF Inv, ShowPlate
<1>4. queue' = queue /\ Queued' = Queued BY DEF ShowPlate, Queued
<1>5. TypeOK'
  <2>1. owner' \in [Objects -> Threads \union {None}] BY <1>2, Names DEF Inv, TypeOK
  <2>2. waits' \in [Objects -> SUBSET Threads] BY <1>3 DEF SignalledAndWaits
  <2>3. pc' \in [Threads -> AllLabels] BY <1>1 DEF Moves
  <2> QED BY <1>4, <2>1, <2>2, <2>3 DEF ShowPlate, Inv, TypeOK
<1>6. Labels'
  BY <1>1, <1>2, <1>3, <1>4, Names
     DEF Inv, Labels, ShowPlate, ManagerLabels, SimulatorLabels, Owners, Waiting,
         Resumes, IsFree, At, Moves, SignalledAndWaits
<1>7. Owners'
  <2>1. owner'["lpr"] = None /\ owner'["boom"] = sim /\ owner'["queue"] = owner["queue"]
    BY <1>2, Names DEF Inv, TypeOK
  <2>2. owner["lpr"] = sim BY <1>1 DEF Inv, Owners, Moves
  <2> QED BY <1>1, <2>1, <2>2, Names DEF Inv, Owners, Moves
<1>8. Waiting'
  BY <1>1, <1>2, <1>3, <1>4, Names
     DEF Inv, Waiting, ShowPlate, Owners, Labels, Resumes, IsFree, At, Moves,
         SignalledAndWaits
<1>9. Gate'
  BY <1>1, <1>2, <1>3, <1>4, Names
     DEF Inv, Gate, ShowPlate, Labels, Owners, Waiting, IsFree, Resumes, At, Moves,
         SignalledAndWaits
<1>10. HandOver'
  BY <1>1, <1>2, <1>3, <1>4, Names
     DEF Inv, HandOver, ShowPlate, Labels, Owners, Waiting, IsFree, Resumes, At, Moves,
         SignalledAndWaits
<1>11. Remembered'
  BY <1>1, <1>2, <1>3, <1>4, Names
     DEF Inv, Remembered, ShowPlate, Serving, Forgotten, HandOver, Labels, Owners,
         Waiting, Resumes, IsFree, At, TypeOK, Moves, SignalledAndWaits
<1>12. ~alarm' => Awake'
  <2> SUFFICES ASSUME ~alarm PROVE Awake' BY DEF ShowPlate
  <2>1. Awake /\ pc[sim] = "lock boom" BY <1>1 DEF Inv, Moves
  <2>2. pc[mgr] \in {"start", "await car", "await ack"}
    BY <2>1, Names DEF Inv, Owners
  <2>3. pc[mgr] # "await ack" BY <2>1 DEF Inv, Awake, HandOver
  <2>4. pc[mgr] = "await car" => waits["lpr"] = {mgr}
    BY <2>1 DEF Inv, HandOver, Waiting
  <2>5. ManagerFirst => pc[mgr] = "await car" BY <2>1, <2>2, <2>3 DEF Awake
  <2>6. ManagerFirst => mgr \notin waits'["lpr"]
    BY <1>3, <2>4, <2>5, Names DEF SignalledAndWaits
  <2>7. mgr \notin waits["boom"] /\ sim \notin waits["boom"]
    BY <2>1, <2>2 DEF Inv, Waiting
  <2>8. waits'["boom"] \subseteq waits["boom"] /\ waits'["queue"] \subseteq waits["queue"]
    BY <1>3, Names DEF SignalledAndWaits
  <2>9. pc'[sim] = "await done" /\ pc'[mgr] = pc[mgr]
    BY <1>1, Names DEF Moves
  <2> QED BY <1>4, <2>1, <2>2, <2>3, <2>5, <2>6, <2>7, <2>8, <2>9 DEF Awake
<1> QED BY <1>5, <1>6, <1>7, <1>8, <1>9, <1>10, <1>11, <1>12 DEF Inv

LEMMA ProcessedKeeps ==
  ASSUME DistinctThreads, Inv, Processed
  PROVE  Inv'
<1>1. Moves(sim, "await done", "await gate")
  BY Names, Move
     DEF Inv, AllLabels, ManagerLabels, SimulatorLabels, FireAlarmLabels, At, Processed
<1>2. Hands("boom", None)
  BY Names, GiveOne DEF Inv, Processed, Take, Release
<1>3. SignalledAndWaits(sim, "lpr", "boom")
  BY Names, SignalThenWait DEF Inv, Processed
<1>4. queue' = queue /\ Queued' = Queued BY DEF Processed, Queued
<1>5. TypeOK'
  BY <1>1, <1>2, <1>3, <1>4, Names
  DEF Inv, TypeOK, Processed, Resumes, Moves, Hands, SignalledAndWaits
<1>6. Labels'
  BY <1>1, <1>2, <1>3, <1>4, Names
     DEF Inv, Labels, Processed, ManagerLabels, SimulatorLabels, Owners, Waiting,
         Resumes, IsFree, At, Moves, Hands, SignalledAndWaits
<1>7. Owners'
  BY <1>1, <1>2, <1>3, <1>4, Names
     DEF Inv, Owners, Processed, Labels, Resumes, IsFree, Take, At, Moves, Hands,
         SignalledAndWaits
<1>8. Waiting'
  BY <1>1, <1>2, <1>3, <1>4, Names
     DEF Inv, Waiting, Processed, Owners, Labels, Resumes, IsFree, At, Moves, Hands,
         SignalledAndWaits
<1>9. Gate'
  BY <1>1, <1>2, <1>3, <1>4, Names
     DEF Inv, Gate, Processed, Labels, Owners, Waiting, IsFree, Resumes, At, Moves,
         Hands, SignalledAndWaits
<1>10. HandOver'
  <2>1. pc[mgr] = "await ack" /\ waits["lpr"] = {mgr}
    BY <1>1 DEF Processed, Resumes, Inv, HandOver, Waiting, Moves
  <2>2. mgr \notin waits'["lpr"]
    BY <1>3, <2>1, Names DEF SignalledAndWaits
  <2> QED BY <1>1, <2>1, <2>2, Names DEF HandOver, Moves
<1>11. Remembered'
  BY <1>1, <1>2, <1>3, <1>4, Names
     DEF Inv, Remembered, Processed, Serving, Forgotten, HandOver, Labels, Owners,
         Waiting, Resumes, IsFree, At, TypeOK, Moves, Hands, SignalledAndWaits
<1>12. ~alarm' => Awake'
  BY <1>1, <1>2, <1>3, <1>4, Names
     DEF Inv, Gate, Processed, Labels, Owners, Waiting, IsFree, Resumes, At, Moves,
         Hands, SignalledAndWaits, HandOver, Awake
<1> QED BY <1>5, <1>6, <1>7, <1>8, <1>9, <1>10, <1>11, <1>12 DEF Inv

LEMMA FinishLoweringKeeps ==
  ASSUME DistinctThreads, Inv, FinishLowering
  PROVE  Inv'
<1>1. Moves(sim, "await gate", "await reopen")
  BY Names, Move
     DEF Inv, AllLabels, ManagerLabels, SimulatorLabels, FireAlarmLabels, At,
         FinishLowering
<1>2. owner' = owner BY DEF FinishLowering
<1>3. SignalledAndWaits(sim, "boom", "boom")
  BY Names, SignalThenWait DEF Inv, FinishLowering
<1>4. queue' = queue /\ Queued' = Queued BY DEF FinishLowering, Queued
<1>5. TypeOK'
  BY <1>1, <1>2, <1>3, <1>4, Names
  DEF Inv, TypeOK, FinishLowering, Resumes, Moves, SignalledAndWaits
<1>6. Labels'
  BY <1>1, <1>2, <1>3, <1>4, Names
     DEF Inv, Labels, FinishLowering, ManagerLabels, SimulatorLabels, Owners, Waiting,
         Resumes, IsFree, At, Moves, SignalledAndWaits
<1>7. Owners'
  BY <1>1, <1>2, <1>3, <1>4, Names
     DEF Inv, Owners, FinishLowering, Labels, Resumes, IsFree, Take, At, Moves,
         SignalledAndWaits
<1>8. Waiting'
  BY <1>1, <1>2, <1>3, <1>4, Names
     DEF Inv, Waiting, FinishLowering, Owners, Labels, Resumes, IsFree, At, Moves,
         SignalledAndWaits
<1>9. Gate'
  BY <1>1, <1>2, <1>3, <1>4, Names
     DEF Inv, Gate, FinishLowering, Labels, Owners, Waiting, IsFree, Resumes, At, Moves,
         SignalledAndWaits
<1>10. HandOver'
  BY <1>1, <1>2, <1>3, <1>4, Names
     DEF Inv, HandOver, FinishLowering, Labels, Owners, Waiting, IsFree, Resumes, At,
         Moves, SignalledAndWaits
<1>11. Remembered'
  BY <1>1, <1>2, <1>3, <1>4, Names
     DEF Inv, Remembered, FinishLowering, Serving, Forgotten, HandOver, Labels, Owners,
         Waiting, Resumes, IsFree, At, TypeOK, Moves, SignalledAndWaits
<1>12. ~alarm' => Awake'
  BY <1>1, <1>2, <1>3, <1>4, Names
     DEF Inv, Gate, FinishLowering, Labels, Owners, Waiting, IsFree, Resumes, At, Moves,
         SignalledAndWaits, HandOver, Awake
<1> QED BY <1>5, <1>6, <1>7, <1>8, <1>9, <1>10, <1>11, <1>12 DEF Inv

LEMMA DriveOutKeeps ==
  ASSUME DistinctThreads, Inv, DriveOut
  PROVE  Inv'
<1>1. CASE boom = "R"
  <2>1. Moves(sim, pc[sim], "pop")
    BY Names, Move, <1>1
       DEF Inv, AllLabels, ManagerLabels, SimulatorLabels, FireAlarmLabels, At, DriveOut
  <2>2. owner' = owner BY <1>1 DEF DriveOut
  <2>3. Signalled("boom")
    BY Names, SignalOnly, <1>1 DEF Inv, DriveOut
  <2>4. queue' = queue /\ Queued' = Queued BY <1>1 DEF DriveOut, Queued
  <2>5. TypeOK'
    <3>1. Queued \subseteq Cars BY DEF Queued, Inv, TypeOK
    <3>2. (inside' \union {head'}) \intersect Queued' = {} /\ head' \notin inside'
      BY <2>4, <3>1, Names DEF DriveOut, Inv, TypeOK
    <3> QED
      BY <2>1, <2>2, <2>3, <2>4, <3>2, <1>1
      DEF Inv, TypeOK, DriveOut, Moves, Signalled
  <2>6. Labels'
    BY <2>1, <2>2, <2>3, <2>4, Names, <1>1
       DEF Inv, Labels, DriveOut, ManagerLabels, SimulatorLabels, Owners, Waiting,
           Resumes, IsFree, At, Moves, Signalled
  <2>7. Owners'
    BY <2>1, <2>2, <2>3, <2>4, Names, <1>1
    DEF Inv, Owners, DriveOut, Labels, Resumes, IsFree, Take, At, Moves, Signalled
  <2>8. Waiting'
    BY <2>1, <2>2, <2>3, <2>4, Names, <1>1
    DEF Inv, Waiting, DriveOut, Owners, Labels, Resumes, IsFree, At, Moves, Signalled
  <2>9. Gate'
    BY <2>1, <2>2, <2>3, <2>4, Names, <1>1
       DEF Inv, Gate, DriveOut, Labels, Owners, Waiting, IsFree, Resumes, At, Moves,
           Signalled
  <2>10. HandOver'
    BY <2>1, <2>2, <2>3, <2>4, Names, <1>1
       DEF Inv, HandOver, DriveOut, Labels, Owners, Waiting, IsFree, Resumes, At, Moves,
           Signalled
  <2>11. Remembered'
    BY <2>1, <2>2, <2>3, <2>4, Names, <1>1
       DEF Inv, Remembered, DriveOut, Serving, Forgotten, HandOver, Labels, Owners,
           Waiting, Resumes, IsFree, At, TypeOK, Moves, Signalled
  <2>12. ~alarm' => Awake'
    BY <2>1, <2>2, <2>3, <2>4, Names, <1>1
       DEF Inv, Gate, DriveOut, Labels, Owners, Waiting, IsFree, Resumes, At, Moves,
           Signalled, HandOver, Awake
  <2> QED BY <2>5, <2>6, <2>7, <2>8, <2>9, <2>10, <2>11, <2>12 DEF Inv
<1>2. CASE boom # "R"
  <2>1. Moves(sim, pc[sim], "pop")
    BY Names, Move, <1>2
       DEF Inv, AllLabels, ManagerLabels, SimulatorLabels, FireAlarmLabels, At, DriveOut
  <2>2. owner' = owner BY <1>2 DEF DriveOut
  <2>3. waits' = waits BY <1>2 DEF DriveOut
  <2>4. queue' = queue /\ Queued' = Queued BY <1>2 DEF DriveOut, Queued
  <2>5. TypeOK'
    <3>1. Queued \subseteq Cars BY DEF Queued, Inv, TypeOK
    <3>2. (inside' \union {head'}) \intersect Queued' = {} /\ head' \notin inside'
      BY <2>4, <3>1, Names DEF DriveOut, Inv, TypeOK
    <3> QED
      BY <2>1, <2>2, <2>3, <2>4, <3>2, <1>2
      DEF Inv, TypeOK, DriveOut, Moves
  <2>6. Labels'
    BY <2>1, <2>2, <2>3, <2>4, Names, <1>2
       DEF Inv, Labels, DriveOut, ManagerLabels, SimulatorLabels, Owners, Waiting,
           Resumes, IsFree, At, Moves
  <2>7. Owners'
    BY <2>1, <2>2, <2>3, <2>4, Names, <1>2
    DEF Inv, Owners, DriveOut, Labels, Resumes, IsFree, Take, At, Moves
  <2>8. Waiting'
    BY <2>1, <2>2, <2>3, <2>4, Names, <1>2
    DEF Inv, Waiting, DriveOut, Owners, Labels, Resumes, IsFree, At, Moves
  <2>9. Gate'
    BY <2>1, <2>2, <2>3, <2>4, Names, <1>2
    DEF Inv, Gate, DriveOut, Labels, Owners, Waiting, IsFree, Resumes, At, Moves
  <2>10. HandOver'
    BY <2>1, <2>2, <2>3, <2>4, Names, <1>2
    DEF Inv, HandOver, DriveOut, Labels, Owners, Waiting, IsFree, Resumes, At, Moves
  <2>11. Remembered'
    BY <2>1, <2>2, <2>3, <2>4, Names, <1>2
       DEF Inv, Remembered, DriveOut, Serving, Forgotten, HandOver, Labels, Owners,
           Waiting, Resumes, IsFree, At, TypeOK, Moves
  <2>12. ~alarm' => Awake'
    BY <2>1, <2>2, <2>3, <2>4, Names, <1>2
       DEF Inv, Gate, DriveOut, Labels, Owners, Waiting, IsFree, Resumes, At, Moves,
           HandOver, Awake
  <2> QED BY <2>5, <2>6, <2>7, <2>8, <2>9, <2>10, <2>11, <2>12 DEF Inv
<1> QED BY <1>1, <1>2

LEMMA EnterKeeps ==
  ASSUME DistinctThreads, Inv, NEW r \in Cars, Enter(r)
  PROVE  Inv'
<1>1. pc' = pc BY DEF Enter
<1>2. owner' = owner BY DEF Enter
<1>3. waits' = waits BY DEF Enter
<1>4. queue' = queue /\ Queued' = Queued BY DEF Enter, Queued
<1>5. TypeOK'
  <2>1. Queued \subseteq Cars BY DEF Queued, Inv, TypeOK
  <2>2. (inside' \union {head'}) \intersect Queued' = {} /\ head' \notin inside'
    BY <1>4, <2>1, Names DEF Enter, Inv, TypeOK, Queued
  <2> QED
    BY <1>1, <1>2, <1>3, <1>4, <2>2
    DEF Inv, TypeOK, Enter
<1>6. Labels'
  BY <1>1, <1>2, <1>3, <1>4, Names
     DEF Inv, Labels, Enter, ManagerLabels, SimulatorLabels, Owners, Waiting, Resumes,
         IsFree, At
<1>7. Owners'
  BY <1>1, <1>2, <1>3, <1>4, Names
  DEF Inv, Owners, Enter, Labels, Resumes, IsFree, Take, At
<1>8. Waiting'
  BY <1>1, <1>2, <1>3, <1>4, Names
  DEF Inv, Waiting, Enter, Owners, Labels, Resumes, IsFree, At
<1>9. Gate'
  BY <1>1, <1>2, <1>3, <1>4, Names
  DEF Inv, Gate, Enter, Labels, Owners, Waiting, IsFree, Resumes, At
<1>10. HandOver'
  BY <1>1, <1>2, <1>3, <1>4, Names
  DEF Inv, HandOver, Enter, Labels, Owners, Waiting, IsFree, Resumes, At
<1>11. Remembered'
  BY <1>1, <1>2, <1>3, <1>4, Names
     DEF Inv, Remembered, Enter, Serving, Forgotten, HandOver, Labels, Owners, Waiting,
         Resumes, IsFree, At, TypeOK
<1>12. ~alarm' => Awake'
  BY <1>1, <1>2, <1>3, <1>4, Names
     DEF Inv, Gate, Enter, Labels, Owners, Waiting, IsFree, Resumes, At, HandOver, Awake
<1> QED BY <1>5, <1>6, <1>7, <1>8, <1>9, <1>10, <1>11, <1>12 DEF Inv

LEMMA QueueUpKeeps ==
  ASSUME DistinctThreads, Inv, NEW r \in Cars, QueueUp(r)
  PROVE  Inv'
<1>1. pc' = pc BY DEF QueueUp
<1>2. owner' = owner BY DEF QueueUp
<1>3. Signalled("queue")
  BY Names, SignalOnly DEF Inv, QueueUp
<1>4. /\ queue' \in Seq(Cars) /\ Queued' = Queued \union {r}
      /\ \A i, j \in DOMAIN queue' : queue'[i] = queue'[j] => i = j
      /\ r \notin Queued
  <2>1. r \notin Queued BY DEF QueueUp, Inv, TypeOK
  <2> QED BY <2>1, Appended DEF QueueUp, Inv, TypeOK
<1>5. TypeOK'
  BY <1>1, <1>2, <1>3, <1>4, Names
  DEF Inv, TypeOK, QueueUp, Resumes, Signalled
<1>6. Labels'
  BY <1>1, <1>2, <1>3, <1>4, Names
     DEF Inv, Labels, QueueUp, ManagerLabels, SimulatorLabels, Owners, Waiting, Resumes,
         IsFree, At, Signalled
<1>7. Owners'
  BY <1>1, <1>2, <1>3, <1>4, Names
  DEF Inv, Owners, QueueUp, Labels, Resumes, IsFree, Take, At, Signalled
<1>8. Waiting'
  BY <1>1, <1>2, <1>3, <1>4, Names
  DEF Inv, Waiting, QueueUp, Owners, Labels, Resumes, IsFree, At, Signalled
<1>9. Gate'
  BY <1>1, <1>2, <1>3, <1>4, Names
  DEF Inv, Gate, QueueUp, Labels, Owners, Waiting, IsFree, Resumes, At, Signalled
<1>10. HandOver'
  BY <1>1, <1>2, <1>3, <1>4, Names
  DEF Inv, HandOver, QueueUp, Labels, Owners, Waiting, IsFree, Resumes, At, Signalled
<1>11. Remembered'
  BY <1>1, <1>2, <1>3, <1>4, Names
     DEF Inv, Remembered, QueueUp, Serving, Forgotten, HandOver, Labels, Owners,
         Waiting, Resumes, IsFree, At, TypeOK, Signalled
<1>12. ~alarm' => Awake'
  BY <1>1, <1>2, <1>3, <1>4, Names
     DEF Inv, Gate, QueueUp, Labels, Owners, Waiting, IsFree, Resumes, At, Signalled,
         HandOver, Awake
<1> QED BY <1>5, <1>6, <1>7, <1>8, <1>9, <1>10, <1>11, <1>12 DEF Inv

LEMMA RaiseAlarmKeeps ==
  ASSUME DistinctThreads, Inv, RaiseAlarm
  PROVE  Inv'
<1>1. Moves(opener, pc[opener], "lock")
  BY Names, Move
     DEF Inv, AllLabels, ManagerLabels, SimulatorLabels, FireAlarmLabels, At, RaiseAlarm
<1>2. owner' = owner BY DEF RaiseAlarm
<1>3. waits' = waits BY DEF RaiseAlarm
<1>4. queue' = queue /\ Queued' = Queued BY DEF RaiseAlarm, Queued
<1>5. TypeOK'
  BY <1>1, <1>2, <1>3, <1>4, Names
  DEF Inv, TypeOK, RaiseAlarm, Resumes, Moves
<1>6. Labels'
  BY <1>1, <1>2, <1>3, <1>4, Names
     DEF Inv, Labels, RaiseAlarm, ManagerLabels, SimulatorLabels, Owners, Waiting,
         Resumes, IsFree, At, Moves
<1>7. Owners'
  BY <1>1, <1>2, <1>3, <1>4, Names
  DEF Inv, Owners, RaiseAlarm, Labels, Resumes, IsFree, Take, At, Moves
<1>8. Waiting'
  BY <1>1, <1>2, <1>3, <1>4, Names
  DEF Inv, Waiting, RaiseAlarm, Owners, Labels, Resumes, IsFree, At, Moves
<1>9. Gate'
  BY <1>1, <1>2, <1>3, <1>4, Names
  DEF Inv, Gate, RaiseAlarm, Labels, Owners, Waiting, IsFree, Resumes, At, Moves
<1>10. HandOver'
  BY <1>1, <1>2, <1>3, <1>4, Names
  DEF Inv, HandOver, RaiseAlarm, Labels, Owners, Waiting, IsFree, Resumes, At, Moves
<1>11. Remembered'
  BY <1>1, <1>2, <1>3, <1>4, Names
     DEF Inv, Remembered, RaiseAlarm, Serving, Forgotten, HandOver, Labels, Owners,
         Waiting, Resumes, IsFree, At, TypeOK, Moves
<1>12. ~alarm' => Awake'
  BY <1>1, <1>2, <1>3, <1>4, Names
     DEF Inv, Gate, RaiseAlarm, Labels, Owners, Waiting, IsFree, Resumes, At, Moves,
         HandOver, Awake
<1> QED BY <1>5, <1>6, <1>7, <1>8, <1>9, <1>10, <1>11, <1>12 DEF Inv

LEMMA OpenBoomGateKeeps ==
  ASSUME DistinctThreads, Inv, OpenBoomGate
  PROVE  Inv'
<1>1. Moves(opener, pc[opener], "await boom")
  BY Names, Move
     DEF Inv, AllLabels, ManagerLabels, SimulatorLabels, FireAlarmLabels, At,
         OpenBoomGate
<1>2. owner' = owner BY DEF OpenBoomGate
<1>3. /\ waits' \in [Objects -> SUBSET Threads]
      /\ waits'["lpr"] = waits["lpr"] /\ waits'["queue"] = waits["queue"]
      /\ waits'["boom"] \subseteq waits["boom"] \union {opener}
      /\ boom # "C" => waits["boom"] \subseteq waits'["boom"]
      /\ alarm
  <2>1. CASE boom = "C"
    <3>1. waits' = [waits EXCEPT !["boom"] = {opener}] BY <2>1 DEF OpenBoomGate
    <3>2. waits \in [Objects -> SUBSET Threads] BY DEF Inv, TypeOK
    <3>3. alarm BY DEF OpenBoomGate, At, Inv, Labels
    <3> QED BY <2>1, <3>1, <3>2, <3>3, Names
  <2>2. CASE boom # "C"
    <3>1. Waits(opener, "boom") BY <2>2, Names, JustWait DEF OpenBoomGate, Inv
    <3>2. alarm BY DEF OpenBoomGate, At, Inv, Labels
    <3> QED BY <2>2, <3>1, <3>2, Names DEF Waits
  <2> QED BY <2>1, <2>2
<1>4. queue' = queue /\ Queued' = Queued BY DEF OpenBoomGate, Queued
<1>5. TypeOK'
  BY <1>1, <1>2, <1>3, <1>4, Names
  DEF Inv, TypeOK, OpenBoomGate, Resumes, Moves
<1>6. Labels'
  BY <1>1, <1>2, <1>3, <1>4, Names
     DEF Inv, Labels, OpenBoomGate, ManagerLabels, SimulatorLabels, Owners, Waiting,
         Resumes, IsFree, At, Moves
<1>7. Owners'
  BY <1>1, <1>2, <1>3, <1>4, Names
  DEF Inv, Owners, OpenBoomGate, Labels, Resumes, IsFree, Take, At, Moves
<1>8. Waiting'
  BY <1>1, <1>2, <1>3, <1>4, Names
  DEF Inv, Waiting, OpenBoomGate, Owners, Labels, Resumes, IsFree, At, Moves
<1>9. Gate'
  BY <1>1, <1>2, <1>3, <1>4, Names
  DEF Inv, Gate, OpenBoomGate, Labels, Owners, Waiting, IsFree, Resumes, At, Moves
<1>10. HandOver'
  BY <1>1, <1>2, <1>3, <1>4, Names
  DEF Inv, HandOver, OpenBoomGate, Labels, Owners, Waiting, IsFree, Resumes, At, Moves
<1>11. Remembered'
  BY <1>1, <1>2, <1>3, <1>4, Names
     DEF Inv, Remembered, OpenBoomGate, Serving, Forgotten, HandOver, Labels, Owners,
         Waiting, Resumes, IsFree, At, TypeOK, Moves
<1>12. ~alarm' => Awake'
  BY <1>1, <1>2, <1>3, <1>4, Names
     DEF Inv, Gate, OpenBoomGate, Labels, Owners, Waiting, IsFree, Resumes, At, Moves,
         HandOver, Awake
<1> QED BY <1>5, <1>6, <1>7, <1>8, <1>9, <1>10, <1>11, <1>12 DEF Inv

LEMMA NextInv ==
  ASSUME DistinctThreads, Inv, [Next]_vars
  PROVE  Inv'
<1>1. CASE Manager
  BY <1>1, StartKeeps, ReadPlateKeeps, DeregisterKeeps, SimulatorSawItKeeps,
     OpenClosedGateKeeps, LowerGateKeeps, UseOpenGateKeeps, ReopenGateKeeps,
     GateOpenedKeeps
  DEF Manager
<1>2. CASE Simulator
  BY <1>2, PopCarKeeps, AwaitCarKeeps, CarQueuedKeeps, LockReaderKeeps, ShowPlateKeeps,
     ProcessedKeeps, FinishLoweringKeeps, DriveOutKeeps
  DEF Simulator
<1>3. CASE FireAlarm
  BY <1>3, RaiseAlarmKeeps, OpenBoomGateKeeps DEF FireAlarm
<1>4. CASE \E r \in Cars : Enter(r) \/ QueueUp(r)
  BY <1>4, EnterKeeps, QueueUpKeeps
<1>5. CASE UNCHANGED vars
  <2> USE <1>5 DEF vars
  <2>1. TypeOK' BY DEF Inv, TypeOK, Queued
  <2>2. Labels' /\ Owners' BY DEF Inv, Labels, Owners
  <2>3. Waiting' /\ Gate' BY DEF Inv, Waiting, Gate
  <2>4. HandOver' BY DEF Inv, HandOver
  <2>5. Remembered' BY DEF Inv, Remembered, Serving, Forgotten, Queued
  <2>6. ~alarm' => Awake' BY DEF Inv, Awake
  <2> QED BY <2>1, <2>2, <2>3, <2>4, <2>5, <2>6 DEF Inv
<1> QED BY <1>1, <1>2, <1>3, <1>4, <1>5 DEF Next

LEMMA Inductive ==
  ASSUME DistinctThreads
  PROVE  Spec => []Inv
<1>1. Init => Inv BY InitInv
<1>2. Inv /\ [Next]_vars => Inv' BY NextInv
<1> QED BY <1>1, <1>2, PTL DEF Spec

-----------------------------------------------------------------------------
(* The results.                                                            *)

(* Every variable of an exit keeps its type, every thread is at one of its *)
(* blocking calls and no car is in two places, alarm or not.               *)
THEOREM TypeCorrect ==
  ASSUME DistinctThreads
  PROVE  Spec => []TypeOK
<1>1. Inv => TypeOK BY DEF Inv
<1> QED BY <1>1, Inductive, PTL

(* A car that is outside again is gone from the manager's data, as the     *)
(* comment at manager_funcs.c:140 wants, for any set of cars, with and     *)
(* without an alarm, and even if a car reaches the exit before the manager *)
(* waits there.                                                            *)
THEOREM OutsideForgotten ==
  ASSUME DistinctThreads
  PROVE  Spec => []OutsideIsForgotten
<1>1. Inv => OutsideIsForgotten BY DEF Inv, Remembered, OutsideIsForgotten, Outside
<1> QED BY <1>1, Inductive, PTL

(* The assertions of remove_from_all_levels and remove_rego hold: the      *)
(* manager only removes a car that is registered.                          *)
THEOREM NeverRemovedTwice ==
  ASSUME DistinctThreads
  PROVE  Spec => []~aborted
<1>1. Inv => ~aborted BY DEF Inv, Remembered
<1> QED BY <1>1, Inductive, PTL

LEMMA StuckAt ==
  ASSUME DistinctThreads, NEW t \in Threads
  PROVE  Stuck(t) <=>
           \/ t \in waits["queue"] \/ t \in waits["lpr"] \/ t \in waits["boom"]
           \/ owner["queue"] # None /\ pc[t] \in {"pop", "await queue"}
           \/ /\ owner["lpr"] # None
              /\ pc[t] \in {"start", "await car", "await ack", "lock lpr", "await done"}
           \/ /\ owner["boom"] # None
              /\ pc[t] \in {"boom", "await open", "await closed", "lock boom",
                            "await gate", "await reopen", "lock", "await boom"}
<1>1. /\ Needing["queue"] = {"pop", "await queue"}
      /\ Needing["lpr"] = {"start", "await car", "await ack", "lock lpr", "await done"}
      /\ Needing["boom"] = {"boom", "await open", "await closed", "lock boom",
                            "await gate", "await reopen", "lock", "await boom"}
  BY DEF Needing
<1> QED BY <1>1 DEF Stuck, Objects, IsFree

(* With a car in the queue or at the reader, the manager can go on         *)
(* whenever the simulator cannot.                                          *)
LEMMA OneAwake ==
  ASSUME DistinctThreads, ManagerFirst, Inv, ~alarm, queue # <<>> \/ head # None,
         Stuck(sim)
  PROVE  ~Stuck(mgr)
<1> SUFFICES ASSUME Stuck(mgr) PROVE FALSE OBVIOUS
<1> USE Names DEF Inv
<1>1. /\ owner["queue"] = None /\ mgr \notin waits["queue"]
      /\ sim \in waits["queue"] => pc[sim] = "await queue" /\ head = None /\ queue = <<>>
  BY DEF Owners, Awake, Remembered, Serving
<1>2. sim \notin waits["queue"] BY <1>1
<1>3. CASE pc[mgr] = "start"
  <2>1. owner["lpr"] = sim BY <1>1, <1>3, StuckAt DEF Waiting, Owners
  <2>2. pc[sim] = "lock boom" BY <2>1 DEF Owners
  <2> QED BY <1>3, <2>2 DEF Awake
<1>4. CASE pc[mgr] = "await car"
  <2>1. CASE mgr \in waits["lpr"]
    <3>1. owner["lpr"] \in {sim, None} BY <1>4 DEF Owners
    <3>2. sim \notin waits["lpr"] /\ sim \notin waits["boom"]
      BY <1>4, <2>1 DEF Awake, Waiting
    <3> QED BY <1>1, <1>2, <3>1, <3>2, StuckAt DEF Owners
  <2>2. CASE mgr \notin waits["lpr"]
    <3>1. pc[sim] = "await done" BY <1>4, <2>2 DEF HandOver
    <3>2. owner["lpr"] = sim BY <1>1, <1>4, <2>2, StuckAt DEF Waiting, Owners
    <3> QED BY <3>1, <3>2 DEF Owners
  <2> QED BY <2>1, <2>2
<1>5. CASE pc[mgr] = "await ack"
  <2>1. CASE mgr \in waits["lpr"]
    <3>1. pc[sim] = "await done" /\ sim \notin waits["lpr"] BY <1>5, <2>1 DEF HandOver
    <3>2. sim \notin waits["boom"] /\ owner["lpr"] = None
      BY <1>5, <3>1 DEF Waiting, Owners
    <3> QED BY <1>2, <3>1, <3>2, StuckAt
  <2>2. CASE mgr \notin waits["lpr"]
    <3>1. pc[sim] = "await gate" BY <1>5, <2>2 DEF Awake
    <3>2. owner["lpr"] = sim BY <1>1, <1>5, <2>2, StuckAt DEF Waiting, Owners
    <3> QED BY <3>1, <3>2 DEF Owners
  <2> QED BY <2>1, <2>2
<1>6. CASE pc[mgr] = "deregister"
  BY <1>1, <1>6, StuckAt DEF Waiting
<1>7. CASE pc[mgr] = "boom"
  <2>1. pc[sim] = "await gate" BY <1>7 DEF Awake
  <2>2. owner["boom"] = None BY <2>1 DEF Owners
  <2> QED BY <1>1, <1>7, <2>2, StuckAt DEF Waiting
<1>8. CASE pc[mgr] \in {"await open", "await closed"}
  <2>1. pc[sim] # "await done"
    <3>1. pc[sim] = "await done" => sim \in waits["lpr"] BY <1>8 DEF HandOver
    <3> QED BY <1>8, <3>1 DEF Awake
  <2>2. owner["boom"] = None BY <2>1 DEF Owners
  <2>3. mgr \in waits["boom"] BY <1>1, <1>8, <2>2, StuckAt DEF Waiting
  <2>4. pc[sim] \in {"await gate", "await reopen"} /\ sim \notin waits["boom"]
    BY <2>3 DEF Awake
  <2> QED BY <1>2, <2>2, <2>4, StuckAt DEF Waiting
<1> QED BY <1>3, <1>4, <1>5, <1>6, <1>7, <1>8 DEF Labels, ManagerLabels

(* As long as a car is in the queue or at the reader, one of the two       *)
(* threads of an exit can go on, whatever the order of their steps, until  *)
(* an alarm, provided the manager is there before the first car            *)
(* (simulator.c and manager.c leave that to the order in which they are    *)
(* started; without it the signal of the first car is lost).               *)
THEOREM ExitNeverStuck ==
  ASSUME DistinctThreads, ManagerFirst
  PROVE  Spec => []CarsNeverStuck
<1>1. Inv => CarsNeverStuck BY OneAwake DEF CarsNeverStuck
<1> QED BY <1>1, Inductive, PTL

LEMMA GateStep ==
  ASSUME DistinctThreads, Inv, [Next]_vars, ~alarm, boom' # boom
  PROVE  <<boom, boom'>> \in {<<"C", "R">>, <<"R", "O">>, <<"O", "L">>, <<"L", "C">>}
<1>1. CASE Manager
  <2>1. CASE OpenClosedGate BY <2>1 DEF OpenClosedGate
  <2>2. CASE LowerGate BY <2>2 DEF LowerGate
  <2>3. CASE ReopenGate BY <2>3 DEF ReopenGate, Resumes, At, Inv, Gate
  <2>4. ASSUME Start \/ ReadPlate \/ Deregister \/ SimulatorSawIt \/ UseOpenGate
                 \/ GateOpened
        PROVE  boom' = boom
    BY <2>4 DEF Start, ReadPlate, Deregister, SimulatorSawIt, UseOpenGate, GateOpened
  <2> QED BY <1>1, <2>1, <2>2, <2>3, <2>4 DEF Manager
<1>2. CASE Simulator
  <2>1. CASE FinishLowering BY <2>1 DEF FinishLowering
  <2>2. CASE DriveOut BY <2>2 DEF DriveOut
  <2>3. ASSUME PopCar \/ AwaitCar \/ CarQueued \/ LockReader \/ ShowPlate \/ Processed
        PROVE  boom' = boom
    BY <2>3 DEF PopCar, AwaitCar, CarQueued, LockReader, ShowPlate, Processed
  <2> QED BY <1>2, <2>1, <2>2, <2>3 DEF Simulator
<1>3. CASE FireAlarm
  <2>1. ~OpenBoomGate BY DEF OpenBoomGate, At, Inv, Labels
  <2> QED BY <1>3, <2>1 DEF FireAlarm, RaiseAlarm
<1>4. CASE \E r \in Cars : Enter(r) \/ QueueUp(r) BY <1>4 DEF Enter, QueueUp
<1>5. CASE UNCHANGED vars BY <1>5 DEF vars
<1> QED BY <1>1, <1>2, <1>3, <1>4, <1>5 DEF Next

(* Whichever program moves the gate, it goes from closed to raising to     *)
(* open to lowering to closed, until an alarm.                             *)
THEOREM GateGoesRound ==
  ASSUME DistinctThreads
  PROVE  Spec => GateCycle
<1>1. Inv /\ [Next]_vars =>
        [~alarm /\ boom' # boom =>
           <<boom, boom'>> \in {<<"C", "R">>, <<"R", "O">>, <<"O", "L">>, <<"L", "C">>}]_vars
  BY GateStep
<1> QED BY <1>1, Inductive, PTL DEF Spec, GateCycle

LEMMA DriveOutStep ==
  ASSUME Inv, [Next]_vars, head # None, head' = None
  PROVE  boom' = "O"
<1>1. CASE Manager
  BY <1>1
  DEF Manager, Start, ReadPlate, Deregister, SimulatorSawIt, OpenClosedGate, LowerGate,
      UseOpenGate, ReopenGate, GateOpened
<1>2. CASE Simulator
  <2>1. CASE DriveOut
    <3>1. boom # "C" /\ boom # "L"
      BY <2>1 DEF DriveOut, At, Resumes, Inv, Gate
    <3> QED BY <2>1, <3>1 DEF DriveOut, Inv, TypeOK
  <2>2. CASE PopCar
    <3>1. pc[sim] = "pop" BY <2>2 DEF PopCar, At
    <3> QED BY <3>1 DEF Inv, Remembered, Serving
  <2>3. ASSUME AwaitCar \/ CarQueued \/ LockReader \/ ShowPlate \/ Processed
                 \/ FinishLowering
        PROVE  head' = head
    BY <2>3 DEF AwaitCar, CarQueued, LockReader, ShowPlate, Processed, FinishLowering
  <2> QED BY <1>2, <2>1, <2>2, <2>3 DEF Simulator
<1>3. CASE FireAlarm
  BY <1>3 DEF FireAlarm, RaiseAlarm, OpenBoomGate
<1>4. CASE \E r \in Cars : Enter(r) \/ QueueUp(r)
  BY <1>4 DEF Enter, QueueUp
<1>5. CASE UNCHANGED vars BY <1>5 DEF vars
<1> QED BY <1>1, <1>2, <1>3, <1>4, <1>5 DEF Next

(* The simulator lets a car out only when the gate is open after it, with  *)
(* and without an alarm.                                                   *)
THEOREM LeavesOpenGate ==
  ASSUME DistinctThreads
  PROVE  Spec => DriveOutThroughOpenGate
<1>1. Inv /\ [Next]_vars => [head # None /\ head' = None => boom' = "O"]_vars
  BY DriveOutStep
<1> QED BY <1>1, Inductive, PTL DEF Spec, DriveOutThroughOpenGate
=============================================================================
