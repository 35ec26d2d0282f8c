----------------------------- MODULE SiteProofs -----------------------------
(***************************************************************************)
(* One entrance and one exit together, with any set of cars: to each gate  *)
(* the whole looks like its own module, and no assertion of the manager    *)
(* fails, as long as there is no alarm.                                    *)
(*                                                                         *)
(* The argument is circular on purpose: while both gates are in the states *)
(* that their own invariants allow, a step at one of them is a step that   *)
(* the module of the other one allows its surroundings, so both invariants *)
(* go on to hold.                                                          *)
(***************************************************************************)
EXTENDS MCSite, TLAPS

(* What each gate sees of the whole, and what is proved of it. *)
EP == INSTANCE EntranceGateProofs WITH
       mgr <- e_mgr, sim <- e_sim, opener <- e_opener,
       owner <- e_owner, waits <- e_waits, pc <- e_pc, lpr <- e_lpr,
       boom <- e_boom, head <- e_head, inside <- present,
       registered <- registered \union present

XP == INSTANCE ExitGateProofs WITH
       mgr <- x_mgr, sim <- x_sim, opener <- x_opener, ManagerFirst <- TRUE,
       owner <- x_owner, waits <- x_waits, pc <- x_pc, lpr <- x_lpr,
       boom <- x_boom, rego <- x_rego, head <- x_head, inside <- driving,
       registered <- registered \intersect present

(* The cars that came in are those on their way to the exit, or at it. *)
Link ==
  \A r \in Cars : r \in present <=> r \in driving \/ r \in XP!Queued \/ r = x_head

SiteInv == ~alarm /\ EP!Inv /\ XP!Inv /\ Link

(* An entrance or an exit that is alone. *)
E1 == INSTANCE EntranceGateProofs WITH
       mgr <- e_mgr, sim <- e_sim, opener <- e_opener,
       owner <- e_owner, waits <- e_waits, pc <- e_pc, lpr <- e_lpr,
       boom <- e_boom, head <- e_head, inside <- present

X1 == INSTANCE ExitGateProofs WITH
       mgr <- x_mgr, sim <- x_sim, opener <- x_opener, ManagerFirst <- TRUE,
       owner <- x_owner, waits <- x_waits, pc <- x_pc, lpr <- x_lpr,
       boom <- x_boom, rego <- x_rego, head <- x_head, inside <- driving

LEMMA Names ==
  /\ EP!DistinctThreads /\ XP!DistinctThreads
  /\ None \notin Cars
<1>1. EP!DistinctThreads
  BY ThreadsAssumption DEF E!DistinctThreads, E!Threads, EP!DistinctThreads, EP!Threads,
      E!Cardinality, EP!Cardinality
<1>2. XP!DistinctThreads
  BY ThreadsAssumption DEF X!DistinctThreads, X!Threads, XP!DistinctThreads, XP!Threads,
      X!Cardinality, XP!Cardinality
<1> QED BY <1>1, <1>2 DEF XP!DistinctThreads

LEMMA SetsOfCars ==
  ASSUME SiteInv
  PROVE  /\ registered \subseteq Cars /\ present \subseteq Cars /\ driving \subseteq Cars
         /\ XP!Queued \subseteq Cars /\ x_head \in Cars \union {None}
         /\ ~aborted /\ aborted \in BOOLEAN
<1>1. XP!Queued \subseteq Cars BY DEF SiteInv, XP!Inv, XP!TypeOK, XP!Queued
<1> QED
  BY <1>1 DEF SiteInv, EP!Inv, EP!TypeOK, XP!Inv, XP!TypeOK, XP!Remembered

-----------------------------------------------------------------------------
(* Steps of the entrance.                                                  *)

(* Most steps of the entrance leave the two sets of cars alone. *)
LEMMA EntranceOnly ==
  ASSUME \/ E!SignalReady \/ E!ClearSign \/ E!Answer \/ E!AnswerRead \/ E!OpenClosedGate
         \/ E!UseRaisedGate \/ E!LowerGate \/ E!ReopenGate \/ E!GateOpened
         \/ E!AwaitReady \/ E!ManagerReady \/ E!LockReader \/ E!LockSign \/ E!ShowPlate
         \/ E!ReadSign \/ E!FinishLowering \/ \E r \in Cars : E!PopCar(r)
  PROVE  EP!Next /\ UNCHANGED <<registered, present, alarm, aborted>>
<1>0. UNCHANGED <<registered, present>>
  BY
     DEF E!SignalReady, E!ClearSign, E!Answer, E!AnswerRead, E!OpenClosedGate,
         E!RaiseGate, E!UseRaisedGate, E!LowerGate, E!ReopenGate, E!GateOpened,
         E!AwaitReady, E!ManagerReady, E!LockReader, E!LockSign, E!ShowPlate,
         E!ReadSign, E!FinishLowering, E!PopCar, E!cars
<1> USE <1>0 DEF E!At, E!Goto, E!Take, E!Release, E!Give, E!IsFree, E!Resumes, E!Signal,
    E!AfterSignal, E!Wait, E!SignalAndWait, E!Broadcast, E!Objects, E!Threads, EP!At,
    EP!Goto, EP!Take, EP!Release, EP!Give, EP!IsFree, EP!Resumes, EP!Signal,
    EP!AfterSignal, EP!Wait, EP!SignalAndWait, EP!Broadcast, EP!Objects, EP!Threads,
    E!gate, EP!gate, E!cars, EP!cars
<1>1. E!SignalReady => EP!SignalReady /\ UNCHANGED <<alarm, aborted>>
  BY DEF E!SignalReady, EP!SignalReady
<1>2. E!ClearSign => EP!ClearSign /\ UNCHANGED <<alarm, aborted>>
  BY DEF E!ClearSign, EP!ClearSign
<1>3. E!Answer => EP!Answer /\ UNCHANGED <<alarm, aborted>>
  BY DEF E!Answer, EP!Answer
<1>4. E!AnswerRead => EP!AnswerRead /\ UNCHANGED <<alarm, aborted>>
  BY DEF E!AnswerRead, EP!AnswerRead
<1>5. E!OpenClosedGate => EP!OpenClosedGate /\ UNCHANGED <<alarm, aborted>>
  BY DEF E!OpenClosedGate, EP!OpenClosedGate, E!RaiseGate, EP!RaiseGate
<1>6. E!UseRaisedGate => EP!UseRaisedGate /\ UNCHANGED <<alarm, aborted>>
  BY DEF E!UseRaisedGate, EP!UseRaisedGate
<1>7. E!LowerGate => EP!LowerGate /\ UNCHANGED <<alarm, aborted>>
  BY DEF E!LowerGate, EP!LowerGate
<1>8. E!ReopenGate => EP!ReopenGate /\ UNCHANGED <<alarm, aborted>>
  BY DEF E!ReopenGate, EP!ReopenGate, E!RaiseGate, EP!RaiseGate
<1>9. E!GateOpened => EP!GateOpened /\ UNCHANGED <<alarm, aborted>>
  BY DEF E!GateOpened, EP!GateOpened
<1>10. E!ManagerReady => EP!ManagerReady /\ UNCHANGED <<alarm, aborted>>
  BY DEF E!ManagerReady, EP!ManagerReady
<1>11. E!LockReader => EP!LockReader /\ UNCHANGED <<alarm, aborted>>
  BY DEF E!LockReader, EP!LockReader
<1>12. E!LockSign => EP!LockSign /\ UNCHANGED <<alarm, aborted>>
  BY DEF E!LockSign, EP!LockSign
<1>13. E!ShowPlate => EP!ShowPlate /\ UNCHANGED <<alarm, aborted>>
  BY DEF E!ShowPlate, EP!ShowPlate
<1>14. E!ReadSign => EP!ReadSign /\ UNCHANGED <<alarm, aborted>>
  BY DEF E!ReadSign, EP!ReadSign, E!Admits, EP!Admits
<1>15. E!FinishLowering => EP!FinishLowering /\ UNCHANGED <<alarm, aborted>>
  BY DEF E!FinishLowering, EP!FinishLowering
<1>17. E!AwaitReady => EP!AwaitReady /\ UNCHANGED <<alarm, aborted>>
  BY DEF E!AwaitReady, EP!AwaitReady
<1>16. ASSUME NEW r \in Cars, E!PopCar(r) PROVE EP!PopCar(r) /\ UNCHANGED <<alarm, aborted>>
  BY <1>16 DEF E!PopCar, EP!PopCar
<1> QED
  BY <1>0, <1>1, <1>2, <1>3, <1>4, <1>5, <1>6, <1>7, <1>8, <1>9, <1>10, <1>11, <1>12,
      <1>13, <1>14, <1>15, <1>16, <1>17
  DEF EP!Next, EP!Manager, EP!Simulator

LEMMA EntranceRegisters ==
  ASSUME SiteInv, E!Decide
  PROVE  /\ EP!Next /\ UNCHANGED <<present, alarm, aborted>>
         /\ (registered \intersect present)' = registered \intersect present
<1>1. e_lpr \in Cars /\ e_lpr \notin registered \union present
  <2>1. e_pc[e_mgr] = "await car" /\ e_mgr \notin e_waits["lpr"]
    BY DEF E!Decide, E!At, E!Resumes
  <2>2. ~EP!Idle BY <2>1 DEF EP!Idle
  <2>3. e_pc[e_sim] = "await answer"
    BY <2>2 DEF SiteInv, EP!Inv, EP!HandOver, EP!Labels, EP!SimulatorLabels
  <2>4. e_lpr = e_head /\ EP!Agreed
    BY <2>1, <2>3 DEF SiteInv, EP!Inv, EP!HandOver, EP!AnswerPending
  <2>5. e_head \in Cars \ present
    BY <2>3 DEF SiteInv, EP!Inv, EP!Plates, EP!Serving
  <2> QED BY <2>4, <2>5 DEF EP!Agreed
<1>2. present' = present /\ alarm' = alarm BY DEF E!Decide, E!gate
<1>3. /\ aborted' = aborted
      /\ registered' = registered \/ registered' = registered \union {e_lpr}
  <2>1. CASE UNCHANGED <<registered, aborted>> BY <2>1
  <2>2. CASE /\ aborted' = (e_lpr \in registered)
             /\ registered' = registered \union {e_lpr}
    BY <1>1, <2>2, SetsOfCars
  <2> QED BY <2>1, <2>2 DEF E!Decide
<1>4. EP!Decide
  <2>1. CASE verdict' \in {"X", "F"} /\ UNCHANGED <<registered, aborted>>
    BY <1>2, <2>1 DEF E!At, E!Goto, E!Take, E!Release, E!Give, E!IsFree, E!Resumes,
        E!Signal, E!AfterSignal, E!Wait, E!SignalAndWait, E!Broadcast, E!Objects,
        E!Threads, EP!At, EP!Goto, EP!Take, EP!Release, EP!Give, EP!IsFree, EP!Resumes,
        EP!Signal, EP!AfterSignal, EP!Wait, EP!SignalAndWait, EP!Broadcast, EP!Objects,
        EP!Threads, E!gate, EP!gate, E!Decide, EP!Decide
  <2>2. CASE /\ verdict' = "level"
             /\ aborted' = (e_lpr \in registered)
             /\ registered' = registered \union {e_lpr}
    <3>1. /\ aborted' = (e_lpr \in registered \union present)
          /\ (registered \union present)' = (registered \union present) \union {e_lpr}
      BY <1>1, <1>2, <2>2
    <3> QED
      BY <1>2, <2>2, <3>1 DEF E!At, E!Goto, E!Take, E!Release, E!Give, E!IsFree,
          E!Resumes, E!Signal, E!AfterSignal, E!Wait, E!SignalAndWait, E!Broadcast,
          E!Objects, E!Threads, EP!At, EP!Goto, EP!Take, EP!Release, EP!Give, EP!IsFree,
          EP!Resumes, EP!Signal, EP!AfterSignal, EP!Wait, EP!SignalAndWait,
          EP!Broadcast, EP!Objects, EP!Threads, E!gate, EP!gate, E!Decide, EP!Decide
  <2> QED BY <2>1, <2>2 DEF E!Decide
<1> QED BY <1>1, <1>2, <1>3, <1>4 DEF EP!Next, EP!Manager

LEMMA EntranceDrivesIn ==
  ASSUME SiteInv, E!DriveIn, ComesIn, UNCHANGED exit_vars
  PROVE  EP!Next /\ XP!Next /\ Link' /\ alarm' = alarm
<1>1. e_head \in Cars \ present /\ e_head \in registered
  <2>1. e_pc[e_sim] \in {"await gate", "await reopen"} BY DEF E!DriveIn, E!At
  <2>2. e_head \in Cars \ present
    BY <2>1 DEF SiteInv, EP!Inv, EP!Plates, EP!Serving
  <2>3. EP!OneAhead BY <2>1 DEF SiteInv, EP!Inv, EP!HandOver
  <2> QED BY <2>2, <2>3 DEF EP!OneAhead
<1>2. /\ present' = present \union {e_head} /\ driving' = driving \union {e_head}
      /\ UNCHANGED <<registered, alarm, aborted, queue, x_head>>
  BY <1>1 DEF E!DriveIn, ComesIn, exit_vars
<1>3. EP!DriveIn
  <2>1. UNCHANGED (registered \union present) BY <1>1, <1>2
  <2> QED BY <1>2, <2>1 DEF E!DriveIn, EP!DriveIn, E!At, E!Goto, E!Take, E!Release,
      E!Give, E!IsFree, E!Resumes, E!Signal, E!AfterSignal, E!Wait, E!SignalAndWait,
      E!Broadcast, E!Objects, E!Threads, EP!At, EP!Goto, EP!Take, EP!Release, EP!Give,
      EP!IsFree, EP!Resumes, EP!Signal, EP!AfterSignal, EP!Wait, EP!SignalAndWait,
      EP!Broadcast, EP!Objects, EP!Threads
<1>4. XP!Enter(e_head)
  <2>1. /\ e_head \notin driving /\ e_head # x_head
        /\ \A i \in DOMAIN queue : queue[i] # e_head
    BY <1>1 DEF SiteInv, Link, XP!Queued
  <2>2. (registered \intersect present)' = (registered \intersect present) \union {e_head}
    BY <1>1, <1>2
  <2> QED BY <1>1, <1>2, <2>1, <2>2 DEF XP!Enter, exit_vars
<1>5. Link'
  <2>1. XP!Queued' = XP!Queued BY <1>2 DEF XP!Queued
  <2> QED BY <1>1, <1>2, <2>1 DEF SiteInv, Link
<1> QED BY <1>1, <1>2, <1>3, <1>4, <1>5 DEF EP!Next, EP!Simulator, XP!Next

-----------------------------------------------------------------------------
(* Steps of the exit.                                                      *)

LEMMA ExitOnly ==
  ASSUME UNCHANGED <<registered, present>>,
         \/ X!Start \/ X!ReadPlate \/ X!SimulatorSawIt \/ X!OpenClosedGate
         \/ X!LowerGate \/ X!UseOpenGate \/ X!ReopenGate \/ X!GateOpened
         \/ X!AwaitCar \/ X!CarQueued \/ X!LockReader \/ X!ShowPlate \/ X!Processed
         \/ X!FinishLowering \/ X!PopCar \/ \E r \in Cars : X!QueueUp(r)
  PROVE  XP!Next /\ UNCHANGED <<alarm, aborted>>
<1> USE DEF X!At, X!Goto, X!Take, X!Release, X!Give, X!IsFree, X!Resumes, X!Signal,
            X!AfterSignal, X!Wait, X!SignalAndWait, X!Objects, X!Threads, XP!At,
            XP!Goto, XP!Take, XP!Release, XP!Give, XP!IsFree, XP!Resumes, XP!Signal,
            XP!AfterSignal, XP!Wait, XP!SignalAndWait, XP!Objects, XP!Threads
<1>1. X!Start => XP!Start /\ UNCHANGED <<alarm, aborted>>
  BY DEF X!Start, XP!Start, X!WaitForCar, XP!WaitForCar
<1>2. X!ReadPlate => XP!ReadPlate /\ UNCHANGED <<alarm, aborted>>
  BY DEF X!ReadPlate, XP!ReadPlate
<1>3. X!SimulatorSawIt => XP!SimulatorSawIt /\ UNCHANGED <<alarm, aborted>>
  BY DEF X!SimulatorSawIt, XP!SimulatorSawIt
<1>4. X!OpenClosedGate => XP!OpenClosedGate /\ UNCHANGED <<alarm, aborted>>
  BY DEF X!OpenClosedGate, XP!OpenClosedGate
<1>5. X!LowerGate => XP!LowerGate /\ UNCHANGED <<alarm, aborted>>
  BY DEF X!LowerGate, XP!LowerGate
<1>6. X!UseOpenGate => XP!UseOpenGate /\ UNCHANGED <<alarm, aborted>>
  BY DEF X!UseOpenGate, XP!UseOpenGate, X!WaitForCar, XP!WaitForCar
<1>7. X!ReopenGate => XP!ReopenGate /\ UNCHANGED <<alarm, aborted>>
  BY DEF X!ReopenGate, XP!ReopenGate
<1>8. X!GateOpened => XP!GateOpened /\ UNCHANGED <<alarm, aborted>>
  BY DEF X!GateOpened, XP!GateOpened, X!WaitForCar, XP!WaitForCar
<1>9. X!AwaitCar => XP!AwaitCar /\ UNCHANGED <<alarm, aborted>>
  BY DEF X!AwaitCar, XP!AwaitCar
<1>10. X!CarQueued => XP!CarQueued /\ UNCHANGED <<alarm, aborted>>
  BY DEF X!CarQueued, XP!CarQueued
<1>11. X!LockReader => XP!LockReader /\ UNCHANGED <<alarm, aborted>>
  BY DEF X!LockReader, XP!LockReader
<1>12. X!ShowPlate => XP!ShowPlate /\ UNCHANGED <<alarm, aborted>>
  BY DEF X!ShowPlate, XP!ShowPlate
<1>13. X!Processed => XP!Processed /\ UNCHANGED <<alarm, aborted>>
  BY DEF X!Processed, XP!Processed
<1>14. X!FinishLowering => XP!FinishLowering /\ UNCHANGED <<alarm, aborted>>
  BY DEF X!FinishLowering, XP!FinishLowering
<1>15. X!PopCar => XP!PopCar /\ UNCHANGED <<alarm, aborted>>
  BY DEF X!PopCar, XP!PopCar
<1>16. ASSUME NEW r \in Cars, X!QueueUp(r)
      PROVE  XP!QueueUp(r) /\ UNCHANGED <<alarm, aborted>>
  BY <1>16 DEF X!QueueUp, XP!QueueUp
<1> QED
  BY <1>1, <1>2, <1>3, <1>4, <1>5, <1>6, <1>7, <1>8, <1>9, <1>10, <1>11, <1>12, <1>13,
      <1>14, <1>15, <1>16
  DEF XP!Next, XP!Manager, XP!Simulator

(* Of these steps, two move a car ... *)
LEMMA ExitMovesCars ==
  ASSUME SiteInv, GoesOut, X!PopCar \/ \E r \in Cars : X!QueueUp(r)
  PROVE  UNCHANGED <<registered, present>> /\ Link'
<1> USE Names, SetsOfCars
<1>1. CASE X!PopCar
  <2>1. /\ Head(queue) \in XP!Queued /\ x_head' = Head(queue)
        /\ XP!Queued' = XP!Queued \ {Head(queue)}
        /\ UNCHANGED <<registered, driving>>
    BY <1>1, XP!Popped DEF X!PopCar, SiteInv, XP!Inv, XP!TypeOK
  <2>2. x_head = None
    BY <1>1 DEF X!PopCar, X!At, SiteInv, XP!Inv, XP!Remembered, XP!Serving
  <2>3. present' = present BY <2>1 DEF GoesOut
  <2> QED BY <2>1, <2>2, <2>3 DEF SiteInv, Link
<1>2. ASSUME NEW r \in Cars, X!QueueUp(r)
      PROVE  UNCHANGED <<registered, present>> /\ Link'
  <2>1. r \in driving /\ r \notin XP!Queued
    BY <1>2 DEF X!QueueUp, SiteInv, XP!Inv, XP!TypeOK
  <2>2. /\ driving' = driving \ {r} /\ XP!Queued' = XP!Queued \union {r}
        /\ UNCHANGED <<registered, x_head>>
    BY <1>2, <2>1, XP!Appended DEF X!QueueUp, SiteInv, XP!Inv, XP!TypeOK
  <2>3. present' = present BY <2>2 DEF GoesOut
  <2> QED BY <2>1, <2>2, <2>3 DEF SiteInv, Link
<1> QED BY <1>1, <1>2

(* ... and the others none. *)
LEMMA ExitMovesNoCar ==
  ASSUME SiteInv, GoesOut,
         \/ X!Start \/ X!ReadPlate \/ X!SimulatorSawIt \/ X!OpenClosedGate
         \/ X!LowerGate \/ X!UseOpenGate \/ X!ReopenGate \/ X!GateOpened
         \/ X!AwaitCar \/ X!CarQueued \/ X!LockReader \/ X!ShowPlate \/ X!Processed
         \/ X!FinishLowering
  PROVE  UNCHANGED <<registered, present>> /\ Link'
<1>1. UNCHANGED <<registered, driving, queue, x_head>>
  BY DEF X!Start, X!ReadPlate, X!SimulatorSawIt, X!OpenClosedGate, X!LowerGate,
         X!UseOpenGate, X!ReopenGate, X!GateOpened, X!AwaitCar, X!CarQueued,
         X!LockReader, X!ShowPlate, X!Processed, X!FinishLowering
<1>2. present' = present BY <1>1, Names, SetsOfCars DEF GoesOut
<1>3. Link' BY <1>1, <1>2 DEF SiteInv, Link, XP!Queued
<1> QED BY <1>1, <1>2, <1>3

(* The manager forgets a car that is present. *)
LEMMA ExitDeregisters ==
  ASSUME SiteInv, X!Deregister, GoesOut, UNCHANGED entrance_vars
  PROVE  XP!Next /\ UNCHANGED EP!vars /\ Link'
<1> USE Names, SetsOfCars
<1>1. x_rego = x_head /\ x_head \in Cars /\ x_head \in registered /\ x_head \in present
  <2>1. x_pc[x_mgr] = "deregister" BY DEF X!Deregister, X!At
  <2> QED BY <2>1, XP!AtDeregister DEF SiteInv
<1>2. /\ registered' = registered \ {x_head} /\ ~aborted'
      /\ UNCHANGED <<present, driving, queue, x_head, alarm>>
  BY <1>1 DEF X!Deregister, GoesOut
<1>3. XP!Deregister
  <2>1. (registered \intersect present)' = (registered \intersect present) \ {x_rego}
    BY <1>1, <1>2
  <2>2. aborted' = (x_rego \notin registered \intersect present)
    BY <1>1 DEF X!Deregister
  <2> QED BY <2>1, <2>2 DEF X!Deregister, XP!Deregister, X!At, X!Goto, X!Take,
      X!Release, X!Give, X!IsFree, X!Resumes, X!Signal, X!AfterSignal, X!Wait,
      X!SignalAndWait, X!Objects, X!Threads, XP!At, XP!Goto, XP!Take, XP!Release,
      XP!Give, XP!IsFree, XP!Resumes, XP!Signal, XP!AfterSignal, XP!Wait,
      XP!SignalAndWait, XP!Objects, XP!Threads
<1>4. UNCHANGED <<registered \union present, aborted>>
  <2>1. (registered \union present)' = registered \union present BY <1>1, <1>2
  <2>2. aborted' = aborted BY <1>1, <1>2 DEF X!Deregister
  <2> QED BY <2>1, <2>2
<1>5. Link' BY <1>2 DEF SiteInv, Link, XP!Queued
<1> QED
  BY <1>2, <1>3, <1>4, <1>5
  DEF XP!Next, XP!Manager, EP!vars, EP!gate, EP!cars, entrance_vars

(* The car that drives out is forgotten. *)
LEMMA ExitDrivesOut ==
  ASSUME SiteInv, X!DriveOut, GoesOut, UNCHANGED entrance_vars
  PROVE  XP!Next /\ EP!Next /\ Link' /\ alarm' = alarm
<1> USE Names, SetsOfCars
<1>1. x_pc[x_sim] \in {"await gate", "await reopen"} BY DEF X!DriveOut, X!At
<1>2. x_head \in Cars /\ x_head \in present /\ x_head \notin registered
  <2>1. XP!Forgotten /\ XP!Serving BY <1>1 DEF XP!Forgotten, XP!Serving
  <2>2. x_head \in Cars /\ x_head \notin driving /\ x_head \notin XP!Queued
    BY <2>1 DEF SiteInv, XP!Inv, XP!TypeOK, XP!Remembered
  <2> QED BY <2>1, <2>2 DEF SiteInv, Link, XP!Inv, XP!Remembered
<1>3. /\ present' = present \ {x_head} /\ x_head' = None
      /\ UNCHANGED <<registered, driving, queue, alarm, aborted>>
  BY DEF X!DriveOut, GoesOut
<1>4. XP!DriveOut
  <2>1. UNCHANGED (registered \intersect present) BY <1>2, <1>3
  <2> QED BY <2>1 DEF X!DriveOut, XP!DriveOut, X!At, X!Goto, X!Take, X!Release, X!Give,
      X!IsFree, X!Resumes, X!Signal, X!AfterSignal, X!Wait, X!SignalAndWait, X!Objects,
      X!Threads, XP!At, XP!Goto, XP!Take, XP!Release, XP!Give, XP!IsFree, XP!Resumes,
      XP!Signal, XP!AfterSignal, XP!Wait, XP!SignalAndWait, XP!Objects, XP!Threads
<1>5. EP!Leave(x_head)
  <2>1. (registered \union present)' = (registered \union present) \ {x_head}
    BY <1>2, <1>3
  <2> QED BY <1>2, <1>3, <2>1 DEF EP!Leave, EP!gate, entrance_vars
<1>6. Link'
  <2>1. XP!Queued' = XP!Queued BY <1>3 DEF XP!Queued
  <2>2. x_head \notin driving /\ x_head \notin XP!Queued
    BY <1>2 DEF SiteInv, XP!Inv, XP!TypeOK
  <2> QED BY <1>2, <1>3, <2>1, <2>2 DEF SiteInv, Link
<1> QED BY <1>2, <1>3, <1>4, <1>5, <1>6 DEF XP!Next, XP!Simulator, EP!Next

-----------------------------------------------------------------------------
(* Both together.                                                          *)

StepsOfBoth ==
  [EP!Next]_(EP!vars) /\ [XP!Next]_(XP!vars) /\ Link' /\ alarm' = alarm

LEMMA EntranceStepOfBoth ==
  ASSUME SiteInv, UNCHANGED exit_vars, ComesIn,
         E!Manager \/ E!Simulator \/ \E r \in Cars : E!PopCar(r)
  PROVE  StepsOfBoth
<1>1. CASE E!DriveIn BY <1>1, EntranceDrivesIn DEF StepsOfBoth
<1>2. CASE ~E!DriveIn
  <2>1. /\ EP!Next /\ UNCHANGED <<present, alarm, aborted>>
        /\ (registered \intersect present)' = registered \intersect present
    <3>1. CASE E!Decide BY <3>1, EntranceRegisters
    <3>2. CASE ~E!Decide BY <1>2, <3>2, EntranceOnly DEF E!Manager, E!Simulator
    <3> QED BY <3>1, <3>2
  <2>2. driving' = driving BY <2>1 DEF ComesIn
  <2>3. UNCHANGED XP!vars BY <2>1, <2>2 DEF XP!vars, exit_vars
  <2>4. Link' BY <2>1, <2>2 DEF SiteInv, Link, XP!Queued, exit_vars
  <2> QED BY <2>1, <2>3, <2>4 DEF StepsOfBoth
<1> QED BY <1>1, <1>2

LEMMA ExitStepOfBoth ==
  ASSUME SiteInv, UNCHANGED entrance_vars, GoesOut,
         X!Manager \/ X!Simulator \/ \E r \in Cars : X!QueueUp(r)
  PROVE  StepsOfBoth
<1>1. CASE X!Deregister
  <2>1. alarm' = alarm BY <1>1 DEF X!Deregister
  <2> QED BY <1>1, <2>1, ExitDeregisters DEF StepsOfBoth
<1>2. CASE X!DriveOut BY <1>2, ExitDrivesOut DEF StepsOfBoth
<1>3. CASE ~X!Deregister /\ ~X!DriveOut
  <2>1. UNCHANGED <<registered, present>> /\ Link'
    BY <1>3, ExitMovesCars, ExitMovesNoCar DEF X!Manager, X!Simulator
  <2>2. XP!Next /\ UNCHANGED <<alarm, aborted>>
    BY <1>3, <2>1, ExitOnly DEF X!Manager, X!Simulator
  <2>3. UNCHANGED EP!vars BY <2>1, <2>2 DEF EP!vars, EP!gate, EP!cars, entrance_vars
  <2> QED BY <2>1, <2>2, <2>3 DEF StepsOfBoth
<1> QED BY <1>1, <1>2, <1>3

LEMMA SiteStep ==
  ASSUME SiteInv, [Next]_vars
  PROVE  SiteInv' /\ StepsOfBoth
<1>1. StepsOfBoth
  <2>1. CASE Next
    BY <2>1, EntranceStepOfBoth, ExitStepOfBoth
    DEF Next, EntranceManager, EntranceSimulator, ExitManager, ExitSimulator, Generate,
        QueueUp, AtEntrance, AtExit
  <2>2. CASE UNCHANGED vars
    BY <2>2
    DEF StepsOfBoth, vars, entrance_vars, exit_vars, EP!vars, EP!gate, EP!cars, XP!vars,
        SiteInv, Link, XP!Queued
  <2> QED BY <2>1, <2>2
<1>2. EP!Inv' BY <1>1, Names, EP!NextInv DEF SiteInv, StepsOfBoth
<1>3. XP!Inv' BY <1>1, Names, XP!NextInv DEF SiteInv, StepsOfBoth
<1> QED BY <1>1, <1>2, <1>3 DEF SiteInv, StepsOfBoth

LEMMA SiteInit ==
  ASSUME Init
  PROVE  EP!Init /\ XP!Init /\ SiteInv
<1>1. EP!Init BY DEF Init, E!Init, E!Objects, E!Threads, EP!Init, EP!Objects, EP!Threads
<1>2. XP!Init BY DEF Init, X!Init, X!Objects, X!Threads, XP!Init, XP!Objects, XP!Threads
<1>3. Link
  <2>1. queue = <<>> /\ x_head = None /\ driving = {} /\ present = {}
    BY <1>1, <1>2 DEF EP!Init, XP!Init
  <2>2. XP!Queued = {} BY <2>1 DEF XP!Queued
  <2> QED BY <2>1, <2>2, Names DEF Link
<1>4. EP!Inv /\ XP!Inv BY <1>1, <1>2, Names, EP!InitInv, XP!InitInv
<1> QED BY <1>1, <1>2, <1>3, <1>4 DEF SiteInv, EP!Init

LEMMA Views ==
  /\ EntranceView!Init <=> EP!Init
  /\ EntranceView!Next <=> EP!Next
  /\ EntranceView!vars = EP!vars
  /\ ExitView!Init <=> XP!Init
  /\ ExitView!Next <=> XP!Next
  /\ ExitView!vars = XP!vars
<1>1. /\ EntranceView!Init <=> EP!Init
      /\ EntranceView!Next <=> EP!Next
      /\ EntranceView!vars = EP!vars
  BY
     DEF EntranceView!Next, EntranceView!Manager, EntranceView!Simulator,
         EntranceView!FireAlarm, EntranceView!Init, EntranceView!vars,
         EntranceView!SignalReady, EntranceView!ClearSign, EntranceView!Decide,
         EntranceView!Answer, EntranceView!AnswerRead, EntranceView!OpenClosedGate,
         EntranceView!RaiseGate, EntranceView!UseRaisedGate, EntranceView!LowerGate,
         EntranceView!ReopenGate, EntranceView!GateOpened, EntranceView!AwaitReady,
         EntranceView!ManagerReady, EntranceView!PopCar, EntranceView!LockReader,
         EntranceView!LockSign, EntranceView!ShowPlate, EntranceView!ReadSign,
         EntranceView!Admits, EntranceView!FinishLowering, EntranceView!DriveIn,
         EntranceView!Leave, EntranceView!RaiseAlarm, EntranceView!OpenBoomGate,
         EntranceView!ShowEvacuate, EntranceView!gate, EntranceView!cars,
         EntranceView!At, EntranceView!Goto, EntranceView!Take, EntranceView!Release,
         EntranceView!Give, EntranceView!IsFree, EntranceView!Resumes,
         EntranceView!Signal, EntranceView!AfterSignal, EntranceView!Wait,
         EntranceView!SignalAndWait, EntranceView!Broadcast, EntranceView!Objects,
         EntranceView!Threads, EP!Next, EP!Manager, EP!Simulator, EP!FireAlarm, EP!Init,
         EP!vars, EP!SignalReady, EP!ClearSign, EP!Decide, EP!Answer, EP!AnswerRead,
         EP!OpenClosedGate, EP!RaiseGate, EP!UseRaisedGate, EP!LowerGate, EP!ReopenGate,
         EP!GateOpened, EP!AwaitReady, EP!ManagerReady, EP!PopCar, EP!LockReader,
         EP!LockSign, EP!ShowPlate, EP!ReadSign, EP!Admits, EP!FinishLowering,
         EP!DriveIn, EP!Leave, EP!RaiseAlarm, EP!OpenBoomGate, EP!ShowEvacuate, EP!gate,
         EP!cars, EP!At, EP!Goto, EP!Take, EP!Release, EP!Give, EP!IsFree, EP!Resumes,
         EP!Signal, EP!AfterSignal, EP!Wait, EP!SignalAndWait, EP!Broadcast, EP!Objects,
         EP!Threads
<1>2. /\ ExitView!Init <=> XP!Init
      /\ ExitView!Next <=> XP!Next
      /\ ExitView!vars = XP!vars
  BY DEF ExitView!Next, ExitView!Manager, ExitView!Simulator, ExitView!FireAlarm,
         ExitView!Init, ExitView!vars, ExitView!Start, ExitView!WaitForCar,
         ExitView!ReadPlate, ExitView!Deregister, ExitView!SimulatorSawIt,
         ExitView!OpenClosedGate, ExitView!LowerGate, ExitView!UseOpenGate,
         ExitView!ReopenGate, ExitView!GateOpened, ExitView!Enter, ExitView!QueueUp,
         ExitView!PopCar, ExitView!AwaitCar, ExitView!CarQueued, ExitView!LockReader,
         ExitView!ShowPlate, ExitView!Processed, ExitView!FinishLowering,
         ExitView!DriveOut, ExitView!RaiseAlarm, ExitView!OpenBoomGate, ExitView!At,
         ExitView!Goto, ExitView!Take, ExitView!Release, ExitView!Give, ExitView!IsFree,
         ExitView!Resumes, ExitView!Signal, ExitView!AfterSignal, ExitView!Wait,
         ExitView!SignalAndWait, ExitView!Objects, ExitView!Threads, XP!Next,
         XP!Manager, XP!Simulator, XP!FireAlarm, XP!Init, XP!vars, XP!Start,
         XP!WaitForCar, XP!ReadPlate, XP!Deregister, XP!SimulatorSawIt,
         XP!OpenClosedGate, XP!LowerGate, XP!UseOpenGate, XP!ReopenGate, XP!GateOpened,
         XP!Enter, XP!QueueUp, XP!PopCar, XP!AwaitCar, XP!CarQueued, XP!LockReader,
         XP!ShowPlate, XP!Processed, XP!FinishLowering, XP!DriveOut, XP!RaiseAlarm,
         XP!OpenBoomGate, XP!At, XP!Goto, XP!Take, XP!Release, XP!Give, XP!IsFree,
         XP!Resumes, XP!Signal, XP!AfterSignal, XP!Wait, XP!SignalAndWait, XP!Objects,
         XP!Threads
<1> QED BY <1>1, <1>2

LEMMA StepsSeen ==
  ASSUME StepsOfBoth
  PROVE  EntranceStep /\ ExitStep
<1>1. UNCHANGED EP!vars => UNCHANGED EntranceView!vars
  BY DEF EP!vars, EP!gate, EP!cars, EntranceView!vars, EntranceView!gate,
         EntranceView!cars
<1>2. UNCHANGED XP!vars => UNCHANGED ExitView!vars BY DEF XP!vars, ExitView!vars
<1> QED BY <1>1, <1>2, Views DEF StepsOfBoth, EntranceStep, ExitStep

(* To each gate the whole looks like its own module: what EntranceGate and *)
(* ExitGate take for granted of each other is what the other one does, for *)
(* any set of cars, from the first step to the last.                       *)
THEOREM SiteImplements == Spec => EntranceView!Spec /\ ExitView!Spec
<1>1. Init => SiteInv /\ EntranceView!Init /\ ExitView!Init BY SiteInit, Views
<1>2. SiteInv /\ [Next]_vars => SiteInv' BY SiteStep
<1>3. SiteInv /\ [Next]_vars =>
        [EntranceView!Next]_(EntranceView!vars) /\ [ExitView!Next]_(ExitView!vars)
  BY SiteStep, StepsSeen DEF EntranceStep, ExitStep
<1> QED BY <1>1, <1>2, <1>3, PTL DEF Spec, EntranceView!Spec, ExitView!Spec

(* No assertion of the manager fails while cars go round between both      *)
(* gates, however often they come back, as long as there is no alarm.      *)
THEOREM SiteNeverAborts == Spec => []NeverAborts
<1>1. Init => SiteInv BY SiteInit
<1>2. SiteInv /\ [Next]_vars => SiteInv' BY SiteStep
<1>3. SiteInv => NeverAborts BY SetsOfCars DEF NeverAborts
<1> QED BY <1>1, <1>2, <1>3, PTL DEF Spec

-----------------------------------------------------------------------------
(* The gates that are in play.                                             *)

GatesInv ==
  /\ gates \in (SUBSET {"entrance", "exit"}) \ {{}}
  /\ Both => SiteInv
  /\ gates = {"entrance"} => E1!Inv
  /\ gates = {"exit"} => X1!Inv

LEMMA Alone ==
  /\ E1!DistinctThreads /\ X1!DistinctThreads
  /\ E!Init <=> E1!Init
  /\ E!Next <=> E1!Next
  /\ X!Init <=> X1!Init
  /\ X!Next <=> X1!Next
<1>1. E1!DistinctThreads
  BY ThreadsAssumption DEF E!DistinctThreads, E!Threads, E1!DistinctThreads, E1!Threads,
      E!Cardinality, E1!Cardinality
<1>2. X1!DistinctThreads
  BY ThreadsAssumption DEF X!DistinctThreads, X!Threads, X1!DistinctThreads, X1!Threads,
      X!Cardinality, X1!Cardinality
<1>3. (E!Init <=> E1!Init) /\ (E!Next <=> E1!Next)
  BY
     DEF E!Next, E!Manager, E!Simulator, E!FireAlarm, E!Init, E!vars, E!SignalReady,
         E!ClearSign, E!Decide, E!Answer, E!AnswerRead, E!OpenClosedGate, E!RaiseGate,
         E!UseRaisedGate, E!LowerGate, E!ReopenGate, E!GateOpened, E!AwaitReady,
         E!ManagerReady, E!PopCar, E!LockReader, E!LockSign, E!ShowPlate, E!ReadSign,
         E!Admits, E!FinishLowering, E!DriveIn, E!Leave, E!RaiseAlarm, E!OpenBoomGate,
         E!ShowEvacuate, E!gate, E!cars, E!At, E!Goto, E!Take, E!Release, E!Give,
         E!IsFree, E!Resumes, E!Signal, E!AfterSignal, E!Wait, E!SignalAndWait,
         E!Broadcast, E!Objects, E!Threads, E1!Next, E1!Manager, E1!Simulator,
         E1!FireAlarm, E1!Init, E1!vars, E1!SignalReady, E1!ClearSign, E1!Decide,
         E1!Answer, E1!AnswerRead, E1!OpenClosedGate, E1!RaiseGate, E1!UseRaisedGate,
         E1!LowerGate, E1!ReopenGate, E1!GateOpened, E1!AwaitReady, E1!ManagerReady,
         E1!PopCar, E1!LockReader, E1!LockSign, E1!ShowPlate, E1!ReadSign, E1!Admits,
         E1!FinishLowering, E1!DriveIn, E1!Leave, E1!RaiseAlarm, E1!OpenBoomGate,
         E1!ShowEvacuate, E1!gate, E1!cars, E1!At, E1!Goto, E1!Take, E1!Release,
         E1!Give, E1!IsFree, E1!Resumes, E1!Signal, E1!AfterSignal, E1!Wait,
         E1!SignalAndWait, E1!Broadcast, E1!Objects, E1!Threads
<1>4. (X!Init <=> X1!Init) /\ (X!Next <=> X1!Next)
  BY DEF X!Next, X!Manager, X!Simulator, X!FireAlarm, X!Init, X!vars, X!Start,
         X!WaitForCar, X!ReadPlate, X!Deregister, X!SimulatorSawIt, X!OpenClosedGate,
         X!LowerGate, X!UseOpenGate, X!ReopenGate, X!GateOpened, X!Enter, X!QueueUp,
         X!PopCar, X!AwaitCar, X!CarQueued, X!LockReader, X!ShowPlate, X!Processed,
         X!FinishLowering, X!DriveOut, X!RaiseAlarm, X!OpenBoomGate, X!At, X!Goto,
         X!Take, X!Release, X!Give, X!IsFree, X!Resumes, X!Signal, X!AfterSignal,
         X!Wait, X!SignalAndWait, X!Objects, X!Threads, X1!Next, X1!Manager,
         X1!Simulator, X1!FireAlarm, X1!Init, X1!vars, X1!Start, X1!WaitForCar,
         X1!ReadPlate, X1!Deregister, X1!SimulatorSawIt, X1!OpenClosedGate,
         X1!LowerGate, X1!UseOpenGate, X1!ReopenGate, X1!GateOpened, X1!Enter,
         X1!QueueUp, X1!PopCar, X1!AwaitCar, X1!CarQueued, X1!LockReader, X1!ShowPlate,
         X1!Processed, X1!FinishLowering, X1!DriveOut, X1!RaiseAlarm, X1!OpenBoomGate,
         X1!At, X1!Goto, X1!Take, X1!Release, X1!Give, X1!IsFree, X1!Resumes, X1!Signal,
         X1!AfterSignal, X1!Wait, X1!SignalAndWait, X1!Objects, X1!Threads
<1> QED BY <1>1, <1>2, <1>3, <1>4

LEMMA GatesInit ==
  ASSUME InitGates
  PROVE  GatesInv /\ EntranceView!Init /\ ExitView!Init
<1>1. SiteInv /\ EntranceView!Init /\ ExitView!Init
  BY SiteInit, Views DEF InitGates
<1>2. E1!Inv /\ X1!Inv
  BY Alone, E1!InitInv, X1!InitInv DEF InitGates, Init
<1> QED BY <1>1, <1>2 DEF GatesInv, InitGates

LEMMA GatesStep ==
  ASSUME GatesInv, [NextGates]_all_vars
  PROVE  GatesInv' /\ (Both => EntranceStep /\ ExitStep)
<1> {"entrance"} # {"exit"} /\ {"entrance"} # {"entrance", "exit"}
    /\ {"exit"} # {"entrance", "exit"}
  OBVIOUS
<1>1. CASE AtEntranceAlone(E!Next)
  <2>1. E1!Inv' BY <1>1, Alone, E1!NextInv DEF AtEntranceAlone, GatesInv
  <2> QED BY <1>1, <2>1 DEF AtEntranceAlone, GatesInv, Both
<1>2. CASE AtExitAlone(X!Next)
  <2>1. X1!Inv' BY <1>2, Alone, X1!NextInv DEF AtExitAlone, GatesInv
  <2> QED BY <1>2, <2>1 DEF AtExitAlone, GatesInv, Both
<1>3. CASE AtBoth(Next)
  <2>1. SiteInv' /\ StepsOfBoth BY <1>3, SiteStep DEF AtBoth, GatesInv
  <2> QED BY <1>3, <2>1, StepsSeen DEF AtBoth, GatesInv, Both
<1>4. CASE UNCHANGED all_vars
  <2>1. UNCHANGED vars /\ gates' = gates BY <1>4 DEF all_vars
  <2>2. Both => SiteInv' /\ EntranceStep /\ ExitStep
    BY <2>1, SiteStep, StepsSeen DEF GatesInv
  <2>3. gates = {"entrance"} => E1!Inv'
    <3>1. UNCHANGED E1!vars
      BY <2>1 DEF vars, entrance_vars, E1!vars, E1!gate, E1!cars
    <3> QED BY <3>1, Alone, E1!NextInv DEF GatesInv
  <2>4. gates = {"exit"} => X1!Inv'
    <3>1. UNCHANGED X1!vars BY <2>1 DEF vars, exit_vars, X1!vars
    <3> QED BY <3>1, Alone, X1!NextInv DEF GatesInv
  <2> QED BY <2>1, <2>2, <2>3, <2>4 DEF GatesInv, Both
<1> QED BY <1>1, <1>2, <1>3, <1>4 DEF NextGates

LEMMA GatesInductive ==
  FairGates => []GatesInv /\ InitGates /\ [][NextGates]_all_vars
<1>1. InitGates => GatesInv BY GatesInit
<1>2. GatesInv /\ [NextGates]_all_vars => GatesInv' BY GatesStep
<1> QED BY <1>1, <1>2, PTL DEF FairGates

(* What the run checks for three cars holds for any set of cars: seen from *)
(* each gate, every step of the whole is a step of that gate's module.     *)
THEOREM GatesImplemented == FairGates => ImplementsGates
<1>1. InitGates => (Both => EntranceView!Init /\ ExitView!Init) BY GatesInit
<1>2. GatesInv /\ [NextGates]_all_vars => [Both => EntranceStep /\ ExitStep]_all_vars
  BY GatesStep
<1> QED BY <1>1, <1>2, GatesInductive, PTL DEF ImplementsGates

(* No assertion of the manager on the cars that pass a gate fails: at an   *)
(* entrance alone until an alarm, at an exit alone with one too, and at    *)
(* both together.                                                          *)
THEOREM AssertionsCorrect == FairGates => []AssertionsHold
<1>1. GatesInv => AssertionsHold
  <2> SUFFICES ASSUME GatesInv PROVE AssertionsHold OBVIOUS
  <2>1. CASE gates = {"entrance"}
    <3>1. ~alarm => ~aborted BY <2>1 DEF GatesInv, E1!Inv, E1!HandOver
    <3> QED BY <2>1, <3>1 DEF AssertionsHold, E!RegisteredOnce
  <2>2. CASE gates = {"exit"}
    <3>1. ~aborted BY <2>2 DEF GatesInv, X1!Inv, X1!Remembered
    <3>2. gates # {"entrance"} BY <2>2
    <3> QED BY <3>1, <3>2 DEF AssertionsHold, NeverAborts
  <2>3. CASE Both
    <3>1. ~aborted BY <2>3, SetsOfCars DEF GatesInv
    <3>2. gates # {"entrance"} BY <2>3 DEF Both
    <3> QED BY <3>1, <3>2 DEF AssertionsHold, NeverAborts
  <2>4. gates = {"entrance"} \/ gates = {"exit"} \/ gates = {"entrance", "exit"}
    BY DEF GatesInv
  <2> QED BY <2>1, <2>2, <2>3, <2>4 DEF Both
<1> QED BY <1>1, GatesInductive, PTL

(* Whenever an entrance that is alone takes the next car, both processes   *)
(* agree on who is in the car park, until an alarm.  A car that is outside *)
(* an exit is gone from the manager's data, alarm or not (the comment at   *)
(* manager_funcs.c:140).                                                   *)
THEOREM GatesAgree == FairGates => []ProcessesAgree
<1>1. GatesInv /\ gates = {"entrance"} => E!ProcessesAgree
  BY DEF GatesInv, E!ProcessesAgree, E1!Inv, E1!HandOver, E1!Agreed
<1>2. GatesInv /\ gates = {"exit"} => X!OutsideIsForgotten
  BY DEF GatesInv, X!OutsideIsForgotten, X!Outside, X!Queued, X1!Queued, X1!Inv,
         X1!Remembered
<1>3. GatesInv => ProcessesAgree BY <1>1, <1>2 DEF ProcessesAgree
<1> QED BY <1>3, GatesInductive, PTL

(* At either gate one of the two programs can always go on while there is  *)
(* work, until an alarm and unless the ready signal of the entrance was    *)
(* lost: alone or together, with any set of cars, no signal of a hand-over *)
(* is lost for good and no two threads wait for each other's mutexes.      *)
THEOREM GatesNeverStuck == FairGates => []NeverStuck
<1>1. GatesInv => NeverStuck
  <2> SUFFICES ASSUME GatesInv PROVE NeverStuck OBVIOUS
  <2>1. gates # {"exit"} => E!NeverBothStuck
    <3>1. gates = {"entrance"} => E1!NeverBothStuck
      BY Alone, E1!OneAwake DEF GatesInv, E1!NeverBothStuck
    <3>2. Both => EP!NeverBothStuck
      BY Names, EP!OneAwake DEF GatesInv, SiteInv, EP!NeverBothStuck
    <3>3. (E!NeverBothStuck <=> E1!NeverBothStuck) /\ (E!NeverBothStuck <=> EP!NeverBothStuck)
      BY
         DEF E!NeverBothStuck, E!ReadyLost, E!Stuck, E!Needing, E!IsFree, E!Objects,
             E1!NeverBothStuck, E1!ReadyLost, E1!Stuck, E1!Needing, E1!IsFree,
             E1!Objects, EP!NeverBothStuck, EP!ReadyLost, EP!Stuck, EP!Needing,
             EP!IsFree, EP!Objects
    <3> QED BY <3>1, <3>2, <3>3 DEF GatesInv, Both
  <2>2. gates # {"entrance"} => X!CarsNeverStuck
    <3>1. gates = {"exit"} => X1!CarsNeverStuck
      BY Alone, X1!OneAwake DEF GatesInv, X1!CarsNeverStuck
    <3>2. Both => XP!CarsNeverStuck
      BY Names, XP!OneAwake DEF GatesInv, SiteInv, XP!CarsNeverStuck
    <3>3. (X!CarsNeverStuck <=> X1!CarsNeverStuck) /\ (X!CarsNeverStuck <=> XP!CarsNeverStuck)
      BY DEF X!CarsNeverStuck, X!Stuck, X!Needing, X!IsFree, X!Objects,
             X1!CarsNeverStuck, X1!Stuck, X1!Needing, X1!IsFree, X1!Objects,
             XP!CarsNeverStuck, XP!Stuck, XP!Needing, XP!IsFree, XP!Objects
    <3> QED BY <3>1, <3>2, <3>3 DEF GatesInv, Both
  <2> QED BY <2>1, <2>2 DEF NeverStuck
<1> QED BY <1>1, GatesInductive, PTL

(* Each gate goes round its cycle until an alarm, and cars pass it only    *)
(* while it is open, whichever gates are in play.                          *)
THEOREM GatesGoRound == FairGates => GateCycle
<1> DEFINE Cycle == {<<"C", "R">>, <<"R", "O">>, <<"O", "L">>, <<"L", "C">>}
<1>1. ASSUME GatesInv, [NextGates]_all_vars
      PROVE  /\ ~alarm /\ e_boom' # e_boom => <<e_boom, e_boom'>> \in Cycle
             /\ present' \subseteq present \/ e_boom' = "O"
             /\ ~alarm /\ x_boom' # x_boom => <<x_boom, x_boom'>> \in Cycle
             /\ x_head # None /\ x_head' = None => x_boom' = "O"
  <2>1. CASE AtEntranceAlone(E!Next)
    <3>1. E1!Inv /\ E1!Next BY <1>1, <2>1, Alone DEF AtEntranceAlone, GatesInv
    <3>2. UNCHANGED <<x_boom, x_head>> BY <2>1 DEF AtEntranceAlone, exit_vars
    <3> QED BY <3>1, <3>2, Alone, E1!GateStep, E1!DriveInStep
  <2>2. CASE AtExitAlone(X!Next)
    <3>1. X1!Inv /\ X1!Next BY <1>1, <2>2, Alone DEF AtExitAlone, GatesInv
    <3>2. UNCHANGED <<e_boom, present>> BY <2>2 DEF AtExitAlone, entrance_vars
    <3> QED BY <3>1, <3>2, Alone, X1!GateStep, X1!DriveOutStep
  <2>3. CASE AtBoth(Next)
    <3>1. SiteInv /\ StepsOfBoth BY <1>1, <2>3, SiteStep DEF AtBoth, GatesInv
    <3>2. EP!Inv /\ XP!Inv /\ [EP!Next]_(EP!vars) /\ [XP!Next]_(XP!vars)
      BY <3>1 DEF SiteInv, StepsOfBoth
    <3> QED
      BY <3>2, Names, EP!GateStep, EP!DriveInStep, XP!GateStep, XP!DriveOutStep
  <2>4. CASE UNCHANGED all_vars
    BY <2>4 DEF all_vars, vars, entrance_vars, exit_vars
  <2> QED BY <1>1, <2>1, <2>2, <2>3, <2>4 DEF NextGates
<1>2. GatesInv /\ [NextGates]_all_vars =>
        /\ [~alarm /\ e_boom' # e_boom => <<e_boom, e_boom'>> \in Cycle]_(E!vars)
        /\ [present' \subseteq present \/ e_boom' = "O"]_(E!vars)
        /\ [~alarm /\ x_boom' # x_boom => <<x_boom, x_boom'>> \in Cycle]_(X!vars)
        /\ [x_head # None /\ x_head' = None => x_boom' = "O"]_(X!vars)
  BY <1>1
<1> QED
  BY <1>2, GatesInductive, PTL
  DEF GateCycle, E!GateCycle, E!DriveInThroughOpenGate, X!GateCycle,
      X!DriveOutThroughOpenGate
=============================================================================
