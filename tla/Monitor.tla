------------------------------ MODULE Monitor ------------------------------
(***************************************************************************)
(* POSIX mutexes and condition variables, as the three programs use them.  *)
(* Every shared object of types.h (a plate reader, a sign, a boom gate) is *)
(* a mutex with one condition variable next to it, so both carry the name  *)
(* of the object.                                                          *)
(*                                                                         *)
(* owner[o] is the thread that holds the mutex of o, waits[o] the set of   *)
(* threads inside pthread_cond_wait on the condition of o.  A signal that  *)
(* finds nobody waiting is lost.  A thread that has been woken goes on     *)
(* when it gets the mutex back.  The model has no spurious wake-ups.       *)
(***************************************************************************)
CONSTANT None   \* owner of an unlocked mutex

VARIABLES owner, waits

IsFree(o) == owner[o] = None

(* Thread t returns from pthread_cond_wait on o. *)
Resumes(t, o) == t \notin waits[o] /\ IsFree(o)

(* What pthread_cond_signal may leave of the wait sets. *)
AfterSignal(o) ==
  IF waits[o] = {} THEN {waits}
  ELSE {[waits EXCEPT ![o] = @ \ {t}] : t \in waits[o]}

Signal(o) == waits' \in AfterSignal(o)

Broadcast(o) == waits' = [waits EXCEPT ![o] = {}]

Wait(t, o) == waits' = [waits EXCEPT ![o] = @ \union {t}]

(* Signals s, then waits on o, with the mutex of o held in between. *)
SignalAndWait(t, s, o) ==
  \E w \in AfterSignal(s) : waits' = [w EXCEPT ![o] = @ \union {t}]

(* Mutexes of objs change hands. *)
Give(objs, t) ==
  owner' = [o \in DOMAIN owner |-> IF o \in objs THEN t ELSE owner[o]]

Take(t, o) == IsFree(o) /\ Give({o}, t)
Release(objs) == Give(objs, None)
=============================================================================
