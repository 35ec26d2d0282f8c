------------------------------ MODULE Billing ------------------------------
(***************************************************************************)
(* Bills: libs/billing.c, time_diff of libs/utils.c and the billing        *)
(* section of exit_thread.  Every section runs under billing_m, which is   *)
(* locked around exactly these sections, so each is one step.              *)
(*                                                                         *)
(* A clock reading is a number of nanoseconds; the code sees it as a       *)
(* timespec of whole seconds and the nanoseconds of the current second.    *)
(***************************************************************************)
EXTENDS Integers, Sequences

CONSTANTS
  Cars,
  MS_PER_SEC,   \* 1000
  NS_PER_MS,    \* 1000000
  CENTS_PER_MS, \* 5
  CENTS_PER_DOLLAR, \* 100
  UINT_RANGE,   \* 2^32
  MaxTime,      \* bound: the clock stops here
  MaxLines,     \* bound: no stay ends after this many lines, lost ones included
  None

(* What the module takes for granted of its constants.  Who gives them     *)
(* values assumes it.                                                      *)
ClockAssumption ==
  /\ {MS_PER_SEC, NS_PER_MS, CENTS_PER_MS, CENTS_PER_DOLLAR, UINT_RANGE} \subseteq Nat \ {0}
  /\ MaxTime \in Nat
  /\ None \notin Nat

VARIABLES
  now,         \* CLOCK_MONOTONIC, in nanoseconds
  map,         \* billing.map: when each car came in, None if it is not inside
  existed,     \* billing.existed: every car that was ever billed
  total_bill,  \* the sum that the display shows, in cents
  billing_fp,  \* could billing.txt be opened?
  file,        \* billing.txt: its lines in the order they were written
  aborted,     \* the assertion on the file failed or the manager saw an error
  lost,        \* history: the lines that never got from the buffer to the file
  duration     \* history: true and computed milliseconds of the last stay

vars == <<now, map, existed, total_bill, billing_fp, file, aborted, lost, duration>>

(* main goes on without the file when it cannot open it. *)
Init ==
  /\ now = 0
  /\ map = [r \in Cars |-> None]
  /\ existed = {}
  /\ total_bill = 0
  /\ billing_fp \in BOOLEAN
  /\ file = <<>>
  /\ aborted = FALSE
  /\ lost = <<>>
  /\ duration = [true |-> 0, computed |-> 0]

NsPerSec == MS_PER_SEC * NS_PER_MS
tv_sec(t) == t \div NsPerSec
tv_nsec(t) == t % NsPerSec

(* When the nanoseconds of the later reading are the smaller ones the code *)
(* adds their distance where it should subtract it.                        *)
time_diff(before, after) ==
  (tv_sec(after) - tv_sec(before)) * MS_PER_SEC
    + IF tv_nsec(after) > tv_nsec(before)
      THEN (tv_nsec(after) - tv_nsec(before)) \div NS_PER_MS
      ELSE (tv_nsec(before) - tv_nsec(after)) \div NS_PER_MS

insert_rego(r) ==
  /\ ~aborted /\ map[r] = None
  /\ map' = [map EXCEPT ![r] = now]
  /\ UNCHANGED <<now, existed, total_bill, billing_fp, file, aborted, lost, duration>>

(* What a line says of a bill: all its cents but one for each dollar stand *)
(* behind the dollars.                                                     *)
Line(r, bill) ==
  [rego |-> r, dollars |-> bill \div CENTS_PER_DOLLAR,
   cents |-> bill - bill \div CENTS_PER_DOLLAR]

(* Writes one line.  fprintf only fills the buffer, and an error of its own *)
(* ends the manager, as the assertion does when there is no file.  What    *)
(* fflush returns is ignored: when its write fails the buffer is dropped   *)
(* and the manager goes on.  A line that is cut short counts as lost.      *)
save_billing(r, bill) ==
  \/ /\ billing_fp
     /\ file' = Append(file, Line(r, bill))
     /\ UNCHANGED <<aborted, lost>>
  \/ /\ billing_fp
     /\ lost' = Append(lost, Line(r, bill))
     /\ UNCHANGED <<file, aborted>>
  \/ /\ aborted' = TRUE
     /\ UNCHANGED <<file, lost>>

(* Mutant: the sum is replaced by the new bill. *)
LastBill(total, bill) == bill

Sum(total, bill) == (total + bill) % UINT_RANGE

(* The billing section of exit_thread, remove_rego and save_billing        *)
(* included.  bill and total_bill are unsigned ints and wrap.              *)
Settle(r) ==
  /\ ~aborted /\ map[r] # None
  /\ Len(file) + Len(lost) < MaxLines
  /\ LET ms == time_diff(map[r], now)
         bill == (ms * CENTS_PER_MS) % UINT_RANGE
     IN  /\ duration' = [true |-> (now - map[r]) \div NS_PER_MS, computed |-> ms]
         /\ total_bill' = Sum(total_bill, bill)
         /\ save_billing(r, bill)
  /\ map' = [map EXCEPT ![r] = None]
  /\ existed' = existed \union {r}
  /\ UNCHANGED <<now, billing_fp>>

Tick ==
  /\ now < MaxTime
  /\ now' = now + 1
  /\ UNCHANGED <<map, existed, total_bill, billing_fp, file, aborted, lost, duration>>

Next == Tick \/ \E r \in Cars : insert_rego(r) \/ Settle(r)

Spec == Init /\ [][Next]_vars

-----------------------------------------------------------------------------
(* Properties.                                                             *)

(* Variables keep their types: entry times are past readings of the clock, *)
(* and the sum is an unsigned int.                                         *)
TypeOK ==
  /\ now \in 0 .. MaxTime
  /\ map \in [Cars -> 0 .. now \union {None}]
  /\ existed \subseteq Cars
  /\ total_bill \in 0 .. UINT_RANGE - 1
  /\ billing_fp \in BOOLEAN /\ aborted \in BOOLEAN
  /\ {file, lost} \subseteq Seq([rego : Cars, dollars : Nat, cents : 0 .. UINT_RANGE - 1])
  /\ duration \in [true : Nat, computed : Nat]

(* What lines come to, and whose they are. *)
Billed(lines) ==
  LET sum[i \in 0 .. Len(lines)] ==
        IF i = 0 THEN 0
        ELSE (sum[i - 1] + lines[i].dollars + lines[i].cents) % UINT_RANGE
  IN  sum[Len(lines)]

Named(lines) == {lines[i].rego : i \in DOMAIN lines}

(* As long as the manager runs, total_bill and billing.txt differ by what  *)
(* was lost on the way to the file and by nothing else: the lines and the  *)
(* lost bills add up to the sum on the display, modulo its width, and they *)
(* are those of all cars that ever left.  Dollars and cents of a line have *)
(* to be added up without turning dollars into cents (manager_funcs.c:22). *)
FileExplainsTotal ==
  ~aborted =>
    /\ total_bill = (Billed(file) + Billed(lost)) % UINT_RANGE
    /\ existed = Named(file) \union Named(lost)

(* billing.c:26, "returns the number of milliseconds the car was inside    *)
(* the car park".                                                          *)
DurationExact == duration.computed = duration.true
=============================================================================
