----------------------------- MODULE PlatesFile -----------------------------
(***************************************************************************)
(* Loading plates.txt: load_regos of libs/utils.c and what manager and     *)
(* simulator do with its result.  The file is any sequence of letters and  *)
(* ends of line, or missing; a plate has REGO letters.                     *)
(***************************************************************************)
EXTENDS Integers, Sequences, FiniteSets, FiniteSetsExt

CONSTANTS
  Letters,
  NL,         \* the end of a line
  REGO,       \* letters of a plate (6)
  MaxLength,  \* bound: the longest file
  None        \* no file; a count that was never set

(* What the module takes for granted of its constants.  Who gives them     *)
(* values assumes it.                                                      *)
RegoAssumption == REGO \in Nat \ {0} /\ NL \notin Letters

Files == UNION {[1 .. k -> Letters \union {NL}] : k \in 0 .. MaxLength}

VARIABLES
  at,         \* where the program is
  file,       \* contents of plates.txt
  pos,        \* the next character that is read
  values,     \* plates read so far
  num_regos,  \* set by load_regos, read by its caller
  allow_list

vars == <<at, file, pos, values, num_regos, allow_list>>

Init ==
  /\ at = "open"
  /\ file \in Files \union {None}
  /\ pos = 1
  /\ values = <<>>
  /\ num_regos = None
  /\ allow_list = {}

(* Without a file the function prints so and returns 0, as it does at its *)
(* end, before it sets the count.                                          *)
OpenMissing ==
  /\ at = "open" /\ file = None
  /\ at' = "returned"
  /\ UNCHANGED <<file, pos, values, num_regos, allow_list>>

LinesCounted == Cardinality({i \in DOMAIN file : file[i] = NL})

Count ==
  /\ at = "open" /\ file # None
  /\ num_regos' = LinesCounted
  /\ at' = "read"
  /\ UNCHANGED <<file, pos, values, allow_list>>

(* Mutant: the end of the line is not consumed. *)
NoBlanksAfter(p) == p

(* The end of line in fscanf's format matches any number of them. *)
BlanksAfter(p) ==
  Min({q \in p .. Len(file) + 1 : q = Len(file) + 1 \/ file[q] # NL})

(* Six times %c reads any characters, ends of line too. *)
ReadRego ==
  /\ at = "read" /\ Len(values) < num_regos
  /\ pos + REGO - 1 <= Len(file)
  /\ values' = Append(values, SubSeq(file, pos, pos + REGO - 1))
  /\ pos' = BlanksAfter(pos + REGO)
  /\ UNCHANGED <<at, file, num_regos, allow_list>>

(* A file that ends too early ends the program. *)
ReadError ==
  /\ at = "read" /\ Len(values) < num_regos
  /\ pos + REGO - 1 > Len(file)
  /\ at' = "exit"
  /\ UNCHANGED <<file, pos, values, num_regos, allow_list>>

Return ==
  /\ at = "read" /\ Len(values) = num_regos
  /\ at' = "returned"
  /\ UNCHANGED <<file, pos, values, num_regos, allow_list>>

(* The caller exits unless 0 was returned, which it always is; with a      *)
(* count that was never set it reads whatever its stack holds.             *)
init_allow_list ==
  /\ at = "returned"
  /\ at' = IF num_regos = None THEN "undefined" ELSE "running"
  /\ allow_list' = {values[i] : i \in DOMAIN values}
  /\ UNCHANGED <<file, pos, values, num_regos>>

Next == OpenMissing \/ Count \/ ReadRego \/ ReadError \/ Return \/ init_allow_list

Spec == Init /\ [][Next]_vars

-----------------------------------------------------------------------------
(* Properties.                                                             *)

(* The first i lines are plates, each with its end of line. *)
PlatesUpTo(i) ==
  /\ i * (REGO + 1) <= Len(file)
  /\ \A k \in 1 .. i * (REGO + 1) : file[k] = NL <=> k % (REGO + 1) = 0

LineOf(i) == SubSeq(file, (i - 1) * (REGO + 1) + 1, i * (REGO + 1) - 1)

(* In any file, what is read for a line is that line up to the first one   *)
(* that is no plate: ends of line are consumed exactly where they stand    *)
(* (utils.c:196).  A file of plates, each on a line with its end, is       *)
(* loaded in full: every plate gets on the allow list, nothing else does,  *)
(* and the program runs.                                                   *)
PlatesLoaded ==
  file # None =>
    /\ \A i \in DOMAIN values : PlatesUpTo(i) => values[i] = LineOf(i)
    /\ PlatesUpTo(Len(file) \div (REGO + 1)) /\ Len(file) % (REGO + 1) = 0 =>
         /\ at # "exit"
         /\ at = "running" => allow_list = {LineOf(i) : i \in 1 .. Len(file) \div (REGO + 1)}
=============================================================================
