-------------------------- MODULE FireAlarmProofs --------------------------
(***************************************************************************)
(* The windows of the fire alarm for windows of every size and any number  *)
(* of levels: what they hold, why outliers cannot pass for heat, and why   *)
(* the walk of the simulator never does.                                   *)
(***************************************************************************)
EXTENDS Temperature, FiniteSetTheorems, SequenceTheorems, WellFoundedInduction, TLAPS

-----------------------------------------------------------------------------
(* Numbers and finite sets.                                                *)

(* Every non-empty set of natural numbers has a least element. *)
LEMMA LeastNat ==
  ASSUME NEW T \in SUBSET Nat, T # {}
  PROVE  \E x \in T : \A y \in T : x <= y
<1>1. PICK R : R = OpToRel(<, Nat) OBVIOUS
<1>2. IsWellFoundedOn(R, Nat) BY <1>1, NatLessThanWellFounded
<1>3. \E x \in T : \A y \in T : ~ (<<y, x>> \in R) BY <1>2, WFMin
<1>4. \A x, y \in Nat : <<y, x>> \in R <=> y < x BY <1>1 DEF OpToRel
<1>5. PICK x \in T : \A y \in T : ~ (y < x) BY <1>3, <1>4
<1> QED BY <1>5

LEMMA OddWindow ==
  ASSUME WindowsAssumption
  PROVE  Half \in Nat /\ MEDIAN_WINDOW = 2 * Half + 1
BY DEF WindowsAssumption, Half

LEMMA DomainSize ==
  ASSUME NEW S, NEW list \in Seq(S)
  PROVE  IsFiniteSet(DOMAIN list) /\ Cardinality(DOMAIN list) = Len(list)
<1>1. DOMAIN list = 1 .. Len(list) /\ Len(list) \in Nat BY LenProperties
<1>2. /\ IsFiniteSet(1 .. Len(list))
      /\ Cardinality(1 .. Len(list)) = IF 1 > Len(list) THEN 0 ELSE Len(list) - 1 + 1
  BY <1>1, FS_Interval
<1> QED BY <1>1, <1>2

-----------------------------------------------------------------------------
(* Sorting.                                                                *)

Below(list, v) == {i \in DOMAIN list : list[i] < v}

UpTo(list, v) == {i \in DOMAIN list : list[i] <= v}

Above(list, v) == {i \in DOMAIN list : list[i] > v}

LEMMA Counts ==
  ASSUME NEW list \in Seq(Int), NEW v \in Int
  PROVE  /\ IsFiniteSet(Below(list, v)) /\ Cardinality(Below(list, v)) \in Nat
         /\ IsFiniteSet(Above(list, v)) /\ Cardinality(Above(list, v)) \in Nat
         /\ IsFiniteSet(UpTo(list, v)) /\ Cardinality(UpTo(list, v)) \in Nat
         /\ Cardinality(UpTo(list, v)) <= Len(list)
         /\ Cardinality(UpTo(list, v)) + Cardinality(Above(list, v)) = Len(list)
<1>1. DOMAIN list = 1 .. Len(list) /\ Len(list) \in Nat BY LenProperties
<1>2. IsFiniteSet(DOMAIN list) /\ Cardinality(DOMAIN list) = Len(list) BY DomainSize
<1>3. /\ Below(list, v) \subseteq DOMAIN list
      /\ Above(list, v) \subseteq DOMAIN list
      /\ UpTo(list, v) \subseteq DOMAIN list
  BY DEF Below, Above, UpTo
<1>4. /\ IsFiniteSet(Below(list, v)) /\ IsFiniteSet(Above(list, v))
      /\ IsFiniteSet(UpTo(list, v)) /\ Cardinality(UpTo(list, v)) <= Len(list)
  BY <1>2, <1>3, FS_Subset
<1>5. /\ Cardinality(Below(list, v)) \in Nat
      /\ Cardinality(Above(list, v)) \in Nat
      /\ Cardinality(UpTo(list, v)) \in Nat
  BY <1>4, FS_CardinalityType
<1>6. \A i \in DOMAIN list : list[i] \in Int BY <1>1, ElementOfSeq
<1>7. \A i \in DOMAIN list : (list[i] <= v) <=> ~ (list[i] > v) BY <1>6
<1>8. /\ UpTo(list, v) \cup Above(list, v) = DOMAIN list
      /\ UpTo(list, v) \cap Above(list, v) = {}
  BY <1>7, Zenon DEF UpTo, Above
<1>9. Cardinality(UpTo(list, v)) + Cardinality(Above(list, v)) = Len(list)
  <2>1. Cardinality(UpTo(list, v) \cap Above(list, v)) = 0 BY <1>8, FS_EmptySet
  <2>2. Cardinality(UpTo(list, v) \cup Above(list, v)) =
          Cardinality(UpTo(list, v)) + Cardinality(Above(list, v))
            - Cardinality(UpTo(list, v) \cap Above(list, v))
    BY <1>4, FS_Union
  <2> QED BY <2>1, <2>2, <1>2, <1>5, <1>8
<1> QED BY <1>1, <1>4, <1>5, <1>9

(* Of two readings, the larger one has more readings up to it. *)
LEMMA MoreUpToLarger ==
  ASSUME NEW list \in Seq(Int), NEW i \in DOMAIN list, NEW j \in DOMAIN list,
         list[i] < list[j]
  PROVE  Cardinality(UpTo(list, list[i])) < Cardinality(UpTo(list, list[j]))
<1>1. \A k \in DOMAIN list : list[k] \in Int BY LenProperties, ElementOfSeq
<1>2. UpTo(list, list[i]) \subseteq UpTo(list, list[j]) BY <1>1 DEF UpTo
<1>3. j \in UpTo(list, list[j]) /\ j \notin UpTo(list, list[i]) BY <1>1 DEF UpTo
<1>4. /\ IsFiniteSet(UpTo(list, list[j]))
      /\ Cardinality(UpTo(list, list[i])) \in Nat
      /\ Cardinality(UpTo(list, list[j])) \in Nat
  BY <1>1, Counts
<1>5. /\ Cardinality(UpTo(list, list[i])) <= Cardinality(UpTo(list, list[j]))
      /\ Cardinality(UpTo(list, list[i])) # Cardinality(UpTo(list, list[j]))
  BY <1>2, <1>3, <1>4, FS_Subset
<1> QED BY <1>4, <1>5

LEMMA Smallest ==
  ASSUME NEW list \in Seq(Int), NEW I \in SUBSET DOMAIN list, I # {}
  PROVE  \E i \in I : \A j \in I : list[i] <= list[j]
<1> DEFINE T == {Cardinality(UpTo(list, list[i])) : i \in I}
<1>1. \A k \in DOMAIN list : list[k] \in Int BY LenProperties, ElementOfSeq
<1>2. T \subseteq Nat /\ T # {}
  <2>1. \A i \in I : Cardinality(UpTo(list, list[i])) \in Nat BY <1>1, Counts
  <2> QED BY <2>1
<1>3. PICK x \in T : \A y \in T : x <= y
  <2> HIDE DEF T
  <2> QED BY <1>2, LeastNat
<1>4. PICK i \in I : x = Cardinality(UpTo(list, list[i])) BY <1>3
<1>5. ASSUME NEW j \in I, ~ (list[i] <= list[j]) PROVE FALSE
  <2>1. list[j] < list[i] BY <1>1, <1>5
  <2>2. Cardinality(UpTo(list, list[j])) < x BY <2>1, <1>4, MoreUpToLarger
  <2>3. x <= Cardinality(UpTo(list, list[j])) BY <1>3
  <2>4. x \in Nat /\ Cardinality(UpTo(list, list[j])) \in Nat BY <1>2, <1>3
  <2> QED BY <2>2, <2>3, <2>4
<1> QED BY <1>5

LEMMA Largest ==
  ASSUME NEW list \in Seq(Int), NEW I \in SUBSET DOMAIN list, I # {}
  PROVE  \E i \in I : \A j \in I : list[j] <= list[i]
<1> DEFINE T == {Len(list) - Cardinality(UpTo(list, list[i])) : i \in I}
<1>1. \A k \in DOMAIN list : list[k] \in Int BY LenProperties, ElementOfSeq
<1>2. \A i \in I : /\ Cardinality(UpTo(list, list[i])) \in Nat
                   /\ Len(list) - Cardinality(UpTo(list, list[i])) \in Nat
  <2> TAKE i \in I
  <2>1. /\ Cardinality(UpTo(list, list[i])) \in Nat
        /\ Cardinality(UpTo(list, list[i])) <= Len(list)
    BY <1>1, Counts
  <2>2. Len(list) \in Nat BY LenProperties
  <2> QED BY <2>1, <2>2
<1>3. T \subseteq Nat /\ T # {} BY <1>2
<1>4. PICK x \in T : \A y \in T : x <= y
  <2> HIDE DEF T
  <2> QED BY <1>3, LeastNat
<1>5. PICK i \in I : x = Len(list) - Cardinality(UpTo(list, list[i])) BY <1>4
<1>6. ASSUME NEW j \in I, ~ (list[j] <= list[i]) PROVE FALSE
  <2>1. list[i] < list[j] BY <1>1, <1>6
  <2>2. Cardinality(UpTo(list, list[i])) < Cardinality(UpTo(list, list[j]))
    BY <2>1, MoreUpToLarger
  <2>3. x <= Len(list) - Cardinality(UpTo(list, list[j])) BY <1>4
  <2>4. Len(list) \in Nat BY LenProperties
  <2> QED BY <1>2, <1>5, <2>2, <2>3, <2>4
<1> QED BY <1>6

(* Every position of the sorted copy is filled, with a reading that has    *)
(* fewer than k below it and at least k up to it.                          *)
LEMMA Sorted ==
  ASSUME NEW list \in Seq(Int), NEW k \in 1 .. Len(list)
  PROVE  /\ \E i \in DOMAIN list : qsort(list)[k] = list[i]
         /\ qsort(list)[k] \in Int
         /\ Cardinality(Below(list, qsort(list)[k])) < k
         /\ Cardinality(UpTo(list, qsort(list)[k])) >= k
<1>1. DOMAIN list = 1 .. Len(list) /\ Len(list) \in Nat BY LenProperties
<1>2. \A i \in DOMAIN list : list[i] \in Int BY LenProperties, ElementOfSeq
<1>3. Cardinality(DOMAIN list) = Len(list) BY DomainSize
<1> DEFINE I == {i \in DOMAIN list : Cardinality(UpTo(list, list[i])) >= k}
<1>4. I # {}
  <2>1. DOMAIN list # {} BY <1>1
  <2>2. PICK top \in DOMAIN list : \A j \in DOMAIN list : list[j] <= list[top]
    BY <2>1, Largest
  <2>3. UpTo(list, list[top]) = DOMAIN list BY <2>2 DEF UpTo
  <2>4. top \in I BY <2>3, <1>1, <1>3
  <2> QED BY <2>4
<1>5. PICK i \in I : \A j \in I : list[i] <= list[j]
  <2>1. I \subseteq DOMAIN list OBVIOUS
  <2> HIDE DEF I
  <2> QED BY <2>1, <1>4, Smallest
<1>6. Cardinality(Below(list, list[i])) < k
  <2>1. CASE Below(list, list[i]) = {} BY <2>1, FS_EmptySet
  <2>2. CASE Below(list, list[i]) # {}
    <3>1. Below(list, list[i]) \subseteq DOMAIN list BY DEF Below
    <3>2. PICK u \in Below(list, list[i]) :
            \A j \in Below(list, list[i]) : list[j] <= list[u]
      BY <2>2, <3>1, Largest
    <3>3. u \in DOMAIN list /\ list[u] < list[i] BY <3>2 DEF Below
    <3>4. UpTo(list, list[u]) = Below(list, list[i])
      BY <1>2, <3>2, <3>3 DEF UpTo, Below
    <3>5. u \notin I BY <1>2, <1>5, <3>3
    <3>6. ~ (Cardinality(UpTo(list, list[u])) >= k) BY <3>3, <3>5
    <3>7. Cardinality(Below(list, list[i])) \in Nat BY <1>2, Counts
    <3> QED BY <3>4, <3>6, <3>7
  <2> QED BY <2>1, <2>2
<1> DEFINE IsKth(v) == /\ Cardinality(Below(list, v)) < k
                       /\ Cardinality(UpTo(list, v)) >= k
<1>7. IsKth(list[i]) /\ list[i] \in {list[j] : j \in DOMAIN list} BY <1>5, <1>6
<1>8. qsort(list)[k] = CHOOSE v \in {list[j] : j \in DOMAIN list} : IsKth(v)
  BY <1>1 DEF qsort, Below, UpTo
<1>9. IsKth(qsort(list)[k]) /\ qsort(list)[k] \in {list[j] : j \in DOMAIN list}
  <2> HIDE DEF IsKth
  <2> QED BY <1>7, <1>8
<1> QED BY <1>2, <1>9

(* What tempmonitor takes from the middle of the sorted copy is a median.  *)
LEMMA MedianIsMedian ==
  ASSUME WindowsAssumption, NEW list \in Seq(Int), Len(list) = MEDIAN_WINDOW
  PROVE  median(list) \in Int /\ IsMedian(median(list), list)
<1>1. Half \in Nat /\ MEDIAN_WINDOW = 2 * Half + 1 BY OddWindow
<1>2. Half + 1 \in 1 .. Len(list) BY <1>1
<1> DEFINE m == qsort(list)[Half + 1]
<1>3. median(list) = m BY DEF median, Half
<1>4. /\ \E i \in DOMAIN list : list[i] = m
      /\ m \in Int
      /\ Cardinality(Below(list, m)) < Half + 1
      /\ Cardinality(UpTo(list, m)) >= Half + 1
  BY <1>2, Sorted
<1> HIDE DEF m
<1>5. /\ Cardinality(Below(list, m)) \in Nat
      /\ Cardinality(Above(list, m)) \in Nat
      /\ Cardinality(UpTo(list, m)) \in Nat
      /\ Cardinality(UpTo(list, m)) + Cardinality(Above(list, m)) = Len(list)
  BY <1>4, Counts
<1>6. Cardinality(Below(list, m)) <= Half /\ Cardinality(Above(list, m)) <= Half
  BY <1>1, <1>4, <1>5
<1> QED BY <1>3, <1>4, <1>6 DEF IsMedian, Below, Above

-----------------------------------------------------------------------------
(* The lists.                                                              *)

LEMMA Pushed ==
  ASSUME NEW x \in Int, NEW s \in Seq(Int), NEW n \in Nat, n <= Len(s) + 1
  PROVE  /\ SubSeq(<<x>> \o s, 1, n) \in Seq(Int)
         /\ Len(SubSeq(<<x>> \o s, 1, n)) = n
         /\ \A i \in 1 .. n :
              SubSeq(<<x>> \o s, 1, n)[i] = IF i = 1 THEN x ELSE s[i - 1]
<1>1. <<x>> \in Seq(Int) /\ Len(<<x>>) = 1 /\ <<x>>[1] = x OBVIOUS
<1>2. Len(s) \in Nat BY LenProperties
<1>3. /\ <<x>> \o s \in Seq(Int)
      /\ Len(<<x>> \o s) = Len(s) + 1
      /\ \A i \in 1 .. Len(s) + 1 :
           (<<x>> \o s)[i] = IF i <= 1 THEN <<x>>[i] ELSE s[i - 1]
  BY <1>1, <1>2, ConcatProperties
<1>4. \A i \in 1 .. n : (<<x>> \o s)[i] \in Int BY <1>2, <1>3, ElementOfSeq
<1>5. /\ SubSeq(<<x>> \o s, 1, n) \in Seq(Int)
      /\ Len(SubSeq(<<x>> \o s, 1, n)) = IF 1 <= n THEN n - 1 + 1 ELSE 0
      /\ \A i \in 1 .. n - 1 + 1 :
           SubSeq(<<x>> \o s, 1, n)[i] = (<<x>> \o s)[1 + i - 1]
  BY <1>4, SubSeqProperties
<1>6. Len(SubSeq(<<x>> \o s, 1, n)) = n BY <1>5
<1>7. ASSUME NEW i \in 1 .. n
      PROVE  SubSeq(<<x>> \o s, 1, n)[i] = IF i = 1 THEN x ELSE s[i - 1]
  <2>1. i \in 1 .. n - 1 + 1 /\ 1 + i - 1 = i /\ i \in 1 .. Len(s) + 1 BY <1>2
  <2>2. SubSeq(<<x>> \o s, 1, n)[i] = (<<x>> \o s)[i] BY <2>1, <1>5
  <2>3. (<<x>> \o s)[i] = IF i <= 1 THEN <<x>>[i] ELSE s[i - 1] BY <2>1, <1>3
  <2> QED BY <2>1, <2>2, <2>3, <1>1
<1> QED BY <1>5, <1>6, <1>7

(* A new node goes to the front, and the list keeps its first nodes.       *)
Newest(x, list, n) == deletenodes(<<x>> \o list, n)

LEMMA Kept ==
  ASSUME NEW x \in Int, NEW s \in Seq(Int), NEW n \in Nat
  PROVE  /\ Newest(x, s, n) \in Seq(Int)
         /\ Len(s) < n => Len(Newest(x, s, n)) = Len(s) + 1
         /\ Len(s) >= n => Len(Newest(x, s, n)) = n
         /\ \A i \in 1 .. Len(Newest(x, s, n)) :
              Newest(x, s, n)[i] = IF i = 1 THEN x ELSE s[i - 1]
<1>1. Len(s) \in Nat BY LenProperties
<1>2. <<x>> \in Seq(Int) /\ Len(<<x>>) = 1 OBVIOUS
<1>3. Len(<<x>> \o s) = Len(s) + 1 BY <1>1, <1>2, ConcatProperties
<1>4. PICK m \in Nat : m = IF Len(s) + 1 < n THEN Len(s) + 1 ELSE n BY <1>1
<1>5. m <= Len(s) + 1 BY <1>1, <1>4
<1>6. Newest(x, s, n) = SubSeq(<<x>> \o s, 1, m)
  BY <1>3, <1>4 DEF Newest, deletenodes
<1>7. /\ SubSeq(<<x>> \o s, 1, m) \in Seq(Int)
      /\ Len(SubSeq(<<x>> \o s, 1, m)) = m
      /\ \A i \in 1 .. m :
           SubSeq(<<x>> \o s, 1, m)[i] = IF i = 1 THEN x ELSE s[i - 1]
  BY <1>5, Pushed
<1> QED BY <1>4, <1>6, <1>7

(* The windows of one level: temps and medians as tempmonitor keeps them,  *)
(* and the readings they come from.                                        *)
WindowsOf(temps, medians, history) ==
  /\ Len(history) <= MEDIAN_WINDOW + TEMPCHANGE_WINDOW - 1
  /\ Len(temps) = IF Len(history) < MEDIAN_WINDOW THEN Len(history) ELSE MEDIAN_WINDOW
  /\ \A i \in 1 .. Len(temps) : temps[i] = history[i]
  /\ Len(medians) = IF Len(history) < MEDIAN_WINDOW THEN 0
                    ELSE Len(history) - MEDIAN_WINDOW + 1
  /\ \A i \in 1 .. Len(medians) :
       IsMedian(medians[i], SubSeq(history, i, i + MEDIAN_WINDOW - 1))

Remembered(x, history) ==
  SubSeq(<<x>> \o history, 1,
         IF Len(history) < MEDIAN_WINDOW + TEMPCHANGE_WINDOW - 1
         THEN Len(history) + 1 ELSE Len(history))

Medians(temps, medians) ==
  IF Len(temps) = MEDIAN_WINDOW
  THEN Newest(median(temps), medians, TEMPCHANGE_WINDOW)
  ELSE medians

(* A round of tempmonitor: nothing is skipped, repeated or kept too long.  *)
LEMMA WindowsMove ==
  ASSUME WindowsAssumption, NEW x \in Int,
         NEW temps \in Seq(Int), NEW medians \in Seq(Int), NEW history \in Seq(Int),
         WindowsOf(temps, medians, history),
         NEW t, t = Newest(x, temps, MEDIAN_WINDOW),
         NEW m, m = Medians(t, medians),
         NEW h, h = Remembered(x, history)
  PROVE  /\ t \in Seq(Int) /\ m \in Seq(Int) /\ h \in Seq(Int)
         /\ WindowsOf(t, m, h)
         /\ Len(h) \in Nat /\ Len(h) <= Len(history) + 1
         /\ \A i \in 1 .. Len(h) : h[i] = IF i = 1 THEN x ELSE history[i - 1]
<1>1. PICK W \in Nat : W = MEDIAN_WINDOW /\ W >= 1 BY DEF WindowsAssumption
<1>2. PICK C \in Nat : C = TEMPCHANGE_WINDOW /\ C >= 1 BY DEF WindowsAssumption
<1>3. Len(temps) \in Nat /\ Len(medians) \in Nat /\ Len(history) \in Nat
  BY LenProperties
<1>4. Len(history) <= W + C - 1 BY <1>1, <1>2 DEF WindowsOf
<1>5. /\ Len(history) < W => Len(temps) = Len(history)
      /\ Len(history) >= W => Len(temps) = W
  BY <1>1, <1>3 DEF WindowsOf
<1>6. /\ Len(history) < W => Len(medians) = 0
      /\ Len(history) >= W => Len(medians) = Len(history) - W + 1
  BY <1>1, <1>3 DEF WindowsOf
<1>7. PICK n \in Nat : n = IF Len(history) < W + C - 1 THEN Len(history) + 1
                            ELSE Len(history)
  BY <1>3
<1>a. /\ Len(history) < W + C - 1 => n = Len(history) + 1
      /\ Len(history) >= W + C - 1 => n = Len(history)
  BY <1>1, <1>2, <1>3, <1>7
<1>8. n <= Len(history) + 1 /\ n <= W + C - 1 BY <1>1, <1>2, <1>3, <1>4, <1>a
<1>9. h = SubSeq(<<x>> \o history, 1, n) BY <1>1, <1>2, <1>7 DEF Remembered
<1>10. /\ h \in Seq(Int) /\ Len(h) = n
       /\ \A i \in 1 .. n : h[i] = IF i = 1 THEN x ELSE history[i - 1]
  BY <1>9, <1>8, Pushed
<1>b. t = Newest(x, temps, W) BY <1>1
<1>c. /\ Newest(x, temps, W) \in Seq(Int)
      /\ Len(temps) < W => Len(Newest(x, temps, W)) = Len(temps) + 1
      /\ Len(temps) >= W => Len(Newest(x, temps, W)) = W
      /\ \A i \in 1 .. Len(Newest(x, temps, W)) :
           Newest(x, temps, W)[i] = IF i = 1 THEN x ELSE temps[i - 1]
  BY Kept, Zenon
<1>11. /\ t \in Seq(Int)
       /\ Len(temps) < W => Len(t) = Len(temps) + 1
       /\ Len(temps) >= W => Len(t) = W
  BY <1>b, <1>c, Zenon
<1>12. \A i \in 1 .. Len(t) : t[i] = IF i = 1 THEN x ELSE temps[i - 1]
  BY <1>b, <1>c, Zenon
<1>13. (n < W => Len(t) = n) /\ (n >= W => Len(t) = W)
  BY <1>1, <1>2, <1>3, <1>5, <1>a, <1>11
<1>14. Len(t) \in Nat /\ Len(t) <= n BY <1>1, <1>13
<1>15. ASSUME NEW i \in 1 .. Len(t) PROVE t[i] = h[i]
  <2>1. i \in 1 .. n BY <1>14
  <2>2. i # 1 => i - 1 \in 1 .. Len(temps) BY <1>1, <1>3, <1>5, <1>11
  <2>3. i # 1 => temps[i - 1] = history[i - 1] BY <2>2 DEF WindowsOf
  <2>4. t[i] = IF i = 1 THEN x ELSE temps[i - 1] BY <1>12
  <2>5. h[i] = IF i = 1 THEN x ELSE history[i - 1] BY <1>10, <2>1
  <2> QED BY <2>3, <2>4, <2>5
<1>16. CASE Len(t) # W
  <2>1. m = medians BY <1>1, <1>16 DEF Medians
  <2>2. n < W /\ Len(history) < W BY <1>1, <1>3, <1>a, <1>13, <1>16
  <2>3. Len(m) = 0 BY <2>1, <2>2, <1>6
  <2>4. \A i \in 1 .. Len(m) : FALSE BY <2>3
  <2> QED BY <2>1, <2>2, <2>3, <2>4, <1>1, <1>2, <1>8, <1>10, <1>11, <1>13, <1>15
          DEF WindowsOf
<1>17. CASE Len(t) = W
  <2>1. PICK v \in Int : v = median(t) /\ IsMedian(v, t)
    BY <1>1, <1>11, <1>17, MedianIsMedian
  <2>2. m = Newest(v, medians, C) BY <2>1, <1>1, <1>2, <1>17 DEF Medians
  <2>a. /\ Newest(v, medians, C) \in Seq(Int)
        /\ Len(medians) < C => Len(Newest(v, medians, C)) = Len(medians) + 1
        /\ Len(medians) >= C => Len(Newest(v, medians, C)) = C
        /\ \A i \in 1 .. Len(Newest(v, medians, C)) :
             Newest(v, medians, C)[i] =
               IF i = 1 THEN v ELSE medians[i - 1]
    BY Kept, Zenon
  <2>3. /\ m \in Seq(Int)
        /\ Len(medians) < C => Len(m) = Len(medians) + 1
        /\ Len(medians) >= C => Len(m) = C
    BY <2>2, <2>a, Zenon
  <2>4. \A i \in 1 .. Len(m) : m[i] = IF i = 1 THEN v ELSE medians[i - 1]
    BY <2>2, <2>a, Zenon
  <2>5. n >= W /\ Len(history) >= W - 1 BY <1>1, <1>2, <1>3, <1>a, <1>13, <1>17
  <2>6. Len(m) = n - W + 1
    <3>1. /\ Len(medians) < C => Len(m) = Len(medians) + 1
          /\ Len(medians) >= C => Len(m) = C
      BY <2>3
    <3>2. /\ Len(history) <= W + C - 1
          /\ Len(history) >= W - 1
          /\ W >= 1
          /\ C >= 1
      BY <1>1, <1>2, <1>4, <2>5
    <3>3. CASE Len(history) = W - 1 BY <3>3, <1>3, <1>6, <1>a, <3>1, <3>2
    <3>4. CASE Len(history) >= W /\ Len(history) < W + C - 1
      <4>1. Len(medians) = Len(history) - W + 1 /\ n = Len(history) + 1
        BY <3>4, <1>3, <1>6, <1>a
      <4>2. Len(medians) < C BY <4>1, <3>4, <1>3
      <4> QED BY <4>1, <4>2, <1>3, <3>1
    <3>5. CASE Len(history) = W + C - 1
      <4>1. Len(medians) = Len(history) - W + 1 /\ n = Len(history)
        BY <3>5, <3>2, <1>3, <1>6, <1>a
      <4>2. Len(medians) >= C BY <4>1, <3>5, <1>3
      <4> QED BY <4>1, <4>2, <3>5, <1>3, <3>1
    <3>6. \/ Len(history) = W - 1
          \/ Len(history) >= W /\ Len(history) < W + C - 1
          \/ Len(history) = W + C - 1
      <4>1. PICK r \in Nat : r = Len(history) BY <1>3
      <4>2. r <= W + C - 1 /\ r >= W - 1 BY <3>2, <4>1
      <4>3. r = W - 1 \/ (r >= W /\ r < W + C - 1) \/ r = W + C - 1 BY <4>2
      <4> QED BY <4>1, <4>3
    <3> QED BY <3>3, <3>4, <3>5, <3>6
  <2>7. ASSUME NEW i \in 1 .. Len(m)
        PROVE  IsMedian(m[i], SubSeq(h, i, i + W - 1))
    <3>1. i \in Nat /\ i >= 1 /\ i + W - 1 <= n BY <1>1, <2>6
    <3>2. \A j \in 1 .. n : h[j] \in Int BY <1>10, ElementOfSeq
    <3>3. \A j \in i .. i + W - 1 : h[j] \in Int BY <3>1, <3>2
    <3>4. SubSeq(h, i, i + W - 1) \in Seq(Int) /\ Len(SubSeq(h, i, i + W - 1)) = W
      <4>1. i \in Int /\ i + W - 1 \in Int /\ i <= i + W - 1 /\ i + W - 1 - i + 1 = W
        BY <3>1, <1>1
      <4>2. /\ SubSeq(h, i, i + W - 1) \in Seq(Int)
            /\ Len(SubSeq(h, i, i + W - 1)) =
                 IF i <= i + W - 1 THEN i + W - 1 - i + 1 ELSE 0
        BY <3>3, <4>1, SubSeqProperties
      <4> QED BY <4>1, <4>2
    <3>5. ASSUME NEW k \in 1 .. W PROVE SubSeq(h, i, i + W - 1)[k] = h[i + k - 1]
      <4>1. k \in 1 .. (i + W - 1) - i + 1 /\ i \in Int /\ i + W - 1 \in Int BY <3>1
      <4> QED BY <3>3, <4>1, SubSeqProperties
    <3>6. CASE i = 1
      <4>1. ASSUME NEW k \in 1 .. W PROVE SubSeq(h, i, i + W - 1)[k] = t[k]
        <5>1. i + k - 1 = k /\ k \in 1 .. Len(t) BY <3>6, <1>17
        <5> QED BY <5>1, <3>5, <1>15
      <4>2. SubSeq(h, i, i + W - 1) = t BY <4>1, <3>4, <1>11, <1>17, SeqEqual
      <4>3. m[i] = v BY <2>4, <3>6
      <4> QED BY <4>2, <4>3, <2>1
    <3>7. CASE i # 1
      <4>1. PICK j \in Nat : j = i - 1 BY <3>1
      <4>2. j \in 1 .. Len(medians) BY <4>1, <3>1, <3>7, <1>3, <2>3
      <4>3. m[i] = medians[j] BY <4>1, <2>4, <3>7
      <4>4. j + W - 1 <= Len(history) /\ Len(history) >= W BY <4>2, <1>3, <1>6
      <4>5. \A q \in 1 .. Len(history) : history[q] \in Int BY ElementOfSeq
      <4>6. \A q \in j .. j + W - 1 : history[q] \in Int
        BY <4>2, <4>4, <4>5, <1>3
      <4>7. /\ SubSeq(history, j, j + W - 1) \in Seq(Int)
            /\ Len(SubSeq(history, j, j + W - 1)) = W
        BY <4>6, SubSeqProperties
      <4>8. ASSUME NEW k \in 1 .. W
            PROVE  SubSeq(h, i, i + W - 1)[k] = SubSeq(history, j, j + W - 1)[k]
        <5>1. k \in 1 .. j + W - 1 - j + 1 OBVIOUS
        <5>2. SubSeq(history, j, j + W - 1)[k] = history[j + k - 1]
          BY <4>6, <5>1, SubSeqProperties
        <5>3. i + k - 1 \in 1 .. n /\ i + k - 1 # 1 BY <3>1, <3>7
        <5>4. h[i + k - 1] = history[i + k - 1 - 1] BY <5>3, <1>10
        <5>5. i + k - 1 - 1 = j + k - 1 BY <4>1, <3>1
        <5> QED BY <5>2, <5>4, <5>5, <3>5
      <4>9. SubSeq(h, i, i + W - 1) = SubSeq(history, j, j + W - 1)
        BY <3>4, <4>7, <4>8, SeqEqual
      <4>10. IsMedian(medians[j], SubSeq(history, j, j + W - 1))
        BY <4>2, <1>1 DEF WindowsOf
      <4> QED BY <4>3, <4>9, <4>10
    <3> QED BY <3>6, <3>7
  <2>8. ~ (n < W) BY <2>5
  <2> QED BY <2>3, <2>6, <2>7, <2>8, <1>1, <1>2, <1>8, <1>10, <1>11, <1>13, <1>15
          DEF WindowsOf
<1> QED BY <1>8, <1>10, <1>11, <1>16, <1>17

-----------------------------------------------------------------------------
(* The invariant of the monitors.                                          *)

Typed ==
  /\ temp \in [Levels -> Int]
  /\ templist \in [Levels -> Seq(Int)]
  /\ medianlist \in [Levels -> Seq(Int)]
  /\ readings \in [Levels -> Seq(Int)]
  /\ alarm_active \in BOOLEAN
  /\ alarms \subseteq Levels

Inv == Typed /\ \A l \in Levels : WindowsOf(templist[l], medianlist[l], readings[l])

LEMMA StartsEmpty ==
  ASSUME WindowsAssumption, temp \in [Levels -> Int],
         templist = [l \in Levels |-> <<>>], medianlist = [l \in Levels |-> <<>>],
         readings = [l \in Levels |-> <<>>], alarm_active = FALSE, alarms = {}
  PROVE  Inv
<1>1. <<>> \in Seq(Int) /\ Len(<<>>) = 0 OBVIOUS
<1>2. Typed BY <1>1 DEF Typed
<1>3. ASSUME NEW l \in Levels
      PROVE  templist[l] = <<>> /\ medianlist[l] = <<>> /\ readings[l] = <<>>
  BY <1>3
<1>4. WindowsOf(<<>>, <<>>, <<>>)
  <2>1. MEDIAN_WINDOW \in Nat \ {0} /\ TEMPCHANGE_WINDOW \in Nat \ {0}
    BY DEF WindowsAssumption
  <2>2. \A i \in 1 .. Len(<<>>) : FALSE BY <1>1
  <2> QED BY <1>1, <2>1, <2>2 DEF WindowsOf
<1> QED BY <1>2, <1>3, <1>4 DEF Inv

(* A round adds the temperature to the readings, and may forget the last.  *)
LEMMA RoundAdds ==
  ASSUME WindowsAssumption, Inv, NEW l \in Levels, tempmonitor(l)
  PROVE  \E h \in Seq(Int) :
           /\ readings' = [readings EXCEPT ![l] = h]
           /\ Len(h) \in Nat /\ Len(h) <= Len(readings[l]) + 1
           /\ \A i \in 1 .. Len(h) :
                h[i] = IF i = 1 THEN temp[l] ELSE readings[l][i - 1]
<1>1. temp[l] \in Int /\ templist[l] \in Seq(Int) /\ medianlist[l] \in Seq(Int)
      /\ readings[l] \in Seq(Int)
  BY DEF Inv, Typed
<1>2. WindowsOf(templist[l], medianlist[l], readings[l]) BY DEF Inv
<1>3. PICK t : t = Newest(temp[l], templist[l], MEDIAN_WINDOW) OBVIOUS
<1>4. PICK m : m = Medians(t, medianlist[l]) OBVIOUS
<1>5. PICK h : h = Remembered(temp[l], readings[l]) OBVIOUS
<1>6. /\ h \in Seq(Int) /\ Len(h) \in Nat /\ Len(h) <= Len(readings[l]) + 1
      /\ \A i \in 1 .. Len(h) :
           h[i] = IF i = 1 THEN temp[l] ELSE readings[l][i - 1]
  <2>1. PICK x \in Int, temps \in Seq(Int), medians \in Seq(Int), history \in Seq(Int) :
          /\ x = temp[l] /\ temps = templist[l] /\ medians = medianlist[l]
          /\ history = readings[l]
    BY <1>1
  <2>2. /\ WindowsOf(temps, medians, history)
        /\ t = Newest(x, temps, MEDIAN_WINDOW)
        /\ m = Medians(t, medians) /\ h = Remembered(x, history)
    BY <1>2, <1>3, <1>4, <1>5, <2>1
  <2>3. /\ t \in Seq(Int) /\ m \in Seq(Int) /\ h \in Seq(Int)
        /\ WindowsOf(t, m, h)
        /\ Len(h) \in Nat /\ Len(h) <= Len(history) + 1
        /\ \A i \in 1 .. Len(h) : h[i] = IF i = 1 THEN x ELSE history[i - 1]
    BY <2>2, WindowsMove, SMTT(60)
  <2> QED BY <2>1, <2>3, Zenon
<1>7. readings' = [readings EXCEPT ![l] = h]
  BY <1>5, <1>1, Zenon DEF tempmonitor, Remembered, Typed, Inv
<1> QED BY <1>6, <1>7

LEMMA RoundKeeps ==
  ASSUME WindowsAssumption, Inv, NEW l \in Levels, tempmonitor(l)
  PROVE  Inv'
<1>1. temp[l] \in Int /\ templist[l] \in Seq(Int) /\ medianlist[l] \in Seq(Int)
      /\ readings[l] \in Seq(Int)
  BY DEF Inv, Typed
<1>2. WindowsOf(templist[l], medianlist[l], readings[l]) BY DEF Inv
<1>3. PICK t : t = Newest(temp[l], templist[l], MEDIAN_WINDOW) OBVIOUS
<1>4. PICK m : m = Medians(t, medianlist[l]) OBVIOUS
<1>5. PICK h : h = Remembered(temp[l], readings[l]) OBVIOUS
<1>6. /\ t \in Seq(Int) /\ m \in Seq(Int) /\ h \in Seq(Int)
      /\ WindowsOf(t, m, h)
  BY <1>1, <1>2, <1>3, <1>4, <1>5, WindowsMove
<1>7. templist' = [templist EXCEPT ![l] = t]
  BY <1>3, Zenon DEF tempmonitor, Newest
<1>8. medianlist' = [medianlist EXCEPT ![l] = m]
  BY <1>3, <1>4, Zenon DEF tempmonitor, Newest, Medians
<1>9. readings' = [readings EXCEPT ![l] = h]
  BY <1>5, <1>1, Zenon DEF tempmonitor, Remembered, Typed, Inv
<1>10. temp' = temp /\ alarms' = alarms BY DEF tempmonitor
<1>11. alarm_active' \in BOOLEAN BY Zenon DEF tempmonitor
<1>12. Typed'
  BY <1>6, <1>7, <1>8, <1>9, <1>10, <1>11 DEF Inv, Typed
<1>13. ASSUME NEW k \in Levels
       PROVE  WindowsOf(templist'[k], medianlist'[k], readings'[k])
  <2>1. CASE k = l
    <3>1. templist'[k] = t /\ medianlist'[k] = m /\ readings'[k] = h
      BY <2>1, <1>7, <1>8, <1>9 DEF Inv, Typed
    <3> QED BY <3>1, <1>6
  <2>2. CASE k # l
    <3>1. /\ templist'[k] = templist[k] /\ medianlist'[k] = medianlist[k]
          /\ readings'[k] = readings[k]
      BY <2>2, <1>7, <1>8, <1>9 DEF Inv, Typed
    <3> QED BY <3>1 DEF Inv
  <2> QED BY <2>1, <2>2
<1> QED BY <1>12, <1>13 DEF Inv, WindowsOf, IsMedian, Half

LEMMA FireAlarmKeeps ==
  ASSUME WindowsAssumption, Inv, FireAlarm
  PROVE  Inv'
<1>1. CASE \E l \in Levels : tempmonitor(l) BY <1>1, RoundKeeps
<1>2. CASE \E l \in Levels : RaiseAlarms(l)
  <2>1. PICK l \in Levels : RaiseAlarms(l) BY <1>2
  <2>2. UNCHANGED <<temp, templist, medianlist, readings, alarm_active>>
    BY <2>1 DEF RaiseAlarms, monitors
  <2>3. alarms' = alarms \union {l} BY <2>1 DEF RaiseAlarms
  <2>4. Typed' BY <2>2, <2>3 DEF Inv, Typed
  <2>5. \A k \in Levels : WindowsOf(templist'[k], medianlist'[k], readings'[k])
    BY <2>2 DEF Inv
  <2> QED BY <2>4, <2>5 DEF Inv, WindowsOf, IsMedian, Half
<1> QED BY <1>1, <1>2 DEF FireAlarm

LEMMA SensorKeeps ==
  ASSUME Inv, temp' \in [Levels -> Int],
         UNCHANGED <<templist, medianlist, readings, alarm_active, alarms>>
  PROVE  Inv'
<1>1. Typed' BY DEF Inv, Typed
<1>2. \A k \in Levels : WindowsOf(templist'[k], medianlist'[k], readings'[k])
  BY DEF Inv
<1> QED BY <1>1, <1>2 DEF Inv, WindowsOf, IsMedian, Half

LEMMA InitInv ==
  ASSUME WindowsAssumption, Init
  PROVE  Inv
<1>1. temp \in [Levels -> Int] BY DEF Init, WindowsAssumption
<1> QED BY <1>1, StartsEmpty DEF Init

LEMMA NextInv ==
  ASSUME WindowsAssumption, Inv, [Next]_vars
  PROVE  Inv'
<1>1. CASE FireAlarm BY <1>1, FireAlarmKeeps
<1>2. CASE \E l \in Levels : Sensor(l)
  <2>1. PICK l \in Levels : Sensor(l) BY <1>2
  <2>2. PICK t \in Temps : temp' = [temp EXCEPT ![l] = t] BY <2>1 DEF Sensor
  <2>3. t \in Int BY DEF WindowsAssumption
  <2>4. temp' \in [Levels -> Int] BY <2>2, <2>3 DEF Inv, Typed
  <2> QED BY <2>1, <2>4, SensorKeeps DEF Sensor, monitors
<1>3. CASE UNCHANGED vars
  BY <1>3, SensorKeeps DEF vars, monitors, Inv, Typed
<1> QED BY <1>1, <1>2, <1>3 DEF Next

LEMMA InvHolds ==
  ASSUME WindowsAssumption
  PROVE  Spec => []Inv
<1>1. Init => Inv BY InitInv
<1>2. Inv /\ [Next]_vars => Inv' BY NextInv
<1> QED BY <1>1, <1>2, PTL DEF Spec

(* The lists are the last readings and the medians of their windows.       *)
LEMMA WindowsMean ==
  ASSUME WindowsAssumption, Inv
  PROVE  MediansOfReadings
<1>1. PICK W \in Nat : W = MEDIAN_WINDOW /\ W >= 1 BY DEF WindowsAssumption
<1>2. PICK C \in Nat : C = TEMPCHANGE_WINDOW /\ C >= 1 BY DEF WindowsAssumption
<1>3. ASSUME NEW l \in Levels
      PROVE  /\ templist[l] \in Seq(Int) /\ Len(templist[l]) \in Nat
             /\ medianlist[l] \in Seq(Int) /\ Len(medianlist[l]) \in Nat
             /\ readings[l] \in Seq(Int) /\ Len(readings[l]) \in Nat
             /\ WindowsOf(templist[l], medianlist[l], readings[l])
  <2>1. /\ templist[l] \in Seq(Int) /\ medianlist[l] \in Seq(Int)
        /\ readings[l] \in Seq(Int)
    BY DEF Inv, Typed
  <2> QED BY <2>1, LenProperties DEF Inv
<1>4. ASSUME NEW l \in Levels
      PROVE  Len(templist[l]) <= W /\ Len(medianlist[l]) <= C
             /\ Len(templist[l]) <= Len(readings[l])
  <2>1. PICK r \in Nat : r = Len(readings[l]) BY <1>3
  <2>2. r <= W + C - 1 BY <1>1, <1>2, <1>3, <2>1 DEF WindowsOf
  <2>3. Len(templist[l]) = IF r < W THEN r ELSE W
    BY <1>1, <1>3, <2>1 DEF WindowsOf
  <2>4. Len(medianlist[l]) = IF r < W THEN 0 ELSE r - W + 1
    BY <1>1, <1>3, <2>1 DEF WindowsOf
  <2> QED BY <2>1, <2>2, <2>3, <2>4
<1>5. ASSUME NEW l \in Levels
      PROVE  templist[l] = SubSeq(readings[l], 1, Len(templist[l]))
  <2>1. PICK n \in Nat : n = Len(templist[l]) BY <1>3
  <2>2. \A i \in 1 .. n : readings[l][i] \in Int
    BY <1>3, <1>4, <2>1, ElementOfSeq
  <2>3. /\ SubSeq(readings[l], 1, n) \in Seq(Int)
        /\ Len(SubSeq(readings[l], 1, n)) = IF 1 <= n THEN n - 1 + 1 ELSE 0
        /\ \A i \in 1 .. n - 1 + 1 :
             SubSeq(readings[l], 1, n)[i] = readings[l][1 + i - 1]
    BY <2>2, SubSeqProperties
  <2>4. \A i \in 1 .. n : SubSeq(readings[l], 1, n)[i] = readings[l][i] BY <2>3
  <2>5. \A i \in 1 .. n : templist[l][i] = readings[l][i]
    BY <1>3, <2>1 DEF WindowsOf
  <2>6. Len(SubSeq(readings[l], 1, n)) = n BY <2>3
  <2> QED BY <1>3, <2>1, <2>3, <2>4, <2>5, <2>6, SeqEqual
<1>6. TypeOK BY <1>1, <1>2, <1>3, <1>4 DEF TypeOK, Inv, Typed
<1>7. ASSUME NEW l \in Levels
      PROVE  DOMAIN medianlist[l] = 1 .. Len(medianlist[l])
  BY <1>3, LenProperties
<1> QED BY <1>3, <1>5, <1>6, <1>7 DEF MediansOfReadings, WindowsOf

(* The two lists are the last readings and the medians of every window of  *)
(* consecutive readings, for windows of every size (firealarm.c:72-97).    *)
THEOREM MediansCorrect ==
  ASSUME WindowsAssumption
  PROVE  Spec => []MediansOfReadings
<1>1. Spec => []Inv BY InvHolds
<1>2. Inv => MediansOfReadings BY WindowsMean
<1> QED BY <1>1, <1>2, PTL

-----------------------------------------------------------------------------
(* Outliers cannot pass for heat.                                          *)

Fibre(f, P, x) == {p \in P : f[p] = x}

Over(f, P, B) == {p \in P : f[p] \in B}

(* A set that is mapped to another one with between lo and hi members over *)
(* each of its members.                                                    *)
LEMMA Fibres ==
  ASSUME NEW P, IsFiniteSet(P), NEW A, IsFiniteSet(A), NEW f \in [P -> A],
         NEW lo \in Nat, NEW hi \in Nat,
         \A x \in A : /\ lo <= Cardinality(Fibre(f, P, x))
                     /\ Cardinality(Fibre(f, P, x)) <= hi
  PROVE  /\ lo * Cardinality(A) <= Cardinality(P)
         /\ Cardinality(P) <= hi * Cardinality(A)
<1> DEFINE Bounded(B) == /\ lo * Cardinality(B) <= Cardinality(Over(f, P, B))
                         /\ Cardinality(Over(f, P, B)) <= hi * Cardinality(B)
           Bad == {Cardinality(B) : B \in {D \in SUBSET A : ~ Bounded(D)}}
<1>1. \A B \in SUBSET A : IsFiniteSet(B) /\ Cardinality(B) \in Nat
  BY FS_Subset, FS_CardinalityType
<1>2. \A S \in SUBSET P : IsFiniteSet(S) /\ Cardinality(S) \in Nat
  BY FS_Subset, FS_CardinalityType
<1>3. Bad = {}
  <2> SUFFICES ASSUME Bad # {} PROVE FALSE OBVIOUS
  <2>1. Bad \in SUBSET Nat BY <1>1
  <2>2. PICK n \in Bad : \A k \in Bad : n <= k
    <3> HIDE DEF Bad
    <3> QED BY <2>1, LeastNat
  <2>3. PICK B \in SUBSET A : n = Cardinality(B) /\ ~ Bounded(B) BY <2>2
  <2>4. B # {}
    <3> SUFFICES ASSUME B = {} PROVE FALSE OBVIOUS
    <3>1. Over(f, P, B) = {} BY DEF Over
    <3>2. Cardinality(B) = 0 /\ Cardinality(Over(f, P, B)) = 0
      BY <3>1, FS_EmptySet
    <3> QED BY <3>2, <2>3
  <2>5. PICK x \in B : TRUE BY <2>4
  <2>6. PICK D \in SUBSET A : D = B \ {x} OBVIOUS
  <2>7. PICK m \in Nat : m = Cardinality(D) /\ n = m + 1
    <3>1. Cardinality(D) = n - 1
      BY <1>1, <2>3, <2>5, <2>6, FS_RemoveElement
    <3>2. n \in Nat /\ Cardinality(D) \in Nat BY <2>1, <2>2, <1>1
    <3> QED BY <3>1, <3>2
  <2>8. Bounded(D)
    <3> SUFFICES ASSUME ~ Bounded(D) PROVE FALSE OBVIOUS
    <3>1. m \in Bad BY <2>7
    <3> HIDE DEF Bad
    <3>2. n <= m BY <3>1, <2>2
    <3>3. ~ (n <= m) BY <2>7
    <3> QED BY <3>2, <3>3
  <2>9. PICK c \in Nat, d \in Nat, e \in Nat :
          /\ c = Cardinality(Over(f, P, B))
          /\ d = Cardinality(Over(f, P, D))
          /\ e = Cardinality(Fibre(f, P, x))
    BY <1>2 DEF Over, Fibre
  <2>10. c = d + e
    <3>1. /\ Over(f, P, B) = Over(f, P, D) \cup Fibre(f, P, x)
          /\ Over(f, P, D) \cap Fibre(f, P, x) = {}
      BY <2>5, <2>6 DEF Over, Fibre
    <3>2. IsFiniteSet(Over(f, P, D)) /\ IsFiniteSet(Fibre(f, P, x))
      BY <1>2 DEF Over, Fibre
    <3>3. Cardinality(Over(f, P, D) \cap Fibre(f, P, x)) = 0
      BY <3>1, FS_EmptySet
    <3>4. Cardinality(Over(f, P, D) \cup Fibre(f, P, x)) =
            Cardinality(Over(f, P, D)) + Cardinality(Fibre(f, P, x))
              - Cardinality(Over(f, P, D) \cap Fibre(f, P, x))
      BY <3>2, FS_Union
    <3> QED BY <3>1, <3>3, <3>4, <2>9
  <2>11. lo <= e /\ e <= hi BY <2>5, <2>9
  <2>12. lo * m <= d /\ d <= hi * m BY <2>7, <2>8, <2>9
  <2>13. lo * n = lo * m + lo /\ hi * n = hi * m + hi BY <2>7
  <2>14. lo * m \in Nat /\ hi * m \in Nat OBVIOUS
  <2>15. lo * n <= c /\ c <= hi * n BY <2>10, <2>11, <2>12, <2>13, <2>14
  <2> QED BY <2>3, <2>9, <2>15
<1>4. Bounded(A)
  <2> SUFFICES ASSUME ~ Bounded(A) PROVE FALSE OBVIOUS
  <2>1. Cardinality(A) \in Bad OBVIOUS
  <2> QED BY <2>1, <1>3
<1>5. Over(f, P, A) = P BY DEF Over
<1> QED BY <1>4, <1>5

(* A window whose median is high has more than half of its readings high.  *)
LEMMA HotWindow ==
  ASSUME WindowsAssumption, HIGH \in Int,
         NEW list \in Seq(Int), Len(list) = MEDIAN_WINDOW,
         NEW m, IsMedian(m, list), m >= HIGH
  PROVE  /\ IsFiniteSet({k \in DOMAIN list : list[k] >= HIGH})
         /\ Cardinality({k \in DOMAIN list : list[k] >= HIGH}) >= Half + 1
<1> DEFINE Highs == {k \in DOMAIN list : list[k] >= HIGH}
           Lows == {k \in DOMAIN list : list[k] < HIGH}
<1>1. Half \in Nat /\ MEDIAN_WINDOW = 2 * Half + 1 BY OddWindow
<1>2. \A k \in DOMAIN list : list[k] \in Int BY LenProperties, ElementOfSeq
<1>3. m \in Int BY <1>2 DEF IsMedian
<1>4. IsFiniteSet(DOMAIN list) /\ Cardinality(DOMAIN list) = MEDIAN_WINDOW
  BY DomainSize
<1>5. Lows \subseteq Below(list, m) BY <1>2, <1>3 DEF Below
<1>6. Cardinality(Below(list, m)) <= Half BY DEF IsMedian, Below
<1>7. IsFiniteSet(Below(list, m)) /\ Cardinality(Below(list, m)) \in Nat
  BY <1>3, Counts
<1>8. /\ IsFiniteSet(Lows) /\ Cardinality(Lows) \in Nat
      /\ Cardinality(Lows) <= Cardinality(Below(list, m))
  BY <1>5, <1>7, FS_Subset, FS_CardinalityType
<1>9. IsFiniteSet(Highs) /\ Cardinality(Highs) \in Nat
  BY <1>4, FS_Subset, FS_CardinalityType
<1>10. Lows \cup Highs = DOMAIN list /\ Lows \cap Highs = {} BY <1>2
<1>11. Cardinality(DOMAIN list) = Cardinality(Lows) + Cardinality(Highs)
  <2>1. Cardinality(Lows \cap Highs) = 0 BY <1>10, FS_EmptySet
  <2>2. Cardinality(Lows \cup Highs) =
          Cardinality(Lows) + Cardinality(Highs) - Cardinality(Lows \cap Highs)
    <3> HIDE DEF Lows, Highs
    <3> QED BY <1>8, <1>9, FS_Union
  <2> HIDE DEF Lows, Highs
  <2>3. Cardinality(Lows \cup Highs) = Cardinality(DOMAIN list) BY <1>10
  <2> QED BY <2>1, <2>2, <2>3, <1>8, <1>9
<1> HIDE DEF Lows, Highs
<1>12. Cardinality(Highs) >= Half + 1
  BY <1>1, <1>4, <1>6, <1>7, <1>8, <1>9, <1>11
<1> QED BY <1>9, <1>12 DEF Highs

(* The pairs of a high median and a high reading of its window, counted    *)
(* once by medians and once by readings.                                   *)
LEMMA SustainedHeat ==
  ASSUME WindowsAssumption,
         NEW temps \in Seq(Int), NEW medians \in Seq(Int), NEW history \in Seq(Int),
         WindowsOf(temps, medians, history), TooHot(medians)
  PROVE  10 * MEDIAN_WINDOW * Hot(history) >= 9 * TEMPCHANGE_WINDOW * (Half + 1)
<1> DEFINE HM == {i \in DOMAIN medians : medians[i] >= HIGH}
           HR == {j \in DOMAIN history : history[j] >= HIGH}
<1>1. PICK W \in Nat : W = MEDIAN_WINDOW /\ W >= 1 BY DEF WindowsAssumption
<1>2. PICK C \in Nat : C = TEMPCHANGE_WINDOW /\ C >= 1 BY DEF WindowsAssumption
<1>3. HIGH \in Int /\ Half \in Nat BY OddWindow DEF WindowsAssumption
<1>4. /\ Len(medians) \in Nat /\ DOMAIN medians = 1 .. Len(medians)
      /\ Len(history) \in Nat /\ DOMAIN history = 1 .. Len(history)
  BY LenProperties
<1>5. Len(medians) = C BY <1>2 DEF TooHot
<1>6. Len(history) = W + C - 1
  <2>1. PICK r \in Nat : r = Len(history) BY <1>4
  <2>2. C = IF r < W THEN 0 ELSE r - W + 1 BY <2>1, <1>1, <1>5 DEF WindowsOf
  <2>3. r = W + C - 1 BY <2>2, <1>2
  <2> QED BY <2>1, <2>3
<1>7. IsFiniteSet(HM) /\ Cardinality(HM) \in Nat
  BY DomainSize, FS_Subset, FS_CardinalityType
<1>8. IsFiniteSet(HR) /\ Cardinality(HR) \in Nat
  BY DomainSize, FS_Subset, FS_CardinalityType
<1>9. HM \subseteq 1 .. C /\ HR \subseteq 1 .. Len(history) BY <1>4, <1>5
<1> DEFINE P == {p \in HM \X HR : p[1] <= p[2] /\ p[2] <= p[1] + W - 1}
           first == [p \in P |-> p[1]]
           second == [p \in P |-> p[2]]
<1>10. first \in [P -> HM] /\ second \in [P -> HR] OBVIOUS
<1>11. IsFiniteSet(P) /\ Cardinality(P) \in Nat
  <2>1. IsFiniteSet(HM \X HR) BY <1>7, <1>8, FS_Product
  <2>2. P \subseteq HM \X HR OBVIOUS
  <2> QED BY <2>1, <2>2, FS_Subset, FS_CardinalityType
<1>12. ASSUME NEW i \in HM
       PROVE  /\ Half + 1 <= Cardinality(Fibre(first, P, i))
              /\ Cardinality(Fibre(first, P, i)) <= Cardinality(P)
  <2>1. Fibre(first, P, i) \subseteq P BY DEF Fibre
  <2>2. /\ IsFiniteSet(Fibre(first, P, i))
        /\ Cardinality(Fibre(first, P, i)) <= Cardinality(P)
        /\ Cardinality(Fibre(first, P, i)) \in Nat
    <3> HIDE DEF P, first
    <3> QED BY <2>1, <1>11, FS_Subset, FS_CardinalityType
  <2>3. i \in 1 .. C /\ medians[i] >= HIGH BY <1>9
  <2>4. PICK list : list = SubSeq(history, i, i + W - 1) OBVIOUS
  <2>5. \A q \in i .. i + W - 1 : q \in 1 .. Len(history) /\ history[q] \in Int
    <3>1. \A q \in i .. i + W - 1 : q \in 1 .. Len(history) BY <2>3, <1>6
    <3> QED BY <3>1, ElementOfSeq
  <2>6. /\ list \in Seq(Int) /\ Len(list) = W
        /\ \A k \in 1 .. W : list[k] = history[i + k - 1]
    <3>1. i \in Int /\ i + W - 1 \in Int /\ i <= i + W - 1 /\ i + W - 1 - i + 1 = W
      BY <2>3, <1>1
    <3>2. /\ SubSeq(history, i, i + W - 1) \in Seq(Int)
          /\ Len(SubSeq(history, i, i + W - 1)) =
               IF i <= i + W - 1 THEN i + W - 1 - i + 1 ELSE 0
          /\ \A k \in 1 .. i + W - 1 - i + 1 :
               SubSeq(history, i, i + W - 1)[k] = history[i + k - 1]
      BY <2>5, <3>1, SubSeqProperties
    <3> QED BY <2>4, <3>1, <3>2
  <2>7. IsMedian(medians[i], list)
    BY <2>3, <2>4, <1>1, <1>4, <1>5 DEF WindowsOf
  <2> DEFINE G == {k \in DOMAIN list : list[k] >= HIGH}
  <2>8. IsFiniteSet(G) /\ Cardinality(G) >= Half + 1
    BY <2>3, <2>6, <2>7, <1>1, <1>3, HotWindow
  <2>9. Cardinality(G) \in Nat BY <2>8, FS_CardinalityType
  <2>10. G \subseteq 1 .. W BY <2>6, LenProperties
  <2> DEFINE shift == [k \in G |-> <<i, i + k - 1>>]
  <2>11. ASSUME NEW k \in G PROVE <<i, i + k - 1>> \in Fibre(first, P, i)
    <3>1. k \in 1 .. W /\ history[i + k - 1] >= HIGH BY <2>6, <2>10
    <3>2. i + k - 1 \in i .. i + W - 1 BY <3>1, <2>3
    <3>3. i + k - 1 \in HR BY <3>1, <3>2, <2>5, <1>4
    <3>4. <<i, i + k - 1>> \in P BY <3>2, <3>3, <2>3
    <3> QED BY <3>4 DEF Fibre
  <2>12. shift \in Injection(G, Fibre(first, P, i))
    <3>1. shift \in [G -> Fibre(first, P, i)] BY <2>11
    <3>2. ASSUME NEW a \in G, NEW b \in G, shift[a] = shift[b] PROVE a = b
      <4>1. i + a - 1 = i + b - 1 BY <3>2
      <4>2. a \in Nat /\ b \in Nat /\ i \in Nat BY <2>10, <2>3
      <4> QED BY <4>1, <4>2
    <3>3. DOMAIN shift = G OBVIOUS
    <3> HIDE DEF shift, G
    <3> QED BY <3>1, <3>2, <3>3 DEF Injection, IsInjective
  <2>13. Cardinality(G) <= Cardinality(Fibre(first, P, i))
    <3> HIDE DEF shift, G, P, first
    <3> QED BY <2>2, <2>12, FS_Injection
  <2> HIDE DEF G, P, first
  <2> QED BY <2>2, <2>8, <2>9, <2>13, <1>3
<1>13. ASSUME NEW j \in HR
       PROVE  /\ 0 <= Cardinality(Fibre(second, P, j))
              /\ Cardinality(Fibre(second, P, j)) <= W
  <2>1. j \in Nat BY <1>9
  <2> DEFINE left == [p \in Fibre(second, P, j) |-> p[1]]
  <2>2. ASSUME NEW p \in Fibre(second, P, j)
        PROVE  p[1] \in j - W + 1 .. j /\ p = <<p[1], j>>
    <3>1. p \in P /\ p[2] = j BY DEF Fibre
    <3>2. p[1] \in HM /\ p = <<p[1], p[2]>> BY <3>1
    <3>3. p[1] \in Nat BY <3>2, <1>9
    <3> QED BY <3>1, <3>2, <3>3, <2>1
  <2>3. left \in Injection(Fibre(second, P, j), j - W + 1 .. j)
    <3>1. left \in [Fibre(second, P, j) -> j - W + 1 .. j] BY <2>2
    <3>2. ASSUME NEW a \in Fibre(second, P, j), NEW b \in Fibre(second, P, j),
                 left[a] = left[b]
          PROVE  a = b
      BY <2>2, <3>2
    <3>3. DOMAIN left = Fibre(second, P, j) OBVIOUS
    <3> HIDE DEF left, P, second
    <3> QED BY <3>1, <3>2, <3>3 DEF Injection, IsInjective
  <2>4. /\ IsFiniteSet(j - W + 1 .. j)
        /\ Cardinality(j - W + 1 .. j) =
             IF j - W + 1 > j THEN 0 ELSE j - (j - W + 1) + 1
    <3>1. j - W + 1 \in Int /\ j \in Int BY <2>1
    <3> QED BY <3>1, FS_Interval
  <2>5. Cardinality(j - W + 1 .. j) = W BY <2>1, <2>4, <1>1
  <2>6. /\ IsFiniteSet(Fibre(second, P, j))
        /\ Cardinality(Fibre(second, P, j)) <= Cardinality(j - W + 1 .. j)
    <3> HIDE DEF left, P, second
    <3> QED BY <2>3, <2>4, FS_Injection
  <2>7. Cardinality(Fibre(second, P, j)) \in Nat BY <2>6, FS_CardinalityType
  <2> HIDE DEF left, P, second
  <2> QED BY <2>5, <2>6, <2>7
<1> HIDE DEF P, first, second, HM, HR
<1>14. (Half + 1) * Cardinality(HM) <= Cardinality(P)
  <2>1. Half + 1 \in Nat BY <1>3
  <2> QED BY <2>1, <1>7, <1>10, <1>11, <1>12, Fibres
<1>15. Cardinality(P) <= W * Cardinality(HR)
  <2>1. 0 \in Nat OBVIOUS
  <2> QED BY <2>1, <1>8, <1>10, <1>11, <1>13, Fibres
<1>16. 10 * Cardinality(HM) >= 9 * C BY <1>2 DEF TooHot, HM
<1>17. Hot(history) = Cardinality(HR) BY DEF Hot, HR
<1>18. PICK a \in Nat, b \in Nat, p \in Nat, g \in Nat :
         /\ a = Cardinality(HM) /\ b = Cardinality(HR) /\ p = Cardinality(P)
         /\ g = Half + 1
  BY <1>3, <1>7, <1>8, <1>11
<1>19. g * a <= p /\ p <= W * b /\ 10 * a >= 9 * C BY <1>14, <1>15, <1>16, <1>18
<1>20. 10 * W * b >= 9 * C * g
  <2>1. PICK u \in Nat : u = W * b OBVIOUS
  <2>2. PICK v \in Nat : v = g * a OBVIOUS
  <2>3. v <= u BY <2>1, <2>2, <1>19
  <2>4. (10 * a) * g >= (9 * C) * g BY <1>19
  <2>5. (10 * a) * g = 10 * v BY <2>2
  <2>6. 10 * W * b = 10 * u BY <2>1
  <2>7. PICK w \in Nat : w = 9 * C * g OBVIOUS
  <2>8. w <= 10 * v BY <2>4, <2>5, <2>7
  <2>9. w <= 10 * u BY <2>3, <2>8
  <2> QED BY <2>6, <2>7, <2>9
<1> QED BY <1>1, <1>2, <1>17, <1>18, <1>20

LEMMA NotOutliers ==
  ASSUME WindowsAssumption, Inv
  PROVE  HeatIsSustained
BY SustainedHeat DEF Inv, Typed, HeatIsSustained

(* When the test for heat succeeds, so many of the readings behind it are  *)
(* high that they make nine tenths of the medians high: with the windows   *)
(* of the code at least 17 of the last 34 (firealarm.c:88, 108).           *)
THEOREM HeatSustained ==
  ASSUME WindowsAssumption
  PROVE  Spec => []HeatIsSustained
<1>1. Spec => []Inv BY InvHolds
<1>2. Inv => HeatIsSustained BY NotOutliers
<1> QED BY <1>1, <1>2, PTL

-----------------------------------------------------------------------------
(* The walk of the simulator.                                              *)

(* The invariant of the two programs together: NeverTooHot needs that no   *)
(* reading the monitors still remember was high, and the walk that nobody  *)
(* has moved before every level has got its first temperature.             *)
WalkInv ==
  /\ Inv
  /\ start \in Starts
  /\ scale \in [Levels -> -MIDDLE .. MIDDLE - 1]
  /\ started \subseteq Levels
  /\ next \in Levels
  /\ started # Levels => \A l \in Levels : scale[l] = 0
  /\ TempNearStart
  /\ \A l \in Levels : \A i \in 1 .. Len(readings[l]) : readings[l][i] < HIGH

LEMMA NextIsLevel ==
  ASSUME WindowsAssumption, next \in Levels, NextLevel
  PROVE  next' \in Levels
<1>1. LEVELS \in Nat /\ LEVELS >= 1 BY DEF WindowsAssumption
<1>2. next \in Nat /\ next' = (next % LEVELS) + 1 BY <1>1 DEF NextLevel, Levels
<1>3. next % LEVELS \in 0 .. LEVELS - 1 BY <1>1, <1>2
<1> QED BY <1>1, <1>2, <1>3 DEF Levels

(* One degree up or down stays in the band: the last change that can go    *)
(* outwards is the one before the edge.                                    *)
LEMMA StaysInBand ==
  ASSUME MIDDLE \in Nat \ {0}, NEW l \in Levels, NEW change \in Changes,
         scale[l] \in -MIDDLE .. MIDDLE - 1
  PROVE  /\ Degrees(l, change) \in Int
         /\ scale[l] + Degrees(l, change) \in -MIDDLE .. MIDDLE - 1
BY DEF Degrees, Changes

LEMMA InitWalkInv ==
  ASSUME WalkAssumption, CoolAssumption, InitWalk
  PROVE  WalkInv
<1>1. WindowsAssumption /\ MIDDLE \in Nat \ {0} /\ LEVELS \in Nat \ {0}
  BY DEF WalkAssumption, WindowsAssumption
<1>2. temp \in [Levels -> Int] BY DEF InitWalk
<1>3. Inv BY <1>1, <1>2, StartsEmpty DEF InitWalk, Init
<1>4. scale \in [Levels -> -MIDDLE .. MIDDLE - 1] BY <1>1 DEF InitWalk
<1>5. TempNearStart BY <1>1 DEF TempNearStart, InitWalk
<1>6. \A l \in Levels : \A i \in 1 .. Len(readings[l]) : FALSE
  <2>1. Len(<<>>) = 0 OBVIOUS
  <2>2. \A l \in Levels : readings[l] = <<>> BY DEF InitWalk, Init
  <2> QED BY <2>1, <2>2
<1> QED BY <1>1, <1>3, <1>4, <1>5, <1>6 DEF WalkInv, InitWalk, Levels

(* What temp_setter writes is a temperature of the walk, and the monitors  *)
(* see nothing of it before their next round.                              *)
LEMMA SetterKeeps ==
  ASSUME WalkAssumption, WalkInv, temp_setter
  PROVE  WalkInv'
<1>1. WindowsAssumption /\ MIDDLE \in Nat \ {0} /\ Starts \subseteq Nat
  BY DEF WalkAssumption
<1>2. /\ temp \in [Levels -> Int] /\ start \in Nat /\ next \in Levels
      /\ scale \in [Levels -> -MIDDLE .. MIDDLE - 1]
  BY <1>1 DEF WalkInv, Inv, Typed
<1>3. UNCHANGED <<templist, medianlist, readings, alarm_active, alarms, start>>
  BY DEF temp_setter, SetStart, Change, monitors
<1>4. next' \in Levels
  BY <1>1, <1>2, NextIsLevel DEF temp_setter, SetStart, Change
<1>5. CASE SetStart
  <2>1. temp' = [temp EXCEPT ![next] = start] /\ scale' = scale
        /\ started' = started \union {next} /\ started # Levels
    BY <1>5 DEF SetStart
  <2>2. temp' \in [Levels -> Int] BY <2>1, <1>2
  <2>3. Inv' BY <2>2, <1>3, SensorKeeps DEF WalkInv
  <2>4. \A l \in Levels : scale[l] = 0 BY <2>1 DEF WalkInv
  <2>5. ASSUME NEW l \in Levels
        PROVE  temp'[l] = IF l \in started' THEN start' + scale'[l] ELSE 0
    <3>1. temp[l] = IF l \in started THEN start + scale[l] ELSE 0
      BY DEF WalkInv, TempNearStart
    <3> QED BY <3>1, <2>1, <2>4, <1>2, <1>3
  <2>6. TempNearStart' BY <2>1, <2>5 DEF WalkInv, TempNearStart
  <2> QED BY <2>1, <2>3, <2>4, <2>6, <1>2, <1>3, <1>4 DEF WalkInv
<1>6. CASE Change
  <2>1. started = Levels /\ started' = started BY <1>6 DEF Change
  <2>2. CASE UNCHANGED <<temp, scale>>
    <3>1. Inv' BY <2>2, <1>2, <1>3, SensorKeeps DEF WalkInv
    <3> QED BY <3>1, <2>1, <2>2, <1>3, <1>4 DEF WalkInv, TempNearStart
  <2>3. CASE ~ UNCHANGED <<temp, scale>>
    <3>1. PICK change \in Changes :
            /\ temp' = [temp EXCEPT ![next] = @ + Degrees(next, change)]
            /\ scale' = [scale EXCEPT ![next] = @ + Degrees(next, change)]
      BY <2>3, <1>6 DEF Change
    <3>2. PICK d \in Int : d = Degrees(next, change) BY <1>1, <1>2, StaysInBand
    <3>3. scale[next] + d \in -MIDDLE .. MIDDLE - 1
      BY <3>2, <1>1, <1>2, StaysInBand
    <3>4. /\ temp' = [temp EXCEPT ![next] = temp[next] + d]
          /\ scale' = [scale EXCEPT ![next] = scale[next] + d]
      BY <3>1, <3>2
    <3>5. temp' \in [Levels -> Int] /\ scale' \in [Levels -> -MIDDLE .. MIDDLE - 1]
      BY <3>3, <3>4, <1>2
    <3>6. Inv' BY <3>5, <1>3, SensorKeeps DEF WalkInv
    <3>7. ASSUME NEW l \in Levels
          PROVE  temp'[l] = IF l \in started' THEN start' + scale'[l] ELSE 0
      <4>1. temp[l] = start + scale[l] BY <2>1 DEF WalkInv, TempNearStart
      <4>2. scale[l] \in Int /\ scale[next] \in Int BY <1>2
      <4>3. CASE l = next BY <4>1, <4>2, <4>3, <3>4, <2>1, <1>2, <1>3
      <4>4. CASE l # next BY <4>1, <4>4, <3>4, <2>1, <1>2, <1>3
      <4> QED BY <4>3, <4>4
    <3>8. TempNearStart' BY <3>5, <3>7 DEF TempNearStart
    <3> QED BY <3>5, <3>6, <3>8, <2>1, <1>3, <1>4 DEF WalkInv
  <2> QED BY <2>2, <2>3
<1> QED BY <1>5, <1>6 DEF temp_setter

(* The monitors read temperatures of the walk, all of them below HIGH.     *)
LEMMA MonitorsKeep ==
  ASSUME WalkAssumption, CoolAssumption, WalkInv, FireAlarm, UNCHANGED walk
  PROVE  WalkInv'
<1>1. WindowsAssumption /\ MIDDLE \in Nat \ {0} /\ Starts \subseteq Nat
  BY DEF WalkAssumption
<1>2. Inv' BY <1>1, FireAlarmKeeps DEF WalkInv
<1>3. UNCHANGED <<start, scale, started, next>> BY DEF walk
<1>4. temp' = temp BY DEF FireAlarm, tempmonitor, RaiseAlarms
<1>5. TempNearStart' BY <1>3, <1>4 DEF WalkInv, TempNearStart
<1>6. \A l \in Levels : \A i \in 1 .. Len(readings'[l]) : readings'[l][i] < HIGH
  <2>1. CASE \E l \in Levels : RaiseAlarms(l)
    <3>1. readings' = readings BY <2>1 DEF RaiseAlarms, monitors
    <3> QED BY <3>1 DEF WalkInv
  <2>2. CASE \E l \in Levels : tempmonitor(l)
    <3>1. PICK l \in Levels : tempmonitor(l) BY <2>2
    <3>2. temp[l] < HIGH
      <4>1. temp[l] = IF l \in started THEN start + scale[l] ELSE 0
        BY DEF WalkInv, TempNearStart
      <4>2. scale[l] \in -MIDDLE .. MIDDLE - 1 /\ start \in Starts BY DEF WalkInv
      <4>3. 0 < HIGH /\ start + MIDDLE - 1 < HIGH BY <4>2 DEF CoolAssumption
      <4>4. HIGH \in Int /\ start \in Nat
        BY <1>1, <4>2 DEF WindowsAssumption
      <4> QED BY <1>1, <4>1, <4>2, <4>3, <4>4
    <3>3. PICK h \in Seq(Int) :
            /\ readings' = [readings EXCEPT ![l] = h]
            /\ Len(h) \in Nat /\ Len(h) <= Len(readings[l]) + 1
            /\ \A i \in 1 .. Len(h) :
                 h[i] = IF i = 1 THEN temp[l] ELSE readings[l][i - 1]
      BY <1>1, <3>1, RoundAdds DEF WalkInv
    <3>4. readings \in [Levels -> Seq(Int)] BY DEF WalkInv, Inv, Typed
    <3>5. Len(readings[l]) \in Nat BY <3>4, LenProperties
    <3>6. \A i \in 1 .. Len(h) : h[i] < HIGH
      <4> TAKE i \in 1 .. Len(h)
      <4>1. CASE i = 1 BY <4>1, <3>2, <3>3
      <4>2. CASE i # 1
        <5>1. i - 1 \in 1 .. Len(readings[l]) BY <4>2, <3>3, <3>5
        <5>2. h[i] = readings[l][i - 1] BY <4>2, <3>3
        <5> QED BY <5>1, <5>2 DEF WalkInv
      <4> QED BY <4>1, <4>2
    <3>7. ASSUME NEW k \in Levels, NEW i \in 1 .. Len(readings'[k])
          PROVE  readings'[k][i] < HIGH
      <4>1. CASE k = l
        <5>1. readings'[k] = h BY <4>1, <3>3, <3>4
        <5> QED BY <5>1, <3>6
      <4>2. CASE k # l
        <5>1. readings'[k] = readings[k] BY <4>2, <3>3, <3>4
        <5> QED BY <5>1 DEF WalkInv
      <4> QED BY <4>1, <4>2
    <3> QED BY <3>7
  <2> QED BY <2>1, <2>2 DEF FireAlarm
<1> QED BY <1>2, <1>3, <1>5, <1>6 DEF WalkInv

LEMMA WalkInvKept ==
  ASSUME WalkAssumption, CoolAssumption, WalkInv, [NextWalk]_<<vars, walk>>
  PROVE  WalkInv'
<1>1. CASE temp_setter BY <1>1, SetterKeeps
<1>2. CASE FireAlarm /\ UNCHANGED walk BY <1>2, MonitorsKeep
<1>3. CASE UNCHANGED <<vars, walk>>
  <2>1. UNCHANGED <<temp, templist, medianlist, readings, alarm_active, alarms>>
    BY <1>3 DEF vars, monitors
  <2>2. UNCHANGED <<start, scale, started, next>> BY <1>3 DEF walk
  <2>3. Inv' BY <2>1, SensorKeeps DEF WalkInv, Inv, Typed
  <2> QED BY <2>1, <2>2, <2>3 DEF WalkInv, TempNearStart
<1> QED BY <1>1, <1>2, <1>3 DEF NextWalk

(* Heat would need high readings, and there are none.                      *)
LEMMA NotTooHot ==
  ASSUME WalkAssumption, WalkInv
  PROVE  NeverTooHot
<1>1. WindowsAssumption BY DEF WalkAssumption
<1>2. ASSUME NEW l \in Levels, TooHot(medianlist[l]) PROVE FALSE
  <2>1. /\ templist[l] \in Seq(Int) /\ medianlist[l] \in Seq(Int)
        /\ readings[l] \in Seq(Int)
        /\ WindowsOf(templist[l], medianlist[l], readings[l])
    BY DEF WalkInv, Inv, Typed
  <2>2. 10 * MEDIAN_WINDOW * Hot(readings[l]) >= 9 * TEMPCHANGE_WINDOW * (Half + 1)
    BY <1>1, <1>2, <2>1, SustainedHeat
  <2>3. DOMAIN readings[l] = 1 .. Len(readings[l]) BY <2>1, LenProperties
  <2>4. \A i \in DOMAIN readings[l] : readings[l][i] \in Int /\ readings[l][i] < HIGH
    BY <2>1, <2>3, ElementOfSeq DEF WalkInv
  <2>5. HIGH \in Int BY <1>1 DEF WindowsAssumption
  <2>6. {i \in DOMAIN readings[l] : readings[l][i] >= HIGH} = {} BY <2>4, <2>5
  <2>7. Hot(readings[l]) = 0 BY <2>6, FS_EmptySet DEF Hot
  <2>8. PICK W \in Nat, C \in Nat, g \in Nat :
          W = MEDIAN_WINDOW /\ C = TEMPCHANGE_WINDOW /\ C >= 1 /\ g = Half
    BY <1>1, OddWindow DEF WindowsAssumption
  <2>9. 10 * W * 0 = 0 OBVIOUS
  <2>10. 9 * C * (g + 1) = 9 * C * g + 9 * C /\ 9 * C * g \in Nat OBVIOUS
  <2> QED BY <2>2, <2>7, <2>8, <2>9, <2>10
<1> QED BY <1>2 DEF NeverTooHot, WalkInv

(* The simulator never makes a level hot enough for the fire alarm's test  *)
(* for heat, and its walk stays near its start, for every number of levels *)
(* and windows of every size (simulator_funcs.c:513-526 with               *)
(* firealarm.c:97-115).                                                    *)
THEOREM WalkStaysCool ==
  ASSUME WalkAssumption, CoolAssumption
  PROVE  SpecWalk => []NeverTooHot
<1>1. InitWalk => WalkInv BY InitWalkInv
<1>2. WalkInv /\ [NextWalk]_<<vars, walk>> => WalkInv' BY WalkInvKept
<1>3. WalkInv => NeverTooHot BY NotTooHot
<1> QED BY <1>1, <1>2, <1>3, PTL DEF SpecWalk
=============================================================================
