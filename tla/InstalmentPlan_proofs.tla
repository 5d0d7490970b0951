----------------------- MODULE InstalmentPlan_proofs -----------------------
(***************************************************************************)
(* What a schedule of invoices comes to and when they fall due, for every  *)
(* fee, every number of instalments and every session.                     *)
(***************************************************************************)
EXTENDS InstalmentPlan, Fees_proofs

(* The schedule is empty or the one that was asked for. *)
Computed ==
    invoices # <<>> =>
        LET n == InstalmentCount(request)
        IN  /\ n \in Nat \ {0}
            /\ request.start <= request.end
            /\ DOMAIN invoices = 1 .. n
            /\ \A i \in 1 .. n :
                  invoices[i] = [amount |-> SplitTotalEvenly(request.fee, n)[i],
                                 due |-> DueDates(request)[i]]

PlanInv == request \in Requests /\ Computed

LEMMA PlanInvariant == Spec => []PlanInv
  <1>1. Init => PlanInv
    BY DEF Init, PlanInv, Computed
  <1>2. ASSUME PlanInv, [Next]_vars
        PROVE  PlanInv'
    <2>1. CASE ComputeInstalments
      <3> DEFINE n == InstalmentCount(request)
      <3>1. n \in Nat /\ n >= 1
        <4>1. request.count \in Nat
          BY <1>2, CalendarAssumption DEF PlanInv, Requests
        <4>2. n \in Nat
          BY <4>1 DEF InstalmentCount
        <4> QED
          BY <2>1, <4>2 DEF ComputeInstalments
      <3>2. /\ DOMAIN invoices' = 1 .. n
            /\ request.start <= request.end
            /\ \A i \in 1 .. n :
                  invoices'[i] = [amount |-> SplitTotalEvenly(request.fee, n)[i],
                                  due |-> DueDates(request)[i]]
        BY <2>1 DEF ComputeInstalments
      <3>3. /\ request' = request /\ InstalmentCount(request)' = InstalmentCount(request)
            /\ DueDates(request)' = DueDates(request)
        BY <2>1 DEF ComputeInstalments, InstalmentCount, DueDates
      <3> QED
        BY <1>2, <3>1, <3>2, <3>3 DEF PlanInv, Computed
    <2>2. CASE UNCHANGED vars
      BY <1>2, <2>2 DEF PlanInv, Computed, vars, InstalmentCount, DueDates
    <2> QED
      BY <1>2, <2>1, <2>2 DEF Next
  <1> QED
    BY <1>1, <1>2, PTL DEF Spec

-----------------------------------------------------------------------------
(* Amounts *)

(* "Guarantees sum === total": the invoices of a plan come to its fee.     *)
THEOREM InvoicesAddUp == Spec => []AmountsAddUp
  <1>1. ASSUME PlanInv
        PROVE  AmountsAddUp
    <2> SUFFICES ASSUME invoices # <<>>
                 PROVE  SumFunction(Amounts) = request.fee
      BY DEF AmountsAddUp
    <2> DEFINE n == InstalmentCount(request)
               parts == SplitTotalEvenly(request.fee, n)
    <2>1. /\ n \in Nat \ {0} /\ DOMAIN invoices = 1 .. n
          /\ \A i \in 1 .. n : invoices[i].amount = parts[i]
      BY <1>1 DEF PlanInv, Computed
    <2>2. request.fee \in Nat
      BY <1>1, CalendarAssumption DEF PlanInv, Requests
    <2> HIDE DEF n, parts
    <2>3. DOMAIN Amounts = 1 .. n /\ \A i \in 1 .. n : Amounts[i] = parts[i]
      BY <2>1 DEF Amounts
    <2>4. IsFiniteSet(1 .. n)
      BY <2>1, FS_Interval
    <2>5. SumFunction(Amounts) = Total(Amounts, 1 .. n)
      BY <2>3, <2>4, SumFunctionIsTotal DEF SumFunction
    <2>6. Total(Amounts, 1 .. n) = Total(parts, 1 .. n)
      BY <2>3, SameTotal
    <2> QED
      BY <2>1, <2>2, <2>5, <2>6, SplitAddsUp DEF parts
  <1> QED
    BY PlanInvariant, <1>1, PTL

(* The last invoice is never the smaller one, and exceeds the others by    *)
(* less than a cent for each instalment.                                   *)
THEOREM RoundingStaysSmall == Spec => []RoundingIsSmall
  <1>1. ASSUME PlanInv
        PROVE  RoundingIsSmall
    <2> SUFFICES ASSUME NEW i \in DOMAIN invoices, NEW j \in DOMAIN invoices, i < j
                 PROVE  invoices[j].amount - invoices[i].amount \in 0 .. InstalmentCount(request) - 1
      BY DEF RoundingIsSmall
    <2> DEFINE n == InstalmentCount(request)
               parts == SplitTotalEvenly(request.fee, n)
    <2>1. /\ n \in Nat \ {0} /\ DOMAIN invoices = 1 .. n
          /\ invoices[i].amount = parts[i] /\ invoices[j].amount = parts[j]
      <3>1. invoices # <<>>
        OBVIOUS
      <3>2. n \in Nat \ {0} /\ DOMAIN invoices = 1 .. n
            /\ \A k \in 1 .. n : invoices[k].amount = parts[k]
        BY <1>1, <3>1 DEF PlanInv, Computed
      <3> QED
        BY <3>2
    <2>2. request.fee \in Nat
      BY <1>1, CalendarAssumption DEF PlanInv, Requests
    <2>3. /\ \A k \in 1 .. n : k < n => parts[k] = request.fee \div n
          /\ parts[n] - request.fee \div n \in 0 .. n - 1
      BY <2>1, <2>2, SplitIsExact
    <2>4. request.fee \div n \in Nat
      BY <2>1, <2>2, DivMod
    <2>5. i \in 1 .. n /\ j \in 1 .. n
      BY <2>1
    <2> HIDE DEF n, parts
    <2>6. i < n /\ parts[i] = request.fee \div n
      BY <2>1, <2>3, <2>5
    <2>7. parts[j] - parts[i] \in 0 .. n - 1
      <3>1. CASE j < n
        <4>1. parts[j] = request.fee \div n
          BY <2>3, <2>5, <3>1
        <4> QED
          BY <2>1, <2>4, <2>6, <4>1
      <3>2. CASE j = n
        BY <2>3, <2>6, <3>2
      <3> QED
        BY <2>1, <2>5, <3>1, <3>2
    <2> QED
      BY <2>1, <2>7 DEF n
  <1> QED
    BY PlanInvariant, <1>1, PTL

-----------------------------------------------------------------------------
(* Due dates *)

LEMMA TimesGrows ==
    ASSUME NEW a \in Int, NEW b \in Int, a <= b, NEW m \in Nat
    PROVE  a * m <= b * m
  OBVIOUS

LEMMA DivGrows ==
    ASSUME NEW a \in Nat, NEW b \in Nat, a <= b, NEW m \in Nat \ {0}
    PROVE  a \div m \in Nat /\ a \div m <= b \div m
  OBVIOUS

LEMMA DivBounded ==
    ASSUME NEW x \in Nat, NEW d \in Nat, NEW m \in Nat \ {0}, x <= d * m
    PROVE  x \div m \in Nat /\ x \div m <= d
  OBVIOUS

(* First days of months follow one another. *)
LEMMA MonthsInOrder ==
    ASSUME NEW start \in Nat, NEW n \in Nat, NEW i \in 1 .. n, NEW j \in 1 .. n, i < j
    PROVE  LET days == GenerateMonthlyDates(start, n) IN days[i] <= days[j]
  <1> DEFINE month == start \div MonthLength
  <1>1. MonthLength \in Nat \ {0}
    BY CalendarAssumption
  <1>2. month \in Nat
    BY <1>1
  <1> HIDE DEF month
  <1>3. (month + i - 1) * MonthLength <= (month + j - 1) * MonthLength
    BY <1>1, <1>2, TimesGrows
  <1> QED
    BY <1>3 DEF GenerateMonthlyDates, month

(* The chunks of a session follow one another, none beyond its last day.   *)
LEMMA ChunksInOrder ==
    ASSUME NEW start \in Nat, NEW end \in Nat, start <= end, NEW n \in Nat \ {0}
    PROVE  LET days == GenerateSeasonalDates(start, end, n)
           IN  /\ days[n] = end
               /\ \A i \in 1 .. n : days[i] \in start .. end
               /\ \A i, j \in 1 .. n : i < j => days[i] <= days[j]
  <1> DEFINE length == (end - start) * HoursPerDay
             chunk == length \div n
             hours(i) == (chunk * i) \div HoursPerDay
             days == GenerateSeasonalDates(start, end, n)
  <1>1. HoursPerDay \in Nat \ {0}
    BY CalendarAssumption
  <1>2. end - start \in Nat /\ length \in Nat
    BY <1>1
  <1>3. \A i \in 1 .. n : days[i] = IF i = n THEN end ELSE start + hours(i)
    BY DEF GenerateSeasonalDates
  <1>4. chunk \in Nat /\ chunk * n <= length
    <2> HIDE DEF length
    <2> QED
      BY <1>2, DivMod
  <1> HIDE DEF chunk, days
  <1>5. ASSUME NEW i \in 1 .. n
        PROVE  chunk * i \in Nat /\ hours(i) \in 0 .. end - start
    <2>1. chunk * i <= chunk * n /\ chunk * i \in Nat
      BY <1>4, TimesGrows
    <2>2. chunk * i <= (end - start) * HoursPerDay
      <3>1. chunk * n \in Int
        BY <1>4
      <3> QED
        BY <1>2, <1>4, <2>1, <3>1
    <2>3. hours(i) \in Nat /\ hours(i) <= end - start
      BY <1>1, <1>2, <2>1, <2>2, DivBounded
    <2> QED
      BY <2>1, <2>3
  <1>6. ASSUME NEW i \in 1 .. n, NEW j \in 1 .. n, i < j
        PROVE  hours(i) <= hours(j)
    <2>1. chunk * i <= chunk * j
      BY <1>4, <1>6, TimesGrows
    <2> QED
      BY <1>1, <1>5, <2>1, DivGrows
  <1> HIDE DEF hours
  <1>7. days[n] = end
    BY <1>3
  <1>8. \A i \in 1 .. n : days[i] \in start .. end
    BY <1>3, <1>5
  <1>9. ASSUME NEW i \in 1 .. n, NEW j \in 1 .. n, i < j
        PROVE  days[i] <= days[j]
    <2>1. days[i] = start + hours(i)
      BY <1>3, <1>9
    <2>2. CASE j = n
      BY <1>7, <1>8, <2>2
    <2>3. CASE j # n
      BY <1>3, <1>5, <1>6, <1>9, <2>1, <2>3
    <2> QED
      BY <2>2, <2>3
  <1> QED
    BY <1>7, <1>8, <1>9 DEF days

(* Invoices fall due in the order of their numbers, and a seasonal plan is *)
(* due by the last day of the session and not before.                      *)
THEOREM DueDatesInOrder == Spec => []DueInOrder
  <1>1. ASSUME PlanInv
        PROVE  DueInOrder
    <2> SUFFICES ASSUME invoices # <<>> PROVE DueInOrder
      BY DEF DueInOrder
    <2> DEFINE n == InstalmentCount(request)
               days == DueDates(request)
    <2>1. /\ n \in Nat \ {0} /\ request.start <= request.end /\ DOMAIN invoices = 1 .. n
          /\ \A i \in 1 .. n : invoices[i].due = days[i]
      BY <1>1 DEF PlanInv, Computed
    <2>2. /\ request.start \in Nat /\ request.end \in Nat
          /\ request.planType \in {"FULL", "MONTHLY", "SEASONAL"}
      BY <1>1, CalendarAssumption DEF PlanInv, Requests, PlanTypes
    <2> HIDE DEF n, days
    <2>3. CASE request.planType = "FULL"
      <3>1. n = 1
        BY <2>3 DEF n, InstalmentCount
      <3> QED
        BY <2>1, <2>3, <3>1 DEF DueInOrder
    <2>4. CASE request.planType = "MONTHLY"
      <3>1. n = request.count /\ days = GenerateMonthlyDates(request.start, n)
        BY <2>4 DEF n, days, InstalmentCount, DueDates
      <3>2. \A i, j \in 1 .. n : i < j => days[i] <= days[j]
        BY <2>1, <2>2, <3>1, MonthsInOrder
      <3> QED
        BY <2>1, <2>4, <3>2 DEF DueInOrder
    <2>5. CASE request.planType = "SEASONAL"
      <3>1. n = request.count /\ days = GenerateSeasonalDates(request.start, request.end, n)
        BY <2>5 DEF n, days, InstalmentCount, DueDates
      <3>2. /\ days[n] = request.end
            /\ \A i \in 1 .. n : days[i] \in request.start .. request.end
            /\ \A i, j \in 1 .. n : i < j => days[i] <= days[j]
        BY <2>1, <2>2, <3>1, ChunksInOrder
      <3>3. n \in 1 .. n
        BY <2>1
      <3> QED
        BY <2>1, <3>1, <3>2, <3>3 DEF DueInOrder
    <2> QED
      BY <2>2, <2>3, <2>4, <2>5
  <1> QED
    BY PlanInvariant, <1>1, PTL
=============================================================================
