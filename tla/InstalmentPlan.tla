--------------------------- MODULE InstalmentPlan ---------------------------
(***************************************************************************)
(* The invoice schedule of a payment plan: how a fee is divided and when   *)
(* each part falls due.  Amounts are in cents.  A day is a number, counted *)
(* from a first day of a month; months are of equal length, since nothing  *)
(* here depends on which month is how long.                                *)
(***************************************************************************)
EXTENDS Fees, Functions

CONSTANTS
    MonthLength,  \* days in a month
    HoursPerDay,  \* seasonal deadlines fall within a day
    MaxFee,       \* bound: cents of a fee
    MaxCount,     \* bound: instalments of a plan
    MaxDay        \* bound: last day a session starts or ends

ASSUME CalendarAssumption ==
    /\ MonthLength \in Nat \ {0} /\ HoursPerDay \in Nat \ {0}
    /\ MaxFee \in Nat /\ MaxCount \in Nat \ {0} /\ MaxDay \in Nat

VARIABLES
    request,   \* what createPlanForEnrolment asks for
    invoices   \* the schedule, empty until it is computed

vars == <<request, invoices>>

PlanTypes == {"FULL", "MONTHLY", "SEASONAL"}

Requests ==
    [planType: PlanTypes, count: 0 .. MaxCount, fee: 0 .. MaxFee, start: 0 .. MaxDay, end: 0 .. MaxDay]

(* First days of n months, the month of the start included. *)
GenerateMonthlyDates(start, n) ==
    [i \in 1 .. n |-> (start \div MonthLength + i - 1) * MonthLength]

(* Mutant of GenerateSeasonalDates: the last chunk ends like the others. *)
GenerateSeasonalDates_chunks(start, end, n) ==
    LET chunk == ((end - start) * HoursPerDay) \div n
    IN  [i \in 1 .. n |-> start + (chunk * i) \div HoursPerDay]

(* Ends of n chunks of [start, end].  The column is a date: hours are cut. *)
GenerateSeasonalDates(start, end, n) ==
    LET chunk == ((end - start) * HoursPerDay) \div n
    IN  [i \in 1 .. n |-> IF i = n THEN end ELSE start + (chunk * i) \div HoursPerDay]

(* computeInstalments: a single invoice on the first day for FULL, else as *)
(* many as asked for.                                                      *)
InstalmentCount(q) == IF q.planType = "FULL" THEN 1 ELSE q.count

DueDates(q) ==
    CASE q.planType = "FULL"     -> [i \in {1} |-> q.start]
      [] q.planType = "MONTHLY"  -> GenerateMonthlyDates(q.start, q.count)
      [] q.planType = "SEASONAL" -> GenerateSeasonalDates(q.start, q.end, q.count)

Init == request \in Requests /\ invoices = <<>>

(* The function throws when the session ends before it starts, or when no  *)
(* instalment is asked for; FULL ignores the count.                        *)
ComputeInstalments ==
    /\ invoices = <<>>
    /\ request.start <= request.end
    /\ InstalmentCount(request) >= 1
    /\ LET n == InstalmentCount(request)
            amounts == SplitTotalEvenly(request.fee, n)
       IN  invoices' = [i \in 1 .. n |-> [amount |-> amounts[i], due |-> DueDates(request)[i]]]
    /\ UNCHANGED request

Next == ComputeInstalments

Spec == Init /\ [][Next]_vars

-----------------------------------------------------------------------------

Amounts == [i \in DOMAIN invoices |-> invoices[i].amount]

(* Type invariant: amounts are whole cents, none of them negative, and due *)
(* dates are days.                                                         *)
TypeOK ==
    /\ request \in Requests
    /\ \A i \in DOMAIN invoices : invoices[i] \in [amount: 0 .. MaxFee, due: Nat]

(* "Guarantees sum === total": however the fee divides, the invoices come  *)
(* to it exactly.                                                          *)
AmountsAddUp == invoices # <<>> => SumFunction(Amounts) = request.fee

(* Rounding costs the last invoice less than a cent for each instalment,   *)
(* and never makes it the smaller one.                                     *)
RoundingIsSmall ==
    \A i, j \in DOMAIN invoices :
        i < j => invoices[j].amount - invoices[i].amount \in 0 .. InstalmentCount(request) - 1

(* Invoices fall due in the order of their numbers, and a seasonal plan is *)
(* due by the last day of the session and not before.                      *)
DueInOrder ==
    /\ \A i, j \in DOMAIN invoices : i < j => invoices[i].due <= invoices[j].due
    /\ invoices # <<>> /\ request.planType = "SEASONAL" =>
          /\ invoices[request.count].due = request.end
          /\ \A i \in DOMAIN invoices : invoices[i].due \in request.start .. request.end
=============================================================================
