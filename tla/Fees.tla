-------------------------------- MODULE Fees --------------------------------
(***************************************************************************)
(* Fee arithmetic: which fee an enrolment is charged, and how a fee is     *)
(* divided into instalments.  Amounts are whole cents.                     *)
(***************************************************************************)
EXTENDS Integers

CONSTANT NoFee   \* a fee override that is not set

(* Mutant of EnrolmentFee: a cleared override is taken for the fee. *)
EnrolmentFee_cleared(override, locationFee, baseFee) == override

(* The first that is set, in this order: the override of the enrolment, of *)
(* the session at its location, and the session's base fee.                *)
EnrolmentFee(override, locationFee, baseFee) ==
    IF override # NoFee THEN override
    ELSE IF locationFee # NoFee THEN locationFee
    ELSE baseFee

(* Mutant of SplitTotalEvenly: the remainder is dropped. *)
SplitTotalEvenly_noRemainder(cents, n) == [i \in 1 .. n |-> cents \div n]

(* Mutant of SplitTotalEvenly: the parts are rounded up. *)
SplitTotalEvenly_roundUp(cents, n) ==
    LET base == (cents + n - 1) \div n
    IN  [i \in 1 .. n |-> IF i = n THEN cents - base * (n - 1) ELSE base]

(* Equal parts, the remainder added to the last. *)
SplitTotalEvenly(cents, n) ==
    LET base == cents \div n
    IN  [i \in 1 .. n |-> IF i = n THEN base + (cents - base * n) ELSE base]
=============================================================================
