-------------------------- MODULE MCPaymentLedger --------------------------
(* Small instances of the payment ledger for TLC. *)
EXTENDS PaymentLedger, TLC

CONSTANTS k1, k2, r1, r2, r3

(* One half of the only invoice, if there is one, or both. *)
FirstHalf == {<<k1, 1, 1>>}
Halves == {<<k1, 1, 1>>, <<k2, 1, 1>>}

PlansAskedFor == {<<"MONTHLY", 2>>, <<"SEASONAL", 3>>, <<"FULL", 1>>}

ClearedOrOne == {NoFee, 1}

Callers == Permutations({r1, r2, r3})
=============================================================================
