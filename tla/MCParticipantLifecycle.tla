----------------------- MODULE MCParticipantLifecycle -----------------------
(* Small instances of the participant lifecycle for TLC. *)
EXTENDS ParticipantLifecycle, TLC

CONSTANTS k1, k2, r1, r2, s1, s2, d1, d2

OnePayment == {<<k1, 1, 0>>}
TwoPayments == {<<k1, 1, 0>>, <<k2, 1, 0>>}

NoPlans == {<<"FULL", 1>>}

RequiredDocuments == [d \in Documents |-> IF d = d1 THEN "BIRTH_CERTIFICATE" ELSE "ID_PHOTO"]

(* The payments are alike, and so are the calls that verify them and the staff. *)
Interchangeable == Permutations({k1, k2}) \cup Permutations({r1, r2}) \cup Permutations({s1, s2})
=============================================================================
