------------------------- MODULE MCSessionLifecycle -------------------------
(* Small instances of the session lifecycle for TLC. *)
EXTENDS SessionLifecycle, TLC

CONSTANTS r1, r2, r3, t1, t2

(* A window that is open all the time, one that opens as the other closes, *)
(* and two requests that are refused.                                      *)
Asked(status, open, close, first) ==
    [status |-> status, enrolOpenAt |-> open, enrolCloseAt |-> close,
     startDate |-> first, endDate |-> 1, locations |-> {"north"}]

SessionsAskedFor ==
    {Asked("OPEN", Never, 0, 0), Asked("DRAFT", 1, 1, 0), Asked("DRAFT", 1, 0, 0),
     Asked("DRAFT", Never, Never, 2)}

Scenarios == {{"updateStatus", "submitForm"}, {"updateLocation", "submitForm"},
              {"createSession", "addPaymentPlan"}, {"createLocation", "regenerateQr"}}

Callers == Permutations({r1, r2, r3}) \cup Permutations({t1, t2})
=============================================================================
