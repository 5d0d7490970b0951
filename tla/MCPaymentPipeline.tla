------------------------- MODULE MCPaymentPipeline -------------------------
(* Small instances of the payment pipeline for TLC. *)
EXTENDS PaymentPipeline

CONSTANTS w1, w2, h1, h2, c1, c2, s1, n1, n2, a1, a2

(* Each scenario has the processes that can get in each other's way. *)
Scenarios == {{w1}, {w1, w2}, {w1, h1, h2}, {w1, h1, a1}, {w1, s1}, {s1, c1, c2}, {n1, n2}, {n1, a1, a2}}

Moyasar(ref, status) ==
    [gateway |-> "MOYASAR", signed |-> TRUE, parses |-> TRUE, ref |-> ref, status |-> status,
     amount |-> 1]

(* Results of two payments for one invoice, and one that is turned down, as *)
(* one whose body does not parse is.                                        *)
Reported ==
    {Moyasar("g1", "COMPLETED"), Moyasar("g1", "FAILED"), Moyasar("g2", "COMPLETED"),
     [Moyasar("g1", "COMPLETED") EXCEPT !.gateway = "OFFLINE"]}

OneInvoice(ref) == "i1"

(* As many results as can be reordered with what else goes on. *)
FewEvents(processes) ==
    CASE processes = {w1} -> 3 [] {w2, h2} \cap processes # {} -> 2 [] OTHER -> 1
DueNextDay(i) == 1

Welcome == RegistrationOutcome("p1", <<"u1">>)
SomeErrands == {Welcome, WaitlistOffer("e1", 1), PasswordReset(1), GuardianMagicLink(1)}

Messages ==
    UNION {ToSet(messages) :
        messages \in SomeErrands \cup {FeeInvoice(i) : i \in Invoices}
                    \cup {PaymentConfirm(k) : k \in Refs}
                    \cup {PaymentReminder(i, w) : i \in Invoices, w \in Waves}}

NoAddress == ToSet(GuardianConfirmation("p1"))
Everybody == UNION Scenarios
=============================================================================
