--------------------------- MODULE MCSafetyGateway --------------------------
(* Instances of SafetyGateway for TLC. *)
EXTENDS SafetyGateway

CONSTANTS c1, c2, u1, u2, pay, repay, sale, order

\* Two payments of one invoice (the same intent, other amounts) and a sale and
\* a quotation with the same lines, whose intent keys are equal as well.
MCFingerprintOf == [p \in Proposals |-> p]
MCIntentOf == [p \in Proposals |-> IF p \in {pay, repay} THEN "debt" ELSE "cart"]

Ask(c, u, p) == [cmd |-> c, user |-> u, prop |-> p]

\* One command is confirmed for a payment, once more by another principal, and
\* sent again with another amount; a second card holds the same payment.
PaymentRequests == {Ask(c1, u1, pay), Ask(c1, u2, pay), Ask(c1, u1, repay),
                    Ask(c2, u1, pay)}
OverlapRequests == {Ask(c1, u1, sale), Ask(c1, u2, sale), Ask(c2, u1, order)}
\* Two cards of one sale.
OrderRequests == {Ask(c1, u1, sale), Ask(c2, u1, sale)}
\* One card.
OnePayment == {Ask(c1, u1, pay)}
OneSale == {Ask(c1, u1, sale)}
=============================================================================
