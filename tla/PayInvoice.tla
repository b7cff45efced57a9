------------------------------ MODULE PayInvoice ------------------------------
(***************************************************************************)
(* An invoice from its request to its payment: the payee's AddInvoice and  *)
(* AddHoldInvoice, a payer's SendPaymentV2 up to the payment it hands to   *)
(* its router, the payment's arrival at the payee's registry, and          *)
(* SettleInvoice and CancelInvoice (invoicesrpc/invoices_server.go).       *)
(***************************************************************************)
EXTENDS InvoiceCreation, FeeEstimation, MissionControl

CONSTANTS
    Payee,           \* the node that adds the invoices
    SendRequests,    \* SendPaymentRequests, with the hash of the invoice they pay
    QueryRequests    \* QueryRoutesRequests

\* A payer has one payment request or none.
ASSUME SendAssumption ==
    \A r \in SendRequests :
        /\ DOMAIN r = SendFields
        /\ {r.sat, r.msat, r.feeSat, r.feeMsat, r.finalCltv} \subseteq Int
        /\ r.invoice \subseteq Hashes /\ \A g, h \in r.invoice : g = h
        /\ r.routeHints \in Seq(ToSet(r.routeHints))

ASSUME QueryAssumption ==
    \A q \in QueryRequests :
        /\ {q.sat, q.msat, q.finalCltv} \subseteq Int /\ q.cltvLimit \in Nat
        /\ \A pair \in q.ignoredPairs : pair = <<pair[1], pair[2]>>

VARIABLES
    sent,     \* {} or {the payment under way, with its request and its time}
    told      \* told[h]: the outcomes that clients were told of successfully

vars == <<addVars, sent, told>>

Init ==
    /\ AddInit
    /\ sent = {}
    /\ told = [h \in Hashes |-> {}]

\* The payment requests of the invoices that are there.
PaymentRequests(hashes) ==
    {[value |-> invoices[h].value, hints |-> invoices[h].hints, cltv |-> invoices[h].cltv,
      expires |-> invoices[h].expires, amp |-> invoices[h].amp, mpp |-> invoices[h].mpp,
      hash |-> h, addr |-> h, payee |-> Payee] :
        h \in {x \in hashes : invoices[x] # NoInvoice}}

SendPaymentV2(request) ==
    /\ sent = {}
    /\ request.invoice # {} => PaymentRequests(request.invoice) # {}
    /\ LET r == [request EXCEPT !.invoice = PaymentRequests(request.invoice)]
       IN  \E p \in Payments(r, now) : sent' = {[req |-> r, payment |-> p, at |-> now]}
    /\ UNCHANGED <<addVars, told>>

-----------------------------------------------------------------------------
(* The payee's registry, external *)

\* A payment that pays an open invoice in full settles it, or is held for the
\* client of a hold invoice.  Other payments fail, and so may this one.
PaymentEnds ==
    /\ \E s \in sent :
          \/ UNCHANGED invoices
          \/ \E h \in s.payment.i.hash \cup s.payment.i.addr :
                /\ h \in Hashes /\ s.payment.i.target = Payee
                /\ invoices[h].state = "open"
                /\ invoices[h].amp = (s.payment.i.hash = {})
                /\ s.payment.i.amount >= invoices[h].value
                /\ invoices' = [invoices EXCEPT ![h].state =
                                  IF invoices[h].hodl THEN "accepted" ELSE "settled"]
    /\ sent' = {}
    /\ UNCHANGED <<chan, now, call, calls, told>>

\* Expired invoices are canceled, and so are held payments that time out.
InvoiceEnds(h) ==
    /\ \/ invoices[h].state = "open" /\ now > invoices[h].expires
       \/ invoices[h].state = "accepted"
    /\ invoices' = [invoices EXCEPT ![h].state = "canceled"]
    /\ UNCHANGED <<chan, now, call, calls, sent, told>>

-----------------------------------------------------------------------------
(* The calls on an invoice *)

\* Faulty: every error is taken for one that says the invoice is settled.
SettleAnswerLenient(h) == "ok"

\* SettleHodlInvoice settles an accepted invoice; "already settled" is no error.
SettleAnswer(h) == IF invoices[h].state \in {"accepted", "settled"} THEN "ok" ELSE "error"

\* The answer to a call that did its work may be lost.
SettleInvoice(h) ==
    /\ invoices' = IF invoices[h].state = "accepted"
                   THEN [invoices EXCEPT ![h].state = "settled"] ELSE invoices
    /\ told' \in {told, IF SettleAnswer(h) = "ok" THEN [told EXCEPT ![h] = @ \cup {"settled"}]
                        ELSE told}
    /\ UNCHANGED <<chan, now, call, calls, sent>>

CancelAnswer(h) ==
    IF invoices[h].state \in {"open", "accepted", "canceled"} THEN "ok" ELSE "error"

CancelInvoice(h) ==
    /\ invoices' = IF invoices[h].state \in {"open", "accepted"}
                   THEN [invoices EXCEPT ![h].state = "canceled"] ELSE invoices
    /\ told' \in {told, IF CancelAnswer(h) = "ok" THEN [told EXCEPT ![h] = @ \cup {"canceled"}]
                        ELSE told}
    /\ UNCHANGED <<chan, now, call, calls, sent>>

Next ==
    \/ AddNext /\ UNCHANGED <<sent, told>>
    \/ \E r \in SendRequests : SendPaymentV2(r)
    \/ PaymentEnds
    \/ \E h \in Hashes : InvoiceEnds(h) \/ SettleInvoice(h) \/ CancelInvoice(h)

Spec == Init /\ [][Next]_vars

-----------------------------------------------------------------------------
(* Properties *)

TypeOK ==
    /\ AddTypeOK
    /\ Cardinality(sent) <= 1
    /\ \A s \in sent : s.at \in 0 .. now /\ s.payment.i.amount \in 0 .. 2^AmtBits - 1
    /\ told \in [Hashes -> SUBSET {"settled", "canceled"}]

PaymentMeansRequest ==
    \A s \in sent : MeansSendRequest(s.req, s.req.invoice, s.at, s.payment)

QueriesMeanRequests == \A q \in QueryRequests : \A route \in RouteRequests(q) : MeansQuery(q, route)

\* The router RPC's estimates, exported results and settings; see MeansEstimate,
\* ExportIsImported and ConfigIsKept.
EstimatesKept == EstimatesMeanInvoices /\ ExportIsImported /\ ConfigIsKept

\* From the request for an invoice to the estimate of its fee and the payment of
\* it, amounts, time locks, hints and hashes are the ones asked for; see
\* InvoiceMeansRequest, MeansSendRequest and MeansQuery.
RequestsKept ==
    InvoiceMeansRequest /\ PaymentMeansRequest /\ QueriesMeanRequests /\ EstimatesKept

\* However SettleInvoice and CancelInvoice race, with each other, with payments
\* and with time, and are repeated after a lost answer, they never both succeed
\* for one invoice, and what was told is so: "if the invoice is already settled,
\* this call will succeed", "if the invoice is already settled, it will fail".
OneOutcomeTold ==
    \A h \in Hashes : \A outcome \in told[h] : invoices[h].state = outcome
=============================================================================
