---------------------------- MODULE FeeEstimation ----------------------------
(***************************************************************************)
(* EstimateRouteFee (routerrpc/router_server.go): a destination is looked  *)
(* up in the graph, a payment request is probed with a payment that the    *)
(* payee cannot settle.  If all route hints end in the same node, that     *)
(* node is taken for a service provider (LSP), which may not let probes    *)
(* through: the probe ends there, and the last hop is added by hand.       *)
(* SendPaymentV2 takes the probe for any other payment (PaymentIntent).    *)
(***************************************************************************)
EXTENDS PaymentIntent, FiniteSetsExt

CONSTANTS
    RouteFeeLimit,   \* routeFeeLimitSat
    Millionths,      \* parts of an amount that a fee rate counts (1,000,000)
    ProbedInvoices   \* decoded payment requests: amount and addr are options, a
                     \* hop hint has node, base, ppm and cltv

MaxInt32 == MaxUint32 \div 2

Widths(hop) ==
    /\ {hop.base, hop.ppm} \subseteq 0 .. MaxUint32
    /\ hop.cltv \in 0 .. 2^CltvBits - 1

\* An invoice has at most one amount, and hints made of hops.
ASSUME ProbedAssumption ==
    /\ Millionths \in Nat \ {0} /\ RouteFeeLimit \in Int
    /\ 2^CltvBits - 1 <= MaxInt32
    /\ \A inv \in ProbedInvoices :
          /\ inv.amount \subseteq 0 .. 2^AmtBits - 1 /\ \A a, b \in inv.amount : a = b
          /\ inv.cltv \in Nat
          /\ inv.hints \in Seq(ToSet(inv.hints))
          /\ \A hint \in ToSet(inv.hints) :
                hint \in Seq(ToSet(hint)) /\ \A hop \in ToSet(hint) : Widths(hop)

NoHop == [base |-> 0, ppm |-> 0]

HopFee(hop, amt) == hop.base + (amt * hop.ppm) \div Millionths

\* An invoice states its time lock as a uint64, and a request takes an int32.
Int32(x) ==
    LET bits == x % (MaxUint32 + 1) IN IF bits <= MaxInt32 THEN bits ELSE bits - MaxUint32 - 1

LastHops(hints) == {Last(hints[i]) : i \in {j \in DOMAIN hints : hints[j] # << >>}}

-----------------------------------------------------------------------------
(* Service providers *)

\* Empty hints are skipped, but not the first.
IsLSP(hints) ==
    /\ hints # << >> /\ hints[1] # << >>
    /\ \A hop \in LastHops(hints) : hop.node = Last(hints[1]).node

\* Faulty: the base fee and the fee rate of two hints are put together.
MaxLspFeeMixed(hints, amt) ==
    [base |-> Max({hop.base : hop \in LastHops(hints)}),
     ppm |-> Max({hop.ppm : hop \in LastHops(hints)})]

\* Base fee and fee rate of the hint that is the most expensive for this amount;
\* of several the first is taken, but only its fee matters.
MaxLspFee(hints, amt) ==
    CHOOSE max \in {[base |-> hop.base, ppm |-> hop.ppm] : hop \in LastHops(hints)} \cup {NoHop} :
        \A hop \in LastHops(hints) : HopFee(max, amt) >= HopFee(hop, amt)

MaxLspCltvDelta(hints) == Max({hop.cltv : hop \in LastHops(hints)} \cup {0})

\* The hints without their last hops; those of one hop are dropped.
AdjustedHints(hints) ==
    LET Remains(hint) == Len(hint) > 1
        stripped == SelectSeq(hints, Remains)
    IN  [i \in DOMAIN stripped |-> Front(stripped[i])]

\* Every hint is indexed by its length less one.
PrepareLspRouteHints(hints, amt) ==
    [hints |-> AdjustedHints(hints),
     node |-> Last(hints[1]).node,
     fee |-> HopFee(MaxLspFee(hints, amt), amt),
     cltv |-> MaxLspCltvDelta(hints)]

-----------------------------------------------------------------------------
(* probePaymentRequest *)

\* The amount and the payment address are dereferenced before anybody asks
\* whether the invoice has them, and so are the last hops of the hints of an LSP.
ProbePanics(inv) ==
    \/ inv.amount = {}
    \/ inv.amount # {0} /\ inv.addr = {}
    \/ inv.amount # {0} /\ IsLSP(inv.hints) /\ << >> \in ToSet(inv.hints)

Probe(node, inv, timeout) ==
    [node |-> node, timePref |-> 0, outgoing |-> {}, outgoings |-> {}, malformed |-> FALSE,
     cltvLimit |-> 0, maxParts |-> 1, feeSat |-> RouteFeeLimit, feeMsat |-> 0,
     timeout |-> timeout, sat |-> 0, msat |-> CHOOSE a \in inv.amount : TRUE, invoice |-> {},
     dest |-> {inv.payee}, hash |-> {"random"}, finalCltv |-> Int32(inv.cltv), addr |-> inv.addr,
     amp |-> FALSE, features |-> inv.features, allowSelf |-> FALSE, routeHints |-> inv.hints]

LspProbe(node, inv, timeout) ==
    LET probe == Probe(node, inv, timeout)
        lsp == PrepareLspRouteHints(inv.hints, probe.msat)
    IN  [probe EXCEPT !.dest = {lsp.node}, !.routeHints = lsp.hints,
                      !.msat = @ + lsp.fee, !.finalCltv = lsp.cltv]

\* {the probe and what is added to the fee and the time lock that it finds}, or
\* {} for an error or a panic.
ProbePaymentRequest(node, inv, timeout) ==
    IF ProbePanics(inv) \/ inv.amount = {0} THEN {}
    ELSE IF IsLSP(inv.hints)
    THEN {[request |-> LspProbe(node, inv, timeout), delay |-> inv.cltv,
           fee |-> LspProbe(node, inv, timeout).msat - Probe(node, inv, timeout).msat]}
    ELSE {[request |-> Probe(node, inv, timeout), fee |-> 0, delay |-> 0]}

\* probeDestination: a route in the graph.  The fee limit is handed over as it
\* is, in satoshis, where millisatoshis are asked for.
ProbeDestination(node, dest, sat) ==
    {[source |-> node, target |-> {d}, amount |-> amt, fee |-> RouteFeeLimit,
      limit |-> MaxTotalTimelock, final |-> DefaultFinalCltvDelta] :
        d \in dest, amt \in IF sat > 0 THEN {Uint64(sat * MsatPerSat)} ELSE {}}

\* A payment request and a destination exclude each other.
EstimateRouteFee(node, dest, sat, invoice, timeout) ==
    IF (dest = {}) = (invoice = {}) THEN {}
    ELSE ProbeDestination(node, dest, sat)
         \cup UNION {ProbePaymentRequest(node, inv, timeout) : inv \in invoice}

-----------------------------------------------------------------------------
(* Properties *)

\* The estimate for an LSP's invoice covers the payment by any of its hints and
\* is that of one of them: the probe brings to the LSP what the dearest hint
\* needs to pay the invoice, and with the time lock of the slowest one, but if
\* no hint has a time lock the payment gets the default.  No probe is settled or
\* goes to the payee of such an invoice, and any other goes to the payee with
\* the invoice's own terms, if its time lock is one that a payment can have.
MeansEstimate(inv, probe, payment) ==
    LET amt == CHOOSE a \in inv.amount : TRUE
        fees == {HopFee(hop, amt) : hop \in LastHops(inv.hints)}
        deltas == {hop.cltv : hop \in LastHops(inv.hints)}
        nodes == {hop.node : hop \in LastHops(inv.hints)}
        lsp == inv.hints # << >> /\ inv.hints[1] # << >> /\ Cardinality(nodes) = 1
        i == payment.i
    IN  /\ i.hash = {"random"} /\ i.parts = 1
        /\ i.amount = Uint64(amt + probe.fee)
        /\ lsp => /\ i.target \in nodes
                  /\ probe.fee = Max(fees) /\ probe.delay = inv.cltv
                  /\ i.final = IF Max(deltas) = 0 THEN DefaultFinalCltvDelta ELSE Max(deltas)
        /\ ~ lsp => /\ i.target = inv.payee /\ i.hints = inv.hints
                    /\ probe.fee = 0 /\ probe.delay = 0
                    /\ inv.cltv \in 1 .. 2^CltvBits - 1 => i.final = inv.cltv

EstimatesMeanInvoices ==
    \A inv \in ProbedInvoices : \A probe \in EstimateRouteFee("self", {}, 0, {inv}, 1) :
        \A payment \in Payments(probe.request, 0) : MeansEstimate(inv, probe, payment)
=============================================================================
