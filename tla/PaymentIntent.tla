---------------------------- MODULE PaymentIntent ----------------------------
(***************************************************************************)
(* What the router RPC makes of a request (routerrpc/router_backend.go):   *)
(* the payment to send for a SendPaymentRequest, and the route to look for *)
(* for a QueryRoutesRequest.  A result is {the payment} or {the route}, or *)
(* {} for an error.                                                        *)
(***************************************************************************)
EXTENDS Amounts, Sequences, SequencesExt, FiniteSets

CONSTANTS
    MaxTotalTimelock, DefaultFinalCltvDelta,
    BlockPadding,       \* blocks the router adds to a payment's final time lock
    MaxUint32,
    DefaultMaxParts

ASSUME LimitsAssumption ==
    /\ MaxUint32 \in Nat /\ MaxTotalTimelock \in 1 .. MaxUint32
    /\ DefaultFinalCltvDelta \in Nat /\ BlockPadding \in Nat

\* Without a limit the largest one applies; a larger one is an error.
ValidateCLTVLimit(val, max) ==
    IF val = 0 THEN {max} ELSE {val} \cap 1 .. max

\* Features of a destination: {} stands for none given, {set} for a set.
ValidFeatures(option) ==
    \A set \in option : "amp" \in set => "payment_addr" \in set

Supports(option, bit) == \E set \in option : bit \in set

-----------------------------------------------------------------------------
(* extractIntentFromSendRequest *)

\* What a SendPaymentRequest has; an option is {} or {the value}.
SendFields ==
    {"node", "timePref", "outgoing", "outgoings", "malformed", "cltvLimit", "maxParts", "feeSat",
     "feeMsat", "timeout", "sat", "msat", "invoice", "dest", "hash", "finalCltv", "addr", "amp",
     "features", "allowSelf", "routeHints"}

ValidSendRequest(r) ==
    /\ r.timePref \in -1 .. 1
    /\ r.outgoing = {} \/ r.outgoings = {}
    /\ ~ r.malformed
    /\ r.timeout # 0

\* Faulty: the clock is not looked at.
PaysInvoiceExpired(r, inv, amt, at) ==
    /\ r.dest = {} /\ r.hash = {} /\ r.finalCltv = 0
    /\ (inv.value = 0) = (amt # 0)
    /\ inv.amp => r.amp

\* A payment request stands for itself, must not have expired, names the amount
\* unless it has none, and is only paid by AMP if that was asked for.
PaysInvoice(r, inv, amt, at) ==
    /\ r.dest = {} /\ r.hash = {} /\ r.finalCltv = 0
    /\ at <= inv.expires
    /\ (inv.value = 0) = (amt # 0)
    /\ inv.amp => r.amp

InvoiceIntent(r, inv, amt) ==
    [target |-> inv.payee,
     amount |-> IF inv.value = 0 THEN amt ELSE inv.value,
     hash |-> IF inv.amp THEN {} ELSE {inv.hash},
     final |-> Uint16(inv.cltv),
     hints |-> r.routeHints \o inv.hints,
     addr |-> IF inv.amp /\ r.addr # {} THEN r.addr ELSE {inv.addr},
     parts |-> IF inv.amp \/ inv.mpp THEN r.maxParts ELSE 1]

\* Without a payment request the fields say it all.  AMP needs a destination
\* that supports it, which is assumed if no features are given, and a payment
\* address, which may be random.
PaysFields(r, amt) ==
    /\ amt # 0
    /\ ValidFeatures(r.features)
    /\ IF r.amp THEN r.features = {} \/ Supports(r.features, "amp") ELSE r.hash # {}

FieldsIntent(r, amt, dest) ==
    [target |-> dest,
     amount |-> amt,
     hash |-> IF r.amp THEN {} ELSE r.hash,
     final |-> IF r.finalCltv = 0 THEN DefaultFinalCltvDelta ELSE Uint16(r.finalCltv),
     hints |-> r.routeHints,
     addr |-> IF r.amp /\ r.addr = {} THEN {"random"} ELSE r.addr,
     parts |-> r.maxParts]

\* Bounds with the block padding, and no payment to oneself unless allowed.
Acceptable(r, i, limit) ==
    /\ limit > i.final + BlockPadding
    /\ r.allowSelf \/ i.target # r.node

\* r.invoice is {} or {the payment request}.
Intents(r, amt, at) ==
    IF r.invoice = {} THEN {FieldsIntent(r, amt, d) : d \in {x \in r.dest : PaysFields(r, amt)}}
    ELSE {InvoiceIntent(r, inv, amt) : inv \in {p \in r.invoice : PaysInvoice(r, p, amt, at)}}

ExtractIntent(request, at) ==
    LET r == [request EXCEPT !.maxParts = IF @ = 0 THEN DefaultMaxParts ELSE @]
    IN  {[i |-> i, limit |-> l, fee |-> f, outgoing |-> r.outgoing \cup r.outgoings] :
            i \in UNION {Intents(r, amt, at) : amt \in UnmarshallAmt(r.sat, r.msat)},
            l \in ValidateCLTVLimit(r.cltvLimit, MaxTotalTimelock),
            f \in UnmarshallAmt(r.feeSat, r.feeMsat)}

\* The payment, {} if the request is refused.
Payments(r, at) ==
    {p \in ExtractIntent(r, at) : ValidSendRequest(r) /\ Acceptable(r, p.i, p.limit)}

-----------------------------------------------------------------------------
(* parseQueryRoutesRequest *)

\* A blinded path replaces the target and all that describes it.
BlindedPayment(q) ==
    /\ q.dest = {} /\ q.routeHints = << >> /\ q.finalCltv = 0 /\ q.features = {}
    /\ q.blinded = <<"valid">>

FinalDelta(q) ==
    IF q.blinded # << >> THEN 0
    ELSE IF q.finalCltv # 0 THEN Uint16(q.finalCltv) ELSE DefaultFinalCltvDelta

\* Faulty: the final time lock may be as large as the limit and more.
ValidQueryUnbounded(q, limit) ==
    ~ q.malformed /\ (IF q.blinded # << >> THEN BlindedPayment(q) ELSE q.dest # {})

ValidQuery(q, limit) ==
    /\ ~ q.malformed
    /\ IF q.blinded # << >> THEN BlindedPayment(q)
       ELSE q.dest # {} /\ limit > FinalDelta(q)

\* {the route to look for}.  The node's own limit only binds routes that start
\* there; the final time lock is no part of what path finding may use up.
RouteRequests(q) ==
    LET source == IF q.source = {} THEN q.node ELSE CHOOSE s \in q.source : TRUE
        max == IF source = q.node THEN MaxTotalTimelock ELSE MaxUint32
    IN  {[source |-> source, target |-> q.dest, amount |-> amt,
          fee |-> CalculateFeeLimit(q.feeLimit, amt),
          limit |-> (limit - FinalDelta(q)) % (MaxUint32 + 1),
          final |-> FinalDelta(q)] :
            limit \in {l \in ValidateCLTVLimit(q.cltvLimit, max) : ValidQuery(q, l)},
            amt \in UnmarshallAmt(q.sat, q.msat)}

\* An ignored node forwards nothing and an ignored pair carries nothing; without
\* mission control everything else is certain.
Probability(q, from, to, estimate) ==
    IF from \in q.ignoredNodes \/ <<from, to>> \in q.ignoredPairs THEN 0
    ELSE IF q.useMissionControl THEN estimate ELSE 1

-----------------------------------------------------------------------------
(* Properties *)

\* A payment that is sent is the one the request describes.  One by invoice has
\* the invoice's amount, or the one asked for if it names none, and the
\* invoice's time lock, hash and hints, and is sent before the invoice expires.
\* Amounts and time locks are those asked for unless they do not fit; the limit
\* always leaves room for the final time lock and the padding.
MeansSendRequest(r, inv, at, p) ==
    LET asked == Asked(r.sat, r.msat)
        i == p.i
        fee == Asked(r.feeSat, r.feeMsat)
        cltv == IF r.finalCltv = 0 THEN DefaultFinalCltvDelta ELSE r.finalCltv
    IN  /\ i.final + BlockPadding < p.limit /\ p.limit <= MaxTotalTimelock
        /\ i.target = r.node => r.allowSelf
        /\ i.hash = {} => r.amp
        /\ i.amount > 0
        /\ Fits(fee) => p.fee = fee
        /\ Fits(asked) => i.amount \in {asked} \cup {v.value : v \in inv}
        /\ inv = {} /\ cltv \in 0 .. 2^CltvBits - 1 => i.final = cltv
        /\ \A v \in inv :
              /\ at <= v.expires
              /\ v.value # 0 => i.amount = v.value
              /\ i.final = v.cltv /\ i.target = v.payee
              /\ i.hash \subseteq {v.hash} /\ IsSuffix(v.hints, i.hints)

\* A route to look for keeps within the limits of the request and of the node,
\* its final time lock included, and never passes through what is ignored.
MeansQuery(q, route) ==
    /\ route.limit > 0
    /\ q.cltvLimit # 0 => route.limit + route.final = q.cltvLimit
    /\ route.source = q.node => route.limit + route.final <= MaxTotalTimelock
    /\ (route.target = {}) = (q.blinded # << >>)
    /\ Fits(Asked(q.sat, q.msat)) => route.amount = Asked(q.sat, q.msat)
    /\ \A pair \in q.ignoredPairs : Probability(q, pair[1], pair[2], 1) = 0
=============================================================================
