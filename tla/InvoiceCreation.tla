--------------------------- MODULE InvoiceCreation ---------------------------
(***************************************************************************)
(* AddInvoice (invoicesrpc/addinvoice.go): the request is checked, private *)
(* channels are chosen as hop hints from a list that was read once, each   *)
(* by what the switch and the graph say of it at that moment, and the      *)
(* invoice is handed to lnd's registry.  Peers, gossip and payments change *)
(* the channels meanwhile.                                                 *)
(***************************************************************************)
EXTENDS Amounts, Sequences, SequencesExt, FiniteSets, FiniteSetsExt

CONSTANTS
    Chans,          \* open channels, each known by its scid
    PublicChans,    \* the announced ones
    Alias,          \* Alias[c]: scid alias of a channel with option_scid_alias
    ChanStates,     \* states of a channel that switch and graph may report
    Hashes,         \* payment hashes; a preimage is known by its hash
    RandomHashes,   \* those of preimages that are drawn at random
    AddRequests,    \* requests for invoices
    OldInvoices,    \* invoices the registry may have at the start
    MaxHopHints, MaxInvoiceAmt, DefaultInvoiceExpiry, DefaultAMPInvoiceExpiry,
    MaxExpiry, DefaultCLTVExpiry, MinCLTVDelta, MaxCLTVDelta,
    MaxChanges,     \* bound on the channels that change during a call
    MaxCalls,       \* bound on the calls
    MaxTime         \* bound on the clock

ASSUME InvoiceAssumption ==
    /\ IsFiniteSet(Chans) /\ PublicChans \subseteq Chans /\ DOMAIN Alias \subseteq Chans
    /\ \A s \in ChanStates : s.balance \in Nat
    /\ RandomHashes \subseteq Hashes
    /\ DefaultCLTVExpiry \in MinCLTVDelta .. MaxCLTVDelta
    /\ MinCLTVDelta \in Nat /\ MaxCLTVDelta \in 0 .. 2^CltvBits - 1
    /\ {MaxInvoiceAmt, MaxHopHints, MaxCalls, MaxTime} \subseteq Nat

\* What the registry may have is an invoice as InsertInvoice makes it, in a state
\* that it may have come to.
ASSUME OldInvoicesAssumption ==
    \A old \in OldInvoices :
        /\ DOMAIN old =
              {"state", "value", "hints", "expires", "cltv", "amp", "mpp", "hodl"}
        /\ old.state \in {"open", "accepted", "settled", "canceled"}
        /\ old.value \in 0 .. 2^AmtBits - 1 /\ old.cltv \in 0 .. 2^CltvBits - 1
        /\ old.hints \in Seq(ToSet(old.hints))

ASSUME AddRequestsAssumption ==
    \A d \in AddRequests :
        /\ {"sat", "msat", "preimage", "amp", "hash", "hodl", "private", "routeHints"}
              \subseteq DOMAIN d
        /\ {d.sat, d.msat} \subseteq Int /\ d.routeHints \in Seq(ToSet(d.routeHints))

VARIABLES
    chan,       \* chan[c]: active, peerPublic, policy, alias and balance while a
                \* call looks at it
    invoices,   \* invoices[h]: lnd's invoice registry
    now,        \* the clock
    call,       \* the AddInvoice call under way
    calls       \* number of calls begun

addVars == <<chan, invoices, now, call, calls>>

HopHintFactor == 2
NoInvoice == [state |-> "none"]
Idle == [stage |-> "idle"]
Unobserved == << >>

-----------------------------------------------------------------------------
(* What a request may ask for: {the value}, or {} for an error *)

\* A preimage is known unless only its hash is given, or the invoice is an AMP
\* invoice, which has none.
PaymentHashAndPreimage(d) ==
    {k \in [hash : Hashes, preimage : BOOLEAN] :
        /\ k.preimage = (~ d.amp /\ d.hash = {})
        /\ IF d.amp THEN d.preimage = {} ELSE d.preimage = {} \/ d.hash = {}
        /\ d.hash \cup d.preimage \subseteq {k.hash}
        /\ d.hash \cup d.preimage = {} =>
              k.hash \in RandomHashes /\ invoices[k.hash] = NoInvoice}

\* Faulty: only the sign is looked at.
ValueUnlimited(d) == {v \in UnmarshallAmt(d.sat, d.msat) : Int64(v) >= 0}

Value(d) ==
    {v \in UnmarshallAmt(d.sat, d.msat) :
        Int64(v) >= 0 /\ v \div MsatPerSat <= MaxInvoiceAmt}

Expiry(d) ==
    IF d.expiry > 0 THEN {d.expiry} \cap 1 .. MaxExpiry
    ELSE {IF d.amp THEN DefaultAMPInvoiceExpiry ELSE DefaultInvoiceExpiry}

CltvExpiry(d) ==
    IF d.cltv = 0 THEN {DefaultCLTVExpiry} ELSE {d.cltv} \cap MinCLTVDelta .. MaxCLTVDelta

\* A malformed request is one whose memo, description hash, fallback address or
\* hints cannot be used.
Terms(d) ==
    {[hash |-> k.hash, preimage |-> k.preimage, value |-> v, expiry |-> e, cltv |-> f] :
        k \in {x \in PaymentHashAndPreimage(d) :
                  ~ d.malformed /\ Len(d.routeHints) <= MaxHopHints
                  /\ << >> \notin ToSet(d.routeHints)},
        v \in Value(d), e \in Expiry(d), f \in CltvExpiry(d)}

\* The data AddHoldInvoice makes of its request: a hash and never a preimage.
HoldInvoice(d) == [d EXCEPT !.preimage = {}, !.amp = FALSE, !.hodl = TRUE]

-----------------------------------------------------------------------------
(* Hop hints *)

\* Requested hints whose first hop is a channel of ours exclude that channel.
AlreadyIncluded(d) == {Head(d.routeHints[i]) : i \in DOMAIN d.routeHints}

HintScid(c) == IF c \in DOMAIN Alias THEN Alias[c] ELSE c

\* Faulty: a peer that nobody announced is told to the payer.
CanBeHopHintUnadvertised(c) == chan[c].active /\ chan[c].policy

\* policy: the graph has the peer's policy, under the scid or the confirmed one.
CanBeHopHint(c) == chan[c].active /\ chan[c].peerPublic /\ chan[c].policy

ShouldIncludeChannel(c) ==
    /\ c \notin AlreadyIncluded(call.data)
    /\ CanBeHopHint(c)
    /\ c \in DOMAIN Alias => chan[c].alias /\ Alias[c] \notin AlreadyIncluded(call.data)

\* The private channels in descending order of the peer's balance; sort.Slice
\* leaves equal ones in any order.
PotentialHints(channels) ==
    {o \in SetToSeqs(Chans \ PublicChans) :
        \A i, j \in DOMAIN o : i < j => channels[o[i]].balance >= channels[o[j]].balance}

\* Faulty: only the incoming capacity counts.
SufficientHintsAnyNumber ==
    call.terms.value # 0 /\ call.bandwidth >= HopHintFactor * call.terms.value

SufficientHints ==
    \/ call.left <= 0
    \/ call.terms.value # 0 /\ call.bandwidth >= HopHintFactor * call.terms.value

-----------------------------------------------------------------------------
(* A call *)

AddInit ==
    /\ chan = Unobserved
    /\ \E old \in [Hashes \ RandomHashes -> OldInvoices \cup {NoInvoice}] :
          invoices = [h \in Hashes |-> IF h \in RandomHashes THEN NoInvoice ELSE old[h]]
    /\ now = 0
    /\ call = Idle /\ calls = 0

\* The request is checked.  If private channels are wanted as hints and there is
\* room for them, they are listed, in whatever state they are.
PopulateHopHints(d) ==
    /\ call = Idle /\ calls < MaxCalls
    /\ calls' = calls + 1
    /\ \E t \in Terms(d), channels \in [Chans \ PublicChans -> ChanStates] :
          \E o \in PotentialHints(channels) :
             LET new == [stage |-> "adding", data |-> d, terms |-> t, order |-> << >>,
                         left |-> MaxHopHints - Len(d.routeHints), bandwidth |-> 0,
                         selected |-> << >>, shuffled |-> FALSE,
                         changed |-> {}, stale |-> {}]
                 Listed(i) == [chan |-> o[i], balance |-> channels[o[i]].balance]
             IN  IF d.private /\ new.left > 0
                 THEN /\ call' = [new EXCEPT !.stage = "selecting",
                                            !.order = [i \in DOMAIN o |-> Listed(i)]]
                      /\ chan' = channels
                 ELSE call' = new /\ UNCHANGED chan
    /\ UNCHANGED <<invoices, now>>

\* Enough hints: the loop returns at once.
ReturnHints ==
    /\ call.stage = "selecting" /\ call.order # << >> /\ SufficientHints
    /\ call' = [call EXCEPT !.stage = "adding"]
    /\ UNCHANGED <<chan, invoices, now, calls>>

\* Faulty: hints are counted but not the incoming capacity they stand for.
SelectHopHintUncounted ==
    /\ call.stage = "selecting" /\ call.order # << >> /\ ~ SufficientHints
    /\ LET c == Head(call.order).chan
       IN  call' = IF ShouldIncludeChannel(c)
                   THEN [call EXCEPT !.order = Tail(@), !.left = @ - 1,
                                     !.selected = Append(@, c)]
                   ELSE [call EXCEPT !.order = Tail(@)]
    /\ UNCHANGED <<chan, invoices, now, calls>>

SelectHopHint ==
    /\ call.stage = "selecting" /\ call.order # << >> /\ ~ SufficientHints
    /\ LET c == Head(call.order).chan
       IN  call' = IF ShouldIncludeChannel(c)
                   THEN [call EXCEPT !.order = Tail(@), !.left = @ - 1,
                                     !.bandwidth = @ + Head(call.order).balance,
                                     !.selected = Append(@, c)]
                   ELSE [call EXCEPT !.order = Tail(@)]
    /\ UNCHANGED <<chan, invoices, now, calls>>

\* No channel is left: the hints are shuffled.
ShuffleHints ==
    /\ call.stage = "selecting" /\ call.order = << >>
    /\ \E s \in SetToSeqs(ToSet(call.selected)) :
          call' = [call EXCEPT !.stage = "adding", !.selected = s, !.shuffled = TRUE]
    /\ UNCHANGED <<chan, invoices, now, calls>>

\* The payment request is encoded and the registry takes the invoice, unless it
\* has one with this hash; or encoding or adding fails.
InsertInvoice ==
    /\ call.stage = "adding"
    /\ LET t == call.terms
           hints == call.data.routeHints
                    \o [i \in DOMAIN call.selected |-> <<HintScid(call.selected[i])>>]
       IN  \/ /\ invoices[t.hash] = NoInvoice
              /\ invoices' = [invoices EXCEPT ![t.hash] =
                    [state |-> "open", value |-> t.value, hints |-> hints,
                     expires |-> now + t.expiry, cltv |-> t.cltv, amp |-> call.data.amp,
                     mpp |-> call.data.mpp, hodl |-> call.data.hodl]]
           \/ UNCHANGED invoices
    /\ call' = Idle /\ chan' = Unobserved
    /\ UNCHANGED <<now, calls>>

\* Peers come and go, graph entries appear and vanish, payments move balances.
ChannelChanges(c) ==
    /\ chan # Unobserved /\ Cardinality(call.changed \cup {c}) <= MaxChanges
    /\ \E s \in ChanStates \ {chan[c]} : chan' = [chan EXCEPT ![c] = s]
    /\ call' = [call EXCEPT !.changed = @ \cup {c},
                            !.stale = @ \cup ({c} \cap ToSet(call.selected))]
    /\ UNCHANGED <<invoices, now, calls>>

TimePasses ==
    /\ now < MaxTime
    /\ now' = now + 1
    /\ UNCHANGED <<chan, invoices, call, calls>>

AddInvoice == \E d \in AddRequests : PopulateHopHints(IF d.hodl THEN HoldInvoice(d) ELSE d)

AddNext ==
    \/ AddInvoice \/ ReturnHints \/ SelectHopHint \/ ShuffleHints \/ InsertInvoice
    \/ (\E c \in Chans \ PublicChans : ChannelChanges(c)) \/ TimePasses

-----------------------------------------------------------------------------
(* Properties *)

AddTypeOK ==
    /\ chan \in [Chans \ PublicChans -> ChanStates] \cup {Unobserved}
    /\ now \in 0 .. MaxTime /\ calls \in 0 .. MaxCalls
    /\ call.stage \in {"idle", "selecting", "adding"}
    /\ call # Idle =>
          /\ IsInjective(call.selected) /\ ToSet(call.selected) \subseteq Chans
          /\ call.left \in 0 .. MaxHopHints
          /\ call.stale \subseteq call.changed /\ call.changed \subseteq Chans
    /\ \A h \in Hashes : invoices[h] # NoInvoice =>
          invoices[h].state \in {"open", "accepted", "settled", "canceled"}

\* Every hint that was not asked for is a private channel of the node that a
\* payer can use and whose peer is public, unless it has changed since it was
\* looked at, and no hint of the request names it already, by scid or by alias.
HintsUsable ==
    call # Idle => \A c \in ToSet(call.selected) :
        /\ c \notin PublicChans /\ call.data.private
        /\ c \in call.stale \/ (chan[c].active /\ chan[c].peerPublic /\ chan[c].policy)
        /\ {c, HintScid(c)} \cap AlreadyIncluded(call.data) = {}

Capacity(channels, set) ==
    LET Balance(c) == channels[c].balance IN MapThenSumSet(Balance, set)

\* Whether these channels would be enough hints for the call.
Suffice(set) ==
    \/ Cardinality(set) >= MaxHopHints - Len(call.data.routeHints)
    \/ call.terms.value # 0 /\ Capacity(chan, set) >= HopHintFactor * call.terms.value

\* "We limit our number of hop hints like this to keep our invoice size down,
\* and to avoid leaking all our private channels when we don't need to"
\* (sufficientHints): if no channel changed, the channels chosen are the best
\* ones, they suffice or there are no others, and without the least of them they
\* would not.
HintsNeeded ==
    call.stage = "adding" /\ chan # Unobserved /\ call.changed = {} =>
        LET chosen == ToSet(call.selected)
            usable == {c \in Chans \ PublicChans : ShouldIncludeChannel(c)}
        IN  /\ chosen \subseteq usable
            /\ Suffice(chosen) \/ chosen = usable
            /\ \A c \in chosen, o \in usable \ chosen : chan[c].balance >= chan[o].balance
            /\ \A c \in chosen :
                  (\A o \in chosen : chan[c].balance <= chan[o].balance) => ~ Suffice(chosen \ {c})

HintsRight == HintsUsable /\ HintsNeeded

\* selectHopHints: "We do not want to leak information about how our remote
\* balance is distributed in our private channels. We shuffle the selected ones
\* here so they do not appear in order in the invoice."
HintsShuffled ==
    call.stage = "adding" /\ Len(call.selected) > 1 => call.shuffled

\* An invoice is for the amount asked for, if an amount can hold it, and for at
\* most the largest amount whatever is asked.
InvoiceMeansRequest ==
    call # Idle =>
        LET asked == Asked(call.data.sat, call.data.msat) IN
        /\ Fits(asked) => call.terms.value = asked
        /\ call.terms.value < (MaxInvoiceAmt + 1) * MsatPerSat
        /\ call.terms.preimage = (~ call.data.amp /\ call.data.hash = {})
=============================================================================
