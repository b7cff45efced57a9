--------------------------- MODULE PayInvoice_proofs ---------------------------
(***************************************************************************)
(* Proofs about PayInvoice, for any hashes, requests and channels and any  *)
(* number of calls.  Three things are shown: what clients are told of an   *)
(* invoice is so (OutcomeInv); the hop hints of an invoice can be used and *)
(* are the best and the fewest there were (CallInv, ChoiceInv); and from   *)
(* the request on, an invoice, a payment of it, a query for routes, an     *)
(* estimate and mission control's data mean what was asked for             *)
(* (RegistryInv, SentInv).                                                 *)
(***************************************************************************)
EXTENDS PayInvoice, SequenceTheorems, FiniteSetTheorems, WellFoundedInduction, TLAPS

-----------------------------------------------------------------------------
(* Outcomes *)

\* Every invoice has a state, from which and from what was told the two calls'
\* answers follow: an outcome that was told is the state, so no action that
\* needs an open or an accepted invoice is enabled for it any more.
OutcomeInv ==
    /\ told \in [Hashes -> SUBSET {"settled", "canceled"}]
    /\ DOMAIN invoices = Hashes
    /\ \A h \in Hashes : "state" \in DOMAIN invoices[h]
    /\ OneOutcomeTold

\* Changing the state of an invoice of which nothing was told keeps OutcomeInv.
LEMMA UntoldMayChange ==
    ASSUME OutcomeInv, NEW h \in Hashes, told[h] = {}, NEW s,
           invoices' = [invoices EXCEPT ![h].state = s],
           told' = told
    PROVE  OutcomeInv'
<1>1. invoices'[h].state = s /\ "state" \in DOMAIN invoices'[h]
  BY DEF OutcomeInv
<1>2. \A g \in Hashes \ {h} : invoices'[g] = invoices[g]
  BY DEF OutcomeInv
<1>3. DOMAIN invoices' = Hashes
  BY DEF OutcomeInv
<1> QED BY <1>1, <1>2, <1>3 DEF OutcomeInv, OneOutcomeTold

LEMMA InitOutcome == Init => OutcomeInv
<1> SUFFICES ASSUME Init PROVE OutcomeInv
  OBVIOUS
<1>1. PICK old \in [Hashes \ RandomHashes -> OldInvoices \cup {NoInvoice}] :
         invoices = [h \in Hashes |-> IF h \in RandomHashes THEN NoInvoice ELSE old[h]]
  BY DEF Init, AddInit
<1>2. "state" \in DOMAIN NoInvoice
  BY DEF NoInvoice
<1>3. ASSUME NEW h \in Hashes PROVE "state" \in DOMAIN invoices[h]
  <2>1. CASE h \in RandomHashes
    BY <1>1, <1>2, <2>1
  <2>2. CASE h \notin RandomHashes
    <3>1. invoices[h] = old[h] /\ old[h] \in OldInvoices \cup {NoInvoice}
      BY <1>1, <2>2
    <3> QED BY <3>1, <1>2, OldInvoicesAssumption DEF OldInvoicesAssumption
  <2> QED BY <2>1, <2>2
<1>4. told = [h \in Hashes |-> {}]
  BY DEF Init
<1>5. told \in [Hashes -> SUBSET {"settled", "canceled"}] /\ OneOutcomeTold
  BY <1>4 DEF OneOutcomeTold
<1> QED BY <1>1, <1>3, <1>5 DEF OutcomeInv

\* The registry takes a new invoice only where there was none.
LEMMA InsertOutcome == OutcomeInv /\ InsertInvoice /\ UNCHANGED told => OutcomeInv'
<1> SUFFICES ASSUME OutcomeInv, InsertInvoice, told' = told PROVE OutcomeInv'
  OBVIOUS
<1>1. CASE UNCHANGED invoices
  BY <1>1 DEF OutcomeInv, OneOutcomeTold
<1>2. CASE ~ UNCHANGED invoices
  <2> DEFINE t == call.terms
             h == t.hash
             hints == call.data.routeHints
                      \o [i \in DOMAIN call.selected |-> <<HintScid(call.selected[i])>>]
             new == [state |-> "open", value |-> t.value, hints |-> hints,
                     expires |-> now + t.expiry, cltv |-> t.cltv, amp |-> call.data.amp,
                     mpp |-> call.data.mpp, hodl |-> call.data.hodl]
  <2>1. invoices[h] = NoInvoice /\ invoices' = [invoices EXCEPT ![h] = new]
    BY <1>2 DEF InsertInvoice
  <2>2. "state" \in DOMAIN new
    OBVIOUS
  <2> HIDE DEF new
  <2>3. /\ DOMAIN invoices' = Hashes
        /\ \A g \in Hashes : invoices'[g] = IF g = h THEN new ELSE invoices[g]
    BY <2>1 DEF OutcomeInv
  <2>4. h \in Hashes => told[h] = {}
    <3>1. NoInvoice.state # "settled" /\ NoInvoice.state # "canceled"
      BY DEF NoInvoice
    <3> QED BY <3>1, <2>1 DEF OutcomeInv, OneOutcomeTold
  <2> QED BY <2>2, <2>3, <2>4 DEF OutcomeInv, OneOutcomeTold
<1> QED BY <1>1, <1>2

LEMMA NextOutcome == OutcomeInv /\ [Next]_vars => OutcomeInv'
<1> SUFFICES ASSUME OutcomeInv, [Next]_vars PROVE OutcomeInv'
  OBVIOUS
<1>0. \A h \in Hashes : invoices[h].state \notin {"settled", "canceled"} => told[h] = {}
  BY DEF OutcomeInv, OneOutcomeTold
<1>1. CASE UNCHANGED <<invoices, told>>
  BY <1>1 DEF OutcomeInv, OneOutcomeTold
<1>2. CASE AddNext /\ UNCHANGED <<sent, told>>
  <2>1. CASE InsertInvoice
    BY <1>2, <2>1, InsertOutcome
  <2>2. CASE ~ InsertInvoice
    <3>1. UNCHANGED invoices
      BY <1>2, <2>2 DEF AddNext, AddInvoice, PopulateHopHints, ReturnHints, SelectHopHint,
                        ShuffleHints, ChannelChanges, TimePasses
    <3> QED BY <1>1, <1>2, <3>1
  <2> QED BY <2>1, <2>2
<1>3. ASSUME NEW r \in SendRequests, SendPaymentV2(r) PROVE OutcomeInv'
  BY <1>1, <1>3 DEF SendPaymentV2, addVars
<1>4. CASE PaymentEnds
  <2>1. CASE UNCHANGED invoices
    BY <1>1, <1>4, <2>1 DEF PaymentEnds
  <2>2. CASE ~ UNCHANGED invoices
    <3>1. PICK h \in Hashes :
            /\ invoices[h].state = "open"
            /\ invoices' = [invoices EXCEPT ![h].state =
                               IF invoices[h].hodl THEN "accepted" ELSE "settled"]
      BY <1>4, <2>2 DEF PaymentEnds
    <3>2. told' = told
      BY <1>4 DEF PaymentEnds
    <3> QED BY <1>0, <3>1, <3>2, UntoldMayChange
  <2> QED BY <2>1, <2>2
<1>5. ASSUME NEW h \in Hashes, InvoiceEnds(h) PROVE OutcomeInv'
  BY <1>0, <1>5, UntoldMayChange DEF InvoiceEnds
<1>6. ASSUME NEW h \in Hashes, SettleInvoice(h) PROVE OutcomeInv'
  <2>1. /\ DOMAIN invoices' = Hashes
        /\ \A g \in Hashes \ {h} : invoices'[g] = invoices[g]
        /\ "state" \in DOMAIN invoices'[h]
    BY <1>6 DEF SettleInvoice, OutcomeInv
  <2>2. invoices'[h].state = IF invoices[h].state = "accepted" THEN "settled"
                             ELSE invoices[h].state
    BY <1>6 DEF SettleInvoice, OutcomeInv
  <2>3. \/ told' = told
        \/ /\ invoices[h].state \in {"accepted", "settled"}
           /\ told' = [told EXCEPT ![h] = @ \cup {"settled"}]
    BY <1>6 DEF SettleInvoice, SettleAnswer
  <2>4. told' \in [Hashes -> SUBSET {"settled", "canceled"}]
    BY <2>3 DEF OutcomeInv
  <2>5. ASSUME NEW g \in Hashes, NEW outcome \in told'[g] PROVE invoices'[g].state = outcome
    <3>1. CASE g # h
      BY <2>1, <2>3, <2>5, <3>1 DEF OutcomeInv, OneOutcomeTold
    <3>2. CASE g = h
      <4>1. CASE told' = told
        BY <1>0, <2>2, <2>5, <3>2, <4>1 DEF OutcomeInv, OneOutcomeTold
      <4>2. CASE told' # told
        <5>1. outcome \in told[h] \cup {"settled"}
          BY <2>3, <2>5, <3>2, <4>2 DEF OutcomeInv
        <5>2. outcome \in told[h] => invoices[h].state = outcome
          BY DEF OutcomeInv, OneOutcomeTold
        <5> QED BY <1>0, <2>2, <2>3, <3>2, <4>2, <5>1, <5>2
      <4> QED BY <4>1, <4>2
    <3> QED BY <3>1, <3>2
  <2> QED BY <2>1, <2>4, <2>5 DEF OutcomeInv, OneOutcomeTold
<1>7. ASSUME NEW h \in Hashes, CancelInvoice(h) PROVE OutcomeInv'
  <2>1. /\ DOMAIN invoices' = Hashes
        /\ \A g \in Hashes \ {h} : invoices'[g] = invoices[g]
        /\ "state" \in DOMAIN invoices'[h]
    BY <1>7 DEF CancelInvoice, OutcomeInv
  <2>2. invoices'[h].state = IF invoices[h].state \in {"open", "accepted"} THEN "canceled"
                             ELSE invoices[h].state
    BY <1>7 DEF CancelInvoice, OutcomeInv
  <2>3. \/ told' = told
        \/ /\ invoices[h].state \in {"open", "accepted", "canceled"}
           /\ told' = [told EXCEPT ![h] = @ \cup {"canceled"}]
    BY <1>7 DEF CancelInvoice, CancelAnswer
  <2>4. told' \in [Hashes -> SUBSET {"settled", "canceled"}]
    BY <2>3 DEF OutcomeInv
  <2>5. ASSUME NEW g \in Hashes, NEW outcome \in told'[g] PROVE invoices'[g].state = outcome
    <3>1. CASE g # h
      BY <2>1, <2>3, <2>5, <3>1 DEF OutcomeInv, OneOutcomeTold
    <3>2. CASE g = h
      <4>1. CASE told' = told
        BY <1>0, <2>2, <2>5, <3>2, <4>1 DEF OutcomeInv, OneOutcomeTold
      <4>2. CASE told' # told
        <5>1. outcome \in told[h] \cup {"canceled"}
          BY <2>3, <2>5, <3>2, <4>2 DEF OutcomeInv
        <5>2. outcome \in told[h] => invoices[h].state = outcome
          BY DEF OutcomeInv, OneOutcomeTold
        <5> QED BY <1>0, <2>2, <2>3, <3>2, <4>2, <5>1, <5>2
      <4> QED BY <4>1, <4>2
    <3> QED BY <3>1, <3>2
  <2> QED BY <2>1, <2>4, <2>5 DEF OutcomeInv, OneOutcomeTold
<1>8. CASE UNCHANGED vars
  BY <1>1, <1>8 DEF vars, addVars
<1> QED BY <1>2, <1>3, <1>4, <1>5, <1>6, <1>7, <1>8 DEF Next

LEMMA OutcomeAlways == Spec => []OutcomeInv
<1>1. Init => OutcomeInv
  BY InitOutcome
<1>2. OutcomeInv /\ [Next]_vars => OutcomeInv'
  BY NextOutcome
<1> QED BY <1>1, <1>2, PTL DEF Spec

\* SettleInvoice and CancelInvoice never both succeed for one invoice, however
\* they race with payments, expiry and each other and however often they are
\* repeated, and what a client was told is and stays the invoice's state.
THEOREM OutcomesAgree == Spec => []OneOutcomeTold
<1>1. OutcomeInv => OneOutcomeTold
  BY DEF OutcomeInv
<1> QED BY <1>1, OutcomeAlways, PTL

-----------------------------------------------------------------------------
(* The call that adds an invoice *)

Private == Chans \ PublicChans
Listing == [chan: Private, balance: {s.balance : s \in ChanStates}]

CallFields == {"stage", "data", "terms", "order", "left", "bandwidth", "selected",
               "shuffled", "changed", "stale"}

\* Whoever can be a hint in k's invoice, or could when it was looked at.
HintUsable(k, c) ==
    /\ c \in k.stale \/ (chan[c].active /\ chan[c].peerPublic /\ chan[c].policy)
    /\ {c, HintScid(c)} \cap AlreadyIncluded(k.data) = {}

\* Channels are listed, and chosen from the list, only if private channels are
\* wanted; and the terms are those of the request.
CallInv ==
    call = Idle \/
      /\ DOMAIN call = CallFields /\ call.stage \in {"selecting", "adding"}
      /\ call.order \in Seq(Listing) /\ call.selected \in Seq(Private)
      /\ call.stage = "selecting" \/ call.selected # << >> =>
            call.data.private /\ DOMAIN chan = Private
      /\ \A i \in 1 .. Len(call.selected) : HintUsable(call, call.selected[i])
      /\ {call.data.sat, call.data.msat} \subseteq Int
      /\ call.terms.value \in Value(call.data)
      /\ call.terms.preimage = (~ call.data.amp /\ call.data.hash = {})

LEMMA IdleStage == Idle.stage = "idle"
  BY DEF Idle

\* What CallInv says of a call under way.
LEMMA CallSet ==
    ASSUME CallInv, call.stage # "idle"
    PROVE  /\ DOMAIN call = CallFields
           /\ call.order \in Seq(Listing) /\ call.selected \in Seq(Private)
           /\ call.stage = "selecting" \/ call.selected # << >> =>
                 call.data.private /\ DOMAIN chan = Private
           /\ \A i \in 1 .. Len(call.selected) : HintUsable(call, call.selected[i])
           /\ {call.data.sat, call.data.msat} \subseteq Int
           /\ call.terms.value \in Value(call.data)
           /\ call.terms.preimage = (~ call.data.amp /\ call.data.hash = {})
  BY IdleStage DEF CallInv

\* The terms of a request, which a hold invoice changes but for its amounts.
LEMMA DataFacts ==
    ASSUME NEW d \in AddRequests, NEW e \in {d, HoldInvoice(d)}
    PROVE  {e.sat, e.msat} \subseteq Int
<1>1. HoldInvoice(d).sat = d.sat /\ HoldInvoice(d).msat = d.msat
  BY AddRequestsAssumption DEF HoldInvoice, AddRequestsAssumption
<1> QED BY <1>1, AddRequestsAssumption DEF AddRequestsAssumption

\* Terms have a value that was checked, and a preimage unless a hash was given.
LEMMA TermsFacts ==
    ASSUME NEW d, NEW t \in Terms(d)
    PROVE  t.value \in Value(d) /\ t.preimage = (~ d.amp /\ d.hash = {})
  BY DEF Terms, PaymentHashAndPreimage

\* The list of private channels, in whatever order.
LEMMA ListingType ==
    ASSUME NEW channels \in [Private -> ChanStates], NEW o \in PotentialHints(channels)
    PROVE  [i \in DOMAIN o |-> [chan |-> o[i], balance |-> channels[o[i]].balance]]
              \in Seq(Listing)
<1>1. IsFiniteSet(Private)
  BY InvoiceAssumption, FS_Subset DEF InvoiceAssumption, Private
<1>2. Cardinality(Private) \in Nat
  BY <1>1, FS_CardinalityType
<1>3. o \in [1 .. Cardinality(Private) -> Private]
  BY DEF PotentialHints, SetToSeqs, Private
<1>4. \A i \in 1 .. Cardinality(Private) :
         [chan |-> o[i], balance |-> channels[o[i]].balance] \in Listing
  BY <1>3 DEF Listing
<1> QED BY <1>2, <1>3, <1>4

\* A call begins with no hint chosen.
LEMMA PopulateCall ==
    ASSUME NEW d, {d.sat, d.msat} \subseteq Int, PopulateHopHints(d)
    PROVE  CallInv'
<1> DEFINE New(t) == [stage |-> "adding", data |-> d, terms |-> t, order |-> << >>,
                      left |-> MaxHopHints - Len(d.routeHints), bandwidth |-> 0,
                      selected |-> << >>, shuffled |-> FALSE,
                      changed |-> {}, stale |-> {}]
           Listed(channels, o) ==
               [i \in DOMAIN o |-> [chan |-> o[i], balance |-> channels[o[i]].balance]]
<1>0. PICK t \in Terms(d), channels \in [Private -> ChanStates] :
        \E o \in PotentialHints(channels) :
           IF d.private /\ New(t).left > 0
           THEN /\ call' = [New(t) EXCEPT !.stage = "selecting", !.order = Listed(channels, o)]
                /\ chan' = channels
           ELSE call' = New(t) /\ UNCHANGED chan
  BY DEF PopulateHopHints, Private
<1>1. PICK o \in PotentialHints(channels) :
        IF d.private /\ New(t).left > 0
        THEN /\ call' = [New(t) EXCEPT !.stage = "selecting", !.order = Listed(channels, o)]
             /\ chan' = channels
        ELSE call' = New(t) /\ UNCHANGED chan
  BY <1>0
<1>2. t.value \in Value(d) /\ t.preimage = (~ d.amp /\ d.hash = {})
  BY TermsFacts
<1>3. Listed(channels, o) \in Seq(Listing)
  BY ListingType
<1>4. /\ DOMAIN call' = CallFields /\ call'.stage \in {"selecting", "adding"}
      /\ call'.data = d /\ call'.terms = t /\ call'.selected = << >>
      /\ call'.order \in Seq(Listing)
      /\ call'.stage = "selecting" => d.private /\ chan' = channels
  <2> DEFINE l == Listed(channels, o)
             n == New(t)
  <2>1. l \in Seq(Listing) /\ << >> \in Seq(Listing)
    BY <1>3
  <2>2. /\ DOMAIN n = CallFields /\ n.stage = "adding" /\ n.data = d /\ n.terms = t
        /\ n.selected = << >> /\ n.order = << >>
    BY DEF CallFields
  <2> HIDE DEF l, n
  <2>3. \/ /\ call' = [n EXCEPT !.stage = "selecting", !.order = l]
           /\ chan' = channels /\ d.private
        \/ call' = n
    BY <1>1 DEF l, n
  <2>4. CASE call' = n
    BY <2>1, <2>2, <2>4
  <2>5. CASE call' = [n EXCEPT !.stage = "selecting", !.order = l]
    BY <2>1, <2>2, <2>3, <2>5 DEF CallFields
  <2> QED BY <2>3, <2>4, <2>5
<1>5. Value(d)' = Value(d)
  BY DEF Value
<1> QED BY <1>2, <1>4, <1>5 DEF CallInv

\* The step of a call that goes on: what it may change is the stage, the list and
\* the channels chosen.
LEMMA GoesOn ==
    ASSUME CallInv, call.stage = "selecting",
           DOMAIN call' = CallFields, call'.stage \in {"selecting", "adding"},
           call'.data = call.data, call'.terms = call.terms, call'.stale = call.stale,
           call'.order \in Seq(Listing), call'.selected \in Seq(Private), chan' = chan,
           \A i \in 1 .. Len(call'.selected) : HintUsable(call, call'.selected[i])
    PROVE  CallInv'
<1>1. \A c : HintUsable(call, c) => HintUsable(call, c)'
  BY DEF HintUsable, HintScid, AlreadyIncluded
<1>2. Value(call.data)' = Value(call.data)
  BY DEF Value
<1> QED BY <1>1, <1>2, CallSet DEF CallInv

LEMMA ReturnHintsCall == ASSUME CallInv, ReturnHints PROVE CallInv'
<1>1. call.stage = "selecting" /\ call' = [call EXCEPT !.stage = "adding"] /\ chan' = chan
  BY DEF ReturnHints
<1>2. /\ DOMAIN call' = CallFields /\ call'.stage = "adding"
      /\ call'.data = call.data /\ call'.terms = call.terms /\ call'.stale = call.stale
      /\ call'.order = call.order /\ call'.selected = call.selected
  BY <1>1, CallSet DEF CallFields
<1> QED BY <1>1, <1>2, CallSet, GoesOn

\* A channel that is chosen can be used, and a call keeps those it chose.
LEMMA SelectCall == ASSUME CallInv, SelectHopHint PROVE CallInv'
<1> DEFINE c == Head(call.order).chan
<1>1. call.stage = "selecting" /\ call.order # << >> /\ chan' = chan
  BY DEF SelectHopHint
<1>2. /\ DOMAIN call = CallFields
      /\ call.order \in Seq(Listing) /\ call.selected \in Seq(Private)
      /\ \A i \in 1 .. Len(call.selected) : HintUsable(call, call.selected[i])
  BY <1>1, CallSet
<1>3. c \in Private /\ Tail(call.order) \in Seq(Listing)
  <2>1. Head(call.order) \in Listing /\ Tail(call.order) \in Seq(Listing)
    BY <1>1, <1>2, HeadTailProperties
  <2> QED BY <2>1 DEF Listing
<1> HIDE DEF c
<1>4. CASE ShouldIncludeChannel(c)
  <2> DEFINE s == Append(call.selected, c)
  <2>1. call' = [call EXCEPT !.order = Tail(@), !.left = @ - 1,
                             !.bandwidth = @ + Head(call.order).balance, !.selected = s]
    BY <1>4 DEF SelectHopHint, c
  <2>2. /\ s \in Seq(Private)
        /\ \A i \in 1 .. Len(s) : \/ s[i] = c
                                 \/ /\ i \in 1 .. Len(call.selected)
                                    /\ s[i] = call.selected[i]
    <3>1. /\ s \in Seq(Private) /\ Len(s) = Len(call.selected) + 1
          /\ \A i \in 1 .. Len(call.selected) : s[i] = call.selected[i]
          /\ s[Len(call.selected) + 1] = c
      BY <1>2, <1>3, AppendProperties
    <3>2. Len(call.selected) \in Nat
      BY <1>2
    <3> HIDE DEF s
    <3> QED BY <3>1, <3>2
  <2> HIDE DEF s
  <2>3. /\ DOMAIN call' = CallFields /\ call'.stage = call.stage
        /\ call'.data = call.data /\ call'.terms = call.terms /\ call'.stale = call.stale
        /\ call'.order = Tail(call.order) /\ call'.selected = s
    BY <1>2, <2>1 DEF CallFields
  <2>4. HintUsable(call, c)
    BY <1>4 DEF ShouldIncludeChannel, CanBeHopHint, HintUsable, HintScid
  <2>5. \A i \in 1 .. Len(s) : HintUsable(call, s[i])
    BY <1>2, <2>2, <2>4
  <2> QED BY <1>1, <1>3, <2>2, <2>3, <2>5, GoesOn
<1>5. CASE ~ ShouldIncludeChannel(c)
  <2>1. call' = [call EXCEPT !.order = Tail(@)]
    BY <1>5 DEF SelectHopHint, c
  <2>2. /\ DOMAIN call' = CallFields /\ call'.stage = call.stage
        /\ call'.data = call.data /\ call'.terms = call.terms /\ call'.stale = call.stale
        /\ call'.order = Tail(call.order) /\ call'.selected = call.selected
    BY <1>2, <2>1 DEF CallFields
  <2> QED BY <1>1, <1>2, <1>3, <2>2, GoesOn
<1> QED BY <1>4, <1>5

\* Shuffling changes the order of the hints and none of them.
LEMMA ShuffleCall == ASSUME CallInv, ShuffleHints PROVE CallInv'
<1>1. PICK s \in SetToSeqs(ToSet(call.selected)) :
        call' = [call EXCEPT !.stage = "adding", !.selected = s, !.shuffled = TRUE]
  BY DEF ShuffleHints
<1>2. call.stage = "selecting" /\ chan' = chan
  BY DEF ShuffleHints
<1>3. /\ DOMAIN call = CallFields /\ call.order \in Seq(Listing)
      /\ call.selected \in Seq(Private)
      /\ \A i \in 1 .. Len(call.selected) : HintUsable(call, call.selected[i])
  BY <1>2, CallSet
<1> DEFINE chosen == ToSet(call.selected)
<1>4. chosen \subseteq Private /\ \A x \in chosen : HintUsable(call, x)
  BY <1>3 DEF ToSet
<1>5. s \in Seq(Private) /\ \A i \in 1 .. Len(s) : s[i] \in chosen
  <2>1. IsFiniteSet(chosen)
    BY <1>4, InvoiceAssumption, FS_Subset DEF InvoiceAssumption, Private
  <2>2. Cardinality(chosen) \in Nat
    BY <2>1, FS_CardinalityType
  <2>3. s \in [1 .. Cardinality(chosen) -> chosen]
    BY DEF SetToSeqs
  <2> HIDE DEF chosen
  <2> QED BY <1>4, <2>2, <2>3
<1> HIDE DEF chosen
<1>6. /\ DOMAIN call' = CallFields /\ call'.stage = "adding"
      /\ call'.data = call.data /\ call'.terms = call.terms /\ call'.stale = call.stale
      /\ call'.order = call.order /\ call'.selected = s
  BY <1>1, <1>3 DEF CallFields
<1>7. \A i \in 1 .. Len(s) : HintUsable(call, s[i])
  BY <1>4, <1>5
<1> QED BY <1>2, <1>3, <1>5, <1>6, <1>7, GoesOn

\* A channel that changes after it was chosen is known to be stale.
LEMMA ChangeCall == ASSUME CallInv, NEW c \in Private, ChannelChanges(c) PROVE CallInv'
<1>1. PICK s \in ChanStates : chan' = [chan EXCEPT ![c] = s]
  BY DEF ChannelChanges
<1>2. call' = [call EXCEPT !.changed = @ \cup {c},
                           !.stale = @ \cup ({c} \cap ToSet(call.selected))]
  BY DEF ChannelChanges
<1>3. CASE call = Idle
  <2>1. call' = call
    BY <1>2, <1>3 DEF Idle
  <2> QED BY <1>3, <2>1 DEF CallInv, Idle
<1>4. CASE call # Idle
  <2>1. call.stage # "idle" /\ DOMAIN call = CallFields
    BY <1>4 DEF CallInv
  <2>2. /\ DOMAIN call' = CallFields /\ call'.stage = call.stage
        /\ call'.data = call.data /\ call'.terms = call.terms
        /\ call'.order = call.order /\ call'.selected = call.selected
        /\ call'.stale = call.stale \cup ({c} \cap ToSet(call.selected))
    BY <1>2, <2>1 DEF CallFields
  <2>3. DOMAIN chan' = DOMAIN chan /\ \A d \in DOMAIN chan \ {c} : chan'[d] = chan[d]
    BY <1>1
  <2>4. ASSUME NEW x \in Private, HintUsable(call, x), x \in ToSet(call.selected),
               DOMAIN chan = Private
        PROVE  HintUsable(call, x)'
    <3>1. x \in call'.stale \/ chan'[x] = chan[x]
      BY <2>2, <2>3, <2>4
    <3>2. call.stale \subseteq call'.stale /\ call'.data = call.data
      BY <2>2
    <3> QED BY <2>4, <3>1, <3>2 DEF HintUsable, HintScid, AlreadyIncluded
  <2>6. ASSUME NEW i \in 1 .. Len(call'.selected)
        PROVE  HintUsable(call, call.selected[i])'
    <3>1. /\ call.selected[i] \in Private /\ HintUsable(call, call.selected[i])
          /\ DOMAIN chan = Private /\ call.selected[i] \in ToSet(call.selected)
      BY <2>1, <2>2, <2>6, CallSet DEF ToSet
    <3>2. PICK x \in Private : x = call.selected[i] /\ x = call'.selected[i]
      BY <2>2, <3>1
    <3>3. HintUsable(call, x)'
      BY <2>4, <3>1, <3>2
    <3> QED BY <3>2, <3>3
  <2>5. Value(call.data)' = Value(call.data)
    BY <2>2 DEF Value
  <2> QED BY <1>4, <2>1, <2>2, <2>3, <2>6, <2>5, CallSet DEF CallInv
<1> QED BY <1>3, <1>4

LEMMA SameCall == CallInv /\ UNCHANGED <<call, chan>> => CallInv'
<1> SUFFICES ASSUME CallInv, call' = call, chan' = chan PROVE CallInv'
  OBVIOUS
<1>1. \A c : HintUsable(call, c) => HintUsable(call, c)'
  BY DEF HintUsable, HintScid, AlreadyIncluded
<1>2. Value(call.data)' = Value(call.data)
  BY DEF Value
<1> QED BY <1>1, <1>2 DEF CallInv

LEMMA NextCall == CallInv /\ [Next]_vars => CallInv'
<1> SUFFICES ASSUME CallInv, [Next]_vars PROVE CallInv'
  OBVIOUS
<1>1. CASE UNCHANGED <<call, chan>>
  BY <1>1, SameCall
<1>2. CASE AddNext
  <2>1. CASE AddInvoice
    <3>1. PICK d \in AddRequests : PopulateHopHints(IF d.hodl THEN HoldInvoice(d) ELSE d)
      BY <2>1 DEF AddInvoice
    <3> DEFINE e == IF d.hodl THEN HoldInvoice(d) ELSE d
    <3>2. {e.sat, e.msat} \subseteq Int
      BY DataFacts
    <3> QED BY <3>1, <3>2, PopulateCall
  <2>2. CASE InsertInvoice
    BY <2>2 DEF InsertInvoice, CallInv
  <2>3. ASSUME NEW c \in Chans \ PublicChans, ChannelChanges(c) PROVE CallInv'
    BY <2>3, ChangeCall DEF Private
  <2>4. CASE TimePasses
    BY <2>4, SameCall DEF TimePasses
  <2> QED BY <1>2, <2>1, <2>2, <2>3, <2>4, ReturnHintsCall, SelectCall, ShuffleCall
          DEF AddNext
<1>3. CASE ~ AddNext
  <2>1. UNCHANGED <<call, chan>>
    BY <1>3 DEF Next, vars, addVars, SendPaymentV2, PaymentEnds, InvoiceEnds, SettleInvoice,
                CancelInvoice
  <2> QED BY <2>1, SameCall
<1> QED BY <1>2, <1>3

LEMMA CallAlways == Spec => []CallInv
<1>1. Init => CallInv
  BY DEF Init, AddInit, CallInv
<1> QED BY <1>1, NextCall, PTL DEF Spec

\* The payer can use each hint that was not asked for, through a peer that is
\* public, unless the channel changed after it was looked at; hints are private
\* channels, of a call that wants them, and stand in no hint of the request.
THEOREM HintsCanBeUsed == Spec => []HintsUsable
<1>1. CallInv => HintsUsable
  <2> SUFFICES ASSUME CallInv, call # Idle, NEW c \in ToSet(call.selected)
               PROVE  /\ c \notin PublicChans /\ call.data.private
                      /\ c \in call.stale
                            \/ (chan[c].active /\ chan[c].peerPublic /\ chan[c].policy)
                      /\ {c, HintScid(c)} \cap AlreadyIncluded(call.data) = {}
    BY DEF HintsUsable
  <2>1. call.stage # "idle"
    BY DEF CallInv
  <2>2. PICK i \in 1 .. Len(call.selected) : c = call.selected[i]
    BY <2>1, CallSet DEF ToSet
  <2>3. HintUsable(call, c) /\ c \in Private /\ call.data.private
    BY <2>1, <2>2, CallSet
  <2> QED BY <2>3 DEF HintUsable, Private
<1> QED BY <1>1, CallAlways, PTL

-----------------------------------------------------------------------------
(* Amounts *)

\* A quotient at most k is that of a number below k + 1 times the divisor.
LEMMA DivBound ==
    ASSUME NEW v \in Nat, NEW m \in Nat \ {0}, NEW k \in Nat, v \div m <= k
    PROVE  v < (k + 1) * m
<1> DEFINE q == v \div m
<1>1. q \in Int /\ v = m * q + (v % m) /\ v % m \in 0 .. m - 1
  OBVIOUS
<1>2. m * q <= m * k
  <2>1. \A a, b \in Int : a <= b => m * a <= m * b
    OBVIOUS
  <2> QED BY <1>1, <2>1
<1> HIDE DEF q
<1>3. m * k \in Int /\ m * q \in Int
  BY <1>1
<1> DEFINE x == m * k
           y == m * q
<1>4. (k + 1) * m = m * k + m
  OBVIOUS
<1> HIDE DEF x, y
<1>5. y <= x /\ v = y + (v % m) /\ (k + 1) * m = x + m /\ x \in Int /\ y \in Int
  BY <1>1, <1>2, <1>3, <1>4 DEF x, y
<1> QED BY <1>1, <1>5

LEMMA Remainder ==
    ASSUME NEW x \in Int, NEW n \in Nat, n > 0
    PROVE  x % n \in 0 .. n - 1 /\ (x \in 0 .. n - 1 => x % n = x)
<1>1. \A a \in Int, b \in Nat : b > 0 => a % b \in 0 .. b - 1
  OBVIOUS
<1>2. \A a \in Nat, b \in Nat : a < b => a % b = a
  OBVIOUS
<1> QED BY <1>1, <1>2

\* An amount is the one asked for if it can hold it, for any width.
LEMMA AmountKept ==
    ASSUME NEW sat \in Int, NEW msat \in Int, NEW v \in UnmarshallAmt(sat, msat)
    PROVE  v \in Nat /\ (Fits(Asked(sat, msat)) => v = Asked(sat, msat))
<1> DEFINE N == 2^AmtBits
           x == IF sat # 0 THEN sat * MsatPerSat ELSE msat
<1>1. N \in Nat /\ N > 0 /\ MsatPerSat \in Nat \ {0}
  BY WidthsAssumption DEF WidthsAssumption
<1>2. ~ (sat # 0 /\ msat # 0) /\ v = x % N
  BY DEF UnmarshallAmt, Uint64
<1>3. Asked(sat, msat) = x /\ x \in Int
  <2>1. CASE sat = 0
    BY <1>1, <2>1 DEF Asked
  <2>2. CASE sat # 0
    <3>1. msat = 0 /\ sat * MsatPerSat \in Int
      BY <1>1, <1>2, <2>2
    <3> QED BY <2>2, <3>1 DEF Asked
  <2> QED BY <2>1, <2>2
<1>4. Fits(x) <=> x \in 0 .. N - 1
  BY DEF Fits
<1> HIDE DEF N, x
<1>5. x % N \in Nat /\ (x \in 0 .. N - 1 => x % N = x)
  BY <1>1, <1>3, Remainder
<1> QED BY <1>2, <1>3, <1>4, <1>5

\* No invoice is for more than the largest amount, whatever is asked for.
LEMMA ValueRight ==
    ASSUME NEW d, {d.sat, d.msat} \subseteq Int, NEW v \in Value(d)
    PROVE  /\ Fits(Asked(d.sat, d.msat)) => v = Asked(d.sat, d.msat)
           /\ v < (MaxInvoiceAmt + 1) * MsatPerSat
<1>1. v \in UnmarshallAmt(d.sat, d.msat) /\ v \div MsatPerSat <= MaxInvoiceAmt
  BY DEF Value
<1>2. v \in Nat /\ (Fits(Asked(d.sat, d.msat)) => v = Asked(d.sat, d.msat))
  BY <1>1, AmountKept
<1>3. MsatPerSat \in Nat \ {0} /\ MaxInvoiceAmt \in Nat
  BY WidthsAssumption, InvoiceAssumption DEF WidthsAssumption, InvoiceAssumption
<1> QED BY <1>1, <1>2, <1>3, DivBound

\* An invoice that is added is for the amount of the request.
THEOREM InvoicesMeanRequests == Spec => []InvoiceMeansRequest
<1>1. CallInv => InvoiceMeansRequest
  <2> SUFFICES ASSUME CallInv, call # Idle
               PROVE  /\ Fits(Asked(call.data.sat, call.data.msat)) =>
                            call.terms.value = Asked(call.data.sat, call.data.msat)
                      /\ call.terms.value < (MaxInvoiceAmt + 1) * MsatPerSat
                      /\ call.terms.preimage = (~ call.data.amp /\ call.data.hash = {})
    BY DEF InvoiceMeansRequest
  <2>1. call.stage # "idle"
    BY DEF CallInv
  <2> QED BY <2>1, CallSet, ValueRight
<1> QED BY <1>1, CallAlways, PTL

-----------------------------------------------------------------------------
(* Route queries *)

\* A route to look for means what its query asks for, whatever the query.
LEMMA QueryKept ==
    ASSUME NEW q \in QueryRequests, NEW route \in RouteRequests(q)
    PROVE  MeansQuery(q, route)
<1> DEFINE source == IF q.source = {} THEN q.node ELSE CHOOSE s \in q.source : TRUE
           max == IF source = q.node THEN MaxTotalTimelock ELSE MaxUint32
           delta == FinalDelta(q)
<1>1. PICK limit \in {l \in ValidateCLTVLimit(q.cltvLimit, max) : ValidQuery(q, l)},
           amt \in UnmarshallAmt(q.sat, q.msat) :
        route = [source |-> source, target |-> q.dest, amount |-> amt,
                 fee |-> CalculateFeeLimit(q.feeLimit, amt),
                 limit |-> (limit - delta) % (MaxUint32 + 1), final |-> delta]
  BY DEF RouteRequests
<1>2. delta \in Nat
  <2>1. 2^CltvBits \in Nat /\ 2^CltvBits > 0 /\ q.finalCltv \in Int
    BY WidthsAssumption, QueryAssumption DEF WidthsAssumption, QueryAssumption
  <2>2. q.finalCltv % 2^CltvBits \in Nat
    BY <2>1, Remainder
  <2> QED BY <2>2, LimitsAssumption DEF FinalDelta, Uint16, LimitsAssumption
<1>3. max \in 1 .. MaxUint32 /\ MaxUint32 \in Nat
  BY LimitsAssumption DEF LimitsAssumption
<1>4. limit \in 1 .. max /\ (q.cltvLimit # 0 => limit = q.cltvLimit)
  BY <1>3 DEF ValidateCLTVLimit
<1>5. limit > delta
  BY <1>4, <1>3 DEF ValidQuery, FinalDelta
<1>6. (q.dest = {}) = (q.blinded # << >>)
  BY DEF ValidQuery, BlindedPayment
<1> HIDE DEF max, delta
<1>7. (limit - delta) % (MaxUint32 + 1) = limit - delta
  <2>1. limit - delta \in 0 .. (MaxUint32 + 1) - 1
    BY <1>2, <1>3, <1>4, <1>5
  <2> QED BY <1>3, <2>1, Remainder
<1>8. /\ route.limit = limit - delta /\ route.final = delta /\ route.source = source
      /\ route.target = q.dest /\ route.amount = amt
  BY <1>1, <1>7
<1>9. /\ route.limit > 0 /\ route.limit + route.final = limit
  BY <1>2, <1>3, <1>4, <1>5, <1>8
<1>10. route.source = q.node => limit <= MaxTotalTimelock
  BY <1>3, <1>4, <1>8, LimitsAssumption DEF max, LimitsAssumption
<1>11. Fits(Asked(q.sat, q.msat)) => route.amount = Asked(q.sat, q.msat)
  BY <1>8, AmountKept, QueryAssumption DEF QueryAssumption
<1>12. \A pair \in q.ignoredPairs : Probability(q, pair[1], pair[2], 1) = 0
  BY QueryAssumption DEF Probability, QueryAssumption
<1> QED BY <1>4, <1>6, <1>8, <1>9, <1>10, <1>11, <1>12 DEF MeansQuery

\* A route is looked for within the limits of the request and of the node, its
\* final time lock included, for the amount asked for.
THEOREM QueriesKept == Spec => []QueriesMeanRequests
<1>1. QueriesMeanRequests
  BY QueryKept DEF QueriesMeanRequests
<1> QED BY <1>1, PTL

\* Induction, with a set for the predicate.
LEMMA SetInduction ==
    ASSUME NEW T, 0 \in T, \A k \in Nat : k \in T => k + 1 \in T
    PROVE  Nat \subseteq T
<1> SUFFICES ASSUME Nat \ T # {} PROVE FALSE
  OBVIOUS
<1>1. PICK least \in Nat \ T : \A k \in Nat \ T : ~ (<<k, least>> \in OpToRel(<, Nat))
  <2>1. IsWellFoundedOn(OpToRel(<, Nat), Nat)
    BY NatLessThanWellFounded
  <2>2. Nat \ T \subseteq Nat
    OBVIOUS
  <2> QED BY <2>1, <2>2, WFMin, Zenon
<1>2. \A k \in Nat : k < least => <<k, least>> \in OpToRel(<, Nat)
  BY DEF OpToRel
<1>3. least # 0 /\ least - 1 \in Nat /\ least - 1 < least /\ (least - 1) + 1 = least
  OBVIOUS
<1>4. least - 1 \in T
  BY <1>1, <1>2, <1>3
<1> QED BY <1>3, <1>4

-----------------------------------------------------------------------------
(* Capacities *)

\* The millisatoshis of these channels, one by one.
Coins(b, set) == UNION {{c} \X (1 .. b[c]) : c \in set}

\* A channel has as many coins as its balance.
LEMMA CoinsFinite ==
    ASSUME NEW S, IsFiniteSet(S), NEW b \in [S -> Nat], NEW T \in SUBSET S
    PROVE  /\ \A d \in S : /\ IsFiniteSet({d} \X (1 .. b[d]))
                          /\ Cardinality({d} \X (1 .. b[d])) = b[d]
           /\ IsFiniteSet(Coins(b, T))
<1>1. ASSUME NEW d \in S PROVE IsFiniteSet({d} \X (1 .. b[d])) /\ Cardinality({d} \X (1 .. b[d])) = b[d]
  <2>1. IsFiniteSet({d}) /\ Cardinality({d}) = 1
    BY FS_Singleton
  <2>2. b[d] \in Nat
    OBVIOUS
  <2>3. IsFiniteSet(1 .. b[d]) /\ Cardinality(1 .. b[d]) = b[d]
    BY <2>2, FS_Interval
  <2>4. IsFiniteSet({d} \X (1 .. b[d])) /\ Cardinality({d} \X (1 .. b[d])) = 1 * b[d]
    BY <2>1, <2>3, FS_Product
  <2> QED BY <2>2, <2>4
<1>2. IsFiniteSet(Coins(b, T))
  <2> DEFINE sets == {{d} \X (1 .. b[d]) : d \in T}
             f == [d \in T |-> {d} \X (1 .. b[d])]
  <2>1. IsFiniteSet(T)
    BY FS_Subset
  <2>2. f \in Surjection(T, sets)
    BY DEF Surjection
  <2>3. IsFiniteSet(sets)
    <3> HIDE DEF f, sets
    <3> QED BY <2>1, <2>2, FS_Surjection
  <2>4. \A set \in sets : IsFiniteSet(set)
    BY <1>1
  <2>5. IsFiniteSet(UNION sets)
    <3> HIDE DEF sets
    <3> QED BY <2>3, <2>4, FS_UNION
  <2> QED BY <2>5 DEF Coins
<1> QED BY <1>1, <1>2

\* A channel that is added adds its coins.
LEMMA CoinsAdd ==
    ASSUME NEW S, IsFiniteSet(S), NEW b \in [S -> Nat], NEW c \in S, NEW T \in SUBSET S, c \notin T
    PROVE  Cardinality(Coins(b, T \cup {c})) = Cardinality(Coins(b, T)) + b[c]
<1>1. /\ IsFiniteSet({c} \X (1 .. b[c])) /\ Cardinality({c} \X (1 .. b[c])) = b[c]
      /\ IsFiniteSet(Coins(b, T))
  BY CoinsFinite
<1>2. IsFiniteSet(Coins(b, T))
  BY <1>1
<1>3. Coins(b, T \cup {c}) = Coins(b, T) \cup ({c} \X (1 .. b[c]))
  BY DEF Coins
<1>4. Coins(b, T) \cap ({c} \X (1 .. b[c])) = {}
  BY DEF Coins
<1>5. /\ IsFiniteSet({c} \X (1 .. b[c])) /\ Cardinality({c} \X (1 .. b[c])) = b[c]
      /\ Cardinality(Coins(b, T)) \in Nat /\ b[c] \in Nat
  BY <1>1, FS_CardinalityType
<1> DEFINE A == Coins(b, T)
           B == {c} \X (1 .. b[c])
<1>6. Cardinality(A \cup B) = Cardinality(A) + Cardinality(B) - Cardinality(A \cap B)
  BY <1>2, <1>5, FS_Union
<1>7. Cardinality(A \cap B) = 0
  BY <1>4, FS_EmptySet
<1>8. Cardinality(B) = b[c] /\ Cardinality(A) \in Nat /\ b[c] \in Nat
  BY <1>5
<1>9. Cardinality(Coins(b, T \cup {c})) = Cardinality(A \cup B)
  BY <1>3
<1>10. Cardinality(Coins(b, T \cup {c})) = Cardinality(A) + b[c]
  <2> HIDE DEF A, B
  <2> QED BY <1>6, <1>7, <1>8, <1>9
<1> QED BY <1>10

\* The fold that adds the balances counts these coins, in whatever order it takes
\* the channels.
LEMMA CapacityCounts ==
    ASSUME NEW S, IsFiniteSet(S), NEW channels, \A c \in S : channels[c].balance \in Nat
    PROVE  Capacity(channels, S) = Cardinality(Coins([c \in S |-> channels[c].balance], S))
<1> DEFINE b == [c \in S |-> channels[c].balance]
           count == [set \in SUBSET S |-> Cardinality(Coins(b, set))]
           Body(g) == [set \in SUBSET S |->
               IF set = {} THEN 0
               ELSE channels[CHOOSE x \in set : TRUE].balance
                        + g[set \ {CHOOSE x \in set : TRUE}]]
           iter == CHOOSE g : g = Body(g)
<1>1. b \in [S -> Nat] /\ \A c \in S : b[c] = channels[c].balance
  OBVIOUS
<1>2. Cardinality(Coins(b, {})) = 0
  <2>1. Coins(b, {}) = {}
    BY DEF Coins
  <2> QED BY <2>1, FS_EmptySet
<1>3. ASSUME NEW set \in SUBSET S, set # {}, NEW x \in set
      PROVE  Cardinality(Coins(b, set)) = channels[x].balance + Cardinality(Coins(b, set \ {x}))
  <2> HIDE DEF b
  <2>1. x \in S /\ set \ {x} \in SUBSET S /\ x \notin set \ {x} /\ (set \ {x}) \cup {x} = set
    OBVIOUS
  <2>2. /\ IsFiniteSet(Coins(b, set \ {x}))
        /\ Cardinality(Coins(b, (set \ {x}) \cup {x})) = Cardinality(Coins(b, set \ {x})) + b[x]
    <3>1. PICK U \in SUBSET S : U = set \ {x}
      BY <2>1
    <3>2. IsFiniteSet(Coins(b, U))
      BY <1>1, CoinsFinite
    <3>3. Cardinality(Coins(b, U \cup {x})) = Cardinality(Coins(b, U)) + b[x]
      BY <1>1, <2>1, <3>1, CoinsAdd
    <3> QED BY <3>1, <3>2, <3>3
  <2>3. Cardinality(Coins(b, set \ {x})) \in Nat /\ b[x] \in Nat
    BY <1>1, <2>1, <2>2, FS_CardinalityType
  <2>4. Cardinality(Coins(b, set)) = Cardinality(Coins(b, set \ {x})) + b[x]
    BY <2>1, <2>2
  <2>5. b[x] = channels[x].balance
    BY <1>1, <2>1
  <2> QED BY <2>3, <2>4, <2>5
<1>4. ASSUME NEW set \in SUBSET S, set # {}
      PROVE  /\ (CHOOSE x \in set : TRUE) \in set
             /\ set \ {CHOOSE x \in set : TRUE} \in SUBSET S
  BY <1>4
<1>5. count = Body(count)
  <2> HIDE DEF b
  <2>1. ASSUME NEW set \in SUBSET S
        PROVE  count[set] = IF set = {} THEN 0
                            ELSE channels[CHOOSE x \in set : TRUE].balance
                                     + count[set \ {CHOOSE x \in set : TRUE}]
    <3>1. CASE set = {}
      BY <1>2, <3>1
    <3>2. CASE set # {}
      <4>1. PICK x : x = CHOOSE y \in set : TRUE
        OBVIOUS
      <4>2. x \in set /\ set \ {x} \in SUBSET S
        BY <3>2, <4>1
      <4>3. count[set] = channels[x].balance + count[set \ {x}]
        BY <1>3, <3>2, <4>2
      <4> QED BY <3>2, <4>1, <4>3
    <3> QED BY <3>1, <3>2
  <2>2. count = [set \in SUBSET S |-> count[set]]
    OBVIOUS
  <2> HIDE DEF count
  <2> QED BY <2>1, <2>2
<1>6. iter = Body(iter)
  <2> HIDE DEF Body, count
  <2> QED BY <1>5
<1>7. \A set \in SUBSET S : iter[set] = count[set]
  <2> HIDE DEF b, iter, count
  <2> DEFINE Same(set) == iter[set] = count[set]
             T == {n \in Nat : \A set \in SUBSET S : Cardinality(set) = n => Same(set)}
  <2>1. ASSUME NEW set \in SUBSET S PROVE IsFiniteSet(set) /\ Cardinality(set) \in Nat
    BY FS_Subset, FS_CardinalityType
  <2>2. 0 \in T
    <3>1. ASSUME NEW set \in SUBSET S, Cardinality(set) = 0 PROVE iter[set] = count[set]
      <4>1. set = {}
        BY <2>1, <3>1, FS_EmptySet
      <4> QED BY <4>1, <1>5, <1>6
    <3> QED BY <3>1
  <2>3. ASSUME NEW n \in Nat, n \in T PROVE n + 1 \in T
    <3>1. ASSUME NEW set \in SUBSET S, Cardinality(set) = n + 1 PROVE iter[set] = count[set]
      <4>1. set # {}
        BY <2>1, <3>1, FS_EmptySet
      <4>2. PICK x : x = CHOOSE y \in set : TRUE
        OBVIOUS
      <4>3. x \in set /\ set \ {x} \in SUBSET S
        BY <4>1, <4>2
      <4>4. Cardinality(set \ {x}) = n
        <5>1. Cardinality(set \ {x}) = Cardinality(set) - 1
          BY <2>1, <4>3, FS_RemoveElement
        <5> QED BY <3>1, <5>1
      <4>5. iter[set \ {x}] = count[set \ {x}]
        BY <2>3, <4>3, <4>4
      <4>6. iter[set] = channels[x].balance + iter[set \ {x}]
        BY <1>6, <4>1, <4>2
      <4>7. count[set] = channels[x].balance + count[set \ {x}]
        BY <1>5, <4>1, <4>2
      <4> QED BY <4>5, <4>6, <4>7
    <3> QED BY <3>1
  <2>4. Nat \subseteq T
    <3> HIDE DEF T
    <3> QED BY <2>2, <2>3, SetInduction
  <2> QED BY <2>1, <2>4
<1>8. Capacity(channels, S) = iter[S]
  BY DEF Capacity, MapThenSumSet, MapThenFoldSet
<1>9. count[S] = Cardinality(Coins(b, S))
  OBVIOUS
<1> HIDE DEF iter, count, b
<1>10. S \in SUBSET S
  OBVIOUS
<1>11. Capacity(channels, S) = Cardinality(Coins(b, S))
  BY <1>7, <1>8, <1>9, <1>10
<1> QED BY <1>11 DEF b

\* One channel more adds its balance.
LEMMA CapacityAdds ==
    ASSUME NEW S, IsFiniteSet(S), NEW channels, \A c \in S : channels[c].balance \in Nat,
           NEW T \in SUBSET S
    PROVE  /\ Capacity(channels, {}) = 0 /\ Capacity(channels, T) \in Nat
           /\ \A c \in S \ T :
                 Capacity(channels, T \cup {c}) = Capacity(channels, T) + channels[c].balance
<1> DEFINE b == [c \in S |-> channels[c].balance]
<1>1. ASSUME NEW U \in SUBSET S
      PROVE  Capacity(channels, U) = Cardinality(Coins(b, U))
  <2> DEFINE bU == [c \in U |-> channels[c].balance]
  <2>1. IsFiniteSet(U)
    BY FS_Subset
  <2>2. Capacity(channels, U) = Cardinality(Coins(bU, U))
    BY <2>1, CapacityCounts
  <2>3. Coins(bU, U) = Coins(b, U)
    BY DEF Coins
  <2> QED BY <2>2, <2>3
<1>2. b \in [S -> Nat] /\ \A c \in S : b[c] = channels[c].balance
  OBVIOUS
<1> HIDE DEF b
<1>3. Capacity(channels, {}) = 0
  <2>1. Coins(b, {}) = {}
    BY DEF Coins
  <2> QED BY <1>1, <2>1, FS_EmptySet
<1>4. Capacity(channels, T) \in Nat
  BY <1>1, <1>2, CoinsFinite, FS_CardinalityType
<1>5. ASSUME NEW c \in S \ T
      PROVE  Capacity(channels, T \cup {c}) = Capacity(channels, T) + channels[c].balance
  <2>1. Cardinality(Coins(b, T \cup {c})) = Cardinality(Coins(b, T)) + b[c]
    BY <1>2, CoinsAdd
  <2>2. T \cup {c} \in SUBSET S
    OBVIOUS
  <2> QED BY <1>1, <1>2, <2>1, <2>2
<1> QED BY <1>3, <1>4, <1>5

-----------------------------------------------------------------------------
(* Mission control *)

\* An amount survives the field of a message, which is signed.
LEMMA AmountReturns ==
    ASSUME NEW a \in 0 .. 2^AmtBits - 1
    PROVE  Uint64(Int64(a)) = a
<1> DEFINE N == 2^AmtBits
<1>1. N \in Nat \ {0} /\ a \in 0 .. N - 1
  BY WidthsAssumption DEF WidthsAssumption
<1>2. a % N = a /\ Int64(a) \in {a, a - N}
  BY <1>1, Remainder DEF Int64
<1>3. Uint64(Int64(a)) = Int64(a) % N
  BY DEF Uint64
<1> HIDE DEF N
<1>4. (a - N) % N = a
  <2> DEFINE x == a - N
             q == x \div N
             r == x % N
             y == N * q
  <2>1. x \in Int /\ q \in Int /\ x = N * q + r
    BY <1>1
  <2>2. r \in 0 .. N - 1
    BY <1>1, <2>1, Remainder
  <2>3. q >= 0 => y >= 0
    BY <1>1, <2>1
  <2>4. q <= -2 => y <= -2 * N
    <3>1. \A p \in Int : p <= -2 => N * p <= N * (-2)
      BY <1>1
    <3>2. N * (-2) = -2 * N
      BY <1>1
    <3> QED BY <2>1, <3>1, <3>2
  <2>5. q = -1 => y = - N
    BY <1>1
  <2>6. x = y + r /\ y \in Int
    BY <1>1, <2>1
  <2>7. x = a - N
    OBVIOUS
  <2> HIDE DEF x, q, r, y
  <2>8. q = -1
    BY <1>1, <2>1, <2>2, <2>3, <2>4, <2>6, <2>7
  <2>9. r = a
    BY <1>1, <2>2, <2>5, <2>6, <2>7, <2>8
  <2> QED BY <2>9 DEF x, r
<1> QED BY <1>2, <1>3, <1>4

\* A result of mission control is imported as it was exported.
LEMMA ResultReturns == ExportIsImported
<1> DEFINE zero == [amt |-> 0, time |-> 0]
<1> SUFFICES ASSUME NEW r \in Results
             PROVE  LET kept == [r EXCEPT !.fail = IF r.fail.amt = 0 THEN zero ELSE @]
                    IN  ToPairSnapshot("a", "b", ToRPCPairData(r)) =
                            IF kept.fail.amt = 0 /\ kept.success.amt = 0 THEN {} ELSE {kept}
  BY DEF ExportIsImported
<1>1. PICK f, s : /\ r = [fail |-> f, success |-> s] /\ f \in Side /\ s \in Side
  BY ResultsAssumption DEF ResultsAssumption
<1>2. /\ f.amt # 0 => f.time # 0 /\ (s.amt # 0) = (s.time # 0)
      /\ f = [amt |-> f.amt, time |-> f.time] /\ s = [amt |-> s.amt, time |-> s.time]
      /\ f.amt \in 0 .. 2^AmtBits - 1 /\ s.amt \in 0 .. 2^AmtBits - 1
  <2>1. /\ f.amt # 0 => f.time # 0 /\ (s.amt # 0) = (s.time # 0)
    BY <1>1, ResultsAssumption DEF ResultsAssumption
  <2> QED BY <1>1, <2>1 DEF Side
<1>2a. (s.amt # 0) = (s.time # 0)
  BY <1>1, ResultsAssumption DEF ResultsAssumption
<1>3. ASSUME NEW side, side \in {f, s}
      PROVE  GetMsatPairValue(Uint64(Int64(side.amt)), side.amt \div MsatPerSat) = {side.amt}
  <2>1. Uint64(Int64(side.amt)) = side.amt
    BY <1>2, <1>3, AmountReturns
  <2> QED BY <2>1 DEF GetMsatPairValue
<1> DEFINE rf == ToRPCSide(f)
           rs == ToRPCSide(s)
           keptF == IF f.amt = 0 THEN zero ELSE f
<1>4. GetPair(rf.msat, rf.sat, rf.time, TRUE) = {keptF}
  <2>1. GetMsatPairValue(Uint64(rf.msat), rf.sat) = {f.amt} /\ rf.time = f.time
    BY <1>3 DEF ToRPCSide
  <2> HIDE DEF rf
  <2> QED BY <1>2, <2>1 DEF GetPair
<1>5. GetPair(rs.msat, rs.sat, rs.time, FALSE) = {s}
  <2>1. GetMsatPairValue(Uint64(rs.msat), rs.sat) = {s.amt} /\ rs.time = s.time
    BY <1>3 DEF ToRPCSide
  <2> HIDE DEF rs
  <2> QED BY <1>2, <1>2a, <2>1 DEF GetPair
<1>6. ToRPCPairData(r).fail = rf /\ ToRPCPairData(r).success = rs
  BY <1>1 DEF ToRPCPairData
<1>7. ToPairSnapshot("a", "b", ToRPCPairData(r)) =
        {[fail |-> keptF, success |-> s]} \ {[fail |-> zero, success |-> zero]}
  <2> DEFINE fails == GetPair(rf.msat, rf.sat, rf.time, TRUE)
             successes == GetPair(rs.msat, rs.sat, rs.time, FALSE)
  <2>1. {x \in successes : "a" # "b"} = successes
    OBVIOUS
  <2>2. ToPairSnapshot("a", "b", ToRPCPairData(r)) =
          {[fail |-> x, success |-> y] : x \in fails, y \in {z \in successes : "a" # "b"}}
          \ {[fail |-> zero, success |-> zero]}
    <3> HIDE DEF rf, rs
    <3> QED BY <1>6 DEF ToPairSnapshot
  <2>3. fails = {keptF} /\ successes = {s}
    BY <1>4, <1>5
  <2> HIDE DEF fails, successes, keptF, zero
  <2>4. {[fail |-> x, success |-> y] : x \in {keptF}, y \in {s}} = {[fail |-> keptF, success |-> s]}
    OBVIOUS
  <2> QED BY <2>1, <2>2, <2>3, <2>4
<1>8. [r EXCEPT !.fail = IF r.fail.amt = 0 THEN zero ELSE @] = [fail |-> keptF, success |-> s]
  BY <1>1
<1>9. /\ keptF.amt = 0 <=> keptF = zero
      /\ s.amt = 0 <=> s = zero
  BY <1>2, <1>2a
<1>10. [fail |-> keptF, success |-> s] = [fail |-> zero, success |-> zero]
          <=> keptF.amt = 0 /\ s.amt = 0
  <2> HIDE DEF keptF, zero
  <2> QED BY <1>9
<1> QED
  <2> HIDE DEF keptF, zero
  <2> QED BY <1>7, <1>8, <1>10

\* Whole seconds are kept.
LEMMA SecondsReturn ==
    ASSUME NEW t \in Nat
    PROVE  Seconds(Seconds(t) * TicksPerSec) = Seconds(t)
<1> DEFINE T == TicksPerSec
<1>1. T \in Nat \ {0}
  BY ConfigsAssumption DEF ConfigsAssumption
<1> HIDE DEF T
<1>2. ASSUME NEW q \in Int PROVE (q * T) \div T = q
  BY <1>1
<1>3. t \div T \in Int
  BY <1>1
<1>4. ((t \div T) * T) \div T = t \div T
  BY <1>2, <1>3
<1> QED BY <1>4 DEF Seconds, T

\* The settings that are read are those that were set, in whole seconds.
LEMMA ConfigReturns == ConfigIsKept
<1> SUFFICES ASSUME NEW c \in MCConfigs
             PROVE  \E d \in SetMissionControlConfig(GetMissionControlConfig(c)) :
                       /\ [d EXCEPT !.relax = c.relax, !.time = c.time] = c
                       /\ Seconds(d.relax) = Seconds(c.relax)
                       /\ Seconds(d.time) = Seconds(c.time)
  BY DEF ConfigIsKept
<1>1. /\ c = [model |-> c.model, max |-> c.max, relax |-> c.relax, time |-> c.time,
              weight |-> c.weight]
      /\ c.relax \in Nat /\ c.time \in Nat
  BY ConfigsAssumption DEF ConfigsAssumption
<1> DEFINE e == [model |-> c.model, time |-> Seconds(c.time), weight |-> c.weight]
           d == [model |-> c.model, max |-> c.max, relax |-> Seconds(c.relax) * TicksPerSec,
                 time |-> Seconds(c.time) * TicksPerSec, weight |-> c.weight]
<1>2. d \in SetMissionControlConfig(GetMissionControlConfig(c))
  <2> DEFINE req == GetMissionControlConfig(c)
  <2>1. /\ req.model = c.model /\ req.max = c.max /\ req.relax = Seconds(c.relax)
        /\ req.estimator = {e} /\ e.model = c.model
        /\ e.time = Seconds(c.time) /\ e.weight = c.weight
    BY DEF GetMissionControlConfig
  <2> HIDE DEF req, e
  <2>2. e \in IF req.estimator = {} /\ req.model = "apriori" THEN {req.deprecated}
              ELSE {x \in req.estimator : x.model = req.model}
    BY <2>1
  <2>3. d = [model |-> req.model, max |-> req.max, relax |-> req.relax * TicksPerSec,
             time |-> e.time * TicksPerSec, weight |-> e.weight]
    BY <2>1
  <2> DEFINE estimators == IF req.estimator = {} /\ req.model = "apriori" THEN {req.deprecated}
                           ELSE {x \in req.estimator : x.model = req.model}
             made(x) == [model |-> req.model, max |-> req.max, relax |-> req.relax * TicksPerSec,
                         time |-> x.time * TicksPerSec, weight |-> x.weight]
  <2>4. SetMissionControlConfig(req) = {made(x) : x \in estimators}
    BY DEF SetMissionControlConfig
  <2>5. e \in estimators
    BY <2>2
  <2>6. d = made(e)
    BY <2>3
  <2> HIDE DEF d, estimators
  <2>7. d \in SetMissionControlConfig(req)
    BY <2>4, <2>5, <2>6
  <2> QED BY <2>7 DEF req
<1>3. /\ [d EXCEPT !.relax = c.relax, !.time = c.time] =
            [model |-> c.model, max |-> c.max, relax |-> c.relax, time |-> c.time,
             weight |-> c.weight]
      /\ d.relax = Seconds(c.relax) * TicksPerSec /\ d.time = Seconds(c.time) * TicksPerSec
  <2>1. PICK relax, time : relax = Seconds(c.relax) * TicksPerSec /\ time = Seconds(c.time) * TicksPerSec
    OBVIOUS
  <2>2. d = [model |-> c.model, max |-> c.max, relax |-> relax, time |-> time, weight |-> c.weight]
    BY <2>1
  <2> HIDE DEF d
  <2>3. d.relax = relax /\ d.time = time
    BY <2>2
  <2>4. [d EXCEPT !.relax = c.relax, !.time = c.time] =
            [model |-> c.model, max |-> c.max, relax |-> c.relax, time |-> c.time,
             weight |-> c.weight]
    <3>1. PICK x : x = [model |-> c.model, max |-> c.max, relax |-> c.relax, time |-> time,
                        weight |-> c.weight]
      OBVIOUS
    <3>2. [d EXCEPT !.relax = c.relax] = x
      BY <2>2, <3>1
    <3>3. [x EXCEPT !.time = c.time] =
            [model |-> c.model, max |-> c.max, relax |-> c.relax, time |-> c.time,
             weight |-> c.weight]
      BY <3>1
    <3>4. [d EXCEPT !.relax = c.relax, !.time = c.time] = [x EXCEPT !.time = c.time]
      BY <3>2
    <3> QED BY <3>3, <3>4
  <2> QED BY <2>1, <2>3, <2>4
<1> HIDE DEF d
<1>4. Seconds(d.relax) = Seconds(c.relax) /\ Seconds(d.time) = Seconds(c.time)
  BY <1>1, <1>3, SecondsReturn
<1> QED BY <1>1, <1>2, <1>3, <1>4

-----------------------------------------------------------------------------
(* Payments that requests ask for *)

\* s is the request r with a limit of parts.
Limited(r, s) ==
    /\ \A field \in SendFields \ {"maxParts"} : s[field] = r[field]
    /\ s.maxParts = IF r.maxParts = 0 THEN DefaultMaxParts ELSE r.maxParts

\* What a payment is made of: the intent, the time lock limit and the fee limit.
LEMMA PaymentParts ==
    ASSUME NEW r, DOMAIN r = SendFields, NEW at, NEW p \in Payments(r, at)
    PROVE  \E s, amt :
              /\ Limited(r, s) /\ amt \in UnmarshallAmt(r.sat, r.msat)
              /\ p.i \in Intents(s, amt, at)
              /\ p.limit \in ValidateCLTVLimit(r.cltvLimit, MaxTotalTimelock)
              /\ p.fee \in UnmarshallAmt(r.feeSat, r.feeMsat)
              /\ ValidSendRequest(r) /\ Acceptable(r, p.i, p.limit)
<1> DEFINE s == [r EXCEPT !.maxParts = IF @ = 0 THEN DefaultMaxParts ELSE @]
<1>1. Limited(r, s)
  BY DEF Limited, SendFields
<1>2. p \in ExtractIntent(r, at) /\ ValidSendRequest(r) /\ Acceptable(r, p.i, p.limit)
  BY DEF Payments
<1>3. PICK i \in UNION {Intents(s, amt, at) : amt \in UnmarshallAmt(s.sat, s.msat)},
           l \in ValidateCLTVLimit(s.cltvLimit, MaxTotalTimelock),
           f \in UnmarshallAmt(s.feeSat, s.feeMsat) :
        p = [i |-> i, limit |-> l, fee |-> f, outgoing |-> s.outgoing \cup s.outgoings]
  BY <1>2 DEF ExtractIntent
<1>4. s.sat = r.sat /\ s.msat = r.msat /\ s.cltvLimit = r.cltvLimit /\ s.feeSat = r.feeSat
      /\ s.feeMsat = r.feeMsat
  BY <1>1 DEF Limited, SendFields
<1> HIDE DEF s
<1>5. PICK amt \in UnmarshallAmt(s.sat, s.msat) : i \in Intents(s, amt, at)
  OBVIOUS
<1>6. p.i = i /\ p.limit = l /\ p.fee = f
  BY <1>3
<1> QED BY <1>1, <1>2, <1>4, <1>5, <1>6

\* A request that has no payment request says it all itself.
LEMMA FieldsPaid ==
    ASSUME NEW r, DOMAIN r = SendFields, r.invoice = {}, NEW at, NEW p \in Payments(r, at)
    PROVE  /\ p.i.target \in r.dest
           /\ p.i.amount \in UnmarshallAmt(r.sat, r.msat) /\ p.i.amount # 0
           /\ p.i.hash = IF r.amp THEN {} ELSE r.hash
           /\ p.i.hash = {} => r.amp
           /\ p.i.final = IF r.finalCltv = 0 THEN DefaultFinalCltvDelta ELSE Uint16(r.finalCltv)
           /\ p.i.hints = r.routeHints
           /\ p.i.parts = IF r.maxParts = 0 THEN DefaultMaxParts ELSE r.maxParts
<1>1. PICK s, amt :
        /\ Limited(r, s) /\ amt \in UnmarshallAmt(r.sat, r.msat) /\ p.i \in Intents(s, amt, at)
  BY PaymentParts
<1>2. /\ s.invoice = {} /\ s.dest = r.dest /\ s.amp = r.amp /\ s.hash = r.hash
      /\ s.finalCltv = r.finalCltv /\ s.routeHints = r.routeHints
  BY <1>1 DEF Limited, SendFields
<1>3. PICK d \in r.dest : p.i = FieldsIntent(s, amt, d) /\ PaysFields(s, amt)
  BY <1>1, <1>2 DEF Intents
<1>4. p.i.target = d /\ p.i.amount = amt /\ p.i.hash = (IF s.amp THEN {} ELSE s.hash)
      /\ p.i.final = (IF s.finalCltv = 0 THEN DefaultFinalCltvDelta ELSE Uint16(s.finalCltv))
      /\ p.i.hints = s.routeHints /\ p.i.parts = s.maxParts
  BY <1>3 DEF FieldsIntent
<1>5. amt # 0 /\ (~ s.amp => s.hash # {})
  BY <1>3 DEF PaysFields
<1> QED BY <1>1, <1>2, <1>4, <1>5 DEF Limited

\* One that has pays the invoice that the payment request stands for.
PaysWith(r, at, p, inv, amt) ==
    /\ at <= inv.expires /\ (inv.value = 0) = (amt # 0) /\ (inv.amp => r.amp)
    /\ p.i.target = inv.payee
    /\ p.i.amount = IF inv.value = 0 THEN amt ELSE inv.value
    /\ p.i.hash = IF inv.amp THEN {} ELSE {inv.hash}
    /\ p.i.final = Uint16(inv.cltv) /\ p.i.hints = r.routeHints \o inv.hints

LEMMA InvoicePaid ==
    ASSUME NEW r, DOMAIN r = SendFields, r.invoice # {}, NEW at, NEW p \in Payments(r, at)
    PROVE  \E inv \in r.invoice, amt \in UnmarshallAmt(r.sat, r.msat) :
              PaysWith(r, at, p, inv, amt)
<1>1. PICK s, amt :
        /\ Limited(r, s) /\ amt \in UnmarshallAmt(r.sat, r.msat) /\ p.i \in Intents(s, amt, at)
  BY PaymentParts
<1>2. s.invoice = r.invoice /\ s.amp = r.amp /\ s.routeHints = r.routeHints
  BY <1>1 DEF Limited, SendFields
<1>3. PICK inv \in r.invoice : p.i = InvoiceIntent(s, inv, amt) /\ PaysInvoice(s, inv, amt, at)
  BY <1>1, <1>2 DEF Intents
<1>4. /\ p.i.target = inv.payee
      /\ p.i.amount = IF inv.value = 0 THEN amt ELSE inv.value
      /\ p.i.hash = IF inv.amp THEN {} ELSE {inv.hash}
      /\ p.i.final = Uint16(inv.cltv) /\ p.i.hints = s.routeHints \o inv.hints
  <2>1. PICK target, amount, hash, final, hints, addr, parts :
          /\ p.i = [target |-> target, amount |-> amount, hash |-> hash, final |-> final,
                    hints |-> hints, addr |-> addr, parts |-> parts]
          /\ target = inv.payee /\ amount = (IF inv.value = 0 THEN amt ELSE inv.value)
          /\ hash = (IF inv.amp THEN {} ELSE {inv.hash}) /\ final = Uint16(inv.cltv)
          /\ hints = s.routeHints \o inv.hints
    BY <1>3, Zenon DEF InvoiceIntent
  <2>2. p.i = [target |-> target, amount |-> amount, hash |-> hash, final |-> final,
               hints |-> hints, addr |-> addr, parts |-> parts]
    BY <2>1
  <2>3. p.i.target = target /\ p.i.amount = amount
    BY <2>2
  <2>4. p.i.hash = hash /\ p.i.final = final
    BY <2>2
  <2>5. p.i.hints = hints
    BY <2>2
  <2> QED BY <2>1, <2>3, <2>4, <2>5
<1>5. at <= inv.expires /\ (inv.value = 0) = (amt # 0) /\ (inv.amp => s.amp)
  BY <1>3 DEF PaysInvoice
<1> QED BY <1>1, <1>2, <1>4, <1>5 DEF PaysWith

-----------------------------------------------------------------------------
(* Fees of service providers *)

\* A finite set of naturals has a largest one, and it is the one chosen.
LEMMA MaxIsLargest ==
    ASSUME NEW set, IsFiniteSet(set), set \subseteq Nat, set # {}
    PROVE  Max(set) \in set /\ \A y \in set : Max(set) >= y
<1> DEFINE HasLargest(S) == \E m \in S : \A y \in S : m >= y
           T == {n \in Nat : \A S \in SUBSET Nat :
                    IsFiniteSet(S) /\ Cardinality(S) = n + 1 => HasLargest(S)}
<1>1. 0 \in T
  <2>1. ASSUME NEW S \in SUBSET Nat, IsFiniteSet(S), Cardinality(S) = 1 PROVE HasLargest(S)
    <3>1. PICK x : S = {x}
      BY <2>1, FS_Singleton
    <3> QED BY <3>1
  <2> QED BY <2>1
<1>2. ASSUME NEW n \in Nat, n \in T PROVE n + 1 \in T
  <2>1. ASSUME NEW S \in SUBSET Nat, IsFiniteSet(S), Cardinality(S) = (n + 1) + 1
        PROVE  HasLargest(S)
    <3>1. PICK x : x \in S
      BY <2>1, FS_EmptySet
    <3>2. PICK U \in SUBSET Nat : U = S \ {x}
      OBVIOUS
    <3>3. IsFiniteSet(U) /\ Cardinality(U) = n + 1
      <4>1. IsFiniteSet(S \ {x}) /\ Cardinality(S \ {x}) = Cardinality(S) - 1
        BY <2>1, <3>1, FS_RemoveElement
      <4> QED BY <2>1, <3>2, <4>1
    <3>4. PICK m \in U : \A y \in U : m >= y
      BY <1>2, <3>3
    <3>5. PICK l \in {x, m} : l >= x /\ l >= m
      BY <3>1, <3>2
    <3>6. l \in S /\ \A y \in S : l >= y
      BY <3>1, <3>2, <3>4, <3>5
    <3> QED BY <3>6
  <2> QED BY <2>1
<1>3. Nat \subseteq T
  <2> HIDE DEF T
  <2> QED BY <1>1, <1>2, SetInduction
<1>4. Cardinality(set) \in Nat /\ Cardinality(set) # 0
  BY FS_CardinalityType, FS_EmptySet
<1>5. PICK n \in Nat : Cardinality(set) = n + 1
  <2>1. Cardinality(set) - 1 \in Nat /\ Cardinality(set) = (Cardinality(set) - 1) + 1
    BY <1>4
  <2> QED BY <2>1
<1>6. \E m \in set : \A y \in set : m >= y
  BY <1>3, <1>5
<1> QED BY <1>6 DEF Max

\* The last hops of an invoice's hints.
LEMMA HopsFinite ==
    ASSUME NEW inv \in ProbedInvoices
    PROVE  /\ IsFiniteSet(LastHops(inv.hints))
           /\ \A hop \in LastHops(inv.hints) : Widths(hop)
           /\ inv.hints # << >> /\ inv.hints[1] # << >> =>
                 Last(inv.hints[1]) \in LastHops(inv.hints)
<1> DEFINE hints == inv.hints
           D == {j \in DOMAIN hints : hints[j] # << >>}
           f == [j \in D |-> Last(hints[j])]
<1>1. /\ hints \in Seq(ToSet(hints))
      /\ \A hint \in ToSet(hints) :
            hint \in Seq(ToSet(hint)) /\ \A hop \in ToSet(hint) : Widths(hop)
  BY ProbedAssumption DEF ProbedAssumption
<1>2. Len(hints) \in Nat /\ DOMAIN hints = 1 .. Len(hints)
  BY <1>1, LenProperties
<1>3. IsFiniteSet(D)
  <2>1. IsFiniteSet(1 .. Len(hints))
    BY <1>2, FS_Interval
  <2>2. D \in SUBSET (1 .. Len(hints))
    BY <1>2
  <2> QED BY <2>1, <2>2, FS_Subset
<1>4. LastHops(hints) = {Last(hints[i]) : i \in D}
  BY DEF LastHops
<1>5. IsFiniteSet(LastHops(hints))
  <2>1. f \in Surjection(D, LastHops(hints))
    BY <1>4 DEF Surjection
  <2> HIDE DEF f, D
  <2> QED BY <1>3, <2>1, FS_Surjection
<1>6. ASSUME NEW j \in D PROVE Widths(Last(hints[j]))
  <2>1. hints[j] \in ToSet(hints)
    BY DEF ToSet
  <2>2. PICK hint : hint = hints[j]
    OBVIOUS
  <2>3. hint \in Seq(ToSet(hint)) /\ hint # << >>
    BY <1>1, <2>1, <2>2
  <2>4. Len(hint) \in Nat \ {0}
    BY <2>3, EmptySeq
  <2>5. Last(hint) \in ToSet(hint)
    BY <2>3, <2>4, LenProperties DEF Last, ToSet
  <2> QED BY <1>1, <2>1, <2>2, <2>5
<1>7. hints # << >> /\ hints[1] # << >> => 1 \in D
  BY <1>1, <1>2, EmptySeq
<1> QED BY <1>4, <1>5, <1>6, <1>7

\* An image of a finite set, by a function.
LEMMA ImageFinite ==
    ASSUME NEW S, IsFiniteSet(S), NEW T, NEW f \in [S -> T]
    PROVE  IsFiniteSet({f[x] : x \in S})
<1>1. f \in Surjection(S, {f[x] : x \in S})
  BY DEF Surjection
<1> QED BY <1>1, FS_Surjection

\* What a hop charges is a natural, and nothing for no hop.
LEMMA FeeIsNat ==
    ASSUME NEW amt \in Nat
    PROVE  /\ \A hop : Widths(hop) => HopFee(hop, amt) \in Nat
           /\ HopFee(NoHop, amt) = 0
<1>1. Millionths \in Nat \ {0} /\ MaxUint32 \in Nat
  BY ProbedAssumption, LimitsAssumption DEF ProbedAssumption, LimitsAssumption
<1>2. ASSUME NEW hop, Widths(hop) PROVE HopFee(hop, amt) \in Nat
  <2>1. hop.base \in Nat /\ hop.ppm \in Nat
    BY <1>1, <1>2 DEF Widths
  <2>2. amt * hop.ppm \in Nat
    BY <2>1
  <2>3. (amt * hop.ppm) \div Millionths \in Nat
    BY <1>1, <2>2
  <2> QED BY <2>1, <2>3 DEF HopFee
<1>3. HopFee(NoHop, amt) = 0
  <2>1. NoHop.base = 0 /\ NoHop.ppm = 0
    BY DEF NoHop
  <2>2. amt * 0 = 0 /\ 0 \div Millionths = 0
    BY <1>1
  <2> QED BY <2>1, <2>2 DEF HopFee
<1> QED BY <1>2, <1>3

\* The fee for an LSP is the one of its dearest hint.
LEMMA LspFeeIsMax ==
    ASSUME NEW inv \in ProbedInvoices, NEW amt \in Nat, LastHops(inv.hints) # {}
    PROVE  /\ HopFee(MaxLspFee(inv.hints, amt), amt) \in Nat
           /\ HopFee(MaxLspFee(inv.hints, amt), amt) =
                 Max({HopFee(hop, amt) : hop \in LastHops(inv.hints)})
<1> DEFINE hops == LastHops(inv.hints)
           fees == {HopFee(hop, amt) : hop \in hops}
           offers == {[base |-> hop.base, ppm |-> hop.ppm] : hop \in hops} \cup {NoHop}
           max == MaxLspFee(inv.hints, amt)
<1>1. IsFiniteSet(hops) /\ \A hop \in hops : HopFee(hop, amt) \in Nat
  BY HopsFinite, FeeIsNat
<1>2. IsFiniteSet(fees) /\ fees \subseteq Nat /\ fees # {}
  <2> DEFINE f == [hop \in hops |-> HopFee(hop, amt)]
  <2>1. IsFiniteSet({f[x] : x \in hops})
    <3>1. f \in [hops -> fees]
      OBVIOUS
    <3> HIDE DEF f, hops, fees
    <3> QED BY <1>1, <3>1, ImageFinite
  <2>2. {f[x] : x \in hops} = fees
    OBVIOUS
  <2> QED BY <1>1, <2>1, <2>2
<1> HIDE DEF hops, fees
<1>3. Max(fees) \in fees /\ \A y \in fees : Max(fees) >= y
  BY <1>2, MaxIsLargest
<1>4. PICK best \in hops : HopFee(best, amt) = Max(fees)
  BY <1>3 DEF fees
<1>5. \A hop \in hops : HopFee([base |-> hop.base, ppm |-> hop.ppm], amt) = HopFee(hop, amt)
  BY DEF HopFee
<1>6. [base |-> best.base, ppm |-> best.ppm] \in offers
  OBVIOUS
<1>7. \A hop \in hops : Max(fees) >= HopFee(hop, amt)
  BY <1>3 DEF fees
<1>8. \E x \in offers : \A hop \in hops : HopFee(x, amt) >= HopFee(hop, amt)
  <2> HIDE DEF offers
  <2> QED BY <1>4, <1>5, <1>6, <1>7
<1>9. max = CHOOSE x \in offers : \A hop \in hops : HopFee(x, amt) >= HopFee(hop, amt)
  BY DEF MaxLspFee, hops
<1>10. max \in offers /\ \A hop \in hops : HopFee(max, amt) >= HopFee(hop, amt)
  <2> HIDE DEF offers, max
  <2> QED BY <1>8, <1>9
<1>11. HopFee(max, amt) = Max(fees)
  <2>1. HopFee(max, amt) >= Max(fees) /\ Max(fees) \in Nat
    BY <1>2, <1>3, <1>4, <1>10
  <2>2. CASE max = NoHop
    <3>1. HopFee(max, amt) = 0
      BY <2>2, FeeIsNat
    <3> QED BY <2>1, <3>1
  <2>3. CASE max # NoHop
    <3>1. PICK hop \in hops : max = [base |-> hop.base, ppm |-> hop.ppm]
      BY <1>10, <2>3
    <3>2. HopFee(max, amt) = HopFee(hop, amt)
      BY <1>5, <3>1
    <3> QED BY <1>1, <1>7, <2>1, <3>2
  <2> QED BY <2>2, <2>3
<1>12. Max(fees) \in Nat
  BY <1>2, <1>3
<1> QED BY <1>11, <1>12 DEF fees, hops

\* All hints end in one node if and only if they are taken for an LSP's.
LEMMA LspIsOneNode ==
    ASSUME NEW inv \in ProbedInvoices
    PROVE  IsLSP(inv.hints) <=>
              /\ inv.hints # << >> /\ inv.hints[1] # << >>
              /\ Cardinality({hop.node : hop \in LastHops(inv.hints)}) = 1
<1> DEFINE hops == LastHops(inv.hints)
           nodes == {hop.node : hop \in hops}
           f == [hop \in hops |-> hop.node]
<1> SUFFICES ASSUME inv.hints # << >>, inv.hints[1] # << >>
             PROVE  (\A hop \in hops : hop.node = Last(inv.hints[1]).node)
                       <=> Cardinality(nodes) = 1
  BY DEF IsLSP
<1>1. Last(inv.hints[1]) \in hops /\ IsFiniteSet(hops)
  BY HopsFinite
<1>2. IsFiniteSet(nodes)
  <2>1. IsFiniteSet({f[x] : x \in hops})
    <3>1. f \in [hops -> nodes]
      OBVIOUS
    <3> HIDE DEF f, hops, nodes
    <3> QED BY <1>1, <3>1, ImageFinite
  <2>2. {f[x] : x \in hops} = nodes
    OBVIOUS
  <2> QED BY <2>1, <2>2
<1> HIDE DEF hops
<1>3. Last(inv.hints[1]).node \in nodes
  BY <1>1
<1>4. Cardinality(nodes) = 1 <=> \E x : nodes = {x}
  <2> HIDE DEF nodes
  <2> QED BY <1>2, FS_Singleton
<1>5. (\A hop \in hops : hop.node = Last(inv.hints[1]).node)
        <=> nodes = {Last(inv.hints[1]).node}
  BY <1>1
<1> QED BY <1>3, <1>4, <1>5

\* The terms of the probes: the payee's, or those of the LSP.
LEMMA ProbeTerms ==
    ASSUME NEW inv \in ProbedInvoices,
           NEW probe \in ProbePaymentRequest("self", inv, 1)
    PROVE  LET r == probe.request
               amt == CHOOSE a \in inv.amount : TRUE
               lsp == PrepareLspRouteHints(inv.hints, amt)
           IN  /\ ~ ProbePanics(inv) /\ inv.amount # {} /\ amt \in 0 .. 2^AmtBits - 1
               /\ DOMAIN r = SendFields /\ r.invoice = {} /\ r.sat = 0 /\ r.maxParts = 1
               /\ r.amp = FALSE /\ r.hash = {"random"}
               /\ ~ IsLSP(inv.hints) =>
                     /\ r.dest = {inv.payee} /\ r.msat = amt /\ r.finalCltv = Int32(inv.cltv)
                     /\ r.routeHints = inv.hints /\ probe.fee = 0 /\ probe.delay = 0
               /\ IsLSP(inv.hints) =>
                     /\ r.dest = {lsp.node} /\ r.msat = amt + lsp.fee /\ r.finalCltv = lsp.cltv
                     /\ r.routeHints = lsp.hints
                     /\ probe.fee = (amt + lsp.fee) - amt /\ probe.delay = inv.cltv
<1> DEFINE amt == CHOOSE a \in inv.amount : TRUE
           lsp == PrepareLspRouteHints(inv.hints, amt)
           plain == Probe("self", inv, 1)
           toLsp == LspProbe("self", inv, 1)
<1>1. ~ ProbePanics(inv) /\ inv.amount # {}
  BY DEF ProbePaymentRequest, ProbePanics
<1>2. amt \in 0 .. 2^AmtBits - 1
  <2>1. amt \in inv.amount
    BY <1>1
  <2> QED BY <2>1, ProbedAssumption DEF ProbedAssumption
<1>3. /\ DOMAIN plain = SendFields /\ plain.invoice = {} /\ plain.sat = 0 /\ plain.maxParts = 1
      /\ plain.amp = FALSE /\ plain.hash = {"random"}
  BY DEF Probe, SendFields
<1>4. /\ plain.dest = {inv.payee} /\ plain.msat = amt /\ plain.finalCltv = Int32(inv.cltv)
      /\ plain.routeHints = inv.hints
  BY DEF Probe
<1> HIDE DEF plain, lsp, amt
<1>5. toLsp = [plain EXCEPT !.dest = {lsp.node}, !.routeHints = lsp.hints,
                            !.msat = @ + lsp.fee, !.finalCltv = lsp.cltv]
  BY <1>4 DEF LspProbe, plain, lsp
<1> HIDE DEF toLsp
<1>6. /\ DOMAIN toLsp = SendFields /\ toLsp.invoice = {} /\ toLsp.sat = 0 /\ toLsp.maxParts = 1
      /\ toLsp.amp = FALSE /\ toLsp.hash = {"random"}
      /\ toLsp.dest = {lsp.node} /\ toLsp.msat = amt + lsp.fee /\ toLsp.finalCltv = lsp.cltv
      /\ toLsp.routeHints = lsp.hints
  BY <1>3, <1>4, <1>5 DEF SendFields
<1>7. CASE IsLSP(inv.hints)
  <2>1. probe = [request |-> toLsp, delay |-> inv.cltv, fee |-> toLsp.msat - plain.msat]
    BY <1>1, <1>7 DEF ProbePaymentRequest, toLsp, plain
  <2> QED BY <1>1, <1>2, <1>4, <1>6, <1>7, <2>1 DEF amt, lsp
<1>8. CASE ~ IsLSP(inv.hints)
  <2>1. probe = [request |-> plain, fee |-> 0, delay |-> 0]
    BY <1>1, <1>8 DEF ProbePaymentRequest, plain
  <2> QED BY <1>1, <1>2, <1>3, <1>4, <1>8, <2>1 DEF amt, lsp
<1> QED BY <1>7, <1>8

\* The time lock for an LSP is the largest of its hints, and fits.
LEMMA LspCltvIsMax ==
    ASSUME NEW inv \in ProbedInvoices, LastHops(inv.hints) # {}
    PROVE  LET deltas == {hop.cltv : hop \in LastHops(inv.hints)}
           IN  /\ MaxLspCltvDelta(inv.hints) = Max(deltas)
               /\ Max(deltas) \in 0 .. 2^CltvBits - 1
<1> DEFINE hops == LastHops(inv.hints)
           deltas == {hop.cltv : hop \in hops}
           f == [hop \in hops |-> hop.cltv]
<1>1. /\ IsFiniteSet(hops) /\ \A hop \in hops : hop.cltv \in 0 .. 2^CltvBits - 1
      /\ 2^CltvBits \in Nat
  BY HopsFinite, WidthsAssumption DEF Widths, WidthsAssumption
<1>2. IsFiniteSet(deltas) /\ deltas \subseteq 0 .. 2^CltvBits - 1 /\ deltas # {}
  <2>1. IsFiniteSet({f[x] : x \in hops})
    <3>1. f \in [hops -> deltas]
      OBVIOUS
    <3> HIDE DEF f, hops, deltas
    <3> QED BY <1>1, <3>1, ImageFinite
  <2>2. {f[x] : x \in hops} = deltas
    OBVIOUS
  <2> QED BY <1>1, <2>1, <2>2
<1> HIDE DEF hops, deltas
<1>3. deltas \subseteq Nat /\ deltas \cup {0} \subseteq Nat
  BY <1>1, <1>2
<1>4. Max(deltas) \in deltas /\ \A y \in deltas : Max(deltas) >= y
  BY <1>2, <1>3, MaxIsLargest
<1>5. IsFiniteSet(deltas \cup {0})
  BY <1>2, FS_AddElement
<1>6. PICK more : more = deltas \cup {0}
  OBVIOUS
<1>7. Max(more) \in more /\ \A y \in more : Max(more) >= y
  BY <1>3, <1>5, <1>6, MaxIsLargest
<1>8. Max(more) = Max(deltas)
  <2>1. Max(deltas) \in Nat /\ Max(more) \in Nat /\ Max(deltas) \in more
    BY <1>3, <1>4, <1>6, <1>7
  <2>2. Max(more) >= Max(deltas)
    BY <1>7, <2>1
  <2>3. Max(more) = 0 \/ Max(deltas) >= Max(more)
    BY <1>4, <1>6, <1>7
  <2> QED BY <2>1, <2>2, <2>3
<1>9. MaxLspCltvDelta(inv.hints) = Max(more)
  BY <1>6 DEF MaxLspCltvDelta, deltas, hops
<1> QED BY <1>2, <1>4, <1>8, <1>9 DEF deltas, hops

\* A time lock that a payment can have survives the request's int32.
LEMMA CltvKept ==
    ASSUME NEW n \in 0 .. 2^CltvBits - 1
    PROVE  Int32(n) = n /\ Uint16(n) = n
<1>1. PICK w \in Nat \ {0} : w = 2^CltvBits
  BY WidthsAssumption DEF WidthsAssumption
<1>2. MaxUint32 \in Nat /\ MaxInt32 \in Nat /\ MaxInt32 <= MaxUint32
  BY LimitsAssumption DEF LimitsAssumption, MaxInt32
<1>3. w - 1 <= MaxInt32
  BY <1>1, ProbedAssumption DEF ProbedAssumption
<1>4. n \in Nat /\ n <= MaxInt32 /\ n \in 0 .. w - 1
  BY <1>1, <1>2, <1>3
<1>5. n % (MaxUint32 + 1) = n
  <2>1. MaxUint32 + 1 \in Nat /\ MaxUint32 + 1 > 0 /\ n \in 0 .. (MaxUint32 + 1) - 1
    BY <1>2, <1>4
  <2> QED BY <2>1, Remainder
<1>6. n % w = n
  BY <1>1, <1>4, Remainder
<1> QED BY <1>1, <1>4, <1>5, <1>6 DEF Int32, Uint16

\* The estimate's probe has the terms of the invoice's payee or of its LSP, with
\* the dearest fee and the longest time lock of the LSP's hints.
LEMMA EstimateKept == EstimatesMeanInvoices
<1> SUFFICES ASSUME NEW inv \in ProbedInvoices,
                    NEW probe \in EstimateRouteFee("self", {}, 0, {inv}, 1),
                    NEW payment \in Payments(probe.request, 0)
             PROVE  MeansEstimate(inv, probe, payment)
  BY DEF EstimatesMeanInvoices
<1> DEFINE amt == CHOOSE a \in inv.amount : TRUE
           lsp == PrepareLspRouteHints(inv.hints, amt)
           hops == LastHops(inv.hints)
           fees == {HopFee(hop, amt) : hop \in hops}
           deltas == {hop.cltv : hop \in hops}
           nodes == {hop.node : hop \in hops}
           i == payment.i
<1>1. probe \in ProbePaymentRequest("self", inv, 1)
  BY DEF EstimateRouteFee, ProbeDestination
<1>2. /\ ~ ProbePanics(inv) /\ amt \in 0 .. 2^AmtBits - 1
      /\ ~ IsLSP(inv.hints) =>
            /\ probe.request.dest = {inv.payee} /\ probe.request.msat = amt
            /\ probe.request.routeHints = inv.hints /\ probe.fee = 0 /\ probe.delay = 0
            /\ probe.request.finalCltv = Int32(inv.cltv)
      /\ IsLSP(inv.hints) =>
            /\ probe.request.dest = {lsp.node} /\ probe.request.msat = amt + lsp.fee
            /\ probe.request.finalCltv = lsp.cltv
            /\ probe.fee = (amt + lsp.fee) - amt /\ probe.delay = inv.cltv
  BY <1>1, ProbeTerms
<1>3. /\ i.target \in probe.request.dest /\ i.amount \in UnmarshallAmt(0, probe.request.msat)
      /\ i.hash = {"random"} /\ i.hints = probe.request.routeHints /\ i.parts = 1
      /\ i.final = IF probe.request.finalCltv = 0 THEN DefaultFinalCltvDelta
                   ELSE Uint16(probe.request.finalCltv)
  <2>1. /\ DOMAIN probe.request = SendFields /\ probe.request.invoice = {}
        /\ probe.request.sat = 0 /\ probe.request.maxParts = 1
        /\ probe.request.amp = FALSE /\ probe.request.hash = {"random"}
    BY <1>1, ProbeTerms
  <2> QED BY <2>1, FieldsPaid
<1>4. i.amount = Uint64(probe.request.msat)
  BY <1>3 DEF UnmarshallAmt
<1>5. amt \in Nat /\ 2^CltvBits \in Nat \ {0}
  BY <1>2, WidthsAssumption DEF WidthsAssumption
<1>6. IsLSP(inv.hints) <=>
         inv.hints # << >> /\ inv.hints[1] # << >> /\ Cardinality(nodes) = 1
  BY LspIsOneNode
<1> HIDE DEF amt
<1>7. CASE IsLSP(inv.hints)
  <2>1. Last(inv.hints[1]) \in hops
    BY <1>6, <1>7, HopsFinite
  <2>2. /\ lsp.node = Last(inv.hints[1]).node
        /\ lsp.fee = HopFee(MaxLspFee(inv.hints, amt), amt)
        /\ lsp.cltv = MaxLspCltvDelta(inv.hints)
    BY DEF PrepareLspRouteHints
  <2>3. lsp.fee \in Nat /\ lsp.fee = Max(fees)
    BY <1>5, <2>1, <2>2, LspFeeIsMax
  <2>4. lsp.cltv = Max(deltas) /\ Max(deltas) \in 0 .. 2^CltvBits - 1
    BY <2>1, <2>2, LspCltvIsMax
  <2>5. i.target \in nodes
    BY <1>2, <1>3, <1>7, <2>1, <2>2
  <2> HIDE DEF lsp, fees, deltas, nodes, hops, i
  <2>6. probe.fee = lsp.fee /\ probe.delay = inv.cltv
    BY <1>2, <1>5, <1>7, <2>3
  <2>7. i.amount = Uint64(amt + probe.fee)
    BY <1>2, <1>4, <1>7, <2>6
  <2>8. i.final = IF Max(deltas) = 0 THEN DefaultFinalCltvDelta ELSE Max(deltas)
    <3>1. probe.request.finalCltv = Max(deltas)
      BY <1>2, <1>7, <2>4
    <3>2. Uint16(Max(deltas)) = Max(deltas)
      <4>1. Max(deltas) % 2^CltvBits = Max(deltas)
        BY <1>5, <2>4, Remainder
      <4> QED BY <4>1 DEF Uint16
    <3> QED BY <1>3, <3>1, <3>2
  <2> QED BY <1>3, <1>6, <1>7, <2>3, <2>5, <2>6, <2>7, <2>8
          DEF MeansEstimate, fees, deltas, nodes, hops, i, amt
<1>8. CASE ~ IsLSP(inv.hints)
  <2>1. i.target = inv.payee /\ i.hints = inv.hints /\ probe.fee = 0 /\ probe.delay = 0
    BY <1>2, <1>3, <1>8
  <2>2. i.amount = Uint64(amt + probe.fee)
    <3>1. amt + 0 = amt
      BY <1>5
    <3> QED BY <1>2, <1>4, <1>8, <2>1, <3>1
  <2>3. inv.cltv \in 1 .. 2^CltvBits - 1 => i.final = inv.cltv
    <3>1. SUFFICES ASSUME inv.cltv \in 1 .. 2^CltvBits - 1 PROVE i.final = inv.cltv
      OBVIOUS
    <3>2. inv.cltv \in 0 .. 2^CltvBits - 1 /\ inv.cltv # 0
      BY <1>5, <3>1
    <3> QED BY <1>2, <1>3, <1>8, <3>2, CltvKept
  <2> HIDE DEF lsp, fees, deltas
  <2> QED BY <1>3, <1>6, <1>8, <2>1, <2>2, <2>3 DEF MeansEstimate, amt
<1> QED BY <1>7, <1>8

-----------------------------------------------------------------------------
(* Sequences without repetitions *)

\* A sequence is one of its own elements.
LEMMA SeqOfOwn ==
    ASSUME NEW S, NEW s \in Seq(S)
    PROVE  s \in Seq(ToSet(s)) /\ ToSet(s) \subseteq S
<1>1. Len(s) \in Nat /\ DOMAIN s = 1 .. Len(s) /\ s \in [1 .. Len(s) -> S]
  BY LenProperties
<1>2. s \in [1 .. Len(s) -> ToSet(s)]
  BY <1>1 DEF ToSet
<1>3. ToSet(s) \subseteq S
  BY <1>1 DEF ToSet
<1> QED BY <1>1, <1>2, <1>3

\* A sequence without repetitions is as long as it has elements.
LEMMA InjectiveLen ==
    ASSUME NEW S, NEW s \in Seq(S), IsInjective(s)
    PROVE  IsFiniteSet(ToSet(s)) /\ Cardinality(ToSet(s)) = Len(s)
<1>1. Len(s) \in Nat /\ DOMAIN s = 1 .. Len(s) /\ s \in [1 .. Len(s) -> S]
  BY LenProperties
<1>2. s \in Bijection(1 .. Len(s), ToSet(s))
  <2>1. s \in [1 .. Len(s) -> ToSet(s)]
    BY <1>1 DEF ToSet
  <2>2. s \in Injection(1 .. Len(s), ToSet(s))
    BY <1>1, <2>1 DEF Injection, IsInjective
  <2>3. s \in Surjection(1 .. Len(s), ToSet(s))
    BY <1>1, <2>1 DEF Surjection, ToSet
  <2> QED BY <2>2, <2>3 DEF Bijection
<1>3. ExistsBijection(1 .. Len(s), ToSet(s))
  BY <1>2 DEF ExistsBijection
<1>4. Cardinality(ToSet(s)) = Len(s)
  BY <1>1, <1>3, FS_CountingElements
<1>5. IsFiniteSet(ToSet(s))
  BY <1>1, <1>3, FS_NatBijection
<1> QED BY <1>4, <1>5

\* The sequences of SetToSeqs have every element once.
LEMMA PermutationAll ==
    ASSUME NEW S, IsFiniteSet(S), NEW s \in SetToSeqs(S)
    PROVE  /\ s \in Seq(S) /\ Len(s) = Cardinality(S) /\ DOMAIN s = 1 .. Len(s)
           /\ IsInjective(s) /\ ToSet(s) = S
<1> DEFINE n == Cardinality(S)
<1>1. n \in Nat
  BY FS_CardinalityType
<1>2. s \in [1 .. n -> S] /\ \A i, j \in 1 .. n : i # j => s[i] # s[j]
  BY DEF SetToSeqs
<1>3. IsFiniteSet(1 .. n) /\ Cardinality(1 .. n) = n
  <2>1. IsFiniteSet(1 .. n) /\ Cardinality(1 .. n) = IF 1 > n THEN 0 ELSE n - 1 + 1
    BY <1>1, FS_Interval
  <2> QED BY <1>1, <2>1
<1>4. s \in Injection(1 .. n, S)
  BY <1>2 DEF Injection, IsInjective
<1>5. s \in Surjection(1 .. n, S)
  BY <1>3, <1>4, FS_Injection
<1> HIDE DEF n
<1>6. s \in Seq(S) /\ Len(s) = n /\ DOMAIN s = 1 .. n
  BY <1>1, <1>2
<1>7. ToSet(s) = S
  BY <1>2, <1>5 DEF ToSet, Surjection
<1>8. IsInjective(s)
  BY <1>2 DEF IsInjective
<1> QED BY <1>6, <1>7, <1>8 DEF n

\* A sequence that is put before another leaves it as the suffix.
LEMMA ConcatSuffix ==
    ASSUME NEW S, NEW s \in Seq(S), NEW t \in Seq(S)
    PROVE  IsSuffix(t, s \o t)
<1> DEFINE u == s \o t
<1>1. /\ u \in Seq(S) /\ Len(u) = Len(s) + Len(t) /\ Len(s) \in Nat /\ Len(t) \in Nat
      /\ \A i \in 1 .. Len(u) : u[i] = IF i <= Len(s) THEN s[i] ELSE t[i - Len(s)]
  BY ConcatProperties, LenProperties
<1> HIDE DEF u
<1> DEFINE rt == Reverse(t)
           ru == Reverse(u)
<1>2. rt \in Seq(S) /\ Len(rt) = Len(t) /\ \A i \in 1 .. Len(t) : rt[i] = t[(Len(t) - i) + 1]
  BY <1>1, LenProperties DEF Reverse
<1>3. ru \in Seq(S) /\ Len(ru) = Len(u) /\ \A i \in 1 .. Len(u) : ru[i] = u[(Len(u) - i) + 1]
  <2>1. Len(u) \in Nat
    BY <1>1
  <2>2. \A i \in 1 .. Len(u) : u[(Len(u) - i) + 1] \in S
    BY <1>1, <2>1, ElementOfSeq
  <2> QED BY <2>1, <2>2 DEF Reverse
<1> HIDE DEF rt, ru
<1>4. ASSUME NEW i \in 1 .. Len(t) PROVE rt[i] = ru[i]
  <2>0. (Len(u) - i) + 1 \in Nat
    BY <1>1
  <2>1. PICK j \in Nat : j = (Len(u) - i) + 1
    BY <2>0
  <2>2. j \in 1 .. Len(u) /\ ~ (j <= Len(s)) /\ j - Len(s) = (Len(t) - i) + 1
    BY <1>1, <2>1
  <2>3. u[j] = t[(Len(t) - i) + 1]
    BY <1>1, <2>2
  <2>4. i \in 1 .. Len(u)
    BY <1>1
  <2> QED BY <1>2, <1>3, <2>1, <2>3, <2>4
<1>5. SubSeq(rt, 1, Len(rt)) = SubSeq(ru, 1, Len(rt))
  <2>1. PICK n \in Nat : n = Len(t)
    BY <1>1
  <2>2. /\ SubSeq(rt, 1, n) \in Seq(S) /\ Len(SubSeq(rt, 1, n)) = n
        /\ \A i \in 1 .. n : SubSeq(rt, 1, n)[i] = rt[i]
    BY <1>2, <2>1
  <2>3. /\ SubSeq(ru, 1, n) \in Seq(S) /\ Len(SubSeq(ru, 1, n)) = n
        /\ \A i \in 1 .. n : SubSeq(ru, 1, n)[i] = ru[i]
    BY <1>1, <1>3, <2>1
  <2>4. SubSeq(rt, 1, n) = SubSeq(ru, 1, n)
    BY <1>4, <2>1, <2>2, <2>3, SeqEqual
  <2> QED BY <1>2, <2>1, <2>4
<1> QED BY <1>1, <1>2, <1>3, <1>5 DEF IsSuffix, IsPrefix, rt, ru, u

-----------------------------------------------------------------------------
(* The choice of hop hints *)

\* A channel that may be a hint of call k, in the states ch, and whether these
\* channels are enough hints for it.
Usable(k, ch, c) ==
    /\ c \notin AlreadyIncluded(k.data)
    /\ ch[c].active /\ ch[c].peerPublic /\ ch[c].policy
    /\ c \in DOMAIN Alias => ch[c].alias /\ Alias[c] \notin AlreadyIncluded(k.data)

Enough(k, ch, set) ==
    \/ Cardinality(set) >= MaxHopHints - Len(k.data.routeHints)
    \/ k.terms.value # 0 /\ Capacity(ch, set) >= HopHintFactor * k.terms.value

Full(k) ==
    \/ k.left <= 0
    \/ k.terms.value # 0 /\ k.bandwidth >= HopHintFactor * k.terms.value

\* Hints are counted down from the largest number, and a channel is in the list
\* or chosen, once.
Counted(k, ch) ==
    /\ ch = Unobserved \/ ch \in [Private -> ChanStates]
    /\ k.data.routeHints \in Seq(ToSet(k.data.routeHints))
    /\ k.left \in Nat /\ k.left + Len(k.selected) + Len(k.data.routeHints) = MaxHopHints
    /\ k.stale \subseteq k.changed /\ k.changed \subseteq Private
    /\ IsInjective(k.selected)
    /\ \A i, j \in DOMAIN k.order : k.order[i].chan = k.order[j].chan => i = j
    /\ \A i \in DOMAIN k.order : k.order[i].chan \notin ToSet(k.selected)

\* While no channel changes, what is chosen can be used and whatever can be used
\* is chosen or still in the list, which is in order, after what is chosen; the
\* capacity counted is that of the chosen ones; and without the least of them
\* there were not enough.
Best(k, ch) ==
    /\ \A c \in ToSet(k.selected) : Usable(k, ch, c)
    /\ \A c \in Private : Usable(k, ch, c) =>
          c \in ToSet(k.selected) \/ \E i \in DOMAIN k.order : k.order[i].chan = c
    /\ \A i \in DOMAIN k.order : k.order[i].balance = ch[k.order[i].chan].balance
    /\ \A i, j \in DOMAIN k.order : i < j => k.order[i].balance >= k.order[j].balance
    /\ \A c \in ToSet(k.selected), i \in DOMAIN k.order : ch[c].balance >= k.order[i].balance
    /\ k.bandwidth = Capacity(ch, ToSet(k.selected))
    /\ k.selected # << >> => \E l \in ToSet(k.selected) :
          /\ \A c \in ToSet(k.selected) : ch[c].balance >= ch[l].balance
          /\ ~ Enough(k, ch, ToSet(k.selected) \ {l})
    /\ k.stage = "adding" => Full(k) \/ k.order = << >>

Settled(k, ch) == ch # Unobserved /\ k.changed = {} => Best(k, ch)

ChoiceInv ==
    IF call = Idle THEN chan = Unobserved
    ELSE /\ Counted(call, chan) /\ Settled(call, chan)
         /\ call.stage = "selecting" => chan \in [Private -> ChanStates]
         /\ call.terms.cltv \in 0 .. 2^CltvBits - 1

LEMMA BalancesAreNat ==
    ASSUME NEW ch \in [Private -> ChanStates]
    PROVE  IsFiniteSet(Private) /\ \A c \in Private : ch[c].balance \in Nat
<1>1. IsFiniteSet(Private)
  BY InvoiceAssumption, FS_Subset DEF InvoiceAssumption, Private
<1> QED BY <1>1, InvoiceAssumption DEF InvoiceAssumption

\* What is known of a call that has listed its channels.
Listed(k, ch) ==
    /\ ch \in [Private -> ChanStates]
    /\ k.order \in Seq(Listing) /\ k.selected \in Seq(Private)
    /\ Counted(k, ch) /\ Settled(k, ch)

\* The rest of a list, one place further on.
LEMMA TailOfList ==
    ASSUME NEW S, NEW s \in Seq(S), s # << >>
    PROVE  /\ Len(s) \in Nat \ {0} /\ DOMAIN s = 1 .. Len(s) /\ Head(s) = s[1]
           /\ DOMAIN Tail(s) = 1 .. Len(s) - 1
           /\ \A i \in 1 .. Len(s) - 1 : Tail(s)[i] = s[i + 1]
<1>1. Len(s) \in Nat \ {0} /\ DOMAIN s = 1 .. Len(s)
  BY EmptySeq, LenProperties
<1>2. Tail(s) \in Seq(S) /\ Len(Tail(s)) = Len(s) - 1
  BY HeadTailProperties
<1>3. DOMAIN Tail(s) = 1 .. Len(s) - 1
  BY <1>2, LenProperties
<1>4. \A i \in 1 .. Len(s) - 1 : Tail(s)[i] = s[i + 1]
  BY <1>1
<1> QED BY <1>1, <1>3, <1>4

\* A new element at the end of a sequence without repetitions.
LEMMA AppendOfList ==
    ASSUME NEW S, NEW s \in Seq(S), NEW e \in S, IsInjective(s), e \notin ToSet(s)
    PROVE  /\ Append(s, e) \in Seq(S) /\ Append(s, e) # << >> /\ Len(Append(s, e)) = Len(s) + 1
           /\ ToSet(Append(s, e)) = ToSet(s) \cup {e} /\ IsInjective(Append(s, e))
<1> DEFINE t == Append(s, e)
<1>1. /\ t \in Seq(S) /\ t # << >> /\ Len(t) = Len(s) + 1 /\ Len(s) \in Nat
      /\ \A i \in 1 .. Len(s) : t[i] = s[i]
      /\ t[Len(s) + 1] = e
  BY AppendProperties, LenProperties
<1>2. DOMAIN t = 1 .. Len(s) + 1 /\ DOMAIN s = 1 .. Len(s)
  BY <1>1, LenProperties
<1> HIDE DEF t
<1>3. ToSet(t) = ToSet(s) \cup {e}
  <2>1. ToSet(t) \subseteq ToSet(s) \cup {e}
    <3>1. ASSUME NEW i \in 1 .. Len(s) + 1 PROVE t[i] \in ToSet(s) \cup {e}
      <4>1. CASE i = Len(s) + 1
        BY <1>1, <4>1
      <4>2. CASE i # Len(s) + 1
        <5>1. i \in 1 .. Len(s)
          BY <1>1, <4>2
        <5> QED BY <1>1, <1>2, <5>1 DEF ToSet
      <4> QED BY <4>1, <4>2
    <3> QED BY <1>2, <3>1 DEF ToSet
  <2>2. ASSUME NEW i \in 1 .. Len(s) PROVE s[i] \in ToSet(t)
    <3>1. i \in DOMAIN t /\ t[i] = s[i]
      BY <1>1, <1>2
    <3> QED BY <3>1 DEF ToSet
  <2>3. e \in ToSet(t)
    <3>1. Len(s) + 1 \in DOMAIN t /\ t[Len(s) + 1] = e
      BY <1>1, <1>2
    <3> QED BY <3>1 DEF ToSet
  <2>4. ToSet(s) \subseteq ToSet(t)
    BY <1>2, <2>2 DEF ToSet
  <2> QED BY <2>1, <2>3, <2>4
<1>4. ASSUME NEW i \in DOMAIN t, NEW j \in DOMAIN t, t[i] = t[j] PROVE i = j
  <2>1. \A m \in 1 .. Len(s) : t[m] = s[m] /\ s[m] # e
    BY <1>1, <1>2 DEF ToSet
  <2>2. (i \in 1 .. Len(s) \/ i = Len(s) + 1) /\ (j \in 1 .. Len(s) \/ j = Len(s) + 1)
    BY <1>1, <1>2
  <2>3. \A a, b \in 1 .. Len(s) : s[a] = s[b] => a = b
    BY <1>2 DEF IsInjective
  <2> QED BY <1>1, <1>4, <2>1, <2>2, <2>3
<1> QED BY <1>1, <1>3, <1>4 DEF IsInjective, t

\* The step takes the head of the list and chooses it if it can be used.
Takes(k, ch, m) ==
    /\ m.data = k.data /\ m.terms = k.terms /\ m.stage = "selecting"
    /\ m.stale = k.stale /\ m.changed = k.changed
    /\ m.order = Tail(k.order)
    /\ IF Usable(k, ch, Head(k.order).chan)
       THEN /\ m.left = k.left - 1 /\ m.bandwidth = k.bandwidth + Head(k.order).balance
            /\ m.selected = Append(k.selected, Head(k.order).chan)
       ELSE m.left = k.left /\ m.bandwidth = k.bandwidth /\ m.selected = k.selected

\* Taking a channel keeps the count.
LEMMA TakesCounted ==
    ASSUME NEW k, NEW ch, Listed(k, ch), k.order # << >>, ~ Full(k), NEW m, Takes(k, ch, m)
    PROVE  Counted(m, ch)
<1> DEFINE c == Head(k.order).chan
           n == Len(k.order)
<1>1. /\ k.order \in Seq(Listing) /\ k.selected \in Seq(Private) /\ Counted(k, ch)
  BY DEF Listed
<1>2. /\ n \in Nat \ {0} /\ DOMAIN k.order = 1 .. n /\ Head(k.order) = k.order[1]
      /\ DOMAIN m.order = 1 .. n - 1
      /\ \A i \in 1 .. n - 1 : m.order[i] = k.order[i + 1]
  BY <1>1, TailOfList DEF Takes
<1>3. c = k.order[1].chan /\ c \in Private
  <2>1. Head(k.order) \in Listing
    BY <1>1, HeadTailProperties
  <2> QED BY <1>2, <2>1 DEF Listing
<1> HIDE DEF c, n
<1>4. /\ k.left \in Nat /\ k.left > 0
      /\ k.left + Len(k.selected) + Len(k.data.routeHints) = MaxHopHints
      /\ Len(k.selected) \in Nat /\ Len(k.data.routeHints) \in Nat
  BY <1>1, LenProperties DEF Counted, Full
<1>5. IsInjective(k.selected) /\ c \notin ToSet(k.selected)
  <2>1. 1 \in DOMAIN k.order
    BY <1>2
  <2> QED BY <1>1, <1>3, <2>1 DEF Counted
<1>6. /\ m.left \in Nat /\ IsInjective(m.selected)
      /\ m.left + Len(m.selected) + Len(m.data.routeHints) = MaxHopHints
      /\ ToSet(m.selected) \subseteq ToSet(k.selected) \cup {c}
  <2>1. CASE Usable(k, ch, c)
    <3>1. m.selected = Append(k.selected, c) /\ m.left = k.left - 1 /\ m.data = k.data
      BY <2>1 DEF Takes, c
    <3>2. /\ Len(m.selected) = Len(k.selected) + 1 /\ IsInjective(m.selected)
          /\ ToSet(m.selected) = ToSet(k.selected) \cup {c}
      BY <1>1, <1>3, <1>5, <3>1, AppendOfList
    <3>3. m.left \in Nat /\ m.left + Len(m.selected) = k.left + Len(k.selected)
      BY <1>4, <3>1, <3>2
    <3>4. m.left + Len(m.selected) + Len(m.data.routeHints) = MaxHopHints
      BY <1>4, <3>1, <3>3
    <3> QED BY <3>2, <3>3, <3>4
  <2>2. CASE ~ Usable(k, ch, c)
    <3>1. m.selected = k.selected /\ m.left = k.left /\ m.data = k.data
      BY <2>2 DEF Takes, c
    <3>2. m.left + Len(m.selected) + Len(m.data.routeHints) = MaxHopHints /\ m.left \in Nat
      BY <1>4, <3>1
    <3>3. IsInjective(m.selected) /\ ToSet(m.selected) \subseteq ToSet(k.selected) \cup {c}
      BY <1>5, <3>1
    <3> QED BY <3>2, <3>3
  <2> QED BY <2>1, <2>2
<1>7. \A i \in 1 .. n - 1 : i + 1 \in DOMAIN k.order /\ i + 1 # 1 /\ m.order[i] = k.order[i + 1]
  BY <1>2
<1>8. \A i, j \in DOMAIN m.order : m.order[i].chan = m.order[j].chan => i = j
  <2>1. ASSUME NEW i \in 1 .. n - 1, NEW j \in 1 .. n - 1, m.order[i].chan = m.order[j].chan
        PROVE  i = j
    <3>1. PICK a \in DOMAIN k.order, b \in DOMAIN k.order :
            a = i + 1 /\ b = j + 1 /\ m.order[i] = k.order[a] /\ m.order[j] = k.order[b]
      BY <1>7
    <3>2. a = b
      BY <1>1, <2>1, <3>1 DEF Counted
    <3> QED BY <1>2, <3>1, <3>2
  <2> QED BY <1>2, <2>1
<1>9. \A i \in DOMAIN m.order : m.order[i].chan \notin ToSet(m.selected)
  <2>1. 1 \in DOMAIN k.order
    BY <1>2
  <2>2. \A i \in DOMAIN k.order : i # 1 => k.order[i].chan # c
    BY <1>1, <1>3, <2>1 DEF Counted
  <2>3. \A i \in DOMAIN k.order : k.order[i].chan \notin ToSet(k.selected)
    BY <1>1 DEF Counted
  <2> QED BY <1>2, <1>6, <1>7, <2>2, <2>3
<1>10. m.data = k.data /\ m.stale = k.stale /\ m.changed = k.changed
  BY DEF Takes
<1> QED BY <1>1, <1>6, <1>8, <1>9, <1>10 DEF Counted

LEMMA UsableSame ==
    ASSUME NEW k, NEW m, m.data = k.data, NEW ch
    PROVE  \A c : Usable(m, ch, c) <=> Usable(k, ch, c)
  BY DEF Usable

\* No number of hints is enough that is not Full.
LEMMA NotFullNotEnough ==
    ASSUME NEW k, NEW ch, Listed(k, ch), ~ Full(k), k.bandwidth = Capacity(ch, ToSet(k.selected))
    PROVE  ~ Enough(k, ch, ToSet(k.selected))
<1>1. Cardinality(ToSet(k.selected)) = Len(k.selected)
  BY InjectiveLen DEF Listed, Counted
<1>2. /\ k.left \in Nat /\ k.left > 0
      /\ k.left + Len(k.selected) + Len(k.data.routeHints) = MaxHopHints
      /\ Len(k.selected) \in Nat /\ Len(k.data.routeHints) \in Nat
  BY LenProperties DEF Listed, Counted, Full
<1>3. ~ (Cardinality(ToSet(k.selected)) >= MaxHopHints - Len(k.data.routeHints))
  BY <1>1, <1>2
<1> QED BY <1>3 DEF Enough, Full

\* Taking a channel moves the others up by one.
LEMMA TakesShifts ==
    ASSUME NEW k, NEW ch, Listed(k, ch), k.order # << >>, NEW m, Takes(k, ch, m)
    PROVE  /\ Head(k.order) = k.order[1] /\ k.order[1].chan \in Private /\ 1 \in DOMAIN k.order
           /\ \A i \in DOMAIN m.order : i \in Int /\ i + 1 \in DOMAIN k.order /\ 1 < i + 1
           /\ \A i \in DOMAIN m.order : m.order[i] = k.order[i + 1]
           /\ \A i \in DOMAIN k.order : i # 1 =>
                 i \in Int /\ i - 1 \in DOMAIN m.order /\ m.order[i - 1] = k.order[i]
<1> DEFINE n == Len(k.order)
<1>1. k.order \in Seq(Listing)
  BY DEF Listed
<1>2. /\ n \in Nat \ {0} /\ DOMAIN k.order = 1 .. n /\ Head(k.order) = k.order[1]
      /\ DOMAIN m.order = 1 .. n - 1
      /\ \A i \in 1 .. n - 1 : m.order[i] = k.order[i + 1]
  BY <1>1, TailOfList DEF Takes
<1>3. k.order[1].chan \in Private
  <2>1. k.order[1] \in Listing
    BY <1>1, <1>2, HeadTailProperties
  <2> QED BY <2>1 DEF Listing
<1> HIDE DEF n
<1>4. ASSUME NEW i \in 1 .. n, i # 1
      PROVE  i \in Int /\ i - 1 \in 1 .. n - 1 /\ m.order[i - 1] = k.order[i]
  <2>1. i - 1 \in 1 .. n - 1 /\ (i - 1) + 1 = i
    BY <1>2, <1>4
  <2> QED BY <1>2, <2>1
<1> QED BY <1>2, <1>3, <1>4

\* If the channel cannot be used, nothing is lost by leaving it out.
LEMMA LeavesBest ==
    ASSUME NEW k, NEW ch, Listed(k, ch), k.order # << >>, Best(k, ch), NEW m, Takes(k, ch, m),
           ~ Usable(k, ch, Head(k.order).chan)
    PROVE  Best(m, ch)
<1>1. /\ m.data = k.data /\ m.terms = k.terms /\ m.stage = "selecting"
      /\ m.bandwidth = k.bandwidth /\ m.selected = k.selected
  BY DEF Takes
<1>2. /\ Head(k.order) = k.order[1] /\ k.order[1].chan \in Private /\ 1 \in DOMAIN k.order
      /\ \A i \in DOMAIN m.order : i \in Int /\ i + 1 \in DOMAIN k.order /\ 1 < i + 1
      /\ \A i \in DOMAIN m.order : m.order[i] = k.order[i + 1]
      /\ \A i \in DOMAIN k.order : i # 1 =>
            i \in Int /\ i - 1 \in DOMAIN m.order /\ m.order[i - 1] = k.order[i]
  BY TakesShifts
<1>3. \A c : Usable(m, ch, c) <=> Usable(k, ch, c)
  BY <1>1, UsableSame
<1>4. \A c \in ToSet(m.selected) : Usable(m, ch, c)
  BY <1>1, <1>3 DEF Best
<1>5. ASSUME NEW c \in Private, Usable(m, ch, c)
      PROVE  c \in ToSet(m.selected) \/ \E i \in DOMAIN m.order : m.order[i].chan = c
  <2>1. c \in ToSet(k.selected) \/ \E i \in DOMAIN k.order : k.order[i].chan = c
    BY <1>3, <1>5 DEF Best
  <2>2. ASSUME NEW i \in DOMAIN k.order, k.order[i].chan = c
        PROVE  \E j \in DOMAIN m.order : m.order[j].chan = c
    <3>1. i # 1
      BY <1>2, <1>3, <1>5, <2>2
    <3> QED BY <1>2, <2>2, <3>1
  <2> QED BY <1>1, <2>1, <2>2
<1>6. \A i \in DOMAIN m.order : m.order[i].balance = ch[m.order[i].chan].balance
  BY <1>2 DEF Best
<1>7. ASSUME NEW i \in DOMAIN m.order, NEW j \in DOMAIN m.order, i < j
      PROVE  m.order[i].balance >= m.order[j].balance
  <2>1. i + 1 < j + 1
    BY <1>2, <1>7
  <2> QED BY <1>2, <2>1 DEF Best
<1>8. \A c \in ToSet(m.selected), i \in DOMAIN m.order : ch[c].balance >= m.order[i].balance
  BY <1>1, <1>2 DEF Best
<1>9. \A set : Enough(m, ch, set) <=> Enough(k, ch, set)
  BY <1>1 DEF Enough
<1>10. m.bandwidth = Capacity(ch, ToSet(m.selected))
  BY <1>1 DEF Best
<1>11. m.selected # << >> => \E l \in ToSet(m.selected) :
          /\ \A c \in ToSet(m.selected) : ch[c].balance >= ch[l].balance
          /\ ~ Enough(m, ch, ToSet(m.selected) \ {l})
  BY <1>1, <1>9 DEF Best
<1>12. m.stage # "adding"
  BY <1>1
<1> QED BY <1>4, <1>5, <1>6, <1>7, <1>8, <1>10, <1>11, <1>12 DEF Best

\* If it can, it is the least of those chosen, which were not enough before.
LEMMA ChoosesBest ==
    ASSUME NEW k, NEW ch, Listed(k, ch), k.order # << >>, ~ Full(k), Best(k, ch), NEW m,
           Takes(k, ch, m), Usable(k, ch, Head(k.order).chan)
    PROVE  Best(m, ch)
<1> DEFINE c == k.order[1].chan
           old == ToSet(k.selected)
           new == ToSet(m.selected)
<1>2. /\ Head(k.order) = k.order[1] /\ c \in Private /\ 1 \in DOMAIN k.order
      /\ \A i \in DOMAIN m.order : i \in Int /\ i + 1 \in DOMAIN k.order /\ 1 < i + 1
      /\ \A i \in DOMAIN m.order : m.order[i] = k.order[i + 1]
      /\ \A i \in DOMAIN k.order : i # 1 =>
            i \in Int /\ i - 1 \in DOMAIN m.order /\ m.order[i - 1] = k.order[i]
  BY TakesShifts
<1>1. /\ m.data = k.data /\ m.terms = k.terms /\ m.stage = "selecting"
      /\ m.bandwidth = k.bandwidth + k.order[1].balance /\ m.selected = Append(k.selected, c)
      /\ Usable(k, ch, c)
  BY <1>2 DEF Takes
<1>3. /\ k.selected \in Seq(Private) /\ IsInjective(k.selected) /\ c \notin old
  BY <1>2 DEF Listed, Counted
<1>4. new = old \cup {c}
  BY <1>1, <1>2, <1>3, AppendOfList
<1>5. old \subseteq Private
  BY <1>3, SeqOfOwn
<1>6. \A x : Usable(m, ch, x) <=> Usable(k, ch, x)
  BY <1>1, UsableSame
<1> HIDE DEF c, old, new
<1>7. \A x \in new : Usable(m, ch, x)
  BY <1>1, <1>4, <1>6 DEF Best, old
<1>8. ASSUME NEW x \in Private, Usable(m, ch, x)
      PROVE  x \in new \/ \E i \in DOMAIN m.order : m.order[i].chan = x
  <2>1. x \in old \/ \E i \in DOMAIN k.order : k.order[i].chan = x
    BY <1>6, <1>8 DEF Best, old
  <2>2. ASSUME NEW i \in DOMAIN k.order, k.order[i].chan = x, x \notin new
        PROVE  \E j \in DOMAIN m.order : m.order[j].chan = x
    <3>1. i # 1
      BY <1>4, <2>2 DEF c
    <3> QED BY <1>2, <2>2, <3>1
  <2> QED BY <1>4, <2>1, <2>2
<1>9. \A i \in DOMAIN m.order : m.order[i].balance = ch[m.order[i].chan].balance
  BY <1>2 DEF Best
<1>10. ASSUME NEW i \in DOMAIN m.order, NEW j \in DOMAIN m.order, i < j
       PROVE  m.order[i].balance >= m.order[j].balance
  <2>1. i + 1 < j + 1
    BY <1>2, <1>10
  <2> QED BY <1>2, <2>1 DEF Best
<1>11. ch[c].balance = k.order[1].balance
  BY <1>2 DEF Best, c
<1>12. ASSUME NEW x \in new, NEW i \in DOMAIN m.order PROVE ch[x].balance >= m.order[i].balance
  <2>1. CASE x \in old
    BY <1>2, <2>1 DEF Best, old
  <2>2. CASE x = c
    BY <1>2, <1>11, <2>2 DEF Best
  <2> QED BY <1>4, <2>1, <2>2
<1>13. m.bandwidth = Capacity(ch, new)
  <2>1. ch \in [Private -> ChanStates]
    BY DEF Listed
  <2>2. k.bandwidth = Capacity(ch, old)
    BY DEF Best, old
  <2>3. IsFiniteSet(Private) /\ \A x \in Private : ch[x].balance \in Nat
    BY <2>1, BalancesAreNat
  <2>4. old \in SUBSET Private /\ c \in Private \ old
    BY <1>2, <1>3, <1>5
  <2>5. Capacity(ch, old \cup {c}) = Capacity(ch, old) + ch[c].balance
    BY <2>3, <2>4, CapacityAdds
  <2> QED BY <1>1, <1>4, <1>11, <2>2, <2>5
<1>14. \A set : Enough(m, ch, set) <=> Enough(k, ch, set)
  BY <1>1 DEF Enough
<1>15. /\ c \in new /\ \A x \in new : ch[x].balance >= ch[c].balance
       /\ ~ Enough(m, ch, new \ {c})
  <2>1. ~ Enough(k, ch, old)
    BY NotFullNotEnough DEF Best, old
  <2>2. new \ {c} = old
    BY <1>3, <1>4
  <2>3. \A x \in old : ch[x].balance >= ch[c].balance
    BY <1>2, <1>11 DEF Best, old
  <2>4. ch[c].balance >= ch[c].balance
    <3>1. ch[c].balance \in Nat
      BY <1>2, BalancesAreNat DEF Listed
    <3> QED BY <3>1
  <2> QED BY <1>4, <1>14, <2>1, <2>2, <2>3, <2>4
<1>16. m.stage # "adding"
  BY <1>1
<1> QED BY <1>7, <1>8, <1>9, <1>10, <1>12, <1>13, <1>15, <1>16 DEF Best, new

\* Taking a channel keeps what is chosen the best, whether or not it is chosen.
LEMMA TakesSettled ==
    ASSUME NEW k, NEW ch, Listed(k, ch), k.order # << >>, ~ Full(k), NEW m, Takes(k, ch, m)
    PROVE  Settled(m, ch)
<1>1. m.changed = k.changed /\ Settled(k, ch)
  BY DEF Takes, Listed
<1> QED BY <1>1, LeavesBest, ChoosesBest DEF Settled

\* The choice ends: the list is empty, or the hints are enough; they may be put
\* in another order.
LEMMA StopsChoice ==
    ASSUME NEW k, NEW ch, Listed(k, ch), Full(k) \/ k.order = << >>, NEW m,
           m.data = k.data, m.terms = k.terms, m.order = k.order, m.left = k.left,
           m.bandwidth = k.bandwidth, m.changed = k.changed, m.stale = k.stale,
           m.stage = "adding", IsInjective(m.selected), ToSet(m.selected) = ToSet(k.selected),
           Len(m.selected) = Len(k.selected), m.selected # << >> => k.selected # << >>
    PROVE  Counted(m, ch) /\ Settled(m, ch)
<1>1. Counted(k, ch) /\ Settled(k, ch)
  BY DEF Listed
<1>2. Counted(m, ch)
  BY <1>1 DEF Counted
<1>3. ASSUME Best(k, ch) PROVE Best(m, ch)
  <2>1. \A c : Usable(m, ch, c) <=> Usable(k, ch, c)
    BY UsableSame
  <2>2. \A set : Enough(m, ch, set) <=> Enough(k, ch, set)
    BY DEF Enough
  <2>3. Full(m) <=> Full(k)
    BY DEF Full
  <2> QED BY <1>3, <2>1, <2>2, <2>3 DEF Best
<1> QED BY <1>1, <1>2, <1>3 DEF Settled

\* A call that is still choosing, and what its steps do to it.
LEMMA Selecting ==
    ASSUME CallInv, ChoiceInv, call.stage = "selecting"
    PROVE  /\ Listed(call, chan) /\ DOMAIN call = CallFields /\ call # Idle
           /\ call.terms.cltv \in 0 .. 2^CltvBits - 1
<1>1. call # Idle /\ call.stage # "idle"
  BY IdleStage
<1> QED BY <1>1, CallSet DEF ChoiceInv, Listed

\* Nothing changes where there are enough hints.
LEMMA ReturnChoice == ASSUME CallInv, ChoiceInv, ReturnHints PROVE ChoiceInv'
<1>1. /\ call.stage = "selecting" /\ call' = [call EXCEPT !.stage = "adding"] /\ chan' = chan
      /\ SufficientHints
  BY DEF ReturnHints
<1>2. PICK k, m, ch : k = call /\ m = call' /\ ch = chan
  OBVIOUS
<1>3. Listed(k, ch) /\ DOMAIN k = CallFields /\ k.terms.cltv \in 0 .. 2^CltvBits - 1
  BY <1>1, <1>2, Selecting
<1>4. /\ m.data = k.data /\ m.terms = k.terms /\ m.order = k.order /\ m.left = k.left
      /\ m.bandwidth = k.bandwidth /\ m.changed = k.changed /\ m.stale = k.stale
      /\ m.stage = "adding" /\ m.selected = k.selected
  BY <1>1, <1>2, <1>3 DEF CallFields
<1>5. Full(k)
  BY <1>1, <1>2 DEF Full, SufficientHints
<1>6. IsInjective(m.selected)
  BY <1>3, <1>4 DEF Listed, Counted
<1>7. Counted(m, ch) /\ Settled(m, ch)
  BY <1>3, <1>4, <1>5, <1>6, StopsChoice
<1>8. m # Idle /\ m.stage # "selecting"
  BY <1>4, IdleStage
<1> QED BY <1>1, <1>2, <1>3, <1>4, <1>7, <1>8 DEF ChoiceInv

LEMMA ShuffleChoice == ASSUME CallInv, ChoiceInv, ShuffleHints PROVE ChoiceInv'
<1>1. PICK s \in SetToSeqs(ToSet(call.selected)) :
        call' = [call EXCEPT !.stage = "adding", !.selected = s, !.shuffled = TRUE]
  BY DEF ShuffleHints
<1>2. PICK k, m, ch : k = call /\ m = call' /\ ch = chan
  OBVIOUS
<1>3. call.stage = "selecting" /\ chan' = chan /\ k.order = << >>
  BY <1>2 DEF ShuffleHints
<1>4. Listed(k, ch) /\ DOMAIN k = CallFields /\ k.terms.cltv \in 0 .. 2^CltvBits - 1
  BY <1>2, <1>3, Selecting
<1>5. /\ m.data = k.data /\ m.terms = k.terms /\ m.order = k.order /\ m.left = k.left
      /\ m.bandwidth = k.bandwidth /\ m.changed = k.changed /\ m.stale = k.stale
      /\ m.stage = "adding" /\ m.selected = s
  BY <1>1, <1>2, <1>4 DEF CallFields
<1>6. /\ IsFiniteSet(ToSet(k.selected)) /\ Cardinality(ToSet(k.selected)) = Len(k.selected)
      /\ k.selected \in Seq(Private)
  BY <1>4, InjectiveLen DEF Listed, Counted
<1>7. /\ IsInjective(s) /\ ToSet(s) = ToSet(k.selected) /\ Len(s) = Len(k.selected)
      /\ s \in Seq(ToSet(k.selected))
  <2>1. PICK set : set = ToSet(k.selected)
    OBVIOUS
  <2>2. s \in SetToSeqs(set)
    BY <1>2, <2>1
  <2>3. /\ s \in Seq(set) /\ Len(s) = Cardinality(set) /\ IsInjective(s) /\ ToSet(s) = set
    BY <1>6, <2>1, <2>2, PermutationAll
  <2> QED BY <1>6, <2>1, <2>3
<1>8. s # << >> => k.selected # << >>
  <2>1. k.selected = << >> => Len(s) = 0
    BY <1>7
  <2>2. s # << >> => Len(s) # 0
    BY <1>7, EmptySeq
  <2> QED BY <2>1, <2>2
<1>9. Counted(m, ch) /\ Settled(m, ch)
  BY <1>3, <1>4, <1>5, <1>7, <1>8, StopsChoice
<1>10. m # Idle /\ m.stage # "selecting"
  BY <1>5, IdleStage
<1> QED BY <1>2, <1>3, <1>4, <1>5, <1>9, <1>10 DEF ChoiceInv

\* The next channel of the list is taken or left out.
LEMMA SelectChoice == ASSUME CallInv, ChoiceInv, SelectHopHint PROVE ChoiceInv'
<1>1. PICK k, m, ch, c : k = call /\ m = call' /\ ch = chan /\ c = Head(call.order).chan
  OBVIOUS
<1>2. call.stage = "selecting" /\ k.order # << >> /\ chan' = chan /\ ~ SufficientHints
  BY <1>1 DEF SelectHopHint
<1>3. Listed(k, ch) /\ DOMAIN k = CallFields /\ k.terms.cltv \in 0 .. 2^CltvBits - 1
  BY <1>1, <1>2, Selecting
<1>4. ~ Full(k)
  BY <1>1, <1>2 DEF Full, SufficientHints
<1>5. ShouldIncludeChannel(c) <=> Usable(k, ch, c)
  BY <1>1 DEF ShouldIncludeChannel, CanBeHopHint, Usable
<1>6. m = IF Usable(k, ch, c)
          THEN [k EXCEPT !.order = Tail(@), !.left = @ - 1,
                         !.bandwidth = @ + Head(k.order).balance,
                         !.selected = Append(@, c)]
          ELSE [k EXCEPT !.order = Tail(@)]
  BY <1>1, <1>5 DEF SelectHopHint
<1>7. Takes(k, ch, m)
  <2>1. CASE Usable(k, ch, c)
    <3>1. m = [k EXCEPT !.order = Tail(@), !.left = @ - 1,
                        !.bandwidth = @ + Head(k.order).balance, !.selected = Append(@, c)]
      BY <1>6, <2>1
    <3>2. /\ m.data = k.data /\ m.terms = k.terms /\ m.stage = "selecting"
          /\ m.stale = k.stale /\ m.changed = k.changed /\ m.order = Tail(k.order)
      BY <1>1, <1>2, <1>3, <3>1 DEF CallFields
    <3>3. /\ m.left = k.left - 1 /\ m.bandwidth = k.bandwidth + Head(k.order).balance
          /\ m.selected = Append(k.selected, c)
      BY <1>3, <3>1 DEF CallFields
    <3> QED BY <1>1, <2>1, <3>2, <3>3 DEF Takes
  <2>2. CASE ~ Usable(k, ch, c)
    <3>1. m = [k EXCEPT !.order = Tail(@)]
      BY <1>6, <2>2
    <3>2. /\ m.data = k.data /\ m.terms = k.terms /\ m.stage = "selecting"
          /\ m.stale = k.stale /\ m.changed = k.changed /\ m.order = Tail(k.order)
      BY <1>1, <1>2, <1>3, <3>1 DEF CallFields
    <3>3. m.left = k.left /\ m.bandwidth = k.bandwidth /\ m.selected = k.selected
      BY <1>3, <3>1 DEF CallFields
    <3> QED BY <1>1, <2>2, <3>2, <3>3 DEF Takes
  <2> QED BY <2>1, <2>2
<1>8. Counted(m, ch) /\ Settled(m, ch)
  BY <1>2, <1>3, <1>4, <1>7, TakesCounted, TakesSettled
<1>9. m # Idle /\ m.terms = k.terms
  BY <1>7, IdleStage DEF Takes
<1>10. ch \in [Private -> ChanStates]
  BY <1>3 DEF Listed
<1> QED BY <1>1, <1>2, <1>3, <1>8, <1>9, <1>10 DEF ChoiceInv

\* Once a channel has changed nothing is said of the choice.
LEMMA ChangeChoice ==
    ASSUME CallInv, ChoiceInv, NEW c \in Private, ChannelChanges(c)
    PROVE  ChoiceInv'
<1>1. /\ chan # Unobserved
      /\ call' = [call EXCEPT !.changed = @ \cup {c},
                              !.stale = @ \cup ({c} \cap ToSet(call.selected))]
  BY DEF ChannelChanges
<1>2. PICK s \in ChanStates : chan' = [chan EXCEPT ![c] = s]
  BY DEF ChannelChanges
<1>3. call # Idle
  BY <1>1 DEF ChoiceInv
<1>4. call.stage # "idle" /\ DOMAIN call = CallFields
  BY <1>3 DEF CallInv
<1>5. PICK k, m, ch, ch2 : k = call /\ m = call' /\ ch = chan /\ ch2 = chan'
  OBVIOUS
<1>6. /\ m.data = k.data /\ m.terms = k.terms /\ m.order = k.order /\ m.left = k.left
      /\ m.stage = k.stage /\ m.selected = k.selected /\ m.changed = k.changed \cup {c}
      /\ m.stale = k.stale \cup ({c} \cap ToSet(k.selected))
  BY <1>1, <1>4, <1>5 DEF CallFields
<1>7. Counted(k, ch) /\ k.terms.cltv \in 0 .. 2^CltvBits - 1
  BY <1>3, <1>5 DEF ChoiceInv
<1>8. ch2 \in [Private -> ChanStates]
  BY <1>1, <1>2, <1>5, <1>7 DEF Counted
<1>9. Counted(m, ch2)
  BY <1>6, <1>7, <1>8 DEF Counted
<1>10. Settled(m, ch2)
  BY <1>6 DEF Settled
<1>11. m # Idle
  BY <1>4, <1>5, <1>6, IdleStage
<1> QED BY <1>5, <1>6, <1>7, <1>8, <1>9, <1>10, <1>11 DEF ChoiceInv

LEMMA EmptyChoice == IsInjective(<< >>) /\ ToSet(<< >>) = {} /\ Len(<< >>) = 0
  BY DEF IsInjective, ToSet

\* The list of all private channels, at the start of a choice.
LEMMA ListedFirst ==
    ASSUME NEW ch \in [Private -> ChanStates], NEW o \in PotentialHints(ch),
           NEW k, k.data.routeHints \in Seq(ToSet(k.data.routeHints)),
           k.left = MaxHopHints - Len(k.data.routeHints), k.left > 0,
           k.order = [i \in DOMAIN o |-> [chan |-> o[i], balance |-> ch[o[i]].balance]],
           k.selected = << >>, k.bandwidth = 0, k.changed = {}, k.stale = {},
           k.stage = "selecting"
    PROVE  Counted(k, ch) /\ Settled(k, ch)
<1>1. IsFiniteSet(Private) /\ \A c \in Private : ch[c].balance \in Nat
  BY BalancesAreNat
<1>2. /\ o \in SetToSeqs(Private)
      /\ \A i, j \in DOMAIN o : i < j => ch[o[i]].balance >= ch[o[j]].balance
  BY DEF PotentialHints, Private
<1>3. DOMAIN o = 1 .. Len(o) /\ o \in Seq(Private) /\ IsInjective(o) /\ ToSet(o) = Private
  BY <1>1, <1>2, PermutationAll
<1>4. /\ DOMAIN k.order = DOMAIN o
      /\ \A i \in DOMAIN o : k.order[i].chan = o[i] /\ k.order[i].balance = ch[o[i]].balance
  OBVIOUS
<1>5. Counted(k, ch)
  <2>1. k.left \in Nat /\ k.left + 0 + Len(k.data.routeHints) = MaxHopHints
    <3>1. Len(k.data.routeHints) \in Nat /\ MaxHopHints \in Nat
      BY LenProperties, InvoiceAssumption DEF InvoiceAssumption
    <3> QED BY <3>1
  <2>2. \A i, j \in DOMAIN k.order : k.order[i].chan = k.order[j].chan => i = j
    BY <1>3, <1>4 DEF IsInjective
  <2>3. \A i \in DOMAIN k.order : k.order[i].chan \notin ToSet(k.selected)
    BY EmptyChoice
  <2> QED BY <2>1, <2>2, <2>3, EmptyChoice DEF Counted
<1>6. Best(k, ch)
  <2>1. ASSUME NEW c \in Private PROVE \E i \in DOMAIN k.order : k.order[i].chan = c
    <3>1. PICK i \in DOMAIN o : o[i] = c
      BY <1>3 DEF ToSet
    <3> QED BY <1>4, <3>1
  <2>2. \A i \in DOMAIN k.order : k.order[i].balance = ch[k.order[i].chan].balance
    BY <1>4
  <2>3. \A i, j \in DOMAIN k.order : i < j => k.order[i].balance >= k.order[j].balance
    BY <1>2, <1>4
  <2>4. k.bandwidth = Capacity(ch, ToSet(k.selected))
    BY <1>1, CapacityAdds, EmptyChoice
  <2>5. ToSet(k.selected) = {} /\ k.selected = << >> /\ k.stage # "adding"
    BY EmptyChoice
  <2> QED BY <2>1, <2>2, <2>3, <2>4, <2>5 DEF Best
<1> QED BY <1>5, <1>6 DEF Settled

\* The time lock fits, and the request has no more hints than there may be.
LEMMA TermsLimits ==
    ASSUME NEW d, NEW t \in Terms(d)
    PROVE  t.cltv \in 0 .. 2^CltvBits - 1 /\ Len(d.routeHints) <= MaxHopHints
<1>1. t.cltv \in CltvExpiry(d) /\ Len(d.routeHints) <= MaxHopHints
  BY DEF Terms
<1>2. /\ DefaultCLTVExpiry \in MinCLTVDelta .. MaxCLTVDelta /\ MinCLTVDelta \in Nat
      /\ MaxCLTVDelta \in 0 .. 2^CltvBits - 1 /\ 2^CltvBits \in Nat
  BY InvoiceAssumption, WidthsAssumption DEF InvoiceAssumption, WidthsAssumption
<1>3. t.cltv \in MinCLTVDelta .. MaxCLTVDelta
  BY <1>1, <1>2 DEF CltvExpiry
<1> QED BY <1>1, <1>2, <1>3

\* The list has every private channel once, and nothing is chosen.
LEMMA PopulateChoice ==
    ASSUME ChoiceInv, NEW d, d.routeHints \in Seq(ToSet(d.routeHints)), PopulateHopHints(d)
    PROVE  ChoiceInv'
<1> DEFINE New(t) == [stage |-> "adding", data |-> d, terms |-> t, order |-> << >>,
                      left |-> MaxHopHints - Len(d.routeHints), bandwidth |-> 0,
                      selected |-> << >>, shuffled |-> FALSE,
                      changed |-> {}, stale |-> {}]
           Now(channels, o) ==
               [i \in DOMAIN o |-> [chan |-> o[i], balance |-> channels[o[i]].balance]]
<1>1. PICK t \in Terms(d), channels \in [Private -> ChanStates] :
        \E o \in PotentialHints(channels) :
           IF d.private /\ New(t).left > 0
           THEN /\ call' = [New(t) EXCEPT !.stage = "selecting", !.order = Now(channels, o)]
                /\ chan' = channels
           ELSE call' = New(t) /\ UNCHANGED chan
  BY DEF PopulateHopHints, Private
<1>2. PICK o \in PotentialHints(channels) :
        IF d.private /\ New(t).left > 0
        THEN /\ call' = [New(t) EXCEPT !.stage = "selecting", !.order = Now(channels, o)]
             /\ chan' = channels
        ELSE call' = New(t) /\ UNCHANGED chan
  BY <1>1
<1>3. chan = Unobserved
  BY DEF PopulateHopHints, ChoiceInv
<1>4. t.cltv \in 0 .. 2^CltvBits - 1 /\ Len(d.routeHints) <= MaxHopHints
  BY TermsLimits
<1>5. PICK n, m, l : n = New(t) /\ m = call' /\ l = Now(channels, o)
  OBVIOUS
<1>6. /\ DOMAIN n = CallFields /\ n.data = d /\ n.terms = t /\ n.selected = << >>
      /\ n.left = MaxHopHints - Len(d.routeHints) /\ n.bandwidth = 0 /\ n.changed = {}
      /\ n.stale = {} /\ n.stage = "adding" /\ n.order = << >>
  BY <1>5 DEF CallFields
<1>7. \/ /\ m = [n EXCEPT !.stage = "selecting", !.order = l]
         /\ chan' = channels /\ n.left > 0
      \/ m = n /\ chan' = Unobserved
  BY <1>2, <1>3, <1>5
<1>8. CASE m = n /\ chan' = Unobserved
  <2>1. m.left \in Nat /\ m.left + 0 + Len(m.data.routeHints) = MaxHopHints
    <3>1. Len(d.routeHints) \in Nat /\ MaxHopHints \in Nat
      BY LenProperties, InvoiceAssumption DEF InvoiceAssumption
    <3> QED BY <1>4, <1>6, <1>8, <3>1
  <2>2. Counted(m, Unobserved)
    BY <1>6, <1>8, <2>1, EmptyChoice DEF Counted
  <2>3. Settled(m, Unobserved)
    BY DEF Settled
  <2>4. m # Idle /\ m.stage # "selecting" /\ m.terms = t
    BY <1>6, <1>8, IdleStage
  <2> QED BY <1>4, <1>5, <1>8, <2>2, <2>3, <2>4 DEF ChoiceInv
<1>9. CASE m = [n EXCEPT !.stage = "selecting", !.order = l] /\ chan' = channels /\ n.left > 0
  <2>1. /\ m.data = d /\ m.terms = t /\ m.selected = << >> /\ m.left = n.left
        /\ m.bandwidth = 0 /\ m.changed = {} /\ m.stale = {} /\ m.stage = "selecting"
        /\ m.order = l
    BY <1>6, <1>9 DEF CallFields
  <2>2. l = [i \in DOMAIN o |-> [chan |-> o[i], balance |-> channels[o[i]].balance]]
    BY <1>5
  <2>3. Counted(m, channels) /\ Settled(m, channels)
    BY <1>6, <1>9, <2>1, <2>2, ListedFirst
  <2>4. m # Idle
    BY <2>1, IdleStage
  <2> QED BY <1>4, <1>5, <1>9, <2>1, <2>3, <2>4 DEF ChoiceInv
<1> QED BY <1>7, <1>8, <1>9

LEMMA SameChoice == ChoiceInv /\ UNCHANGED <<call, chan>> => ChoiceInv'
<1> SUFFICES ASSUME ChoiceInv, call' = call, chan' = chan PROVE ChoiceInv'
  OBVIOUS
<1>1. PICK k, ch : k = call /\ ch = chan
  OBVIOUS
<1> QED BY <1>1 DEF ChoiceInv

\* A hold invoice has the hints of its request.
LEMMA HintsOfRequest ==
    ASSUME NEW d \in AddRequests, NEW e \in {d, HoldInvoice(d)}
    PROVE  e.routeHints \in Seq(ToSet(e.routeHints))
<1>1. HoldInvoice(d).routeHints = d.routeHints
  BY AddRequestsAssumption DEF HoldInvoice, AddRequestsAssumption
<1> QED BY <1>1, AddRequestsAssumption DEF AddRequestsAssumption

LEMMA NextChoice == CallInv /\ ChoiceInv /\ [Next]_vars => ChoiceInv'
<1> SUFFICES ASSUME CallInv, ChoiceInv, [Next]_vars PROVE ChoiceInv'
  OBVIOUS
<1>1. CASE AddNext
  <2>1. CASE AddInvoice
    <3>1. PICK d \in AddRequests : PopulateHopHints(IF d.hodl THEN HoldInvoice(d) ELSE d)
      BY <2>1 DEF AddInvoice
    <3>2. PICK e : e = IF d.hodl THEN HoldInvoice(d) ELSE d
      OBVIOUS
    <3>3. PopulateHopHints(e) /\ e \in {d, HoldInvoice(d)}
      BY <3>1, <3>2
    <3>4. e.routeHints \in Seq(ToSet(e.routeHints))
      BY <3>3, HintsOfRequest
    <3> QED BY <3>3, <3>4, PopulateChoice
  <2>2. CASE InsertInvoice
    BY <2>2 DEF InsertInvoice, ChoiceInv
  <2>3. ASSUME NEW c \in Chans \ PublicChans, ChannelChanges(c) PROVE ChoiceInv'
    BY <2>3, ChangeChoice DEF Private
  <2>4. CASE TimePasses
    BY <2>4, SameChoice DEF TimePasses
  <2> QED BY <1>1, <2>1, <2>2, <2>3, <2>4, ReturnChoice, SelectChoice, ShuffleChoice
          DEF AddNext
<1>2. CASE ~ AddNext
  <2>1. UNCHANGED <<call, chan>>
    BY <1>2 DEF Next, vars, addVars, SendPaymentV2, PaymentEnds, InvoiceEnds, SettleInvoice,
                CancelInvoice
  <2> QED BY <2>1, SameChoice
<1> QED BY <1>1, <1>2

LEMMA ChoiceAlways == Spec => []ChoiceInv
<1>1. Init => ChoiceInv
  BY DEF Init, AddInit, ChoiceInv
<1>2. CallInv /\ ChoiceInv /\ [Next]_vars => ChoiceInv'
  BY NextChoice
<1> QED BY <1>1, <1>2, CallAlways, PTL DEF Spec

\* Two channels that are both the least of those chosen are as good as each other.
LEMMA LeastNeeded ==
    ASSUME NEW k, NEW ch \in [Private -> ChanStates], NEW chosen \in SUBSET Private,
           NEW l \in chosen, NEW c \in chosen,
           \A x \in chosen : ch[x].balance >= ch[l].balance,
           \A x \in chosen : ch[c].balance <= ch[x].balance,
           ~ Enough(k, ch, chosen \ {l})
    PROVE  ~ Enough(k, ch, chosen \ {c})
<1>1. IsFiniteSet(Private) /\ \A x \in Private : ch[x].balance \in Nat
  BY BalancesAreNat
<1>2. ch[l].balance = ch[c].balance
  BY <1>1
<1>3. IsFiniteSet(chosen)
  BY <1>1, FS_Subset
<1>4. Cardinality(chosen \ {l}) = Cardinality(chosen \ {c})
  <2>1. /\ Cardinality(chosen \ {l}) = Cardinality(chosen) - 1
        /\ Cardinality(chosen \ {c}) = Cardinality(chosen) - 1
    BY <1>3, FS_RemoveElement
  <2> QED BY <2>1
<1>5. ASSUME NEW x \in chosen
      PROVE  /\ Capacity(ch, chosen \ {x}) \in Nat
             /\ Capacity(ch, chosen) = Capacity(ch, chosen \ {x}) + ch[x].balance
  <2>1. PICK rest \in SUBSET Private : rest = chosen \ {x}
    OBVIOUS
  <2>2. x \in Private \ rest /\ rest \cup {x} = chosen
    BY <2>1
  <2>3. /\ Capacity(ch, rest) \in Nat
        /\ Capacity(ch, rest \cup {x}) = Capacity(ch, rest) + ch[x].balance
    BY <1>1, <2>2, CapacityAdds
  <2> QED BY <2>1, <2>2, <2>3
<1>6. Capacity(ch, chosen \ {l}) = Capacity(ch, chosen \ {c})
  <2>1. /\ Capacity(ch, chosen) = Capacity(ch, chosen \ {l}) + ch[l].balance
        /\ Capacity(ch, chosen) = Capacity(ch, chosen \ {c}) + ch[c].balance
        /\ Capacity(ch, chosen \ {l}) \in Nat /\ Capacity(ch, chosen \ {c}) \in Nat
    BY <1>5
  <2>2. ch[c].balance \in Nat
    BY <1>1
  <2> QED BY <1>2, <2>1, <2>2
<1> QED BY <1>4, <1>6 DEF Enough

\* The hints chosen are the best ones, there are as many as needed and no more:
\* they suffice or there are no others, and without the least of them they would
\* not, whatever the channels, their balances and the limit on hints.
THEOREM HintsAreNeeded == Spec => []HintsNeeded
<1>1. CallInv /\ ChoiceInv => HintsNeeded
  <2> SUFFICES ASSUME CallInv, ChoiceInv, call.stage = "adding", chan # Unobserved,
                      call.changed = {}
               PROVE  LET chosen == ToSet(call.selected)
                          usable == {c \in Chans \ PublicChans : ShouldIncludeChannel(c)}
                      IN  /\ chosen \subseteq usable
                          /\ Suffice(chosen) \/ chosen = usable
                          /\ \A c \in chosen, o \in usable \ chosen :
                                chan[c].balance >= chan[o].balance
                          /\ \A c \in chosen :
                                (\A o \in chosen : chan[c].balance <= chan[o].balance)
                                   => ~ Suffice(chosen \ {c})
    BY DEF HintsNeeded
  <2> DEFINE chosen == ToSet(call.selected)
             usable == {c \in Chans \ PublicChans : ShouldIncludeChannel(c)}
  <2>1. call # Idle /\ call.stage # "idle"
    BY IdleStage
  <2>2. /\ Counted(call, chan) /\ Best(call, chan) /\ chan \in [Private -> ChanStates]
        /\ call.selected \in Seq(Private)
    BY <2>1, CallSet DEF ChoiceInv, Settled, Counted
  <2>3. PICK k, ch : k = call /\ ch = chan
    OBVIOUS
  <2>4. \A c : ShouldIncludeChannel(c) <=> Usable(k, ch, c)
    BY <2>3 DEF ShouldIncludeChannel, CanBeHopHint, Usable
  <2>5. \A set : Suffice(set) <=> Enough(k, ch, set)
    BY <2>3 DEF Suffice, Enough
  <2>6. chosen \subseteq Private
    BY <2>2, SeqOfOwn
  <2>7. chosen \subseteq usable
    BY <2>2, <2>3, <2>4, <2>6 DEF Best, Private
  <2>8. ASSUME NEW o \in usable, o \notin chosen
        PROVE  \E i \in DOMAIN k.order : k.order[i].chan = o
    BY <2>2, <2>3, <2>4, <2>8 DEF Best, Private
  <2>9. Suffice(chosen) \/ chosen = usable
    <3>1. CASE k.order = << >>
      BY <2>7, <2>8, <3>1
    <3>2. CASE Full(k)
      <4>1. Cardinality(chosen) = Len(k.selected)
        BY <2>2, <2>3, InjectiveLen DEF Counted
      <4>2. /\ k.left \in Nat /\ k.left + Len(k.selected) + Len(k.data.routeHints) = MaxHopHints
            /\ Len(k.selected) \in Nat /\ Len(k.data.routeHints) \in Nat
        BY <2>2, <2>3, LenProperties DEF Counted
      <4>3. k.left <= 0 => Cardinality(chosen) >= MaxHopHints - Len(k.data.routeHints)
        BY <4>1, <4>2
      <4>4. k.bandwidth = Capacity(ch, chosen)
        BY <2>2, <2>3 DEF Best
      <4> QED BY <2>5, <3>2, <4>3, <4>4 DEF Full, Enough
    <3> QED BY <2>2, <2>3, <3>1, <3>2 DEF Best
  <2>10. ASSUME NEW c \in chosen, NEW o \in usable \ chosen
         PROVE  chan[c].balance >= chan[o].balance
    <3>1. PICK i \in DOMAIN k.order : k.order[i].chan = o
      BY <2>8
    <3>2. k.order[i].balance = ch[o].balance /\ ch[c].balance >= k.order[i].balance
      BY <2>2, <2>3, <3>1 DEF Best
    <3> QED BY <2>3, <3>2
  <2>11. ASSUME NEW c \in chosen, \A o \in chosen : chan[c].balance <= chan[o].balance
         PROVE  ~ Suffice(chosen \ {c})
    <3>1. call.selected # << >>
      BY <2>11, EmptyChoice
    <3>2. PICK l \in chosen : /\ \A x \in chosen : ch[x].balance >= ch[l].balance
                              /\ ~ Enough(k, ch, chosen \ {l})
      BY <2>2, <2>3, <3>1 DEF Best
    <3> HIDE DEF chosen
    <3>3. ~ Enough(k, ch, chosen \ {c})
      BY <2>2, <2>3, <2>6, <2>11, <3>2, LeastNeeded
    <3> QED BY <2>5, <3>3
  <2> HIDE DEF chosen, usable
  <2>12. /\ chosen \subseteq usable
         /\ Suffice(chosen) \/ chosen = usable
         /\ \A c \in chosen, o \in usable \ chosen : chan[c].balance >= chan[o].balance
         /\ \A c \in chosen : (\A o \in chosen : chan[c].balance <= chan[o].balance)
                                 => ~ Suffice(chosen \ {c})
    BY <2>7, <2>9, <2>10, <2>11
  <2> QED BY <2>12 DEF chosen, usable
<1> QED BY <1>1, CallAlways, ChoiceAlways, PTL

\* Hop hints are right: what is told to the payer is usable, and no more than
\* the payment needs.
THEOREM HintsAreRight == Spec => []HintsRight
<1>1. HintsUsable /\ HintsNeeded => HintsRight
  BY DEF HintsRight
<1> QED BY <1>1, HintsCanBeUsed, HintsAreNeeded, PTL

\* An amount of a request fits.
LEMMA AmountInRange ==
    ASSUME NEW sat \in Int, NEW msat \in Int, NEW v \in UnmarshallAmt(sat, msat)
    PROVE  v \in 0 .. 2^AmtBits - 1
<1>1. PICK n : n = 2^AmtBits
  OBVIOUS
<1>2. n \in Nat /\ n > 0 /\ MsatPerSat \in Nat
  BY <1>1, WidthsAssumption DEF WidthsAssumption
<1>3. PICK x \in Int : v = x % n
  <2>1. sat * MsatPerSat \in Int
    BY <1>2
  <2> QED BY <1>1, <2>1 DEF UnmarshallAmt, Uint64
<1>4. x % n \in 0 .. n - 1
  BY <1>2, Remainder
<1> QED BY <1>1, <1>3, <1>4

-----------------------------------------------------------------------------
(* The registry and the payments *)

InvoiceStates == {"open", "accepted", "settled", "canceled"}

IsInvoice(x) ==
    /\ DOMAIN x = {"state", "value", "hints", "expires", "cltv", "amp", "mpp", "hodl"}
    /\ x.state \in InvoiceStates
    /\ x.value \in 0 .. 2^AmtBits - 1 /\ x.cltv \in 0 .. 2^CltvBits - 1
    /\ x.hints \in Seq(ToSet(x.hints))

\* What the registry has is an invoice, with an amount and a time lock that fit.
RegistryInv ==
    /\ DOMAIN invoices = Hashes
    /\ \A h \in Hashes : invoices[h] = NoInvoice \/ IsInvoice(invoices[h])

LEMMA NoState == NoInvoice.state \notin InvoiceStates
  BY DEF NoInvoice, InvoiceStates

LEMMA InitRegistry == Init => RegistryInv
<1> SUFFICES ASSUME Init PROVE RegistryInv
  OBVIOUS
<1>1. PICK old \in [Hashes \ RandomHashes -> OldInvoices \cup {NoInvoice}] :
         invoices = [h \in Hashes |-> IF h \in RandomHashes THEN NoInvoice ELSE old[h]]
  BY DEF Init, AddInit
<1>2. \A x \in OldInvoices : IsInvoice(x)
  BY OldInvoicesAssumption DEF OldInvoicesAssumption, IsInvoice, InvoiceStates
<1>3. ASSUME NEW h \in Hashes PROVE invoices[h] = NoInvoice \/ IsInvoice(invoices[h])
  <2>1. invoices[h] \in OldInvoices \cup {NoInvoice}
    BY <1>1
  <2> QED BY <1>2, <2>1
<1> QED BY <1>1, <1>3 DEF RegistryInv

\* Only the state of an invoice changes, and never to that of no invoice.
LEMMA StateChanges ==
    ASSUME RegistryInv, NEW h \in Hashes, invoices[h] # NoInvoice, NEW s \in InvoiceStates,
           invoices' = [invoices EXCEPT ![h].state = s]
    PROVE  RegistryInv'
<1>1. PICK x, y : x = invoices[h] /\ y = invoices'[h]
  OBVIOUS
<1>2. IsInvoice(x) /\ y = [x EXCEPT !.state = s]
  BY <1>1 DEF RegistryInv
<1>3. IsInvoice(y)
  <2>1. DOMAIN y = DOMAIN x /\ y.state = s
    BY <1>2 DEF IsInvoice
  <2>2. y.value = x.value /\ y.cltv = x.cltv /\ y.hints = x.hints
    BY <1>2 DEF IsInvoice
  <2> QED BY <1>2, <2>1, <2>2 DEF IsInvoice
<1>4. DOMAIN invoices' = Hashes /\ \A g \in Hashes : g # h => invoices'[g] = invoices[g]
  BY DEF RegistryInv
<1>5. ASSUME NEW g \in Hashes PROVE invoices'[g] = NoInvoice \/ IsInvoice(invoices'[g])
  <2>1. CASE g = h
    BY <1>1, <1>3, <2>1
  <2>2. CASE g # h
    BY <1>4, <2>2 DEF RegistryInv
  <2> QED BY <2>1, <2>2
<1>6. ASSUME NEW g \in Hashes PROVE (invoices[g] = NoInvoice \/ IsInvoice(invoices[g]))'
  <2>1. PICK z : z = invoices'[g]
    OBVIOUS
  <2>2. z = NoInvoice \/ IsInvoice(z)
    BY <1>5, <2>1
  <2> QED BY <2>1, <2>2 DEF IsInvoice
<1> QED BY <1>4, <1>6 DEF RegistryInv

\* The invoice that a call adds has the value, the time lock and the hints of the
\* call, which ChoiceInv keeps.
LEMMA InsertRegistry ==
    ASSUME CallInv, ChoiceInv, RegistryInv, InsertInvoice
    PROVE  RegistryInv'
<1>1. CASE UNCHANGED invoices
  BY <1>1 DEF RegistryInv, IsInvoice
<1>2. CASE ~ UNCHANGED invoices
  <2> DEFINE t == call.terms
             added == [i \in DOMAIN call.selected |-> <<HintScid(call.selected[i])>>]
             hints == call.data.routeHints \o added
             new == [state |-> "open", value |-> t.value, hints |-> hints,
                     expires |-> now + t.expiry, cltv |-> t.cltv, amp |-> call.data.amp,
                     mpp |-> call.data.mpp, hodl |-> call.data.hodl]
  <2>1. call.stage = "adding" /\ invoices' = [invoices EXCEPT ![t.hash] = new]
    BY <1>2 DEF InsertInvoice
  <2>2. call # Idle /\ call.stage # "idle"
    BY <2>1, IdleStage
  <2>3. /\ call.data.routeHints \in Seq(ToSet(call.data.routeHints))
        /\ t.cltv \in 0 .. 2^CltvBits - 1
        /\ call.selected \in Seq(Private) /\ t.value \in Value(call.data)
        /\ {call.data.sat, call.data.msat} \subseteq Int
    BY <2>2, CallSet DEF ChoiceInv, Counted
  <2>4. t.value \in 0 .. 2^AmtBits - 1
    <3>1. t.value \in UnmarshallAmt(call.data.sat, call.data.msat)
      BY <2>3 DEF Value
    <3> QED BY <2>3, <3>1, AmountInRange
  <2>5. hints \in Seq(ToSet(hints))
    <3> DEFINE S == ToSet(call.data.routeHints) \cup ToSet(added)
    <3>1. Len(call.selected) \in Nat /\ DOMAIN call.selected = 1 .. Len(call.selected)
      BY <2>3, LenProperties
    <3>2. added \in [1 .. Len(call.selected) -> S]
      BY <3>1 DEF ToSet
    <3>3. added \in Seq(S)
      <4> HIDE DEF added, S
      <4> QED BY <3>1, <3>2
    <3>4. ToSet(call.data.routeHints) \subseteq S
      OBVIOUS
    <3> HIDE DEF added, S
    <3>6. call.data.routeHints \in Seq(S)
      BY <2>3, <3>4, SeqMonotonic
    <3>5. hints \in Seq(S)
      BY <3>3, <3>6, ConcatProperties
    <3> QED BY <3>5, SeqOfOwn
  <2> HIDE DEF hints, t
  <2>6. IsInvoice(new)
    <3>1. /\ DOMAIN new = {"state", "value", "hints", "expires", "cltv", "amp", "mpp", "hodl"}
          /\ new.state = "open" /\ new.value = t.value /\ new.cltv = t.cltv
      OBVIOUS
    <3>2. new.hints = hints
      OBVIOUS
    <3> HIDE DEF new
    <3> QED BY <2>3, <2>4, <2>5, <3>1, <3>2 DEF IsInvoice, InvoiceStates, t
  <2>7. PICK n, g : n = new /\ g = t.hash
    OBVIOUS
  <2>8. invoices' = [invoices EXCEPT ![g] = n] /\ IsInvoice(n)
    BY <2>1, <2>6, <2>7 DEF t, hints
  <2>9. DOMAIN invoices' = Hashes
    BY <2>8 DEF RegistryInv
  <2>10. ASSUME NEW h \in Hashes PROVE (invoices[h] = NoInvoice \/ IsInvoice(invoices[h]))'
    <3>1. PICK z : z = invoices'[h]
      OBVIOUS
    <3>2. z = NoInvoice \/ IsInvoice(z)
      BY <2>8, <3>1 DEF RegistryInv
    <3> QED BY <3>1, <3>2 DEF IsInvoice
  <2> QED BY <2>9, <2>10 DEF RegistryInv
<1> QED BY <1>1, <1>2

LEMMA NextRegistry ==
    CallInv /\ ChoiceInv /\ RegistryInv /\ [Next]_vars => RegistryInv'
<1> SUFFICES ASSUME CallInv, ChoiceInv, RegistryInv, [Next]_vars PROVE RegistryInv'
  OBVIOUS
<1>1. CASE UNCHANGED invoices
  BY <1>1 DEF RegistryInv, IsInvoice
<1>2. CASE InsertInvoice
  BY <1>2, InsertRegistry
<1>3. CASE ~ UNCHANGED invoices /\ ~ InsertInvoice
  <2>1. PICK h \in Hashes, s \in InvoiceStates :
          /\ invoices[h].state \in InvoiceStates
          /\ invoices' = [invoices EXCEPT ![h].state = s]
    <3>1. CASE AddNext
      BY <1>3, <3>1 DEF AddNext, AddInvoice, PopulateHopHints, ReturnHints, SelectHopHint,
                        ShuffleHints, ChannelChanges, TimePasses
    <3>2. CASE PaymentEnds
      <4>1. PICK h \in Hashes :
              /\ invoices[h].state = "open"
              /\ invoices' = [invoices EXCEPT ![h].state =
                                 IF invoices[h].hodl THEN "accepted" ELSE "settled"]
        BY <1>3, <3>2 DEF PaymentEnds
      <4>2. PICK s : s = IF invoices[h].hodl THEN "accepted" ELSE "settled"
        OBVIOUS
      <4>3. s \in InvoiceStates /\ "open" \in InvoiceStates
        BY <4>2 DEF InvoiceStates
      <4> QED BY <4>1, <4>2, <4>3
    <3>3. ASSUME NEW h \in Hashes, InvoiceEnds(h) \/ SettleInvoice(h) \/ CancelInvoice(h)
          PROVE  \E s \in InvoiceStates :
                    /\ invoices[h].state \in InvoiceStates
                    /\ invoices' = [invoices EXCEPT ![h].state = s]
      BY <1>3, <3>3 DEF InvoiceEnds, SettleInvoice, CancelInvoice, InvoiceStates
    <3>4. ASSUME NEW r \in SendRequests, SendPaymentV2(r) PROVE FALSE
      BY <1>3, <3>4 DEF SendPaymentV2, addVars
    <3>5. CASE UNCHANGED vars
      BY <1>3, <3>5 DEF vars, addVars
    <3> QED BY <3>1, <3>2, <3>3, <3>4, <3>5 DEF Next
  <2>2. invoices[h] # NoInvoice
    BY <2>1, NoState
  <2> QED BY <2>1, <2>2, StateChanges
<1> QED BY <1>1, <1>2, <1>3

LEMMA RegistryAlways == Spec => []RegistryInv
<1>1. Init => RegistryInv
  BY InitRegistry
<1>2. CallInv /\ ChoiceInv /\ RegistryInv /\ [Next]_vars => RegistryInv'
  BY NextRegistry
<1> QED BY <1>1, <1>2, CallAlways, ChoiceAlways, PTL DEF Spec

\* A payment request is that of an invoice in the registry.
LEMMA RequestsAreInvoices ==
    ASSUME RegistryInv, NEW request \in SendRequests
    PROVE  /\ \A v \in PaymentRequests(request.invoice) :
                 /\ v.value \in 0 .. 2^AmtBits - 1 /\ v.cltv \in 0 .. 2^CltvBits - 1
                 /\ v.hints \in Seq(ToSet(v.hints))
           /\ \A v, w \in PaymentRequests(request.invoice) : v = w
<1> DEFINE Encoded(h) ==
               [value |-> invoices[h].value, hints |-> invoices[h].hints,
                cltv |-> invoices[h].cltv, expires |-> invoices[h].expires,
                amp |-> invoices[h].amp, mpp |-> invoices[h].mpp,
                hash |-> h, addr |-> h, payee |-> Payee]
<1>1. request.invoice \subseteq Hashes /\ \A g, h \in request.invoice : g = h
  BY SendAssumption DEF SendAssumption
<1>2. ASSUME NEW v \in PaymentRequests(request.invoice)
      PROVE  \E h \in request.invoice : invoices[h] # NoInvoice /\ v = Encoded(h)
  BY <1>2 DEF PaymentRequests
<1>3. \A h : /\ Encoded(h).value = invoices[h].value /\ Encoded(h).cltv = invoices[h].cltv
             /\ Encoded(h).hints = invoices[h].hints
  OBVIOUS
<1> HIDE DEF Encoded
<1>4. ASSUME NEW v \in PaymentRequests(request.invoice)
      PROVE  /\ v.value \in 0 .. 2^AmtBits - 1 /\ v.cltv \in 0 .. 2^CltvBits - 1
             /\ v.hints \in Seq(ToSet(v.hints))
  <2>1. PICK h \in request.invoice : invoices[h] # NoInvoice /\ v = Encoded(h)
    BY <1>2
  <2>2. IsInvoice(invoices[h])
    BY <1>1, <2>1 DEF RegistryInv
  <2> QED BY <1>3, <2>1, <2>2 DEF IsInvoice
<1> QED BY <1>1, <1>2, <1>4

\* A payment that is handed to the router means what its request means.
LEMMA PaymentMeans ==
    ASSUME RegistryInv, NEW request \in SendRequests, NEW at,
           request.invoice # {} => PaymentRequests(request.invoice) # {}, NEW r,
           r = [request EXCEPT !.invoice = PaymentRequests(request.invoice)],
           NEW p \in Payments(r, at)
    PROVE  MeansSendRequest(r, r.invoice, at, p) /\ p.i.amount \in 0 .. 2^AmtBits - 1
<1> DEFINE asked == Asked(r.sat, r.msat)
           fee == Asked(r.feeSat, r.feeMsat)
           cltv == IF r.finalCltv = 0 THEN DefaultFinalCltvDelta ELSE r.finalCltv
           i == p.i
<1>1. /\ DOMAIN request = SendFields /\ request.finalCltv \in Int
      /\ {request.sat, request.msat, request.feeSat, request.feeMsat} \subseteq Int
      /\ request.routeHints \in Seq(ToSet(request.routeHints))
  BY SendAssumption DEF SendAssumption
<1>2. PICK encoded : encoded = PaymentRequests(request.invoice)
  OBVIOUS
<1>3. /\ DOMAIN r = SendFields /\ r.invoice = encoded
      /\ r.sat = request.sat /\ r.msat = request.msat
      /\ r.feeSat = request.feeSat /\ r.feeMsat = request.feeMsat
      /\ r.finalCltv = request.finalCltv /\ r.routeHints = request.routeHints
  BY <1>1, <1>2 DEF SendFields
<1>4. /\ {r.sat, r.msat, r.feeSat, r.feeMsat} \subseteq Int /\ r.finalCltv \in Int
      /\ r.routeHints \in Seq(ToSet(r.routeHints))
  BY <1>1, <1>3
<1>5. /\ p.limit \in ValidateCLTVLimit(r.cltvLimit, MaxTotalTimelock)
      /\ p.fee \in UnmarshallAmt(r.feeSat, r.feeMsat) /\ Acceptable(r, p.i, p.limit)
  BY <1>3, PaymentParts
<1>6. MaxTotalTimelock \in Nat
  BY LimitsAssumption DEF LimitsAssumption
<1>7. p.limit \in Int /\ p.limit <= MaxTotalTimelock
  BY <1>5, <1>6 DEF ValidateCLTVLimit
<1>8. p.limit > i.final + BlockPadding /\ (i.target = r.node => r.allowSelf)
  BY <1>5 DEF Acceptable
<1>9. Fits(fee) => p.fee = fee
  BY <1>4, <1>5, AmountKept
<1>10. 2^CltvBits \in Nat \ {0}
  BY WidthsAssumption DEF WidthsAssumption
<1>11. BlockPadding \in Nat /\ DefaultFinalCltvDelta \in Nat
  BY LimitsAssumption DEF LimitsAssumption
<1>12. ASSUME i.final \in Int PROVE i.final + BlockPadding < p.limit
  BY <1>7, <1>8, <1>11, <1>12
<1>13. CASE encoded = {}
  <2>1. /\ i.amount \in UnmarshallAmt(r.sat, r.msat) /\ i.amount # 0
        /\ i.hash = {} => r.amp
        /\ i.final = IF r.finalCltv = 0 THEN DefaultFinalCltvDelta ELSE Uint16(r.finalCltv)
    BY <1>3, <1>13, FieldsPaid
  <2>2. i.amount \in 0 .. 2^AmtBits - 1 /\ i.amount \in Nat /\ (Fits(asked) => i.amount = asked)
    BY <1>4, <2>1, AmountKept, AmountInRange
  <2>3. i.final \in Nat /\ (cltv \in 0 .. 2^CltvBits - 1 => i.final = cltv)
    <3>1. Uint16(r.finalCltv) \in Nat
          /\ (r.finalCltv \in 0 .. 2^CltvBits - 1 => Uint16(r.finalCltv) = r.finalCltv)
      <4>1. PICK n \in Nat \ {0} : n = 2^CltvBits
        BY <1>10
      <4>2. r.finalCltv % n \in 0 .. n - 1
            /\ (r.finalCltv \in 0 .. n - 1 => r.finalCltv % n = r.finalCltv)
        <5>1. r.finalCltv \in Int /\ n > 0
          BY <1>4, <4>1
        <5> QED BY <4>1, <5>1, Remainder
      <4>3. r.finalCltv % n \in Nat
        BY <4>1, <4>2
      <4> QED BY <4>1, <4>2, <4>3 DEF Uint16
    <3> QED BY <1>11, <2>1, <3>1
  <2>4. i.final + BlockPadding < p.limit
    BY <1>12, <2>3
  <2>5. i.amount > 0
    BY <2>1, <2>2
  <2> HIDE DEF i, asked, fee, cltv
  <2>6. MeansSendRequest(r, encoded, at, p)
    BY <1>7, <1>8, <1>9, <1>13, <2>1, <2>2, <2>3, <2>4, <2>5
       DEF MeansSendRequest, i, asked, fee, cltv
  <2> QED BY <1>3, <2>2, <2>6 DEF i
<1>14. CASE encoded # {}
  <2>1. PICK inv \in encoded, amt \in UnmarshallAmt(r.sat, r.msat) :
          /\ at <= inv.expires /\ (inv.value = 0) = (amt # 0) /\ (inv.amp => r.amp)
          /\ i.target = inv.payee
          /\ i.amount = IF inv.value = 0 THEN amt ELSE inv.value
          /\ i.hash = IF inv.amp THEN {} ELSE {inv.hash}
          /\ i.final = Uint16(inv.cltv) /\ i.hints = r.routeHints \o inv.hints
    <3>1. r.invoice # {}
      BY <1>3, <1>14
    <3>2. PICK inv \in r.invoice, amt \in UnmarshallAmt(r.sat, r.msat) :
            PaysWith(r, at, p, inv, amt)
      BY <1>3, <3>1, InvoicePaid
    <3>3. inv \in encoded
      BY <1>3, <3>2
    <3> QED BY <3>2, <3>3 DEF PaysWith
  <2>2. /\ inv.value \in 0 .. 2^AmtBits - 1 /\ inv.cltv \in 0 .. 2^CltvBits - 1
        /\ inv.hints \in Seq(ToSet(inv.hints)) /\ \A v \in encoded : v = inv
    BY <1>2, RequestsAreInvoices
  <2>3. /\ amt \in 0 .. 2^AmtBits - 1 /\ amt \in Nat /\ (Fits(asked) => amt = asked)
    BY <1>4, AmountKept, AmountInRange
  <2>4. i.amount \in 0 .. 2^AmtBits - 1 /\ i.amount > 0
        /\ (inv.value # 0 => i.amount = inv.value)
        /\ (Fits(asked) => i.amount \in {asked, inv.value})
    <3>1. (inv.value = 0 => amt # 0) /\ inv.value \in Nat
      BY <2>1, <2>2
    <3>2. i.amount \in {amt, inv.value} /\ i.amount # 0 /\ (inv.value # 0 => i.amount = inv.value)
      BY <2>1, <3>1
    <3> HIDE DEF i, asked
    <3> QED BY <2>2, <2>3, <3>1, <3>2
  <2>5. i.final = inv.cltv /\ i.final \in Nat
    <3>1. PICK n \in Nat \ {0} : n = 2^CltvBits
      BY <1>10
    <3>2. inv.cltv % n = inv.cltv
      BY <2>2, <3>1, Remainder
    <3>3. inv.cltv \in Nat
      BY <2>2, <3>1
    <3> QED BY <2>1, <3>1, <3>2, <3>3 DEF Uint16
  <2>6. i.final + BlockPadding < p.limit
    BY <1>12, <2>5
  <2>7. IsSuffix(inv.hints, i.hints)
    <3>1. PICK S : S = ToSet(r.routeHints) \cup ToSet(inv.hints)
      OBVIOUS
    <3>2. ToSet(r.routeHints) \subseteq S /\ ToSet(inv.hints) \subseteq S
      BY <3>1
    <3>3. r.routeHints \in Seq(S) /\ inv.hints \in Seq(S)
      BY <1>4, <2>2, <3>2, SeqMonotonic
    <3> QED BY <2>1, <3>3, ConcatSuffix
  <2>8. i.hash = {} => r.amp
    <3>1. CASE inv.amp
      BY <2>1, <3>1
    <3>2. CASE ~ inv.amp
      BY <2>1, <3>2
    <3> QED BY <3>1, <3>2
  <2>9. i.hash \subseteq {inv.hash}
    BY <2>1
  <2> HIDE DEF i, asked, fee, cltv
  <2>10. ASSUME NEW v \in encoded
         PROVE  /\ at <= v.expires /\ (v.value # 0 => i.amount = v.value)
                /\ i.final = v.cltv /\ i.target = v.payee
                /\ i.hash \subseteq {v.hash} /\ IsSuffix(v.hints, i.hints)
    <3>1. v = inv
      BY <2>2
    <3> QED BY <2>1, <2>4, <2>5, <2>7, <2>9, <3>1
  <2>11. Fits(asked) => i.amount \in {asked} \cup {v.value : v \in encoded}
    BY <2>4
  <2>12. MeansSendRequest(r, encoded, at, p)
    BY <1>7, <1>8, <1>9, <1>14, <2>4, <2>6, <2>8, <2>10, <2>11
       DEF MeansSendRequest, i, asked, fee, cltv
  <2> QED BY <1>3, <2>4, <2>12 DEF i
<1> QED BY <1>13, <1>14

\* At most one payment is under way, and means what its request meant when it was
\* sent; time and the calls are bounded.
SentInv ==
    /\ now \in 0 .. MaxTime /\ calls \in 0 .. MaxCalls
    /\ \A s, t \in sent : s = t
    /\ \A s \in sent :
          /\ s.at \in 0 .. now /\ s.payment.i.amount \in 0 .. 2^AmtBits - 1
          /\ MeansSendRequest(s.req, s.req.invoice, s.at, s.payment)

LEMMA InitSent == Init => SentInv
<1> SUFFICES ASSUME Init PROVE SentInv
  OBVIOUS
<1>1. sent = {} /\ now = 0 /\ calls = 0
  BY DEF Init, AddInit
<1> QED BY <1>1, InvoiceAssumption DEF SentInv, InvoiceAssumption

\* A payment is sent only when none is under way.
LEMMA SendSent ==
    ASSUME RegistryInv, SentInv, NEW request \in SendRequests, SendPaymentV2(request)
    PROVE  SentInv'
<1>1. PICK r : r = [request EXCEPT !.invoice = PaymentRequests(request.invoice)]
  OBVIOUS
<1>2. /\ request.invoice # {} => PaymentRequests(request.invoice) # {}
      /\ \E p \in Payments(r, now) : sent' = {[req |-> r, payment |-> p, at |-> now]}
      /\ now' = now /\ calls' = calls
  BY <1>1 DEF SendPaymentV2, addVars
<1>3. PICK p \in Payments(r, now) : sent' = {[req |-> r, payment |-> p, at |-> now]}
  BY <1>2
<1>4. MeansSendRequest(r, r.invoice, now, p) /\ p.i.amount \in 0 .. 2^AmtBits - 1
  BY <1>1, <1>2, PaymentMeans
<1>5. PICK x : x = [req |-> r, payment |-> p, at |-> now]
  OBVIOUS
<1>6. x.req = r /\ x.payment = p /\ x.at = now
  BY <1>5
<1>7. sent' = {x}
  BY <1>3, <1>5
<1>8. MeansSendRequest(x.req, x.req.invoice, x.at, x.payment)
      /\ x.payment.i.amount \in 0 .. 2^AmtBits - 1
  BY <1>4, <1>6
<1>9. now' \in 0 .. MaxTime /\ calls' \in 0 .. MaxCalls /\ x.at \in 0 .. now'
  BY <1>2, <1>6 DEF SentInv
<1>10. \A s \in sent' : /\ s.at \in 0 .. now' /\ s.payment.i.amount \in 0 .. 2^AmtBits - 1
                        /\ MeansSendRequest(s.req, s.req.invoice, s.at, s.payment)
  BY <1>7, <1>8, <1>9
<1>11. \A s, t \in sent' : s = t
  BY <1>7
<1>12. (\A s \in sent : /\ s.at \in 0 .. now /\ s.payment.i.amount \in 0 .. 2^AmtBits - 1
                        /\ MeansSendRequest(s.req, s.req.invoice, s.at, s.payment))'
  BY <1>10 DEF MeansSendRequest
<1> QED BY <1>9, <1>11, <1>12 DEF SentInv

\* Time and the calls may go on while a payment is under way.
LEMMA LaterSent ==
    ASSUME SentInv, sent' \subseteq sent, now' \in now .. MaxTime, calls' \in 0 .. MaxCalls
    PROVE  SentInv'
<1>1. now' \in 0 .. MaxTime
  BY DEF SentInv
<1>2. \A s, t \in sent' : s = t
  BY DEF SentInv
<1>3. ASSUME NEW s \in sent'
      PROVE  /\ s.at \in 0 .. now' /\ s.payment.i.amount \in 0 .. 2^AmtBits - 1
             /\ MeansSendRequest(s.req, s.req.invoice, s.at, s.payment)
  <2>1. s.at \in 0 .. now /\ now \in Int
    BY <1>3 DEF SentInv
  <2>2. s.at \in 0 .. now'
    BY <2>1
  <2> QED BY <1>3, <2>2 DEF SentInv
<1>4. (\A s \in sent : /\ s.at \in 0 .. now /\ s.payment.i.amount \in 0 .. 2^AmtBits - 1
                       /\ MeansSendRequest(s.req, s.req.invoice, s.at, s.payment))'
  BY <1>3 DEF MeansSendRequest
<1> QED BY <1>1, <1>2, <1>4 DEF SentInv

LEMMA NextSent == RegistryInv /\ SentInv /\ [Next]_vars => SentInv'
<1> SUFFICES ASSUME RegistryInv, SentInv, [Next]_vars PROVE SentInv'
  OBVIOUS
<1>1. ASSUME NEW r \in SendRequests, SendPaymentV2(r) PROVE SentInv'
  BY <1>1, SendSent
<1>2. CASE ~ \E r \in SendRequests : SendPaymentV2(r)
  <2>1. sent' \subseteq sent
    BY <1>2 DEF Next, PaymentEnds, InvoiceEnds, SettleInvoice, CancelInvoice, vars
  <2>2. now' = now \/ (now < MaxTime /\ now' = now + 1)
    BY <1>2 DEF Next, PaymentEnds, InvoiceEnds, SettleInvoice, CancelInvoice, vars, addVars,
                AddNext, AddInvoice, PopulateHopHints, ReturnHints, SelectHopHint, ShuffleHints,
                InsertInvoice, ChannelChanges, TimePasses
  <2>3. calls' = calls \/ (calls < MaxCalls /\ calls' = calls + 1)
    BY <1>2 DEF Next, PaymentEnds, InvoiceEnds, SettleInvoice, CancelInvoice, vars, addVars,
                AddNext, AddInvoice, PopulateHopHints, ReturnHints, SelectHopHint, ShuffleHints,
                InsertInvoice, ChannelChanges, TimePasses
  <2>4. now \in 0 .. MaxTime /\ calls \in 0 .. MaxCalls /\ MaxTime \in Nat /\ MaxCalls \in Nat
    BY InvoiceAssumption DEF SentInv, InvoiceAssumption
  <2>5. now' \in now .. MaxTime /\ calls' \in 0 .. MaxCalls
    BY <2>2, <2>3, <2>4
  <2> QED BY <2>1, <2>5, LaterSent
<1> QED BY <1>1, <1>2

LEMMA SentAlways == Spec => []SentInv
<1>1. Init => SentInv
  BY InitSent
<1>2. RegistryInv /\ SentInv /\ [Next]_vars => SentInv'
  BY NextSent
<1> QED BY <1>1, <1>2, RegistryAlways, PTL DEF Spec

-----------------------------------------------------------------------------
(* What is kept from the request on, and the types *)

\* An invoice has the amount that was asked for, a payment means its request and
\* the invoices it pays, a route is looked for within the query's limits, an
\* estimate is that of an invoice's hints, and what mission control exports is
\* what it imports, its settings too.
THEOREM RequestsAreKept == Spec => []RequestsKept
<1>1. QueriesMeanRequests
  BY QueryKept DEF QueriesMeanRequests
<1>2. EstimatesKept
  BY EstimateKept, ResultReturns, ConfigReturns DEF EstimatesKept
<1>3. SentInv => PaymentMeansRequest
  BY DEF SentInv, PaymentMeansRequest
<1>4. InvoiceMeansRequest /\ PaymentMeansRequest => RequestsKept
  BY <1>1, <1>2 DEF RequestsKept
<1> QED BY <1>3, <1>4, SentAlways, InvoicesMeanRequests, PTL

\* A call's hints are distinct channels of the node, as many as there is room for,
\* the clock and the calls are within their bounds, an invoice has a state, and
\* one payment is under way at most, of an amount that fits.
THEOREM CallTypesKept == Spec => []TypeOK
<1>1. ASSUME CallInv, ChoiceInv PROVE chan \in [Private -> ChanStates] \cup {Unobserved}
  <2>1. CASE call = Idle
    BY <1>1, <2>1 DEF ChoiceInv
  <2>2. CASE call # Idle
    BY <1>1, <2>2 DEF ChoiceInv, Counted
  <2> QED BY <2>1, <2>2
<1>2. ASSUME CallInv, ChoiceInv, call # Idle
      PROVE  /\ call.stage \in {"selecting", "adding"}
             /\ IsInjective(call.selected) /\ ToSet(call.selected) \subseteq Chans
             /\ call.left \in 0 .. MaxHopHints
             /\ call.stale \subseteq call.changed /\ call.changed \subseteq Chans
  <2>1. call.stage \in {"selecting", "adding"} /\ call.selected \in Seq(Private)
    BY <1>2 DEF CallInv
  <2>2. /\ IsInjective(call.selected) /\ call.changed \subseteq Private
        /\ call.stale \subseteq call.changed /\ call.left \in Nat
        /\ call.left + Len(call.selected) + Len(call.data.routeHints) = MaxHopHints
        /\ call.data.routeHints \in Seq(ToSet(call.data.routeHints))
    BY <1>2 DEF ChoiceInv, Counted
  <2>3. Len(call.selected) \in Nat /\ Len(call.data.routeHints) \in Nat
    BY <2>1, <2>2, LenProperties
  <2>4. call.left \in 0 .. MaxHopHints
    BY <2>2, <2>3, InvoiceAssumption DEF InvoiceAssumption
  <2>5. ToSet(call.selected) \subseteq Private
    BY <2>1, LenProperties DEF ToSet
  <2> QED BY <2>1, <2>2, <2>4, <2>5 DEF Private
<1>3. ASSUME RegistryInv, NEW h \in Hashes, invoices[h] # NoInvoice
      PROVE  invoices[h].state \in InvoiceStates
  BY <1>3 DEF RegistryInv, IsInvoice
<1>4. ASSUME SentInv PROVE Cardinality(sent) <= 1
  <2>1. sent = {} \/ \E s : sent = {s}
    <3>1. CASE sent # {}
      <4>1. PICK s : s \in sent
        BY <3>1
      <4>2. sent = {s}
        BY <1>4, <4>1 DEF SentInv
      <4> QED BY <4>2
    <3> QED BY <3>1
  <2> QED BY <2>1, FS_EmptySet, FS_Singleton
<1>5. CallInv /\ ChoiceInv /\ RegistryInv /\ SentInv /\ OutcomeInv => TypeOK
  <2> SUFFICES ASSUME CallInv, ChoiceInv, RegistryInv, SentInv, OutcomeInv PROVE TypeOK
    OBVIOUS
  <2>1. chan \in [Chans \ PublicChans -> ChanStates] \cup {Unobserved}
    BY <1>1 DEF Private
  <2>2. call.stage \in {"idle", "selecting", "adding"}
    BY <1>2, IdleStage
  <2>3. \A h \in Hashes : invoices[h] # NoInvoice =>
           invoices[h].state \in {"open", "accepted", "settled", "canceled"}
    BY <1>3 DEF InvoiceStates
  <2>4. now \in 0 .. MaxTime /\ calls \in 0 .. MaxCalls
    BY DEF SentInv
  <2>5. AddTypeOK
    BY <1>2, <2>1, <2>2, <2>3, <2>4 DEF AddTypeOK
  <2>6. \A s \in sent : s.at \in 0 .. now /\ s.payment.i.amount \in 0 .. 2^AmtBits - 1
    BY DEF SentInv
  <2> QED BY <1>4, <2>5, <2>6 DEF TypeOK, OutcomeInv
<1> QED BY <1>5, CallAlways, ChoiceAlways, RegistryAlways, SentAlways, OutcomeAlways, PTL
=============================================================================
