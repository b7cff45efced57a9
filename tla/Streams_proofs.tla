---------------------------- MODULE Streams_proofs ----------------------------
(***************************************************************************)
(* Proofs about the two ways events of lnd reach a client.                 *)
(*                                                                         *)
(* WebsocketProxy, for any number of messages and responses: the proxy     *)
(* takes nothing away from a call that both sides still want.              *)
(*                                                                         *)
(* EventStreams, for any number of events and any buffer of the chain      *)
(* notifier: what a client saw is what happened, and a call fails for a    *)
(* reason only. The invariant follows an event from its source, through    *)
(* its channel and the handler, to the stream: the latest events are in    *)
(* the channels, all older ones that were asked for are with the handler   *)
(* or were sent.                                                           *)
(***************************************************************************)
EXTENDS WebsocketProxy, EventStreams, TLAPS

-----------------------------------------------------------------------------
(* The WebSocket proxy *)

\* Messages that have left the socket: with the read loop, in the channel, with
\* the forward loop, or with the backend.
Taken == (IF reader = "putting" THEN 1 ELSE 0) + payloads
            + (IF forwarder = "writing" THEN 1 ELSE 0) + received

\* The only reasons for the context to be canceled.
Reason ==
    \/ clientQuit \/ readDead \/ clientStalled \/ serverQuit \/ oversized
    \/ ~clientStreaming /\ clientSent > 1

\* Nothing is counted twice.
CountInv ==
    /\ inbox + Taken <= clientSent
    /\ NoMessageLost
    /\ ~clientStreaming /\ received > 0 => requestClosed
    /\ delivered + scanned + pending <= produced
    /\ ~oversized => produced = delivered + scanned + pending

\* A loop that is on its way out has a reason, or found the context canceled.
CancelInv ==
    /\ CancelExplained
    /\ reader \in {"closing", "done"} => ctxDone \/ Reason
    /\ payloadsClosed => reader \in {"closing", "done"}
    /\ handler \in {"returning", "returned"} => ctxDone \/ Reason
    /\ responseClosed \/ closer # "waiting" \/ socketClosed => ctxDone
    /\ requestClosed => ctxDone \/ (~clientStreaming /\ received > 0)
    /\ serverQuit => backend = "returned" /\ pending = 0

\* The handler gives up responses only for a client that does not take them: a
\* write has a deadline from a pong, or from a ping to a client that stalls.
ResponseInv ==
    /\ handler \in {"returning", "returned"} /\ ~ClientAway => scanned = 0
    /\ handler = "writing" => scanned = 1
    /\ writeTimed => ponged \/ clientStalled

ProxyInv == TypeOK /\ CountInv /\ CancelInv /\ ResponseInv

LEMMA InitProxy == Init => ProxyInv
<1> SUFFICES ASSUME Init PROVE ProxyInv
  OBVIOUS
<1> USE ProxyAssumption DEF Init, ProxyAssumption
<1>1. TypeOK
  <2>1. /\ clientQuit \in BOOLEAN /\ readDead \in BOOLEAN /\ socketClosed \in BOOLEAN
        /\ ctxDone \in BOOLEAN /\ serverQuit \in BOOLEAN /\ payloadsClosed \in BOOLEAN
        /\ requestClosed \in BOOLEAN /\ responseClosed \in BOOLEAN
        /\ clientStalled \in BOOLEAN /\ ponged \in BOOLEAN
        /\ oversized \in BOOLEAN /\ writeTimed \in BOOLEAN
    BY Zenon
  <2>2. backend \in {"reading", "serving", "returned"}
    BY Zenon
  <2> QED BY <2>1, <2>2 DEF TypeOK
<1>2. CountInv
  BY DEF CountInv, Taken, NoMessageLost
<1>3. CancelInv
  BY DEF CancelInv, CancelExplained, Reason
<1>4. ResponseInv
  BY DEF ResponseInv, ClientAway
<1> QED BY <1>1, <1>2, <1>3, <1>4 DEF ProxyInv

LEMMA ResponseSize ==
    ASSUME oversized \in BOOLEAN, Respond
    PROVE  oversized' \in BOOLEAN /\ (oversized => oversized')
<1>1. CASE oversized' = oversized
  BY <1>1, Zenon
<1>2. CASE oversized' = TRUE
  BY <1>2, Zenon
<1> QED BY <1>1, <1>2, Zenon DEF Respond

LEMMA WriteDeadline ==
    ASSUME ponged \in BOOLEAN, WriteStarts
    PROVE  writeTimed' \in BOOLEAN /\ (writeTimed' => ponged \/ clientStalled)
<1>1. CASE writeTimed' = ponged
  BY <1>1, Zenon
<1>2. CASE clientStalled /\ writeTimed' = TRUE
  BY <1>2, Zenon
<1> QED BY <1>1, <1>2, Zenon DEF WriteStarts

LEMMA ClientSteps ==
    ASSUME ProxyInv, ClientSends \/ ClientQuits \/ ClientStalls \/ PongArrives \/ PongMissing
    PROVE  ProxyInv'
<1> USE ProxyAssumption DEF ProxyInv, CountInv, Taken, NoMessageLost, CancelInv, CancelExplained,
     Reason, ResponseInv, ClientAway, ProxyAssumption, reading, request, serving, writing, closing
<1>1. CASE ClientSends
  <2>1. TypeOK'
    BY <1>1 DEF ClientSends, TypeOK
  <2>2. CountInv' /\ CancelInv' /\ ResponseInv'
    BY <1>1 DEF ClientSends, TypeOK
  <2> QED BY <2>1, <2>2
<1>2. CASE ClientQuits
  BY <1>2 DEF ClientQuits, TypeOK
<1>3. CASE ClientStalls
  BY <1>3 DEF ClientStalls, TypeOK
<1>4. CASE PongArrives
  BY <1>4 DEF PongArrives, TypeOK
<1>5. CASE PongMissing
  BY <1>5 DEF PongMissing, TypeOK
<1> QED BY <1>1, <1>2, <1>3, <1>4, <1>5

LEMMA ReaderSteps ==
    ASSUME ProxyInv, Reader
    PROVE  ProxyInv'
<1> USE ProxyAssumption DEF ProxyInv, CountInv, Taken, NoMessageLost, CancelInv, CancelExplained,
     Reason, ResponseInv, ClientAway, ProxyAssumption, client, reading, request, serving, writing, closing,
     TypeOK
<1>1. CASE ReaderGoesOn
  BY <1>1 DEF ReaderGoesOn
<1>2. CASE ReadMessage
  BY <1>2 DEF ReadMessage
<1>3. CASE ReadFails
  BY <1>3 DEF ReadFails
<1>4. CASE PutPayload
  BY <1>4 DEF PutPayload
<1>5. CASE ReaderEnds
  <2>1. TypeOK'
    <3>1. CASE payloadsClosed
      BY <3>1, <1>5 DEF ReaderEnds
    <3>2. CASE ~payloadsClosed
      BY <3>2, <1>5 DEF ReaderEnds
    <3> QED BY <3>1, <3>2
  <2>2. CountInv'
    BY <1>5 DEF ReaderEnds
  <2>3. CancelInv'
    BY <1>5 DEF ReaderEnds
  <2>4. ResponseInv'
    BY <1>5 DEF ReaderEnds
  <2> QED BY <2>1, <2>2, <2>3, <2>4
<1> QED BY <1>1, <1>2, <1>3, <1>4, <1>5 DEF Reader

LEMMA ForwarderSteps ==
    ASSUME ProxyInv, Forwarder
    PROVE  ProxyInv'
<1> USE ProxyAssumption DEF ProxyInv, CountInv, Taken, NoMessageLost, CancelInv, CancelExplained,
     Reason, ResponseInv, ClientAway, ProxyAssumption, client, reading, request, serving, writing, closing,
     TypeOK
<1>1. CASE TakePayload
  BY <1>1 DEF TakePayload
<1>2. CASE ForwarderEnds
  <2>1. ctxDone \/ Reason
    BY <1>2 DEF ForwarderEnds
  <2> QED BY <1>2, <2>1 DEF ForwarderEnds
<1>3. CASE WriteRequest
  <2>1. TypeOK'
    BY <1>3 DEF WriteRequest, ReadsBody
  <2>2. CountInv'
    <3>1. CASE clientStreaming
      BY <3>1, <1>3 DEF WriteRequest, ReadsBody
    <3>2. CASE ~clientStreaming
      <4>1. requestClosed'
        BY <3>2, <1>3, Zenon DEF WriteRequest
      <4>2. /\ forwarder = "writing" /\ forwarder' = "waiting"
            /\ received' = received + 1
            /\ UNCHANGED <<client, reading, serving, writing, closing, ctxDone>>
        BY <1>3 DEF WriteRequest
      <4> QED BY <4>1, <4>2
    <3> QED BY <3>1, <3>2
  <2>3. CancelInv'
    BY <1>3 DEF WriteRequest, ReadsBody
  <2>4. ResponseInv'
    BY <1>3 DEF WriteRequest, ReadsBody
  <2> QED BY <2>1, <2>2, <2>3, <2>4
<1> QED BY <1>1, <1>2, <1>3 DEF Forwarder

LEMMA BackendSteps ==
    ASSUME ProxyInv, Backend
    PROVE  ProxyInv'
<1> USE ProxyAssumption DEF ProxyInv, CountInv, Taken, NoMessageLost, CancelInv, CancelExplained,
     Reason, ResponseInv, ClientAway, ProxyAssumption, client, reading, request, serving, writing, closing,
     TypeOK
<1>1. CASE BodyRead
  BY <1>1 DEF BodyRead
<1>2. CASE Respond
  <2>1. oversized' \in BOOLEAN /\ (oversized => oversized')
    BY <1>2, ResponseSize
  <2>2. /\ backend = "serving" /\ pending = 0 /\ produced < MaxResponses
        /\ produced' = produced + 1 /\ pending' = 1
        /\ UNCHANGED <<client, reading, request, backend, serverQuit, writing, closing, ctxDone>>
    BY <1>2 DEF Respond
  <2> QED BY <2>1, <2>2
<1>3. CASE BackendReturns
  <2>1. TypeOK'
    BY <1>3 DEF BackendReturns
  <2>2. CountInv'
    BY <1>3 DEF BackendReturns
  <2>3. CancelInv'
    BY <1>3 DEF BackendReturns
  <2>4. ResponseInv'
    BY <1>3 DEF BackendReturns
  <2> QED BY <2>1, <2>2, <2>3, <2>4
<1> QED BY <1>1, <1>2, <1>3 DEF Backend

LEMMA HandlerSteps ==
    ASSUME ProxyInv, Handler \/ ClosePipes
    PROVE  ProxyInv'
<1> USE ProxyAssumption DEF ProxyInv, CountInv, Taken, NoMessageLost, CancelInv, CancelExplained,
     Reason, ResponseInv, ClientAway, ProxyAssumption, client, reading, request, serving, writing, closing,
     TypeOK
<1>1. CASE ScannerReads
  BY <1>1 DEF ScannerReads
<1>2. CASE ScanTooLong
  <2>1. TypeOK'
    BY <1>2 DEF ScanTooLong
  <2>2. CountInv'
    <3>1. /\ pending = 1 /\ pending' \in {0, 1}
          /\ UNCHANGED <<client, reading, request, produced, scanned, delivered, ctxDone>>
      BY <1>2 DEF ScanTooLong
    <3>2. oversized'
      BY <1>2, Zenon DEF ScanTooLong
    <3>3. inbox' + Taken' <= clientSent' /\ NoMessageLost'
      BY <3>1
    <3>4. delivered' + scanned' + pending' <= produced'
      <4>1. /\ delivered + scanned + pending <= produced
            /\ delivered \in Nat /\ scanned \in Nat /\ produced \in Nat
        OBVIOUS
      <4>2. delivered' = delivered /\ scanned' = scanned /\ produced' = produced
        BY <3>1
      <4>3. pending = 1 /\ (pending' = 0 \/ pending' = 1)
        BY <3>1
      <4>4. CASE pending' = 0
        BY <4>1, <4>2, <4>3, <4>4
      <4>5. CASE pending' = 1
        BY <4>1, <4>2, <4>3, <4>5
      <4> QED BY <4>3, <4>4, <4>5
    <3> QED BY <3>1, <3>2, <3>3, <3>4
  <2>3. CancelInv'
    BY <1>2 DEF ScanTooLong
  <2>4. ResponseInv'
    BY <1>2 DEF ScanTooLong
  <2> QED BY <2>1, <2>2, <2>3, <2>4
<1>3. CASE ScanEnds
  BY <1>3 DEF ScanEnds
<1>4. CASE WriteStarts
  <2>1. /\ handler = "scanning" /\ scanned = 1 /\ handler' = "writing"
        /\ UNCHANGED <<client, reading, request, serving, scanned, delivered, socketClosed,
                       closing, ctxDone>>
    BY <1>4 DEF WriteStarts
  <2>2. writeTimed' \in BOOLEAN /\ (writeTimed' => ponged \/ clientStalled)
    BY <1>4, WriteDeadline
  <2> QED BY <2>1, <2>2
<1>5. CASE WriteMessage
  <2>1. TypeOK'
    <3>1. writeTimed' \in BOOLEAN
      BY <1>5, Zenon DEF WriteMessage
    <3>2. /\ handler' = "scanning" /\ scanned' = 0 /\ delivered' = delivered + 1
          /\ scanned = 1
          /\ UNCHANGED <<client, reading, request, serving, socketClosed, closing, ctxDone>>
      BY <1>5 DEF WriteMessage
    <3> QED BY <3>1, <3>2
  <2>2. CountInv'
    BY <1>5 DEF WriteMessage
  <2>3. CancelInv'
    BY <1>5 DEF WriteMessage
  <2>4. ResponseInv'
    BY <1>5 DEF WriteMessage
  <2> QED BY <2>1, <2>2, <2>3, <2>4
<1>6. CASE WriteFails
  <2>1. ClientAway
    BY <1>6 DEF WriteFails
  <2>2. TypeOK'
    <3>1. writeTimed' \in BOOLEAN
      BY <1>6, Zenon DEF WriteFails
    <3>2. /\ handler' = "returning"
          /\ UNCHANGED <<client, reading, request, serving, scanned, delivered, socketClosed,
                         closing, ctxDone>>
      BY <1>6 DEF WriteFails
    <3> QED BY <3>1, <3>2
  <2>3. CountInv'
    BY <1>6, <2>1 DEF WriteFails
  <2>4. CancelInv'
    BY <1>6, <2>1 DEF WriteFails
  <2>5. ResponseInv'
    BY <1>6, <2>1 DEF WriteFails
  <2> QED BY <2>2, <2>3, <2>4, <2>5
<1>7. CASE HandlerReturns
  <2>1. TypeOK'
    <3>1. CASE ctxDone
      BY <3>1, <1>7 DEF HandlerReturns
    <3>2. CASE ~ctxDone
      BY <3>2, <1>7 DEF HandlerReturns
    <3> QED BY <3>1, <3>2
  <2>2. CountInv'
    BY <1>7 DEF HandlerReturns
  <2>3. CancelInv'
    BY <1>7 DEF HandlerReturns
  <2>4. ResponseInv'
    BY <1>7 DEF HandlerReturns
  <2> QED BY <2>1, <2>2, <2>3, <2>4
<1>8. CASE ClosePipes
  <2>1. TypeOK'
    <3>1. CASE closer = "waiting"
      BY <3>1, <1>8 DEF ClosePipes
    <3>2. CASE closer # "waiting"
      <4>1. /\ closer = "closing" /\ closer' = "done"
            /\ UNCHANGED <<client, reading, forwarder, received, serving, writing, ctxDone>>
            /\ responseClosed' = responseClosed
        BY <3>2, <1>8 DEF ClosePipes
      <4>2. requestClosed' \in BOOLEAN
        BY <3>2, <1>8, Zenon DEF ClosePipes
      <4> QED BY <4>1, <4>2
    <3> QED BY <3>1, <3>2
  <2>2. CountInv'
    BY <1>8 DEF ClosePipes
  <2>3. CancelInv'
    BY <1>8 DEF ClosePipes
  <2>4. ResponseInv'
    BY <1>8 DEF ClosePipes
  <2> QED BY <2>1, <2>2, <2>3, <2>4
<1> QED BY <1>1, <1>2, <1>3, <1>4, <1>5, <1>6, <1>7, <1>8 DEF Handler

LEMMA ProxyAlways == Spec => []ProxyInv
<1>1. ProxyInv /\ UNCHANGED vars => ProxyInv'
  BY DEF vars, client, reading, request, serving, writing, closing, ProxyInv, TypeOK, CountInv,
     Taken, NoMessageLost, CancelInv, CancelExplained, Reason, ResponseInv, ClientAway
<1>2. ProxyInv /\ [Next]_vars => ProxyInv'
  BY <1>1, ClientSteps, ReaderSteps, ForwarderSteps, BackendSteps, HandlerSteps DEF Next
<1> QED BY <1>2, InitProxy, PTL DEF Spec

\* Types, and at most one message of a call that does not stream from its client
\* reaches the backend.
THEOREM TypesKept == Spec => []TypeOK
<1>1. ProxyInv => TypeOK
  BY DEF ProxyInv
<1> QED BY <1>1, ProxyAlways, PTL

\* No message is lost while nobody has given up; a call is canceled only because
\* a side quit, the client does not answer or does not read, a second message
\* came or a response was too long; and a call that its backend ends has all its
\* responses delivered to a client that takes them.
THEOREM NothingTakenAway == Spec => []CallIntact
<1>1. ProxyInv => AllResponsesDelivered
  BY DEF ProxyInv, TypeOK, CountInv, CancelInv, ResponseInv, AllResponsesDelivered, ClientAway
<1>2. ProxyInv => CallIntact
  BY <1>1 DEF ProxyInv, CountInv, CancelInv, CallIntact
<1> QED BY <1>2, ProxyAlways, PTL

-----------------------------------------------------------------------------
(* The event streams *)

\* The channel that carries an event.
ChannelOf(e) == Loop.chans[e.what]

\* The events of a source carry their numbers.
NumberedInv ==
  \A k \in 1..Len(emitted) : emitted[k].at = k /\ emitted[k].what \in DOMAIN Loop.chans

\* A channel holds the latest events of its kind, in the order of their numbers.
ChannelInv ==
  \A ch \in Channels :
    /\ \A i \in 1..Len(chan[ch]) :
         /\ chan[ch][i].at \in 1..Len(emitted)
         /\ chan[ch][i] = emitted[chan[ch][i].at]
         /\ ChannelOf(chan[ch][i]) = ch
    /\ \A i, j \in 1..Len(chan[ch]) : i < j => chan[ch][i].at < chan[ch][j].at
    /\ \A k \in 1..Len(emitted) :
         ChannelOf(emitted[k]) = ch =>
           \/ \E i \in 1..Len(chan[ch]) : chan[ch][i].at = k
           \/ \A i \in 1..Len(chan[ch]) : k < chan[ch][i].at

\* An event that has left its channel: all that are still there are younger.
Gone(e) == \A i \in 1..Len(chan[ChannelOf(e)]) : e.at < chan[ChannelOf(e)][i].at

\* What is sent, or about to be, has been emitted, was asked for, and is out of
\* its channel.
Shown(e) ==
  \E k \in 1..Len(emitted) : Wanted(emitted[k]) /\ e = Told(emitted[k]) /\ Gone(emitted[k])

ItemInv ==
  stage = "sending" =>
    \/ Loop.greets /\ item = Greeting /\ sent = <<>>
    \/ /\ Shown(item)
       /\ \A i \in 1..Len(sent) : SameChannel(sent[i], item) => sent[i].at < item.at

SentInv ==
  /\ \A i \in 1..Len(sent) : (i = 1 /\ Loop.greets /\ sent[i] = Greeting) \/ Shown(sent[i])
  /\ SentInOrder

\* Nothing that was asked for is lost between a channel and the stream.
NothingSkipped ==
  \A k \in 1..Len(emitted) :
    Wanted(emitted[k]) /\ Gone(emitted[k]) =>
      \/ stage = "ended"
      \/ stage = "sending" /\ item = Told(emitted[k])
      \/ \E i \in 1..Len(sent) : sent[i] = Told(emitted[k])

\* A call that greets has greeted before it takes an event.
GreetInv ==
  Loop.greets => \/ stage \in {"registering", "ended"} \/ sent # <<>>
                 \/ stage = "sending" /\ item = Greeting

\* Before registration nothing has come.
FreshInv ==
  stage = "registering" => emitted = <<>> /\ sent = <<>> /\ item = Greeting

\* The life of what is watched: how it begins, how it ends, and when its source
\* closes the channels.
SourceInv ==
  /\ \A k \in 1..Len(emitted) :
       /\ rpc \in {"payment", "legacy"} /\ emitted[k].what = "INITIATED" => k = 1
       /\ rpc \in {"payment", "legacy"} /\ emitted[k].what \in Terminal => k = Len(emitted)
       /\ rpc = "invoice" /\ emitted[k].what \in FinalInvoice => k = Len(emitted)
       /\ rpc \in {"confirmations", "spends"} /\ emitted[k].what = "done" => k = Len(emitted)
  /\ closed => Loop.gate \/ (rpc \in {"payment", "legacy"} /\ Latest \in Terminal)
  /\ useInit \/ noInflightUpdates => rpc \in PaymentRpcs

OrderInv ==
  /\ NumberedInv /\ ChannelInv /\ ItemInv /\ SentInv /\ NothingSkipped
  /\ GreetInv /\ FreshInv /\ SourceInv

StreamInv == StreamTypeOK /\ OrderInv /\ EndsWithFinalState

-----------------------------------------------------------------------------
(* What the streams of the table have in common *)

USE DEF Range

LEMMA PaymentLoop ==
  ASSUME rpc \in PaymentRpcs
  PROVE  /\ DOMAIN Loop.chans = InFlight \cup Terminal
         /\ \A w \in InFlight \cup Terminal : Loop.chans[w] = "updates"
         /\ Channels = {"updates"}
         /\ Loop.silent = {} /\ Loop.last = {} /\ Loop.converts = Attempted
         /\ ~Loop.greets /\ ~Loop.gate
         /\ Loop.onQuit = "error" /\ Loop.onSourceQuit = "stay"
         /\ Loop.onDeadline = "error"
<1>1. Loop \in {TrackPaymentV2, TrackPayments}
  BY DEF PaymentRpcs, Loop, Rpcs, TrackPayment
<1>2. Loop.chans = Updates(InFlight \cup Terminal)
  BY <1>1 DEF TrackPayments, TrackPaymentV2
<1>3. /\ Loop.silent = {} /\ Loop.last = {} /\ Loop.converts = Attempted
      /\ ~Loop.greets /\ ~Loop.gate
      /\ Loop.onQuit = "error" /\ Loop.onSourceQuit = "stay" /\ Loop.onDeadline = "error"
  BY <1>1 DEF TrackPayments, TrackPaymentV2
<1>4. Channels = {"updates"}
  BY <1>2 DEF Channels, Updates, InFlight
<1> QED BY <1>2, <1>3, <1>4 DEF Updates

LEMMA InvoiceLoop ==
  ASSUME rpc = "invoice"
  PROVE  /\ DOMAIN Loop.chans = {"OPEN", "ACCEPTED"} \cup FinalInvoice
         /\ \A w \in DOMAIN Loop.chans : Loop.chans[w] = "updates"
         /\ Channels = {"updates"}
         /\ Loop.silent = {} /\ Loop.last = FinalInvoice /\ Loop.converts = DOMAIN Loop.chans
         /\ ~Loop.greets /\ ~Loop.gate
         /\ Loop.onClosed = "stay" /\ Loop.onSourceQuit = "stay"
         /\ Loop.onCanceled = "error" /\ Loop.onDeadline = "error"
  BY DEF Loop, Rpcs, SubscribeSingleInvoice, Updates, Channels, FinalInvoice

LEMMA HtlcLoop ==
  ASSUME rpc = "htlcs"
  PROVE  /\ DOMAIN Loop.chans = HtlcEvents
         /\ \A w \in DOMAIN Loop.chans : Loop.chans[w] = "updates"
         /\ Channels = {"updates"}
         /\ Loop.silent = {} /\ Loop.last = {} /\ Loop.converts = {"linkFail"}
         /\ Loop.greets /\ ~Loop.gate
         /\ Loop.onClosed = "stay" /\ Loop.onSourceQuit = "error"
         /\ Loop.onCanceled = "error" /\ Loop.onDeadline = "error" /\ Loop.onQuit = "error"
  BY DEF Loop, Rpcs, SubscribeHtlcEvents, Updates, Channels, HtlcEvents

LEMMA NotifierLoop ==
  ASSUME rpc \in {"confirmations", "spends", "blocks"}
  PROVE  /\ DOMAIN Loop.chans =
              IF rpc = "blocks" THEN {"block"} ELSE {"confirmed", "reorg", "done"}
         /\ \A w \in DOMAIN Loop.chans : Loop.chans[w] \in Channels
         /\ Loop.silent = IF rpc = "blocks" THEN {} ELSE {"done"}
         /\ Loop.last = {}
         /\ Loop.converts = IF rpc = "blocks" THEN {} ELSE {"confirmed"}
         /\ ~Loop.greets /\ Loop.gate
         /\ Loop.onClosed = "error" /\ Loop.onSourceQuit = "stay"
         /\ Loop.onDeadline = "error" /\ Loop.onQuit = "error"
<1>1. \A w \in DOMAIN Loop.chans : Loop.chans[w] \in Channels
  BY DEF Channels
<1>2. CASE rpc = "blocks"
  BY <1>1, <1>2 DEF Loop, Rpcs, RegisterBlockEpochNtfn, Updates
<1>3. CASE rpc = "confirmations"
  BY <1>1, <1>3 DEF Loop, Rpcs, RegisterConfirmationsNtfn
<1>4. CASE rpc = "spends"
  BY <1>1, <1>4 DEF Loop, Rpcs, RegisterSpendNtfn
<1> QED BY <1>2, <1>3, <1>4

RpcNames == PaymentRpcs \cup {"invoice", "htlcs", "confirmations", "spends", "blocks"}

LEMMA RpcCases == DOMAIN Rpcs = RpcNames
  BY DEF Rpcs, RpcNames, PaymentRpcs

\* Every event of a stream has a channel and is no greeting; a greeting stream, a
\* stream with a last or a silent event, are the ones they should be.
LEMMA LoopFacts ==
  ASSUME rpc \in DOMAIN Rpcs
  PROVE  /\ \A w \in DOMAIN Loop.chans : Loop.chans[w] \in Channels
         /\ "greeting" \notin DOMAIN Loop.chans
         /\ "INITIATED" \in DOMAIN Loop.chans => rpc \in PaymentRpcs
         /\ Loop.silent \subseteq {"done"}
         /\ Loop.silent # {} => rpc \in {"confirmations", "spends"}
         /\ Loop.last # {} => rpc = "invoice"
         /\ Loop.last \cup Loop.silent \subseteq DOMAIN Loop.chans
         /\ Loop.greets => rpc = "htlcs"
<1>1. CASE rpc \in PaymentRpcs
  BY <1>1, PaymentLoop DEF InFlight, Terminal
<1>2. CASE rpc = "invoice"
  BY <1>2, InvoiceLoop DEF FinalInvoice
<1>3. CASE rpc = "htlcs"
  BY <1>3, HtlcLoop DEF HtlcEvents
<1>4. CASE rpc \in {"confirmations", "spends", "blocks"}
  BY <1>4, NotifierLoop
<1> QED BY <1>1, <1>2, <1>3, <1>4, RpcCases DEF RpcNames

\* Only the status of an update depends on the configuration.
LEMMA ToldFacts ==
  ASSUME rpc \in DOMAIN Rpcs, NEW e \in Events, e.what \in DOMAIN Loop.chans
  PROVE  /\ Told(e) \in Events /\ Told(e).at = e.at
         /\ Told(e).what \in DOMAIN Loop.chans
         /\ ChannelOf(Told(e)) = ChannelOf(e)
         /\ e.what # "INITIATED" => Told(e) = e
         /\ Told(e).what = "INITIATED" => useInit /\ e.what = "INITIATED"
<1>1. CASE e.what = "INITIATED"
  <2>1. rpc \in PaymentRpcs
    BY <1>1, LoopFacts
  <2> QED BY <1>1, <2>1, PaymentLoop DEF Told, convertPaymentStatus, Events, ChannelOf, InFlight
<1>2. CASE e.what # "INITIATED"
  BY <1>2 DEF Told, convertPaymentStatus, Events
<1> QED BY <1>1, <1>2

-----------------------------------------------------------------------------
(* Types *)

\* What no step changes.
Fixed == UNCHANGED <<rpc, noInflightUpdates, useInit>>

LEMMA FixedFacts ==
  ASSUME Fixed
  PROVE  /\ Loop' = Loop /\ Channels' = Channels /\ Events' = Events
         /\ \A w : Skipped(w)' = Skipped(w)
         /\ \A e : Told(e)' = Told(e) /\ Wanted(e)' = Wanted(e)
  BY DEF Fixed, Loop, Channels, Events, Skipped, Told, convertPaymentStatus, Wanted

LEMMA InitTypes == StreamInit => StreamTypeOK
<1> SUFFICES ASSUME StreamInit PROVE StreamTypeOK
  OBVIOUS
<1>1. Greeting \in Events
  BY StreamAssumption DEF Greeting, Events, StreamAssumption
<1>2. {noInflightUpdates, useInit, closed, sourceQuit, quit, stalled} \subseteq BOOLEAN
  BY Zenon DEF StreamInit
<1>3. \A ch \in Channels : chan[ch] = <<>>
  BY DEF StreamInit
<1>4. chan \in [Channels -> Seq(Events)]
  BY <1>3 DEF StreamInit
<1> QED BY <1>1, <1>2, <1>3, <1>4, StreamAssumption DEF StreamInit, StreamTypeOK, StreamAssumption

LEMMA BooleanStep ==
  ASSUME {noInflightUpdates, useInit, closed, sourceQuit, quit, stalled} \subseteq BOOLEAN,
         [StreamNext]_streamVars
  PROVE  {noInflightUpdates, useInit, closed, sourceQuit, quit, stalled}' \subseteq BOOLEAN
  BY Zenon DEF StreamNext, streamVars, sourceVars, envVars, callVars, Emit, SourceCloses,
     SourceQuits, ContextEnds, ClientStallsOrReads, Stop, HandlerStep, Refused, Registered,
     Take, SendOk, SendFails, NoticeClosed, NoticeContext, NoticeQuit, NoticeSourceQuit,
     Leave, End

LEMMA FixedStep ==
  ASSUME [StreamNext]_streamVars
  PROVE  Fixed
  BY DEF StreamNext, streamVars, sourceVars, envVars, callVars, Emit, SourceCloses,
     SourceQuits, ContextEnds, ClientStallsOrReads, Stop, HandlerStep, Refused, Registered,
     Take, SendOk, SendFails, NoticeClosed, NoticeContext, NoticeQuit, NoticeSourceQuit,
     Leave, End, Fixed

LEMMA EmitTypes ==
  ASSUME StreamTypeOK, Emit
  PROVE  /\ emitted' \in Seq(Events) /\ Len(emitted') <= MaxEvents
         /\ chan' \in [Channels -> Seq(Events)]
         /\ Loop.gate => \A ch \in Channels : Len(chan'[ch]) <= Buffer
<1>1. PICK what \in DOMAIN Loop.chans :
        /\ Loop.gate => Len(chan[Loop.chans[what]]) < Buffer
        /\ emitted' = Append(emitted, Event(what))
        /\ chan' = [chan EXCEPT ![Loop.chans[what]] = Append(@, Event(what))]
  BY DEF Emit
<1>2. Len(emitted) < MaxEvents /\ emitted \in Seq(Events) /\ chan \in [Channels -> Seq(Events)]
  BY DEF Emit, StreamTypeOK
<1>3. Event(what) \in Events
  BY <1>2, StreamAssumption DEF Event, Events, StreamAssumption
<1>4. Loop.chans[what] \in Channels
  BY LoopFacts DEF StreamTypeOK
<1> QED BY <1>1, <1>2, <1>3, <1>4, StreamAssumption DEF StreamTypeOK, StreamAssumption

LEMMA TakeTypes ==
  ASSUME StreamTypeOK, NumberedInv, ChannelInv, NEW ch \in Channels, Take(ch)
  PROVE  /\ chan' \in [Channels -> Seq(Events)]
         /\ Loop.gate => \A c \in Channels : Len(chan'[c]) <= Buffer
         /\ item' \in Events
<1>1. chan' = [chan EXCEPT ![ch] = Tail(@)] /\ chan[ch] # <<>> /\ chan[ch] \in Seq(Events)
  BY DEF Take, StreamTypeOK
<1>2. Head(chan[ch]) \in Events /\ Tail(chan[ch]) \in Seq(Events)
      /\ Len(Tail(chan[ch])) = Len(chan[ch]) - 1 /\ Len(chan[ch]) \in Nat
      /\ Head(chan[ch]) = chan[ch][1] /\ 1 \in 1..Len(chan[ch])
  BY <1>1
<1>3. Head(chan[ch]).what \in DOMAIN Loop.chans
  BY <1>2 DEF ChannelInv, NumberedInv
<1>4. item' = item \/ item' = Told(Head(chan[ch]))
  BY DEF Take, End, callVars
<1>5. item' \in Events
  BY <1>2, <1>3, <1>4, ToldFacts DEF StreamTypeOK
<1> QED BY <1>1, <1>2, <1>5, StreamAssumption DEF StreamTypeOK, StreamAssumption

LEMMA TypeStep ==
  ASSUME StreamTypeOK, NumberedInv, ChannelInv, [StreamNext]_streamVars
  PROVE  StreamTypeOK'
<1> USE DEF StreamTypeOK
<1>1. Fixed
  BY FixedStep
<1>2. {noInflightUpdates, useInit, closed, sourceQuit, quit, stalled}' \subseteq BOOLEAN
  BY BooleanStep
<1>3. /\ emitted' \in Seq(Events) /\ Len(emitted') <= MaxEvents
      /\ chan' \in [Channels -> Seq(Events)]
      /\ Loop.gate => \A ch \in Channels : Len(chan'[ch]) <= Buffer
  <2>1. CASE Emit
    BY <2>1, EmitTypes
  <2>2. CASE \E ch \in Channels : Take(ch)
    BY <2>2, TakeTypes DEF Take
  <2>3. CASE UNCHANGED <<emitted, chan>>
    BY <2>3
  <2> QED BY <2>1, <2>2, <2>3 DEF StreamNext, streamVars, sourceVars, SourceCloses,
          SourceQuits, ContextEnds, ClientStallsOrReads, Stop, HandlerStep, Refused, Registered,
          SendOk, SendFails, NoticeClosed, NoticeContext, NoticeQuit, NoticeSourceQuit, Leave
<1>4. /\ ctx' \in {"live", "canceled", "deadline"}
      /\ stage' \in {"registering", "select", "sending", "ended"}
      /\ result' \in {"none", "ok", "error"}
      /\ (stage = "ended" <=> result # "none")'
      /\ sent' \in Seq(Events)
  <2>1. CASE \/ Emit \/ SourceCloses \/ SourceQuits \/ ContextEnds \/ ClientStallsOrReads \/ Stop
             \/ UNCHANGED streamVars
    BY <2>1 DEF streamVars, envVars, callVars, Emit, SourceCloses, SourceQuits, ContextEnds,
       ClientStallsOrReads, Stop
  <2>2. CASE SendOk
    BY <2>2 DEF SendOk, envVars
  <2>3. CASE Registered \/ \E ch \in Channels : Take(ch)
    BY <2>3 DEF Registered, Take, End, envVars, callVars
  <2>4. CASE Refused \/ SendFails \/ NoticeClosed \/ NoticeContext \/ NoticeQuit \/ NoticeSourceQuit
    <3>1. End("ok") \/ End("error")
      BY <2>4 DEF Refused, SendFails, NoticeClosed, NoticeContext, NoticeQuit, NoticeSourceQuit,
         Leave, End
    <3> QED BY <3>1 DEF End, envVars
  <2> QED BY <2>1, <2>2, <2>3, <2>4 DEF StreamNext, HandlerStep
<1>5. item' \in Events
  <2>1. Greeting \in Events
    BY StreamAssumption DEF Greeting, Events, StreamAssumption
  <2>2. CASE \E ch \in Channels : Take(ch)
    BY <2>2, TakeTypes
  <2>3. CASE item' \in {item, Greeting}
    BY <2>1, <2>3
  <2> QED BY <2>2, <2>3 DEF StreamNext, streamVars, callVars, Emit, SourceCloses,
          SourceQuits, ContextEnds, ClientStallsOrReads, Stop, HandlerStep, Refused, Registered,
          SendOk, SendFails, NoticeClosed, NoticeContext, NoticeQuit, NoticeSourceQuit, Leave, End
<1>6. rpc' \in DOMAIN Rpcs /\ Loop' = Loop /\ Channels' = Channels /\ Events' = Events
  BY <1>1, FixedFacts DEF Fixed
<1> QED BY <1>2, <1>3, <1>4, <1>5, <1>6

-----------------------------------------------------------------------------
(* The order of events *)

LEMMA NumberFacts ==
  ASSUME StreamTypeOK, NumberedInv, NEW k \in 1..Len(emitted)
  PROVE  /\ emitted[k] \in Events /\ emitted[k].at = k
         /\ emitted[k].what \in DOMAIN Loop.chans
         /\ ChannelOf(emitted[k]) \in Channels
         /\ Told(emitted[k]) \in Events
         /\ Told(emitted[k]).at = k /\ Told(emitted[k]).what \in DOMAIN Loop.chans
         /\ ChannelOf(Told(emitted[k])) = ChannelOf(emitted[k])
<1>1. emitted[k] \in Events /\ emitted[k].at = k /\ emitted[k].what \in DOMAIN Loop.chans
  BY DEF StreamTypeOK, NumberedInv
<1>2. rpc \in DOMAIN Rpcs
  BY DEF StreamTypeOK
<1> QED BY <1>1, <1>2, LoopFacts, ToldFacts DEF ChannelOf

LEMMA ShownFacts ==
  ASSUME StreamTypeOK, NumberedInv, NEW e, Shown(e)
  PROVE  /\ e.at \in 1..Len(emitted) /\ e = Told(emitted[e.at])
         /\ Wanted(emitted[e.at]) /\ Gone(emitted[e.at])
         /\ e.what \in DOMAIN Loop.chans /\ ChannelOf(e) = ChannelOf(emitted[e.at])
         /\ e # Greeting
<1>1. PICK k \in 1..Len(emitted) : Wanted(emitted[k]) /\ e = Told(emitted[k]) /\ Gone(emitted[k])
  BY DEF Shown
<1>2. e.at = k
  BY <1>1, NumberFacts
<1>3. Len(emitted) \in Nat
  BY DEF StreamTypeOK
<1> QED BY <1>1, <1>2, <1>3, NumberFacts DEF Greeting

\* A step that moves no event, and at most begins or ends the call.
LEMMA QuietStep ==
  ASSUME StreamTypeOK, OrderInv, Fixed, UNCHANGED <<emitted, chan, sent>>,
         \/ UNCHANGED <<stage, item>>
         \/ stage' = "ended" /\ item' = item
         \/ Registered,
         closed' = closed \/ SourceCloses
  PROVE  OrderInv'
<1>1. /\ Loop' = Loop /\ Channels' = Channels
      /\ \A e : Told(e)' = Told(e) /\ Wanted(e)' = Wanted(e)
  BY FixedFacts
<1>2. \A e : ChannelOf(e)' = ChannelOf(e) /\ Gone(e)' = Gone(e)
  BY <1>1 DEF ChannelOf, Gone
<1>3. \A e : Shown(e)' = Shown(e)
  BY <1>1, <1>2 DEF Shown
<1>4. \A e, f : SameChannel(e, f)' = SameChannel(e, f)
  BY <1>1 DEF SameChannel
<1>5. NumberedInv' /\ ChannelInv'
  BY <1>1, <1>2 DEF OrderInv, NumberedInv, ChannelInv
<1>6. SentInv'
  BY <1>1, <1>3, <1>4 DEF OrderInv, SentInv, SentInOrder
<1>7. FreshInv'
  BY DEF OrderInv, FreshInv, Registered
<1>8. ItemInv'
  <2>1. CASE UNCHANGED <<stage, item>>
    BY <2>1, <1>1, <1>3, <1>4 DEF OrderInv, ItemInv
  <2>2. CASE stage' = "ended"
    BY <2>2 DEF ItemInv
  <2>3. CASE Registered
    <3>1. sent' = <<>> /\ (stage' = "sending" => Loop'.greets /\ item' = Greeting)
      BY <2>3, <1>1 DEF Registered, OrderInv, FreshInv
    <3> QED BY <3>1, <1>1 DEF ItemInv, Greeting
  <2> QED BY <2>1, <2>2, <2>3
<1>9. NothingSkipped'
  <2>1. CASE UNCHANGED <<stage, item>>
    BY <2>1, <1>1, <1>2 DEF OrderInv, NothingSkipped
  <2>2. CASE stage' = "ended"
    BY <2>2 DEF NothingSkipped
  <2>3. CASE Registered
    <3>1. Len(emitted') = 0
      BY <2>3 DEF Registered, OrderInv, FreshInv
    <3> QED BY <3>1 DEF NothingSkipped
  <2> QED BY <2>1, <2>2, <2>3
<1>10. GreetInv'
  BY <1>1 DEF OrderInv, GreetInv, Registered, Greeting
<1>11. SourceInv'
  <2>1. rpc' = rpc /\ noInflightUpdates' = noInflightUpdates /\ useInit' = useInit
    BY DEF Fixed
  <2>2. Latest' = Latest
    BY DEF Latest
  <2>3. closed' => Loop.gate \/ (rpc \in {"payment", "legacy"} /\ Latest \in Terminal)
    BY DEF OrderInv, SourceInv, SourceCloses
  <2> QED BY <1>1, <2>1, <2>2, <2>3 DEF OrderInv, SourceInv
<1> QED BY <1>5, <1>6, <1>7, <1>8, <1>9, <1>10, <1>11 DEF OrderInv

\* The source emits: the event is the youngest, and it is in its channel.
LEMMA EmitStep ==
  ASSUME StreamTypeOK, OrderInv, Fixed, Emit
  PROVE  OrderInv'
<1> USE DEF OrderInv
<1>1. /\ Loop' = Loop /\ Channels' = Channels
      /\ \A e : Told(e)' = Told(e) /\ Wanted(e)' = Wanted(e)
  BY FixedFacts
<1>2. PICK what \in DOMAIN Loop.chans :
        /\ MayFollow(what)
        /\ emitted' = Append(emitted, Event(what))
        /\ chan' = [chan EXCEPT ![Loop.chans[what]] = Append(@, Event(what))]
  BY DEF Emit
<1> DEFINE n == Len(emitted)
           new == Event(what)
           nch == Loop.chans[what]
<1>3. /\ n = Len(emitted) /\ nch = ChannelOf(new)
      /\ n \in Nat /\ emitted \in Seq(Events) /\ chan \in [Channels -> Seq(Events)]
      /\ nch \in Channels /\ new.at = n + 1 /\ new.what = what
      /\ Len(chan[nch]) \in Nat
  BY LoopFacts DEF StreamTypeOK, Event, ChannelOf
<1>4. /\ Len(emitted') = n + 1 /\ emitted'[n + 1] = new
      /\ \A k \in 1..n : emitted'[k] = emitted[k]
  BY <1>2, <1>3
<1>5. /\ Len(chan'[nch]) = Len(chan[nch]) + 1
      /\ chan'[nch][Len(chan[nch]) + 1] = new
      /\ \A i \in 1..Len(chan[nch]) : chan'[nch][i] = chan[nch][i]
      /\ \A ch \in Channels \ {nch} : chan'[ch] = chan[ch]
  BY <1>2, <1>3
<1> DEFINE m == Len(chan[nch])
<1>5a. /\ m \in Nat /\ Len(chan'[nch]) = m + 1 /\ chan'[nch][m + 1] = new
       /\ \A i \in 1..(m + 1) : i \in 1..m \/ i = m + 1
       /\ \A i \in 1..m : i \in 1..(m + 1) /\ chan'[nch][i] = chan[nch][i]
       /\ Len(chan[nch]) = m /\ m + 1 \in 1..(m + 1)
  BY <1>3, <1>5
<1> HIDE DEF new, nch, m
<1>6. \A e : ChannelOf(e)' = ChannelOf(e)
  BY <1>1 DEF ChannelOf
<1>7. \A e, f : SameChannel(e, f)' = SameChannel(e, f)
  BY <1>1 DEF SameChannel
<1>8. UNCHANGED <<stage, item, sent, closed>> /\ stage \in {"select", "sending"} /\ ~closed
  BY DEF Emit, Watched, callVars
<1>8a. \A e : Gone(e)' <=> \A i \in 1..Len(chan'[ChannelOf(e)]) :
                             e.at < chan'[ChannelOf(e)][i].at
  BY <1>6 DEF Gone
<1>9. ASSUME NEW e, e.at \in 1..n, ChannelOf(e) \in Channels
      PROVE  Gone(e)' <=> Gone(e)
  <2>1. CASE ChannelOf(e) # nch
    BY <1>9, <2>1, <1>5, <1>8a DEF Gone
  <2>2. CASE ChannelOf(e) = nch
    <3>1. Gone(e) <=> \A i \in 1..m : e.at < chan[nch][i].at
      BY <2>2, <1>5a DEF Gone
    <3>2. Gone(e)' <=> \A i \in 1..(m + 1) : e.at < chan'[nch][i].at
      BY <2>2, <1>5a, <1>8a
    <3>3. e.at < chan'[nch][m + 1].at
      BY <1>3, <1>5a, <1>9
    <3> QED BY <3>1, <3>2, <3>3, <1>5a
  <2> QED BY <2>1, <2>2
<1>10. ASSUME NEW e, e = new
       PROVE  ~Gone(e)'
  <2>1. ~(e.at < chan'[nch][m + 1].at)
    BY <1>3, <1>5a, <1>10
  <2> QED BY <2>1, <1>3, <1>5a, <1>8a, <1>10
<1>11. ASSUME NEW e, Shown(e)
       PROVE  Shown(e)'
  <2>1. PICK k \in 1..n : Wanted(emitted[k]) /\ e = Told(emitted[k]) /\ Gone(emitted[k])
    BY <1>11 DEF Shown
  <2>2. PICK f : f = emitted[k]
    OBVIOUS
  <2>3. Wanted(f)' /\ e = Told(f)' /\ Gone(f)'
    BY <2>1, <2>2, <1>1, <1>9, NumberFacts
  <2>4. k \in 1..Len(emitted') /\ emitted'[k] = f
    BY <2>2, <1>3, <1>4
  <2> QED BY <2>3, <2>4 DEF Shown
<1>12. NumberedInv'
  BY <1>1, <1>3, <1>4 DEF NumberedInv
<1>13. ChannelInv'
  <2> SUFFICES ASSUME NEW ch \in Channels
               PROVE  /\ \A i \in 1..Len(chan'[ch]) :
                           /\ chan'[ch][i].at \in 1..(n + 1)
                           /\ chan'[ch][i] = emitted'[chan'[ch][i].at]
                           /\ ChannelOf(chan'[ch][i]) = ch
                      /\ \A i, j \in 1..Len(chan'[ch]) : i < j => chan'[ch][i].at < chan'[ch][j].at
                      /\ \A k \in 1..(n + 1) :
                           ChannelOf(emitted'[k]) = ch =>
                             \/ \E i \in 1..Len(chan'[ch]) : chan'[ch][i].at = k
                             \/ \A i \in 1..Len(chan'[ch]) : k < chan'[ch][i].at
    BY <1>1, <1>4, <1>6 DEF ChannelInv
  <2>1. /\ \A i \in 1..Len(chan[ch]) :
             /\ chan[ch][i].at \in 1..n
             /\ chan[ch][i] = emitted[chan[ch][i].at]
             /\ ChannelOf(chan[ch][i]) = ch
        /\ \A i, j \in 1..Len(chan[ch]) : i < j => chan[ch][i].at < chan[ch][j].at
        /\ \A k \in 1..n :
             ChannelOf(emitted[k]) = ch =>
               \/ \E i \in 1..Len(chan[ch]) : chan[ch][i].at = k
               \/ \A i \in 1..Len(chan[ch]) : k < chan[ch][i].at
    BY DEF ChannelInv
  <2>2. Len(chan[ch]) \in Nat
    BY <1>3
  <2>3. CASE ch # nch
    <3>1. chan'[ch] = chan[ch]
      BY <1>5, <2>3
    <3>2. ASSUME NEW i \in 1..Len(chan[ch])
          PROVE  /\ chan[ch][i].at \in 1..(n + 1)
                 /\ chan[ch][i] = emitted'[chan[ch][i].at]
                 /\ ChannelOf(chan[ch][i]) = ch
      <4>1. chan[ch][i].at \in 1..n
        BY <2>1
      <4> QED BY <4>1, <1>3, <1>4, <2>1
    <3>3. ASSUME NEW k \in 1..(n + 1), ChannelOf(emitted'[k]) = ch
          PROVE  \/ \E i \in 1..Len(chan[ch]) : chan[ch][i].at = k
                 \/ \A i \in 1..Len(chan[ch]) : k < chan[ch][i].at
      <4>1. k \in 1..n
        BY <3>3, <1>3, <1>4, <2>3
      <4> QED BY <3>3, <4>1, <1>4, <2>1
    <3> QED BY <3>1, <3>2, <3>3, <2>1
  <2>4. CASE ch = nch
    <3>3. \A i \in 1..Len(chan'[ch]) :
            /\ chan'[ch][i].at \in 1..(n + 1)
            /\ chan'[ch][i] = emitted'[chan'[ch][i].at]
            /\ ChannelOf(chan'[ch][i]) = ch
      <4> TAKE i \in 1..Len(chan'[ch])
      <4>1. CASE i = m + 1
        BY <4>1, <1>3, <1>4, <1>5a, <2>4
      <4>2. CASE i \in 1..m
        <5>1. chan'[ch][i] = chan[ch][i] /\ chan[ch][i].at \in 1..n
          BY <4>2, <1>5a, <2>1, <2>4
        <5>2. chan[ch][i] = emitted[chan[ch][i].at] /\ ChannelOf(chan[ch][i]) = ch
          BY <4>2, <1>5a, <2>1, <2>4
        <5>3. emitted'[chan[ch][i].at] = emitted[chan[ch][i].at]
          BY <5>1, <1>4
        <5>4. chan[ch][i].at \in 1..(n + 1)
          BY <5>1, <1>3
        <5> QED BY <5>1, <5>2, <5>3, <5>4
      <4> QED BY <4>1, <4>2, <1>5a, <2>4
    <3>4. \A i, j \in 1..Len(chan'[ch]) : i < j => chan'[ch][i].at < chan'[ch][j].at
      <4> TAKE i, j \in 1..Len(chan'[ch])
      <4> HAVE i < j
      <4>1. i \in 1..m /\ (j \in 1..m \/ j = m + 1)
        BY <1>5a, <2>4
      <4>2. CASE j \in 1..m
        BY <4>1, <4>2, <1>5a, <2>1, <2>4
      <4>3. CASE j = m + 1
        <5>1. chan'[ch][j].at = n + 1 /\ chan'[ch][i] = chan[ch][i] /\ chan[ch][i].at \in 1..n
          BY <4>1, <4>3, <1>3, <1>5a, <2>1, <2>4
        <5> QED BY <5>1, <1>3
      <4> QED BY <4>1, <4>2, <4>3
    <3>5. ASSUME NEW k \in 1..(n + 1), ChannelOf(emitted'[k]) = ch
          PROVE  \/ \E i \in 1..Len(chan'[ch]) : chan'[ch][i].at = k
                 \/ \A i \in 1..Len(chan'[ch]) : k < chan'[ch][i].at
      <4>1. CASE k = n + 1
        BY <4>1, <1>3, <1>5a, <2>4
      <4>2. CASE k \in 1..n
        <5>1. ChannelOf(emitted[k]) = ch
          BY <4>2, <3>5, <1>4
        <5>2. CASE \E i \in 1..m : chan[ch][i].at = k
          BY <5>2, <1>5a, <2>4
        <5>3. CASE \A i \in 1..m : k < chan[ch][i].at
          BY <5>3, <4>2, <1>3, <1>5a, <2>4
        <5> QED BY <4>2, <5>1, <5>2, <5>3, <1>5a, <2>1, <2>4
      <4> QED BY <4>1, <4>2, <1>3
    <3> QED BY <3>3, <3>4, <3>5
  <2> QED BY <2>3, <2>4
<1>14. ItemInv'
  BY <1>1, <1>7, <1>8, <1>11 DEF ItemInv, Greeting
<1>15. \A i \in 1..Len(sent) : sent[i].at \in 0..n
  BY <1>3, ShownFacts DEF SentInv, Greeting
<1>16. SentInv'
  <2>1. \A i \in 1..Len(sent) : (i = 1 /\ Loop.greets /\ sent[i] = Greeting) \/ Shown(sent[i])'
    BY <1>8, <1>11 DEF SentInv
  <2>2. SentInOrder'
    <3>0. sent' = sent /\ sent \in Seq(Events) /\ DOMAIN sent = 1..Len(sent)
          /\ DOMAIN emitted = 1..n /\ DOMAIN emitted' = 1..(n + 1)
      BY <1>8, <1>3, <1>4, <1>2 DEF StreamTypeOK
    <3>1. \A i \in DOMAIN sent :
            \/ i = 1 /\ Loop.greets /\ sent[i] = Greeting
            \/ \E k \in DOMAIN emitted' : Wanted(emitted'[k]) /\ sent[i] = Told(emitted'[k])
      <4> TAKE i \in DOMAIN sent
      <4>1. CASE i = 1 /\ Loop.greets /\ sent[i] = Greeting
        BY <4>1
      <4>2. CASE ~(i = 1 /\ Loop.greets /\ sent[i] = Greeting)
        <5>1. PICK k \in 1..n : Wanted(emitted[k]) /\ sent[i] = Told(emitted[k])
          BY <4>2, <3>0 DEF SentInv, SentInOrder
        <5>2. k \in DOMAIN emitted' /\ emitted'[k] = emitted[k]
          BY <3>0, <1>3, <1>4
        <5> QED BY <5>1, <5>2
      <4> QED BY <4>1, <4>2
    <3>2. ASSUME NEW i \in DOMAIN sent, NEW k \in DOMAIN emitted',
                 SameChannel(sent[i], emitted'[k]), k < sent[i].at, Wanted(emitted'[k])
          PROVE  \E j \in DOMAIN sent : j < i /\ sent[j] = Told(emitted'[k])
      <4>1. k \in 1..n
        BY <3>0, <3>2, <1>3, <1>15
      <4> QED BY <4>1, <3>0, <3>2, <1>4 DEF SentInv, SentInOrder
    <3> QED BY <1>1, <1>7, <3>0, <3>1, <3>2 DEF SentInv, SentInOrder, Greeting
  <2> QED BY <1>1, <1>8, <2>1, <2>2 DEF SentInv, Greeting
<1>17. NothingSkipped'
  <2>1. ASSUME NEW k \in 1..(n + 1), NEW e, e = emitted'[k], Wanted(e)', Gone(e)'
        PROVE  \/ stage = "sending" /\ item = Told(e)
               \/ stage = "ended"
               \/ \E i \in 1..Len(sent) : sent[i] = Told(e)
    <3>1. k \in 1..n
      BY <2>1, <1>3, <1>4, <1>10
    <3>2. e = emitted[k] /\ Wanted(e) /\ Gone(e)
      BY <2>1, <3>1, <1>1, <1>4, <1>9, NumberFacts
    <3> QED BY <3>1, <3>2 DEF NothingSkipped
  <2> QED BY <2>1, <1>1, <1>4, <1>8 DEF NothingSkipped
<1>18. GreetInv' /\ FreshInv'
  BY <1>1, <1>8 DEF GreetInv, FreshInv, Greeting
<1>19. SourceInv'
  <2>1. rpc' = rpc /\ noInflightUpdates' = noInflightUpdates /\ useInit' = useInit
    BY DEF Fixed
  <2>2. \A k \in 1..n : emitted[k].what \in Source
    BY <1>3 DEF Source
  <2>3. n # 0 => Latest = emitted[n].what
    BY <1>3 DEF Latest, Last
  <2>4. emitted = <<>> <=> n = 0
    BY <1>3
  <2>5. \A k \in 1..(n + 1) :
       /\ rpc \in {"payment", "legacy"} /\ emitted'[k].what = "INITIATED" => k = 1
       /\ rpc \in {"payment", "legacy"} /\ emitted'[k].what \in Terminal => k = n + 1
       /\ rpc = "invoice" /\ emitted'[k].what \in FinalInvoice => k = n + 1
       /\ rpc \in {"confirmations", "spends"} /\ emitted'[k].what = "done" => k = n + 1
    <3> TAKE k \in 1..(n + 1)
    <3>1. CASE k = n + 1
      BY <3>1, <1>2, <1>3, <1>4, <2>4 DEF MayFollow
    <3>2. CASE k \in 1..n
      BY <3>2, <1>2, <1>3, <1>4, <2>2, <2>3, <2>4 DEF MayFollow, SourceInv
    <3> QED BY <3>1, <3>2, <1>3
  <2> QED BY <1>1, <1>4, <1>8, <2>1, <2>5 DEF SourceInv
<1> QED BY <1>12, <1>13, <1>14, <1>16, <1>17, <1>18, <1>19

\* The handler takes the oldest event of a channel.
LEMMA TakeStep ==
  ASSUME StreamTypeOK, OrderInv, Fixed, NEW ch \in Channels, Take(ch)
  PROVE  OrderInv'
<1> USE DEF OrderInv
<1>1. /\ Loop' = Loop /\ Channels' = Channels
      /\ \A e : Told(e)' = Told(e) /\ Wanted(e)' = Wanted(e)
  BY FixedFacts
<1>2. UNCHANGED <<emitted, closed, sent>> /\ stage = "select"
  BY DEF Take, End, callVars
<1>3. /\ chan' = [chan EXCEPT ![ch] = Tail(@)] /\ chan[ch] # <<>>
      /\ chan[ch] \in Seq(Events) /\ chan \in [Channels -> Seq(Events)]
  BY DEF Take, StreamTypeOK
<1>m. PICK m : m = Len(chan[ch])
  OBVIOUS
<1>h. PICK head : head = chan[ch][1]
  OBVIOUS
<1>4. /\ m = Len(chan[ch]) /\ head = chan[ch][1]
      /\ m \in Nat \ {0} /\ 1 \in 1..m /\ head = Head(chan[ch])
      /\ Len(chan'[ch]) = m - 1
      /\ \A i \in 1..(m - 1) : i + 1 \in 1..m /\ chan'[ch][i] = chan[ch][i + 1]
      /\ \A i \in 2..m : i - 1 \in 1..(m - 1) /\ chan'[ch][i - 1] = chan[ch][i]
      /\ \A i \in 1..m : i = 1 \/ i \in 2..m
      /\ \A c \in Channels \ {ch} : chan'[c] = chan[c]
  BY <1>3, <1>m, <1>h
<1>5. /\ \A i \in 1..m :
           /\ chan[ch][i].at \in 1..Len(emitted)
           /\ chan[ch][i] = emitted[chan[ch][i].at]
           /\ ChannelOf(chan[ch][i]) = ch
      /\ \A i, j \in 1..m : i < j => chan[ch][i].at < chan[ch][j].at
      /\ \A k \in 1..Len(emitted) :
           ChannelOf(emitted[k]) = ch =>
             \/ \E i \in 1..m : chan[ch][i].at = k
             \/ \A i \in 1..m : k < chan[ch][i].at
  BY <1>m DEF ChannelInv
<1>6. \A e : ChannelOf(e)' = ChannelOf(e)
  BY <1>1 DEF ChannelOf
<1>7. \A e, f : SameChannel(e, f)' = SameChannel(e, f)
  BY <1>1 DEF SameChannel
<1>8. \A e : Gone(e)' <=> \A i \in 1..Len(chan'[ChannelOf(e)]) :
                             e.at < chan'[ChannelOf(e)][i].at
  BY <1>6 DEF Gone
<1>9. /\ head \in Events /\ head.at \in 1..Len(emitted) /\ head = emitted[head.at]
      /\ ChannelOf(head) = ch /\ head.what \in DOMAIN Loop.chans
      /\ Told(head).at = head.at /\ ChannelOf(Told(head)) = ch
  BY <1>3, <1>4, <1>5, NumberFacts
<1>10. ASSUME NEW e, ChannelOf(e) \in Channels, Gone(e)
       PROVE  Gone(e)'
  <2>1. CASE ChannelOf(e) # ch
    BY <1>4, <1>8, <1>10, <2>1 DEF Gone
  <2>2. CASE ChannelOf(e) = ch
    <3>1. \A i \in 1..m : e.at < chan[ch][i].at
      BY <1>4, <1>10, <2>2 DEF Gone
    <3>2. \A i \in 1..(m - 1) : e.at < chan'[ch][i].at
      BY <1>4, <3>1
    <3> QED BY <3>2, <1>4, <1>8, <2>2
  <2> QED BY <2>1, <2>2
<1>11. Gone(head)'
  <2>2. \A i \in 1..(m - 1) : head.at < chan'[ch][i].at
    <3> TAKE i \in 1..(m - 1)
    <3>1. i + 1 \in 1..m /\ 1 < i + 1 /\ chan'[ch][i] = chan[ch][i + 1]
      BY <1>4
    <3> QED BY <3>1, <1>4, <1>5
  <2> QED BY <2>2, <1>4, <1>8, <1>9
\* Nothing else has left its channel.
<1>12. ASSUME NEW k \in 1..Len(emitted), NEW e, e = emitted[k], Gone(e)', ~Gone(e)
       PROVE  e = head
  <2>1. ChannelOf(e) \in Channels /\ e.at = k
    BY <1>12, NumberFacts
  <2>2. ChannelOf(e) = ch
    BY <1>4, <1>8, <1>12, <2>1 DEF Gone
  <2>3. PICK i \in 1..m : chan[ch][i].at = k
    <3>1. ~(\A i \in 1..m : k < chan[ch][i].at)
      BY <1>4, <1>12, <2>1, <2>2 DEF Gone
    <3>2. ChannelOf(emitted[k]) = ch
      BY <1>12, <2>2
    <3> QED BY <3>1, <3>2, <1>5
  <2>4. CASE i \in 2..m
    <3>1. i - 1 \in 1..(m - 1) /\ chan'[ch][i - 1] = chan[ch][i]
      BY <1>4, <2>4
    <3>2. k < chan'[ch][i - 1].at
      BY <1>4, <1>8, <1>12, <2>1, <2>2, <3>1
    <3> QED BY <2>3, <3>1, <3>2
  <2>5. CASE i = 1
    BY <2>3, <2>5, <1>4, <1>9, <1>12
  <2> QED BY <2>4, <2>5, <1>4
<1>13. ASSUME NEW e, Shown(e)
       PROVE  Shown(e)'
  <2>1. PICK k \in 1..Len(emitted) : Wanted(emitted[k]) /\ e = Told(emitted[k]) /\ Gone(emitted[k])
    BY <1>13 DEF Shown
  <2>2. PICK f : f = emitted[k]
    OBVIOUS
  <2>3. Wanted(f)' /\ e = Told(f)' /\ Gone(f)'
    BY <2>1, <2>2, <1>1, <1>10, NumberFacts
  <2> QED BY <2>2, <2>3, <1>2 DEF Shown
<1>14. NumberedInv'
  BY <1>1, <1>2 DEF NumberedInv
<1>15. ChannelInv'
  <2> SUFFICES ASSUME NEW c \in Channels
               PROVE  /\ \A i \in 1..Len(chan'[c]) :
                           /\ chan'[c][i].at \in 1..Len(emitted)
                           /\ chan'[c][i] = emitted[chan'[c][i].at]
                           /\ ChannelOf(chan'[c][i]) = c
                      /\ \A i, j \in 1..Len(chan'[c]) : i < j => chan'[c][i].at < chan'[c][j].at
                      /\ \A k \in 1..Len(emitted) :
                           ChannelOf(emitted[k]) = c =>
                             \/ \E i \in 1..Len(chan'[c]) : chan'[c][i].at = k
                             \/ \A i \in 1..Len(chan'[c]) : k < chan'[c][i].at
    BY <1>1, <1>2, <1>6 DEF ChannelInv
  <2>1. CASE c # ch
    <3>1. chan'[c] = chan[c]
      BY <1>4, <2>1
    <3> QED BY <3>1 DEF ChannelInv
  <2>2. CASE c = ch
    <3>1. \A i \in 1..(m - 1) :
            /\ chan'[c][i].at \in 1..Len(emitted)
            /\ chan'[c][i] = emitted[chan'[c][i].at]
            /\ ChannelOf(chan'[c][i]) = c
      <4> TAKE i \in 1..(m - 1)
      <4>1. i + 1 \in 1..m /\ chan'[c][i] = chan[c][i + 1]
        BY <1>4, <2>2
      <4> QED BY <4>1, <1>5, <2>2
    <3>2. \A i, j \in 1..(m - 1) : i < j => chan'[c][i].at < chan'[c][j].at
      <4> TAKE i, j \in 1..(m - 1)
      <4>1. i + 1 \in 1..m /\ j + 1 \in 1..m /\ (i < j => i + 1 < j + 1)
        BY <1>4
      <4>2. chan'[c][i] = chan[c][i + 1] /\ chan'[c][j] = chan[c][j + 1]
        BY <1>4, <2>2
      <4> QED BY <4>1, <4>2, <1>5, <2>2
    <3>3. ASSUME NEW k \in 1..Len(emitted), ChannelOf(emitted[k]) = c
          PROVE  \/ \E i \in 1..(m - 1) : chan'[c][i].at = k
                 \/ \A i \in 1..(m - 1) : k < chan'[c][i].at
      <4>1. CASE \A i \in 1..m : k < chan[ch][i].at
        BY <4>1, <1>4, <2>2
      <4>2. CASE \E i \in 1..m : chan[ch][i].at = k
        <5>1. PICK i \in 1..m : chan[ch][i].at = k
          BY <4>2
        <5>2. CASE i = 1
          <6> SUFFICES ASSUME NEW j \in 1..(m - 1) PROVE k < chan'[c][j].at
            OBVIOUS
          <6>1. j + 1 \in 1..m /\ 1 < j + 1 /\ chan'[ch][j] = chan[ch][j + 1]
            BY <1>4
          <6> QED BY <5>1, <5>2, <6>1, <1>4, <1>5, <2>2
        <5>3. CASE i \in 2..m
          <6>1. i - 1 \in 1..(m - 1) /\ chan'[ch][i - 1] = chan[ch][i]
            BY <5>3, <1>4
          <6> QED BY <5>1, <6>1, <2>2
        <5> QED BY <5>2, <5>3, <1>4
      <4> QED BY <4>1, <4>2, <1>5, <2>2, <3>3
    <3> QED BY <3>1, <3>2, <3>3, <1>4, <2>2
  <2> QED BY <2>1, <2>2
<1>16. SentInv'
  <2>1. \A i \in 1..Len(sent) : (i = 1 /\ Loop.greets /\ sent[i] = Greeting) \/ Shown(sent[i])'
    BY <1>2, <1>13 DEF SentInv
  <2>2. SentInOrder'
    BY <1>1, <1>2, <1>7 DEF SentInv, SentInOrder, Greeting
  <2> QED BY <1>1, <1>2, <2>1, <2>2 DEF SentInv, Greeting
<1>17. \A i \in 1..Len(sent) : SameChannel(sent[i], head) => sent[i].at < head.at
  <2> SUFFICES ASSUME NEW i \in 1..Len(sent), SameChannel(sent[i], head)
               PROVE  sent[i].at < head.at
    OBVIOUS
  <2>1. sent[i] # Greeting
    BY LoopFacts DEF SameChannel, Greeting, StreamTypeOK
  <2>2. Shown(sent[i])
    BY <2>1 DEF SentInv
  <2>3. /\ Gone(emitted[sent[i].at]) /\ ChannelOf(emitted[sent[i].at]) = ChannelOf(sent[i])
        /\ sent[i].at \in 1..Len(emitted)
    BY <2>2, ShownFacts
  <2>4. ChannelOf(sent[i]) = ch
    BY <1>9 DEF SameChannel, ChannelOf
  <2> QED BY <2>3, <2>4, <1>4, <1>9, NumberFacts DEF Gone
\* The three ways to go on.
<1>18. \/ stage' = "select" /\ Skipped(head.what) /\ item' = item
       \/ stage' = "ended"
       \/ /\ stage' = "sending" /\ item' = Told(head)
          /\ ~Skipped(head.what) /\ head.what \notin Loop.silent
  BY <1>4 DEF Take, End, callVars
<1>19. ItemInv'
  <2> SUFFICES ASSUME stage' = "sending" PROVE ItemInv'
    BY DEF ItemInv
  <2>1. Wanted(head) /\ item' = Told(head)
    BY <1>9, <1>18, <1>2 DEF Wanted
  <2>2. PICK e : e = Told(head)
    OBVIOUS
  <2>3. Shown(e)'
    BY <1>1, <1>2, <1>9, <1>11, <2>1, <2>2 DEF Shown
  <2>4. \A i \in 1..Len(sent) : SameChannel(sent[i], e) => sent[i].at < e.at
    <3> SUFFICES ASSUME NEW i \in 1..Len(sent), SameChannel(sent[i], e)
                 PROVE  sent[i].at < e.at
      OBVIOUS
    <3>1. SameChannel(sent[i], head)
      BY <2>2, <1>9 DEF SameChannel, ChannelOf
    <3> QED BY <3>1, <1>9, <1>17, <2>2
  <2> QED BY <2>1, <2>2, <2>3, <2>4, <1>1, <1>2, <1>7 DEF ItemInv
<1>20. NothingSkipped'
  <2>0. ASSUME NEW k \in 1..Len(emitted), NEW e, e = emitted[k], Wanted(e), Gone(e)'
        PROVE  \/ stage' = "ended"
               \/ stage' = "sending" /\ item' = Told(e)
               \/ \E i \in 1..Len(sent) : sent[i] = Told(e)
    <3>1. CASE Gone(e)
      BY <2>0, <3>1, <1>2 DEF NothingSkipped
    <3>2. CASE ~Gone(e)
      BY <2>0, <3>2, <1>12, <1>18 DEF Wanted
    <3> QED BY <3>1, <3>2
  <2> QED BY <2>0, <1>1, <1>2 DEF NothingSkipped
<1>21. GreetInv' /\ FreshInv'
  BY <1>1, <1>2, <1>18 DEF GreetInv, FreshInv, Greeting
<1>22. SourceInv'
  <2>1. rpc' = rpc /\ noInflightUpdates' = noInflightUpdates /\ useInit' = useInit
        /\ Latest' = Latest
    BY <1>2 DEF Fixed, Latest
  <2> QED BY <2>1, <1>1, <1>2 DEF SourceInv
<1> QED BY <1>14, <1>15, <1>16, <1>19, <1>20, <1>21, <1>22

\* The client takes what it is sent.
LEMMA SendStep ==
  ASSUME StreamTypeOK, OrderInv, Fixed, SendOk
  PROVE  OrderInv'
<1> USE DEF OrderInv
<1>1. /\ Loop' = Loop /\ Channels' = Channels
      /\ \A e : Told(e)' = Told(e) /\ Wanted(e)' = Wanted(e)
  BY FixedFacts
<1>2. /\ UNCHANGED <<emitted, chan, closed, item>> /\ stage = "sending"
      /\ stage' \in {"select", "ended"} /\ sent' = Append(sent, item)
  BY DEF SendOk, sourceVars
<1>s. PICK s : s = Len(sent)
  OBVIOUS
<1>3. /\ s = Len(sent) /\ s \in Nat /\ sent \in Seq(Events) /\ item \in Events
      /\ Len(sent') = s + 1 /\ sent'[s + 1] = item /\ s + 1 \in 1..(s + 1)
      /\ \A i \in 1..s : i \in 1..(s + 1) /\ sent'[i] = sent[i]
      /\ \A i \in 1..(s + 1) : i \in 1..s \/ i = s + 1
      /\ DOMAIN sent = 1..s /\ DOMAIN sent' = 1..(s + 1) /\ DOMAIN emitted = 1..Len(emitted)
  BY <1>2, <1>s DEF StreamTypeOK
<1>4. \A e : ChannelOf(e)' = ChannelOf(e) /\ Gone(e)' = Gone(e)
  BY <1>1, <1>2 DEF ChannelOf, Gone
<1>5. \A e : Shown(e)' = Shown(e)
  BY <1>1, <1>2, <1>4 DEF Shown
<1>6. \A e, f : SameChannel(e, f)' = SameChannel(e, f)
  BY <1>1 DEF SameChannel
<1>7. NumberedInv' /\ ChannelInv'
  BY <1>1, <1>2, <1>4 DEF NumberedInv, ChannelInv
<1>8. \/ Loop.greets /\ item = Greeting /\ s = 0
      \/ Shown(item) /\ \A i \in 1..s : SameChannel(sent[i], item) => sent[i].at < item.at
  BY <1>2, <1>3 DEF ItemInv
<1>9. \A i \in 1..s : (i = 1 /\ Loop.greets /\ sent[i] = Greeting) \/ Shown(sent[i])
  BY <1>3 DEF SentInv
<1>10. ASSUME NEW i \in 1..(s + 1)
       PROVE  (i = 1 /\ Loop.greets /\ sent'[i] = Greeting) \/ Shown(sent'[i])
  <2>1. CASE i = s + 1
    BY <2>1, <1>3, <1>8
  <2>2. CASE i \in 1..s
    BY <2>2, <1>3, <1>9
  <2> QED BY <2>1, <2>2, <1>3
<1>11. ASSUME NEW i \in 1..(s + 1), NEW j \in 1..(s + 1), i < j, SameChannel(sent'[i], sent'[j])
       PROVE  sent'[i].at < sent'[j].at
  <2>1. i \in 1..s
    BY <1>11, <1>3
  <2>2. CASE j \in 1..s
    BY <2>1, <2>2, <1>3, <1>11 DEF SentInv, SentInOrder
  <2>3. CASE j = s + 1
    <3>1. sent'[j] = item /\ sent'[i] = sent[i]
      BY <2>1, <2>3, <1>3
    <3>2. s # 0
      BY <2>1, <1>3
    <3> QED BY <3>1, <3>2, <2>1, <1>8, <1>11
  <2> QED BY <2>2, <2>3, <1>3
<1>12. ASSUME NEW i \in 1..(s + 1), NEW k \in 1..Len(emitted),
              SameChannel(sent'[i], emitted[k]), k < sent'[i].at, Wanted(emitted[k])
       PROVE  \E j \in 1..(s + 1) : j < i /\ sent'[j] = Told(emitted[k])
  <2>1. CASE i \in 1..s
    <3>1. sent'[i] = sent[i]
      BY <2>1, <1>3
    <3>2. PICK j \in 1..s : j < i /\ sent[j] = Told(emitted[k])
      BY <2>1, <3>1, <1>3, <1>12 DEF SentInv, SentInOrder
    <3> QED BY <3>2, <1>3
  <2>2. CASE i = s + 1
    <3>1. sent'[i] = item
      BY <2>2, <1>3
    <3>2. Shown(item)
      BY <3>1, <1>8, <1>12 DEF Greeting
    <3>3. /\ item.at \in 1..Len(emitted) /\ Gone(emitted[item.at])
          /\ ChannelOf(emitted[item.at]) = ChannelOf(item)
      BY <3>2, ShownFacts
    <3>4. ChannelOf(emitted[k]) = ChannelOf(item) /\ ChannelOf(item) \in Channels
          /\ emitted[k].at = k /\ emitted[item.at].at = item.at
      BY <3>1, <3>3, <1>12, NumberFacts DEF SameChannel, ChannelOf
    <3>5. Gone(emitted[k])
      <4> SUFFICES ASSUME NEW c \in 1..Len(chan[ChannelOf(item)])
                   PROVE  k < chan[ChannelOf(item)][c].at
        BY <3>4 DEF Gone
      <4>1. item.at < chan[ChannelOf(item)][c].at
        BY <3>3, <3>4 DEF Gone
      <4>2. chan[ChannelOf(item)][c].at \in Nat
        BY <3>4 DEF ChannelInv
      <4> QED BY <3>1, <3>3, <4>1, <4>2, <1>12
    <3>6. item # Told(emitted[k])
      BY <3>1, <3>3, <1>12, NumberFacts
    <3>7. PICK j \in 1..s : sent[j] = Told(emitted[k])
      BY <3>5, <3>6, <1>2, <1>3, <1>12 DEF NothingSkipped
    <3> QED BY <3>7, <2>2, <1>3
  <2> QED BY <2>1, <2>2, <1>3
<1>13. Loop.greets => sent'[1] = Greeting
  <2>1. CASE s = 0
    BY <2>1, <1>2, <1>3 DEF GreetInv
  <2>2. CASE s # 0
    BY <2>2, <1>3 DEF SentInv, SentInOrder
  <2> QED BY <2>1, <2>2
<1>14. SentInv'
  <2>1. \A i \in 1..Len(sent') : (i = 1 /\ Loop.greets /\ sent'[i] = Greeting) \/ Shown(sent'[i])
    BY <1>3, <1>10
  <2>2. \A i \in DOMAIN sent' :
          \/ i = 1 /\ Loop.greets /\ sent'[i] = Greeting
          \/ \E k \in DOMAIN emitted : Wanted(emitted[k]) /\ sent'[i] = Told(emitted[k])
    BY <1>3, <1>10 DEF Shown
  <2>3. SentInOrder'
    <3>1. \A i \in DOMAIN sent' :
            \/ i = 1 /\ Loop'.greets /\ sent'[i] = Greeting'
            \/ \E k \in DOMAIN emitted' : Wanted(emitted[k])' /\ sent'[i] = Told(emitted[k])'
      BY <1>1, <1>2, <2>2 DEF Greeting
    <3>2. \A i, j \in DOMAIN sent' :
            i < j /\ SameChannel(sent[i], sent[j])' => sent'[i].at < sent'[j].at
      BY <1>3, <1>6, <1>11
    <3>3. ASSUME NEW i \in DOMAIN sent', NEW k \in DOMAIN emitted',
                 SameChannel(sent[i], emitted[k])', k < sent'[i].at, Wanted(emitted[k])'
          PROVE  \E j \in DOMAIN sent' : j < i /\ sent'[j] = Told(emitted[k])'
      BY <3>3, <1>1, <1>2, <1>3, <1>6, <1>12
    <3>4. Loop'.greets /\ sent' # <<>> => sent'[1] = Greeting'
      BY <1>1, <1>13 DEF Greeting
    <3> QED BY <3>1, <3>2, <3>3, <3>4 DEF SentInOrder
  <2> QED BY <1>1, <1>5, <2>1, <2>3 DEF SentInv, Greeting
<1>15. ItemInv'
  BY <1>2 DEF ItemInv
<1>16. NothingSkipped'
  <2>1. ASSUME NEW k \in 1..Len(emitted), NEW e, e = emitted[k], Wanted(e), Gone(e)
        PROVE  \E i \in 1..(s + 1) : sent'[i] = Told(e)
    BY <2>1, <1>2, <1>3 DEF NothingSkipped
  <2> QED BY <2>1, <1>1, <1>2, <1>3, <1>4 DEF NothingSkipped
<1>17. GreetInv' /\ FreshInv'
  BY <1>1, <1>2, <1>3 DEF GreetInv, FreshInv
<1>18. SourceInv'
  <2>1. rpc' = rpc /\ noInflightUpdates' = noInflightUpdates /\ useInit' = useInit
        /\ Latest' = Latest
    BY <1>2 DEF Fixed, Latest
  <2> QED BY <2>1, <1>1, <1>2 DEF SourceInv
<1> QED BY <1>7, <1>14, <1>15, <1>16, <1>17, <1>18

-----------------------------------------------------------------------------
(* How a call ends *)

\* A drained channel of a payment that has ended: the last thing sent is its end.
LEMMA DrainedFacts ==
  ASSUME StreamTypeOK, OrderInv, stage = "select", closed, rpc \in PaymentRpcs,
         NEW ch \in Channels, chan[ch] = <<>>
  PROVE  /\ rpc \in {"payment", "legacy"}
         /\ sent # <<>> /\ Last(sent) = Last(emitted) /\ Latest \in Terminal
<1> USE DEF OrderInv
<1>1. rpc \in {"payment", "legacy"} /\ Latest \in Terminal
  BY PaymentLoop DEF SourceInv
<1>2. emitted # <<>> /\ Latest = Last(emitted).what
  BY <1>1 DEF Latest, Terminal
<1> DEFINE n == Len(emitted)
<1>3. /\ n \in Nat \ {0} /\ n \in 1..n /\ Last(emitted) = emitted[n]
  BY <1>2 DEF StreamTypeOK, Last
<1>4. /\ emitted[n].what \in Terminal /\ emitted[n].what \in DOMAIN Loop.chans
      /\ ChannelOf(emitted[n]) = ch
  BY <1>1, <1>2, <1>3, PaymentLoop DEF ChannelOf, NumberedInv
<1>5. Wanted(emitted[n]) /\ Gone(emitted[n])
  <2>1. Len(chan[ChannelOf(emitted[n])]) = 0
    BY <1>4
  <2>2. Gone(emitted[n])
    BY <2>1 DEF Gone
  <2> QED BY <2>2, <1>4, PaymentLoop DEF Wanted, Skipped, InFlight, Terminal
<1>6. Told(emitted[n]) = emitted[n]
  <2>1. emitted[n].what # "INITIATED" /\ rpc \in DOMAIN Rpcs
    BY <1>4 DEF Terminal, StreamTypeOK
  <2> QED BY <2>1, <1>3, <1>4, NumberFacts, ToldFacts
<1>7. PICK i \in 1..Len(sent) : sent[i] = emitted[n]
  BY <1>3, <1>5, <1>6 DEF NothingSkipped
<1>8. Len(sent) \in Nat /\ sent # <<>> /\ Last(sent) = sent[Len(sent)] /\ Len(sent) \in 1..Len(sent)
      /\ DOMAIN sent = 1..Len(sent)
  BY <1>7 DEF StreamTypeOK, Last
<1>9. i = Len(sent)
  <2> SUFFICES ASSUME i # Len(sent) PROVE FALSE
    OBVIOUS
  <2>1. i < Len(sent) /\ Shown(sent[Len(sent)])
    <3>1. ~Loop.greets
      BY PaymentLoop
    <3>2. Shown(sent[Len(sent)])
      BY <1>8, <3>1 DEF SentInv
    <3>3. i < Len(sent)
      <4>1. Len(sent) \in Nat
        BY <1>8
      <4> QED BY <4>1
    <3> QED BY <3>2, <3>3
  <2>2. /\ sent[Len(sent)].at \in 1..n /\ sent[Len(sent)].what \in DOMAIN Loop.chans
    BY <2>1, ShownFacts
  <2>3. SameChannel(sent[i], sent[Len(sent)])
    BY <1>4, <1>7, <2>2, PaymentLoop DEF SameChannel
  <2>4. sent[i].at < sent[Len(sent)].at
    BY <1>7, <1>8, <2>1, <2>3 DEF SentInv, SentInOrder
  <2> QED BY <1>3, <1>7, <2>2, <2>4 DEF NumberedInv
<1> QED BY <1>1, <1>3, <1>7, <1>8, <1>9

LEMMA EndStep ==
  ASSUME StreamTypeOK, OrderInv, EndsWithFinalState, [StreamNext]_streamVars
  PROVE  EndsWithFinalState'
<1> SUFFICES ASSUME result' = "ok", ctx' = "live", ~quit'
             PROVE  \/ /\ rpc' \in {"payment", "legacy", "invoice"}
                       /\ sent' # <<>> /\ Last(sent') = Last(emitted')
                       /\ Latest' \in Terminal \cup FinalInvoice
                    \/ /\ rpc' \in {"confirmations", "spends"}
                       /\ Latest' = "done"
  BY DEF EndsWithFinalState
<1>1. rpc' = rpc /\ rpc \in RpcNames /\ rpc \in DOMAIN Rpcs
  BY FixedStep, RpcCases DEF Fixed, StreamTypeOK
<1>2. stage # "ended" => result = "none"
  BY DEF StreamTypeOK
<1>3. CASE \/ Emit \/ SourceCloses \/ SourceQuits \/ ContextEnds \/ ClientStallsOrReads
           \/ Stop \/ Registered
  BY <1>2, <1>3 DEF Emit, SourceCloses, SourceQuits, ContextEnds, ClientStallsOrReads, Stop,
     Registered, Watched, callVars
<1>4. CASE UNCHANGED streamVars
  <2>1. UNCHANGED <<result, ctx, quit, sent, emitted>>
    BY <1>4 DEF streamVars, sourceVars, envVars, callVars
  <2>2. Latest' = Latest
    BY <2>1 DEF Latest
  <2> QED BY <2>1, <2>2, <1>1 DEF EndsWithFinalState
<1>5. CASE Refused \/ SendFails
  BY <1>5 DEF Refused, SendFails, End
<1>6. CASE \E ch \in Channels : Take(ch)
  <2>1. PICK ch \in Channels : Take(ch)
    BY <1>6
  <2>2. stage = "select" /\ chan[ch] # <<>> /\ emitted' = emitted
    BY <2>1 DEF Take
  <2> DEFINE head == Head(chan[ch])
  <2>3. head.what \in Loop.silent
    BY <2>1, <2>2, <1>2 DEF Take, End, callVars
  <2>4. head.what = "done" /\ rpc \in {"confirmations", "spends"}
    BY <2>3, <1>1, LoopFacts
  <2>5. head.at \in 1..Len(emitted) /\ head = emitted[head.at]
    <3>1. chan[ch] \in Seq(Events)
      BY DEF StreamTypeOK
    <3>2. head = chan[ch][1] /\ 1 \in 1..Len(chan[ch])
      BY <2>2, <3>1
    <3> QED BY <3>2 DEF OrderInv, ChannelInv
  <2>6. head.at = Len(emitted) /\ Len(emitted) \in Nat \ {0}
    BY <2>4, <2>5 DEF OrderInv, SourceInv, StreamTypeOK
  <2>7. Latest = "done"
    BY <2>4, <2>5, <2>6 DEF Latest, Last
  <2>8. Latest' = Latest
    BY <2>2 DEF Latest
  <2> QED BY <1>1, <2>4, <2>7, <2>8
<1>7. CASE SendOk
  <2>1. /\ stage = "sending" /\ item.what \in Loop.last /\ sent' = Append(sent, item)
        /\ emitted' = emitted
    BY <1>2, <1>7 DEF SendOk, sourceVars
  <2>2. rpc = "invoice"
    BY <2>1, <1>1, LoopFacts
  <2>3. Shown(item)
    BY <2>1, <2>2, InvoiceLoop DEF OrderInv, ItemInv
  <2>4. item.what \in FinalInvoice
    BY <2>1, <2>2, InvoiceLoop
  <2> DEFINE k == item.at
  <2>5. k \in 1..Len(emitted) /\ item = Told(emitted[k])
    BY <2>3, ShownFacts DEF OrderInv
  <2>6. emitted[k].what # "INITIATED"
    BY <2>2, <2>5, InvoiceLoop DEF OrderInv, NumberedInv, FinalInvoice
  <2>7. item = emitted[k]
    BY <2>5, <2>6, <1>1, ToldFacts, NumberFacts DEF OrderInv
  <2>8. k = Len(emitted) /\ Len(emitted) \in Nat \ {0} /\ emitted # <<>>
    BY <2>2, <2>4, <2>5, <2>7 DEF OrderInv, SourceInv, StreamTypeOK
  <2>9. Last(emitted) = item /\ Latest = item.what
    BY <2>7, <2>8 DEF Last, Latest
  <2>10. Latest' = Latest /\ Last(emitted') = item
    BY <2>1, <2>9 DEF Latest
  <2>11. sent' # <<>> /\ Last(sent') = item
    <3>1. sent \in Seq(Events) /\ item \in Events
      BY DEF StreamTypeOK
    <3> QED BY <2>1, <3>1 DEF Last
  <2> QED BY <1>1, <2>2, <2>4, <2>9, <2>10, <2>11
<1>8. CASE NoticeClosed
  <2>1. /\ stage = "select" /\ closed /\ Loop.onClosed = "ok"
        /\ UNCHANGED <<emitted, sent>>
        /\ \E ch \in Channels : chan[ch] = <<>>
    BY <1>8 DEF NoticeClosed, Leave, End, sourceVars
  <2>2. rpc \in PaymentRpcs
    BY <2>1, <1>1, InvoiceLoop, HtlcLoop, NotifierLoop DEF RpcNames
  <2>3. /\ rpc \in {"payment", "legacy"}
        /\ sent # <<>> /\ Last(sent) = Last(emitted) /\ Latest \in Terminal
    BY <2>1, <2>2, DrainedFacts
  <2>4. Latest' = Latest
    BY <2>1 DEF Latest
  <2> QED BY <1>1, <2>1, <2>3, <2>4
<1>9. CASE NoticeContext \/ NoticeQuit
  BY <1>9 DEF NoticeContext, NoticeQuit, Leave, End, envVars
<1>10. CASE NoticeSourceQuit
  <2>1. Loop.onSourceQuit = "ok"
    BY <1>10 DEF NoticeSourceQuit, Leave, End
  <2> QED BY <2>1, <1>1, PaymentLoop, InvoiceLoop, HtlcLoop, NotifierLoop DEF RpcNames
<1> QED BY <1>3, <1>4, <1>5, <1>6, <1>7, <1>8, <1>9, <1>10 DEF StreamNext, HandlerStep

-----------------------------------------------------------------------------
(* The theorems *)

LEMMA InitStream == StreamInit => StreamInv
<1> SUFFICES ASSUME StreamInit PROVE StreamInv
  OBVIOUS
<1>1. StreamTypeOK
  BY InitTypes
<1>2. /\ emitted = <<>> /\ sent = <<>> /\ stage = "registering" /\ item = Greeting
      /\ \A ch \in Channels : chan[ch] = <<>>
      /\ ~closed /\ result = "none"
      /\ noInflightUpdates => rpc \in PaymentRpcs
      /\ useInit => rpc \in PaymentRpcs
  BY DEF StreamInit
<1>3. Len(emitted) = 0 /\ Len(sent) = 0 /\ DOMAIN sent = {} /\ DOMAIN emitted = {}
      /\ \A ch \in Channels : Len(chan[ch]) = 0
  BY <1>2
<1>4. NumberedInv /\ ChannelInv /\ ItemInv /\ NothingSkipped /\ GreetInv /\ FreshInv
  BY <1>2, <1>3 DEF NumberedInv, ChannelInv, ItemInv, NothingSkipped, GreetInv, FreshInv
<1>5. SentInv
  BY <1>2, <1>3 DEF SentInv, SentInOrder
<1>6. SourceInv /\ EndsWithFinalState
  BY <1>2, <1>3 DEF SourceInv, EndsWithFinalState
<1> QED BY <1>1, <1>4, <1>5, <1>6 DEF StreamInv, OrderInv

LEMMA StreamStep == StreamInv /\ [StreamNext]_streamVars => StreamInv'
<1> SUFFICES ASSUME StreamInv, [StreamNext]_streamVars PROVE StreamInv'
  OBVIOUS
<1>1. StreamTypeOK /\ OrderInv /\ EndsWithFinalState
  BY DEF StreamInv, OrderInv
<1>2. StreamTypeOK'
  BY <1>1, TypeStep DEF OrderInv
<1>3. EndsWithFinalState'
  BY <1>1, EndStep
<1>4. Fixed
  BY FixedStep
<1>5. OrderInv'
  <2>1. CASE Emit
    BY <2>1, <1>1, <1>4, EmitStep
  <2>2. CASE \E ch \in Channels : Take(ch)
    BY <2>2, <1>1, <1>4, TakeStep
  <2>3. CASE SendOk
    BY <2>3, <1>1, <1>4, SendStep
  <2>4. CASE \/ SourceCloses \/ SourceQuits \/ ContextEnds \/ ClientStallsOrReads \/ Stop
             \/ Refused \/ Registered \/ SendFails
             \/ NoticeClosed \/ NoticeContext \/ NoticeQuit \/ NoticeSourceQuit
             \/ UNCHANGED streamVars
    <3>1. /\ UNCHANGED <<emitted, chan, sent>>
          /\ \/ UNCHANGED <<stage, item>>
             \/ stage' = "ended" /\ item' = item
             \/ Registered
          /\ closed' = closed \/ SourceCloses
      BY <2>4 DEF streamVars, sourceVars, callVars, SourceCloses, SourceQuits, ContextEnds,
         ClientStallsOrReads, Stop, Refused, Registered, SendFails, NoticeClosed,
         NoticeContext, NoticeQuit, NoticeSourceQuit, Leave, End
    <3> QED BY <3>1, <1>1, <1>4, QuietStep
  <2> QED BY <2>1, <2>2, <2>3, <2>4 DEF StreamNext, HandlerStep
<1> QED BY <1>2, <1>3, <1>5 DEF StreamInv, OrderInv

THEOREM StreamInvariant == StreamSpec => []StreamInv
  BY InitStream, StreamStep, PTL DEF StreamSpec

\* Every call of a stream is in a known place with events of its own RPC, and no
\* channel of the chain notifier is over its capacity.
THEOREM StreamTypes == StreamSpec => []StreamTypeOK
<1>1. StreamInv => StreamTypeOK
  BY DEF StreamInv, OrderInv
<1> QED BY <1>1, StreamInvariant, PTL

\* Whatever the source emits and wherever the call ends: its client saw what
\* happened, in order and complete, and a stream that ends well told the end.
THEOREM StreamsTellTruth == StreamSpec => []StreamTruthful
<1>1. StreamInv => StreamTruthful
  BY DEF StreamInv, OrderInv, StreamTruthful, SentInv
<1> QED BY <1>1, StreamInvariant, PTL

\* A call fails for a reason only: its client, its sub-server or its source goes
\* away, or an event that the client asked for cannot be told.
THEOREM FailuresExplained == StreamSpec => FailsForAReason
<1> DEFINE Explained ==
      stage # "registering" /\ result = "none" /\ result' = "error" =>
       \/ ctx # "live" \/ quit \/ sourceQuit \/ closed
       \/ \E ch \in Channels :
            /\ chan[ch] # <<>> /\ chan'[ch] = Tail(chan[ch])
            /\ Head(chan[ch]).what \in Loop.converts
            /\ noInflightUpdates => Head(chan[ch]).what \in Terminal
       \/ rpc = "legacy" /\ useInit /\ ~noInflightUpdates
          /\ item = Head(emitted)
<1>1. ASSUME StreamInv, StreamNext PROVE Explained
  <2> SUFFICES ASSUME stage # "registering", result = "none", result' = "error"
               PROVE  \/ ctx # "live" \/ quit \/ sourceQuit \/ closed
                      \/ \E ch \in Channels :
                           /\ chan[ch] # <<>> /\ chan'[ch] = Tail(chan[ch])
                           /\ Head(chan[ch]).what \in Loop.converts
                           /\ noInflightUpdates => Head(chan[ch]).what \in Terminal
                      \/ rpc = "legacy" /\ useInit /\ ~noInflightUpdates
                         /\ item = Head(emitted)
    OBVIOUS
  <2>1. CASE \/ Emit \/ SourceCloses \/ SourceQuits \/ ContextEnds \/ ClientStallsOrReads
             \/ Stop \/ Registered \/ Refused \/ SendOk
    BY <2>1 DEF Emit, SourceCloses, SourceQuits, ContextEnds, ClientStallsOrReads,
       Stop, Registered, Refused, SendOk, callVars
  <2>2. CASE NoticeClosed \/ NoticeContext \/ NoticeQuit \/ NoticeSourceQuit
    BY <2>2 DEF NoticeClosed, NoticeContext, NoticeQuit, NoticeSourceQuit
  <2>3. CASE \E ch \in Channels : Take(ch)
    <3>1. PICK ch \in Channels : Take(ch)
      BY <2>3
    <3> DEFINE head == Head(chan[ch])
    <3>2. /\ chan[ch] # <<>> /\ chan'[ch] = Tail(chan[ch])
          /\ head.what \in Loop.converts /\ ~Skipped(head.what)
      BY <3>1, <1>1 DEF Take, End, callVars, StreamInv, OrderInv, StreamTypeOK
    <3>3. noInflightUpdates => head.what \in Terminal
      <4> SUFFICES ASSUME noInflightUpdates PROVE head.what \in Terminal
        OBVIOUS
      <4>1. rpc \in PaymentRpcs
        BY <1>1 DEF StreamInv, OrderInv, SourceInv
      <4> QED BY <3>2, <4>1, PaymentLoop DEF Skipped, Attempted, InFlight, Terminal
    <3> QED BY <3>2, <3>3
  <2>4. CASE SendFails
    <3> SUFFICES ASSUME stage = "sending", Untold(item)
                 PROVE  rpc = "legacy" /\ useInit /\ ~noInflightUpdates /\ item = Head(emitted)
      BY <2>4 DEF SendFails
    <3>1. rpc = "legacy" /\ rpc \in PaymentRpcs /\ item.what \notin Attempted
      BY DEF Untold, PaymentRpcs
    <3>2. Shown(item)
      BY <1>1, <3>1, PaymentLoop DEF StreamInv, OrderInv, ItemInv
    <3> DEFINE k == item.at
    <3>3. /\ k \in 1..Len(emitted) /\ item = Told(emitted[k]) /\ Wanted(emitted[k])
          /\ item.what \in DOMAIN Loop.chans
      BY <1>1, <3>2, ShownFacts DEF StreamInv, OrderInv
    <3>4. item.what = "INITIATED"
      BY <3>1, <3>3, PaymentLoop DEF Attempted, InFlight, Terminal
    <3>5. useInit /\ emitted[k].what = "INITIATED"
      BY <1>1, <3>3, <3>4, ToldFacts, NumberFacts DEF StreamInv, OrderInv, StreamTypeOK
    <3>6. item = emitted[k]
      BY <1>1, <3>3, <3>5, NumberFacts DEF Told, convertPaymentStatus, Events, StreamInv, OrderInv
    <3>7. k = 1
      BY <1>1, <3>1, <3>3, <3>5 DEF StreamInv, OrderInv, SourceInv
    <3>8. emitted[1] = Head(emitted)
      BY <1>1, <3>3, <3>7 DEF StreamInv, OrderInv, StreamTypeOK
    <3>9. ~noInflightUpdates
      BY <3>3, <3>5 DEF Wanted, Skipped, InFlight
    <3> QED BY <3>1, <3>5, <3>6, <3>7, <3>8, <3>9
  <2> QED BY <1>1, <2>1, <2>2, <2>3, <2>4 DEF StreamNext, HandlerStep
<1>2. StreamInv /\ [StreamNext]_streamVars => [Explained]_streamVars
  BY <1>1
<1> QED BY <1>2, StreamInvariant, PTL DEF StreamSpec, FailsForAReason

=============================================================================
