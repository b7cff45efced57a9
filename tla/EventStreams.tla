---------------------------- MODULE EventStreams ----------------------------
(***************************************************************************)
(* The server-streaming RPCs that forward events of lnd to a client:       *)
(* payments (in today's and in the deprecated form) and HTLC events        *)
(* (router), confirmations, spends and blocks (chain notifier), and one    *)
(* invoice.                                                                *)
(*                                                                         *)
(* All are one loop: register with the source, defer the deregistration,   *)
(* then select between the source's channels, the context of the stream    *)
(* and the quit channel of the sub-server. They differ in their channels   *)
(* and in what they return on each way out: a record per RPC says how. A   *)
(* select takes any case that is ready.                                    *)
(*                                                                         *)
(* The sources, and gRPC, are outside this repository. The chain notifier  *)
(* buffers one event per channel, which it does not take back; the other   *)
(* sources queue theirs.                                                   *)
(***************************************************************************)
EXTENDS Naturals, Sequences, SequencesExt

CONSTANTS
  MaxEvents,   \* bound: events of the source
  Buffer       \* capacity of each channel of the chain notifier

ASSUME StreamAssumption == MaxEvents \in Nat /\ Buffer \in Nat \ {0}

VARIABLES
  rpc,               \* which of the RPCs this call is
  noInflightUpdates, \* that field of a tracking request
  useInit,           \* UseStatusInitiated of the router's configuration
  emitted,           \* history: what the source has emitted to this call
  chan,              \* events in each channel
  closed,            \* the source has closed its channels
  sourceQuit,        \* the source's own quit channel is closed
  ctx,               \* the stream's context: live, or why it is done
  quit,              \* Server.quit is closed
  stalled,           \* the client has stopped reading: Send blocks
  stage,             \* where the handler is
  item,              \* event it is sending
  sent,              \* history: what the client was sent
  result             \* how the call ended

sourceVars == <<emitted, chan, closed, sourceQuit>>
envVars == <<rpc, noInflightUpdates, useInit, ctx, quit, stalled>>
callVars == <<stage, item, sent, result>>
streamVars == <<sourceVars, envVars, callVars>>

InFlight == {"INITIATED", "IN_FLIGHT"}
Terminal == {"SUCCEEDED", "FAILED"}
FinalInvoice == {"SETTLED", "CANCELED"}

\* Updates of a payment that list its attempts. An attempt that failed in a way
\* the RPC has no code for cannot be converted.
Attempted == {"IN_FLIGHT"} \cup Terminal

\* What the HTLC notifier reports: failures of a link, which need a code of
\* their own, and everything else.
HtlcEvents == {"htlc", "linkFail"}

-----------------------------------------------------------------------------
(* The RPCs. "stay" says that the select has no such case.                  *)
(*   gate     the notifier must be started                                  *)
(*   greets   a first event is sent before the loop                         *)
(*   chans    which channel carries which events                            *)
(*   converts events whose conversion may fail                              *)
(*   last     events after which the call ends                              *)
(*   silent   events that end the call and are not sent                     *)

Updates(events) == [e \in events |-> "updates"]

TrackPaymentV2 ==
  [gate |-> FALSE, greets |-> FALSE, chans |-> Updates(InFlight \cup Terminal),
   converts |-> Attempted, last |-> {}, silent |-> {},
   onClosed |-> "ok", onCanceled |-> "ok", onDeadline |-> "error",
   onQuit |-> "error", onSourceQuit |-> "stay"]

TrackPayments ==
  [TrackPaymentV2 EXCEPT !.onCanceled = "error"]

\* The deprecated TrackPayment and SendPayment: the same, on a stream that
\* translates what is sent.
TrackPayment == TrackPaymentV2

SubscribeHtlcEvents ==
  [gate |-> FALSE, greets |-> TRUE, chans |-> Updates(HtlcEvents),
   converts |-> {"linkFail"}, last |-> {}, silent |-> {},
   onClosed |-> "stay", onCanceled |-> "error", onDeadline |-> "error",
   onQuit |-> "error", onSourceQuit |-> "error"]

RegisterConfirmationsNtfn ==
  [gate |-> TRUE, greets |-> FALSE,
   chans |-> [confirmed |-> "Confirmed", reorg |-> "NegativeConf",
              done |-> "Done"],
   converts |-> {"confirmed"}, last |-> {}, silent |-> {"done"},
   onClosed |-> "error", onCanceled |-> "ok", onDeadline |-> "error",
   onQuit |-> "error", onSourceQuit |-> "stay"]

RegisterSpendNtfn ==
  [gate |-> TRUE, greets |-> FALSE,
   chans |-> [confirmed |-> "Spend", reorg |-> "Reorg", done |-> "Done"],
   converts |-> {"confirmed"}, last |-> {}, silent |-> {"done"},
   onClosed |-> "error", onCanceled |-> "ok", onDeadline |-> "error",
   onQuit |-> "error", onSourceQuit |-> "stay"]

RegisterBlockEpochNtfn ==
  [gate |-> TRUE, greets |-> FALSE, chans |-> Updates({"block"}),
   converts |-> {}, last |-> {}, silent |-> {},
   onClosed |-> "error", onCanceled |-> "ok", onDeadline |-> "error",
   onQuit |-> "error", onSourceQuit |-> "stay"]

SubscribeSingleInvoice ==
  [gate |-> FALSE, greets |-> FALSE,
   chans |-> Updates({"OPEN", "ACCEPTED"} \cup FinalInvoice),
   converts |-> {"OPEN", "ACCEPTED"} \cup FinalInvoice,
   last |-> FinalInvoice, silent |-> {},
   onClosed |-> "stay", onCanceled |-> "error", onDeadline |-> "error",
   onQuit |-> "ok", onSourceQuit |-> "stay"]

Rpcs == [payment |-> TrackPaymentV2, payments |-> TrackPayments,
         legacy |-> TrackPayment,
         htlcs |-> SubscribeHtlcEvents,
         confirmations |-> RegisterConfirmationsNtfn,
         spends |-> RegisterSpendNtfn, blocks |-> RegisterBlockEpochNtfn,
         invoice |-> SubscribeSingleInvoice]

PaymentRpcs == {"payment", "payments", "legacy"}

Loop == Rpcs[rpc]
Channels == Range(Loop.chans)

\* An event, and its number among the events of the source.
Event(what) == [what |-> what, at |-> Len(emitted) + 1]
Greeting == [what |-> "greeting", at |-> 0]

\* Faulty: a stream without in-flight updates reports successes only.
SkippedMutant(what) == noInflightUpdates /\ what # "SUCCEEDED"

\* "Skip in-flight updates unless requested."
Skipped(what) == noInflightUpdates /\ what \in InFlight

\* "If the client understands the new status, return it. Otherwise remain the
\* old behavior."
convertPaymentStatus(what) ==
  IF what = "INITIATED" /\ ~useInit THEN "IN_FLIGHT" ELSE what

\* The event as it is put on the stream.
Told(e) == [e EXCEPT !.what = convertPaymentStatus(@)]

\* "unknown state": the older message has no word for it.
Untold(e) == rpc = "legacy" /\ e.what \notin Attempted

-----------------------------------------------------------------------------
(* The sources, the transport and the client: external.                     *)

Source == {e.what : e \in Range(emitted)}

Latest == IF emitted = <<>> THEN "nothing" ELSE Last(emitted).what

\* What may happen next to what the call watches: a payment is registered
\* first and ends once, as an invoice does; a confirmation can be taken back
\* until it is final.
MayFollow(what) ==
  /\ rpc \in {"payment", "legacy"} =>
       Source \cap Terminal = {} /\ (what = "INITIATED" => emitted = <<>>)
  /\ rpc = "invoice" =>
       Source \cap FinalInvoice = {} /\ (what = "OPEN" => emitted = <<>>)
  /\ rpc \in {"confirmations", "spends"} =>
       /\ Latest # "done"
       /\ what = "confirmed" <=> Latest \in {"nothing", "reorg"}

Watched == stage \in {"select", "sending"} /\ ~closed

\* An update, a block, a confirmation, a reorganisation, ...
Emit ==
  /\ Watched /\ Len(emitted) < MaxEvents
  /\ \E what \in DOMAIN Loop.chans :
       LET ch == Loop.chans[what] IN
       /\ MayFollow(what)
       /\ Loop.gate => Len(chan[ch]) < Buffer
       /\ emitted' = Append(emitted, Event(what))
       /\ chan' = [chan EXCEPT ![ch] = Append(@, Event(what))]
  /\ UNCHANGED <<closed, sourceQuit, envVars, callVars>>

\* The control tower closes the updates of a payment that has ended; a chain
\* notifier that shuts down closes its channels.
SourceCloses ==
  /\ Watched
  /\ Loop.gate \/ (rpc \in {"payment", "legacy"} /\ Latest \in Terminal)
  /\ closed' = TRUE
  /\ UNCHANGED <<emitted, chan, sourceQuit, envVars, callVars>>

\* The HTLC notifier stops; the other sources have no such channel.
SourceQuits ==
  /\ rpc = "htlcs" /\ ~sourceQuit /\ Watched
  /\ sourceQuit' = TRUE
  /\ UNCHANGED <<emitted, chan, closed, envVars, callVars>>

\* The client cancels or goes away, or its deadline passes.
ContextEnds ==
  /\ ctx = "live" /\ stage # "ended"
  /\ ctx' \in {"canceled", "deadline"}
  /\ UNCHANGED <<rpc, noInflightUpdates, useInit, quit, stalled, sourceVars, callVars>>

\* Flow control: Send blocks while the client does not read.
ClientStallsOrReads ==
  /\ stage # "ended"
  /\ stalled' = ~stalled
  /\ UNCHANGED <<rpc, noInflightUpdates, useInit, ctx, quit, sourceVars, callVars>>

\* Server.Stop of the sub-server.
Stop ==
  /\ ~quit /\ stage # "ended"
  /\ quit' = TRUE
  /\ UNCHANGED <<rpc, noInflightUpdates, useInit, ctx, stalled, sourceVars, callVars>>

-----------------------------------------------------------------------------
(* The handler.                                                             *)

End(how) ==
  /\ how \in {"ok", "error"}
  /\ stage' = "ended" /\ result' = how
  /\ UNCHANGED <<item, sent, envVars>>

\* A way out of the select that this RPC may not have.
Leave(how) == how # "stay" /\ End(how) /\ UNCHANGED sourceVars

\* The notifier has not started, the hash is malformed, nothing is known of it.
Refused == stage = "registering" /\ End("error") /\ UNCHANGED sourceVars

Registered ==
  /\ stage = "registering"
  /\ IF Loop.greets THEN stage' = "sending" /\ item' = Greeting
                    ELSE stage' = "select" /\ UNCHANGED item
  /\ UNCHANGED <<sent, result, sourceVars, envVars>>

\* Faulty: an HTLC event that cannot be converted is passed over.
TakeContinuesMutant(ch) ==
  /\ stage = "select" /\ chan[ch] # <<>>
  /\ chan' = [chan EXCEPT ![ch] = Tail(@)]
  /\ \/ rpc = "htlcs" /\ UNCHANGED <<stage, item>>
     \/ stage' = "sending" /\ item' = Told(Head(chan[ch]))
  /\ UNCHANGED <<sent, result, emitted, closed, sourceQuit, envVars>>

\* Faulty: the event is converted before anybody asks whether it is wanted.
TakeConvertsFirstMutant(ch) ==
  /\ stage = "select" /\ chan[ch] # <<>>
  /\ chan' = [chan EXCEPT ![ch] = Tail(@)]
  /\ LET next == Head(chan[ch]) IN
     \/ next.what \in Loop.converts /\ End("error")
     \/ ~Skipped(next.what) /\ stage' = "sending" /\ item' = Told(next)
        /\ UNCHANGED <<sent, result, envVars>>
     \/ Skipped(next.what) /\ UNCHANGED <<envVars, callVars>>
  /\ UNCHANGED <<emitted, closed, sourceQuit>>

\* A select that takes an event: skipped, the end, not convertible, or sent.
Take(ch) ==
  /\ stage = "select" /\ chan[ch] # <<>>
  /\ chan' = [chan EXCEPT ![ch] = Tail(@)]
  /\ LET next == Head(chan[ch]) IN
     \/ /\ Skipped(next.what)
        /\ UNCHANGED <<envVars, callVars>>
     \/ /\ next.what \in Loop.silent
        /\ End("ok")
     \/ /\ next.what \in Loop.converts /\ ~Skipped(next.what)
        /\ End("error")
     \/ /\ ~Skipped(next.what) /\ next.what \notin Loop.silent
        /\ stage' = "sending" /\ item' = Told(next)
        /\ UNCHANGED <<sent, result, envVars>>
  /\ UNCHANGED <<emitted, closed, sourceQuit>>

\* Faulty: after the last event the handler goes back to its select.
SendOkMutant ==
  /\ stage = "sending" /\ ~stalled
  /\ sent' = Append(sent, item) /\ stage' = "select"
  /\ result' = IF item.what \in Loop.last THEN "ok" ELSE result
  /\ UNCHANGED <<item, sourceVars, envVars>>

SendOk ==
  /\ stage = "sending" /\ ~stalled /\ ~Untold(item)
  /\ sent' = Append(sent, item)
  /\ IF item.what \in Loop.last THEN stage' = "ended" /\ result' = "ok"
                                ELSE stage' = "select" /\ UNCHANGED result
  /\ UNCHANGED <<item, sourceVars, envVars>>

\* The transport gives up, or legacyTrackPaymentServer.Send does.
SendFails ==
  /\ stage = "sending" /\ (ctx # "live" \/ Untold(item))
  /\ End("error") /\ UNCHANGED sourceVars

\* A closed channel is ready for ever once it is drained.
NoticeClosed ==
  /\ stage = "select" /\ closed
  /\ \E ch \in Channels : chan[ch] = <<>>
  /\ Leave(Loop.onClosed)

\* Faulty: only a cancellation is noticed.
NoticeContextMutant ==
  stage = "select" /\ ctx = "canceled" /\ Leave(Loop.onCanceled)

NoticeContext ==
  /\ stage = "select"
  /\ \/ ctx = "canceled" /\ Leave(Loop.onCanceled)
     \/ ctx = "deadline" /\ Leave(Loop.onDeadline)

NoticeQuit == stage = "select" /\ quit /\ Leave(Loop.onQuit)

NoticeSourceQuit == stage = "select" /\ sourceQuit /\ Leave(Loop.onSourceQuit)

-----------------------------------------------------------------------------
StreamInit ==
  /\ rpc \in DOMAIN Rpcs
  /\ noInflightUpdates \in BOOLEAN
  /\ noInflightUpdates => rpc \in PaymentRpcs
  /\ useInit \in BOOLEAN /\ (useInit => rpc \in PaymentRpcs)
  /\ emitted = <<>> /\ chan = [ch \in Channels |-> <<>>]
  /\ closed = FALSE /\ sourceQuit = FALSE
  /\ ctx = "live" /\ quit = FALSE /\ stalled = FALSE
  /\ stage = "registering" /\ item = Greeting /\ sent = <<>>
  /\ result = "none"

HandlerStep ==
  \/ Refused \/ Registered
  \/ \E ch \in Channels : Take(ch)
  \/ SendOk \/ SendFails
  \/ NoticeClosed \/ NoticeContext \/ NoticeQuit \/ NoticeSourceQuit

StreamNext ==
  \/ Emit \/ SourceCloses \/ SourceQuits
  \/ ContextEnds \/ ClientStallsOrReads \/ Stop
  \/ HandlerStep

\* A goroutine that can go on does. No source, client or transport need do
\* anything.
StreamSpec == StreamInit /\ [][StreamNext]_streamVars /\ WF_streamVars(HandlerStep)

-----------------------------------------------------------------------------
(* Properties.                                                              *)

Events == [what : {"greeting"} \cup DOMAIN Loop.chans, at : 0..MaxEvents]

\* Every call is in a known place with events of its own RPC, and has a result
\* exactly when it has ended.
StreamTypeOK ==
  /\ rpc \in DOMAIN Rpcs
  /\ emitted \in Seq(Events) /\ Len(emitted) <= MaxEvents
  /\ chan \in [Channels -> Seq(Events)]
  /\ Loop.gate => \A ch \in Channels : Len(chan[ch]) <= Buffer
  /\ {noInflightUpdates, useInit, closed, sourceQuit, quit, stalled} \subseteq BOOLEAN
  /\ ctx \in {"live", "canceled", "deadline"}
  /\ stage \in {"registering", "select", "sending", "ended"}
  /\ item \in Events /\ sent \in Seq(Events)
  /\ result \in {"none", "ok", "error"}
  /\ stage = "ended" <=> result # "none"

\* What the client of this call should see.
Wanted(e) == e.what \in DOMAIN Loop.chans \ Loop.silent /\ ~Skipped(e.what)

SameChannel(e, f) ==
  /\ {e.what, f.what} \subseteq DOMAIN Loop.chans
  /\ Loop.chans[e.what] = Loop.chans[f.what]

\* The client sees the events of each channel in the order in which they
\* happened, with none missing but in-flight updates it did not ask for, each in
\* the words the configuration asks for, and an HTLC stream greets before
\* anything else. (Between two channels, a confirmation and a reorganisation
\* say, no order is kept.)
SentInOrder ==
  /\ \A i \in DOMAIN sent :
       \/ i = 1 /\ Loop.greets /\ sent[i] = Greeting
       \/ \E k \in DOMAIN emitted : Wanted(emitted[k]) /\ sent[i] = Told(emitted[k])
  /\ \A i, j \in DOMAIN sent :
       i < j /\ SameChannel(sent[i], sent[j]) => sent[i].at < sent[j].at
  /\ \A i \in DOMAIN sent, k \in DOMAIN emitted :
       SameChannel(sent[i], emitted[k]) /\ k < sent[i].at /\ Wanted(emitted[k])
         => \E j \in DOMAIN sent : j < i /\ sent[j] = Told(emitted[k])
  /\ Loop.greets /\ sent # <<>> => sent[1] = Greeting

\* A stream that ends without an error, although the client is there and the
\* server is not stopping, tells the end: the last thing the client saw is the
\* last state of the payment or invoice, which is final; a watched transaction
\* is past reorganisation. Other streams never end so.
EndsWithFinalState ==
  result = "ok" /\ ctx = "live" /\ ~quit =>
    \/ /\ rpc \in {"payment", "legacy", "invoice"}
       /\ sent # <<>> /\ Last(sent) = Last(emitted)
       /\ Latest \in Terminal \cup FinalInvoice
    \/ /\ rpc \in {"confirmations", "spends"}
       /\ Latest = "done"

\* What a client saw is what happened, from the first event to the last.
StreamTruthful == SentInOrder /\ EndsWithFinalState

\* A call that was accepted fails only because the client, the sub-server or
\* the source goes away, or because of an event that cannot be told, and that
\* the client asked for: what it did not ask for is dropped before anybody looks
\* at it.
FailsForAReason ==
  [][stage # "registering" /\ result = "none" /\ result' = "error" =>
       \/ ctx # "live" \/ quit \/ sourceQuit \/ closed
       \/ \E ch \in Channels :
            /\ chan[ch] # <<>> /\ chan'[ch] = Tail(chan[ch])
            /\ Head(chan[ch]).what \in Loop.converts
            /\ noInflightUpdates => Head(chan[ch]).what \in Terminal
       \/ rpc = "legacy" /\ useInit /\ ~noInflightUpdates
          /\ item = Head(emitted)]_streamVars

\* TrackPayment: "The stream is closed when the payment completes". While its
\* client is there, a deprecated stream does not stop in the middle of an
\* update of a payment that goes on.
LegacyStreamFollowsPayment ==
  [][rpc = "legacy" /\ stage = "sending" /\ stage' = "ended" /\ ctx = "live"
       => item.what \in Terminal]_streamVars

\* A call whose client is gone ends, and so does a call of a sub-server that
\* stops, unless it is in a Send that its client does not take.
StreamEnds ==
  /\ ctx # "live" ~> stage = "ended"
  /\ quit ~> (stage = "ended" \/ (stage = "sending" /\ stalled))

=============================================================================
