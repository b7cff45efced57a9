# Verification of lightning_bot

TLA+ specifications, TLC model checks and TLAPS proofs for this repository: a
Telegram bot that watches a Lightning node (`src/bot_telegram/lightning_bot.py`)
and the `lnrpc` tree it talks to (`src/bot_telegram/lnrpc`), the gRPC
sub-servers of lnd.

Sources below are relative to `src/bot_telegram/lnrpc` unless they start with
`src/`.

## 1. Inventory

### The parts and how they interact

The bot is one asyncio loop. It takes an update from Telegram, and for a pressed
button makes blocking gRPC calls to lnd, or HTTPS calls to two web services, and
replies. On lnd's side a gRPC server hands every call to a *sub-server*
(`sub_server.go`); each call runs in its own goroutine, and the goroutines meet
in what a sub-server shares: an atomic flag, a `quit` channel, the wallet's
coin selection lock, the payment control tower, the HTLC switch. REST and
WebSocket clients come in through `websocket_proxy.go`, which turns a socket
into one HTTP request with a streaming response.

| Part | State | Operations | Hard behaviour | What makes it correct |
|---|---|---|---|---|
| Telegram bot, `src/bot_telegram/lightning_bot.py` | the library's update queue, the handler under way, what it has read | `start`, five buttons | calls that fail or hang, replies that raise after delivery, queries that expire in the queue, lnd changing between two calls | a click is answered once, errors are told, what is shown is true |
| HTLC interception, `routerrpc/forward_interceptor.go` | `forwardInterceptorActive`, registered callback, held forwards | `HtlcInterceptor`: register, intercept, resolve, deferred unregister and release | reconnecting clients against ending sessions, late and repeated answers, broken streams | one interceptor, no forward stranded, each decided once |
| Payment probing, `routerrpc/router_server.go` | payment, its subscription, `errChan`, `quit`, context | `EstimateRouteFee`, `sendProbePayment`, `SendPaymentV2` | two goroutines, close of a channel that is still sent on, cancellation, shutdown | right answer, no leak, no panic |
| Payment tracking, same file, `router_server_deprecated.go` | subscription, `quit`, context | `TrackPaymentV2`, `TrackPayments`, `SubscribeHtlcEvents`, the deprecated `TrackPayment` | every way a stream can end, filtered updates, updates that cannot be converted | the last update is the payment's end, and no stream ends for an update nobody asked for |
| Fee estimation, same file | none | `EstimateRouteFee`, `isLSP`, `prepareLspRouteHints`, `maxLspFee` | several hints of one service provider, absent amounts, empty hints | the estimate covers any of the hints |
| Mission control, same file | lnd's | `QueryMissionControl`, `XImportMissionControl`, get and set of the configuration | msat and sat told twice, zeros that mean absence, deprecated fields | what is exported can be imported, what is read can be set |
| Request parsing, `routerrpc/router_backend.go` | none | `extractIntentFromSendRequest`, `parseQueryRoutesRequest`, conversions | exclusive fields, msat/sat, limits at zero, integers that wrap | accepted requests mean what they say |
| Coin leases and funding, `walletrpc/walletkit_server.go`, `walletrpc/psbt.go` | leases, coin selection lock, calls under way | `LeaseOutput`, `ReleaseOutput`, `FundPsbt` in two modes | check under one critical section and use in another, partial failure of several leases, expiry, a lock ID shared by all | a coin is promised to one client; no coin is locked for nobody |
| Sweeps and sends, `walletrpc/walletkit_server.go` | the sweeper's inputs, the wallet | `BumpFee`, `SendOutputs`, `RemoveTransaction`, `PendingSweeps`, `ListSweeps` | a read and a later write without a lock, blocks in between | what was not asked for is not changed, the reserve is kept, only unconfirmed outputs are touched |
| WebSocket proxy, `websocket_proxy.go` | context, two pipes, payload channel, socket | `upgradeToWebSocketProxy` | six concurrent activities ending each other, deadlines of the socket, responses that are too long | no response lost without a cause, nothing left running |
| Chain notifications, `chainrpc/chain_server.go` | registration, notification channels | three `Register...Ntfn` streams | confirmation and reorg on separate channels, shutdown | events follow the chain |
| Invoices, `invoicesrpc/` | subscriptions, lnd's invoice registry, the node's channels | `AddInvoice` with hop hint selection, `AddHoldInvoice`, `SubscribeSingleInvoice`, `SettleInvoice`, `CancelInvoice` | channels that change during the selection, final states, retries after a lost answer | hints are usable and no more than needed, one outcome is told |
| Sub-server lifecycle, `sub_server.go`, each `driver.go`, `New`, `Start`, `Stop` | registry, shells, macaroon files, `quit` | register, create, bake a macaroon, start, stop | a crash while a file is written, failed clean-ups, incomplete configurations | files are whole and never replaced |
| Node announcement, `peersrpc/peers_server.go` | lnd's node announcement, the calls under way | `UpdateNodeAnnouncement` | overlapping read-modify-write calls | what is announced is consistent, and changed only where asked |
| Watchtower client, `wtclientrpc/wtclient.go` | the client manager's towers, sessions, backups | add, remove, deactivate, terminate, list | several clients know the same tower; maps in any order; filtered sessions | each session is told once, no pending backup is hidden |
| Signer, watchtower server, autopilot, neutrino, dev, version RPCs | little of their own | calls into lnd | activity gates set at start-up | gates hold |

lnd itself (switch, router, control tower, wallet, sweeper, chain notifier),
grpc, gorilla/websocket, python-telegram-bot and Telegram are outside this
repository. They are modelled only as the code here uses them, and marked
external in `PROJECT.json`.

`PROJECT.json` lists every part with its status, and under `hazards` what is
hard to test in this code, at its line.

## 2. Plan

The modules, the most important first:

1. `HtlcInterceptor`, `ProbePayment`, `CoinReservation` with `WalletLeases`,
   `TelegramBot`, `WebsocketProxy`, `EventStreams`: the parts with goroutines,
   locks and streams of their own.
2. `WalletSweeps`: calls that decide on one read and act on a later one.
3. `SubServers` and `NodeAnnouncement`, composed in `NodeServers`: the life of
   the sub-servers over crashes, with the calls of one of them.
4. `Amounts`, `InvoiceCreation`, `PaymentIntent`, `FeeEstimation`,
   `MissionControl`, composed in `PayInvoice`: an invoice from its request to
   its payment. The algorithms are operators that are checked against reference
   definitions over bounded inputs, in the run of the composition.
5. `Watchtowers`: what is told of towers that several clients share, as operators
   over what lnd may know, checked in the run of `NodeServers`.

A composition has one run, whose properties are conjunctions of its parts'
properties where they answer one question: `CallIntact`, `RepliesRight`,
`NothingHalfDone`, `RequestsKept`, `StaleReadsExplained`; so have the streams
(`StreamTruthful`) and the two goroutines of a probe (`NobodyLeftWaiting`).

The abstract specification is `CoinReservation`. A subscription that hands on
each event once and in order is stated as the invariant `SentInOrder` of
`EventStreams` rather than as a module of its own: the refinement would say no
more.

Every invariant and every action property that a run checks, and the refinement,
is also a theorem for every value of the constants (section 6). What is left is
what the prover cannot reach (liveness), and MuSig2 sessions if the repository
comes to hold their state (it is lnd's today).

## 3. What each module models

Modules have faulty variants beside their definitions: one definition of the
code with one plausible slip. Each property is shown to fail for at least one of
them (`mutants` in `PROJECT.json`), so none of them holds for the shape of the
model alone.

### HtlcInterceptor

`Sessions` are calls of the RPC. `phase` follows a handler: `Acquire` is the
compare-and-swap, `Register` is `SetInterceptor(onIntercept)`, then `RecvFails`,
`Refuse` (every early error return of `resolveFromClient`, and the switch's
refusal of a forward it does not hold) or `Resolve`, and at the end the two
deferred calls in their order, `Unregister` then `Release`. A response is a
record with the distinctions the code makes (message and its length, failure
code, preimage), not its bytes. The switch (`OnIntercept`,
`ForwardUnintercepted`, `AutoFail`) is external; `requireInterceptor`, either
way from the start, is its configuration. What it shows to a client that comes
back is its own affair and not modelled.

* `OneInterceptor`, `RegistrationNotStolen`: one session at a time, whose
  callback an ending session never takes away.
* `NoForwardStranded`: no forward is held without somebody who will release it.
* `DecidedOnce`: late and repeated answers change nothing.
* `SlotFreed`: a dead stream frees the slot. Fairness: a handler goroutine goes
  on when it can; nothing is asked of clients.

Bounds: three sessions (holder, contender, successor), two forwards (one
answered while the other is held).

### ProbePayment

`worker` is the goroutine of `sendProbePayment` with `SendPaymentV2`,
`trackPayment` and `trackPaymentStream` inside it, `handler` the select loop. A
rendezvous on the unbuffered `stream` channel is one step of both (`Deliver`).
`errChan` keeps its capacity of one and its `close`: a send on the closed
channel is the state `panicked`; a select with that case and `ctx.Done()` may
take either. `MaxAttempts = 3` bounds the in-flight updates of the external
router. A payment that was refused for its details has one of three statuses
(`Refused`), because `timelockAndFee` looks at its last attempt: refused by the
final hop of the route, by another hop, or without an attempt or a route to look
at.

* `AnswerMatchesPayment` (the fee of a route only if its final hop refused the
  payment, an error if another hop did), `PanicNeedsShutdownOrDeadline` and
  `NobodyLeftWaiting` (`WorkerDoesNotLeak`, `PatientClientAnswered`) hold.
* `GracefulClosure` (comment of `Stop`) and `EstimationEnds` (doc of
  `probePaymentRequest`) do not hold: see Findings.

Fairness: both goroutines run; gRPC cancels the context of a finished call; a
payment given to the router ends, because it has `TimeoutSeconds`.

### CoinReservation and WalletLeases

`CoinReservation` is the promise: a coin is reserved for one client at a time.
`WalletLeases` has the code: `pc` follows a `FundPsbt` call through its critical
sections, `lease` is the wallet's lease table (lock IDs), `promise` the history
of what a caller was given. `LockNext` and `LockFails` are the loop of
`lockInputs` with its rollback. Between any two steps leases expire, coins are
spent or confirm. Amounts, fees and change only decide which way a call goes,
and both ways are taken.

* `Exclusive`, `PromisesKept`, `NoOrphanedLease` hold, as does
  `InternalModeInputs` (the internal mode leases all inputs, and none that the
  sweeper may replace), and the leases implement `CoinReservation`
  (`ImplementsReservation`: the owner of a coin is the client whose ID it is
  leased under, or who has it promised).
* `PromisesKept` needs that no client releases a lease after it has run out
  (`LateRelease = FALSE`): all fundings share one lock ID, and with `LateRelease
  = TRUE` one client can free the coin of another.
* Violated: `TemplateNotReselected`.

Bounds: two clients and two coins, one of which the sweeper may still replace,
are enough for every conflict between two calls and for a partial failure. The
clients are interchangeable, so `ClientSymmetry` is sound. No fairness.

### TelegramBot

`queue` is the library's update queue, `current` the update being handled, `todo`
the calls its handler has still to make, `got` what they returned. `Dispatch` is
`button` (or `start`) up to the handler; each call returns or fails on its own,
the reply is delivered, refused, or delivered and then reported as failed.
`CatchesReply` says which handler's `except` covers its own reply. A reply keeps
the facts it shows. `WalletMoves`, `ChannelsMove`, `InvoiceCreated`, `Forwarded`
let lnd change between two calls. Money is in the wallet, in open channels or
`Elsewhere`: a pending channel and a payment in flight are in neither balance,
and a channel that opens or closes passes through there.

* `RepliesRight`: node info shows what wallet and open channels held together at
  one moment, unless the channels' balance changed between the two calls
  (`NodeInfoAddsUp`; that a pending channel is in neither figure is not excluded),
  and only `bitcoin_info` can send a second message
  (`SecondMessageOnlyAfterBitcoinInfo`).
* `UserToldAll`: a failed call is told (`CallFailureReported`), and the newest
  invoices are shown as long as all fit one page (`NewestInvoicesWithinPage`).
* `EveryUpdateEnds` holds if every call ends, which is the environment's doing:
  the code sets no timeout.
* `ForwardsListed` and `NewestInvoicesListed` do not hold: see Findings.

Bounds: two updates (one waits behind the other), a page of two invoices of
which one is shown stands for 100 and 10, two units of money (one can move while
the other is read), one channel more than fits a message.

`CHAT_ID` is read and never used, and the README's monitoring functions (new
transactions, settled invoices, channel status) have no code.

### WebsocketProxy

One variable per goroutine of `upgradeToWebSocketProxy`: `reader`, `forwarder`,
`backend`, `handler` (the write loop and the deferred calls), `closer`. Messages
are counted. An `io.Pipe` write is `pending` until its reader takes it; what the
scanner has taken (`scanned`) it still returns after the pipe is closed. Each
goroutine's deferred `cancelFn` is part of its last step; the read loop closes
the channel first. The ping loop acts only through the socket's deadlines: a read
has one from the start, a write only once the pong handler has run
(`PongArrives`, `PongMissing`, `writeTimed`). A client may stop to read at any
point (`ClientStalls`), and a response may be longer than `MaxWsMsgSize`
(`ScanTooLong`): the scanner gives up and the handler returns, with the backend
still in its write.

* `CallIntact` (`AllResponsesDelivered`, `NoMessageLost`, `CancelExplained`) and
  `EverythingEnds` hold, for methods that stream from the client and for those
  that do not (`clientStreaming`). `EverythingEnds` says of a client that left
  with three or more unread messages nothing: with one message in the pipe and
  one in the channel, a third keeps the read loop from noticing. It excepts one
  write (`Stuck`): to a client that does not read, started before the first pong,
  it has no deadline, and the handler and the socket stay until the client goes.
* A response is lost, or a call canceled, only for a cause these properties name:
  a side that quit, a client that does not read or stopped to answer pings, a
  second message, a response over the limit. A client that never answered a ping
  still gets all responses of a call that ended.
* For methods that do not stream from the client a second client message cancels
  the call: `StreamsUntilOneQuits` does not hold (see Findings).

Bounds: three messages (one in the pipe, one in the channel, one waiting), two
responses (one scanned, one pending), each of either size. Fairness: goroutines go on, and a backend
returns when its context is canceled; it need not read what it is sent, and a
method without a body never does (`ReadsBody`). A write that has a deadline ends;
one that has none ends when the client reads or goes.

### WalletSweeps

`BumpFee`, `SendOutputs` and `RemoveTransaction`. `call[c]` is what a handler has
read and where it is: each read of the wallet, the sweeper or the chain and each
write is a step, because nothing holds a lock over them. Between any two of them
other clients call, blocks confirm and sweep outputs (`Block`) and channels open
(`ChannelOpens`). `raced` is a history variable: somebody wrote what this call
has read and still relies on. Heights and amounts are integers of small widths
(`Half`, `HalfAmt`), so that a target wraps as `int32(in.TargetConf) +
currentHeight` does, and a budget as `btcutil.Amount(in.Budget)` does.

* `TypeOK` includes that no input of the sweeper ever has a zero budget, and that
  one with a negative budget was asked for one that does not fit the amount
  (`BudgetNeverZero`). That it can be negative is `BudgetPositive`, which does not
  hold (see Findings).
* `UnaskedBudgetNeedsRace`: a bump that names no budget changes it only if it
  was overtaken. That it may then change it contradicts `walletkit.proto`
  (`BudgetRetained` does not hold; see Findings).
* `StaleReadsExplained`: a deadline in the past, an offer or a removal of an
  output that is no longer unconfirmed, and a wallet below the anchor reserve
  each need an overtaken call, blocks as many as the target, or a target that
  does not fit; except that the reserve check does not count the fee.

Bounds: two clients, three calls, two wallet outputs and one channel output,
three heights: a bump, a second one and a send or a block between them. Clients
are interchangeable. No fairness.

### SubServers, NodeAnnouncement and NodeServers

`SubServers` has one record per `driver.go`: the configuration fields it insists
on, whether its `New` bakes a macaroon and whether that needs a directory.
`registered` is the build (any one or two of the twelve). `CreateSubServer` is
`createNewSubServer` with `New` up to `os.WriteFile`; the write is a step of its
own, so that `Crash` can come while the file is `"partial"`. `NeedsMacaroon` is
`FileExists`, which also says yes when the file cannot be looked up. `spoiled` is
a history variable: servers whose file a crash or a failed removal left
half-written, or that were created without their file.

`NodeAnnouncement` has `UpdateNodeAnnouncement` in two steps, the read with
everything computed from it and the write. A feature bit is an int32 in a request
and a uint16 in the vector (`FeatureBit`; `NumBits` stands for 2^16). `ApplyFeature`, `UpdateFeatures`,
`UpdateAddresses` are the pure parts, whose loops are recursive functions
(`AppliedFeatures`, `KeptAddresses`, `WithAdded`); an option is a set with at
most one member.

`NodeServers` composes them: calls begin while lnd serves, end while it serves or
stops, and are dropped when it exits or crashes; what was announced survives.

* `NothingHalfDone`: macaroon files are whole unless spoiled
  (`MacaroonsWholeUnlessSpoiled`), announced features include what they depend
  on and addresses are announced once (`AnnouncementValid`).
* `MacaroonsNotReplaced`: no start replaces a file it finds.
* `UnaskedChangeNeedsOverlap`: only features can be changed unasked, and only by
  an overlapping call; the code hands over a whole vector always.
  `FeaturesOnlyIfAsked` does not hold: see Findings.

Bounds: two servers, so that one may fail when another is created; two starts
around a crash; two callers, three updates, two features of which one depends on
the other. No fairness: start-up may hang in lnd.

### Amounts, InvoiceCreation, PaymentIntent, FeeEstimation, MissionControl and PayInvoice

`Amounts` has the integer widths as constants. `InvoiceCreation` is `AddInvoice`:
`Terms` is what the request is checked to be, `PopulateHopHints` lists the
private channels once, and `SelectHopHint` looks at one at a time while
`ChannelChanges` may come between; `ReturnHints` and `ShuffleHints` are the two
ends of the loop, `InsertInvoice` the registry's answer. The state of a channel
is only tracked while a call looks at it.

`PaymentIntent` has `extractIntentFromSendRequest` and `parseQueryRoutesRequest`
as operators from a request to {the payment} or {}. `FeeEstimation` has
`EstimateRouteFee` with the service provider heuristics, up to the request it
hands to `SendPaymentV2`, which is `PaymentIntent` again (the probe's run is
`ProbePayment`). `MissionControl` has the export, import and configuration.

`PayInvoice` composes them: a payer sends a payment for an invoice that is
there, the registry (external) settles, holds, expires or cancels, clients call
`SettleInvoice` and `CancelInvoice` and may lose the answer (`told`).

* `HintsRight`: each chosen hint was usable when it was looked at and is not
  named twice; if nothing changed, the choice is the best one, suffices, and
  would not without its least member (a declarative reference for the loop).
* `RequestsKept`: an invoice is for the amount asked for; a payment has the
  invoice's amount, time lock, hash and hints, before it expires; route queries
  keep within their limits; a probe brings a service provider the fee of its
  dearest hint for this amount, or the payee the invoice's own terms; exported results are imported to the
  millisatoshi; settings that are read can be set again.
* `OneOutcomeTold`: settle and cancel never both succeed for one invoice.
* Violated: `HintsShuffled`.

Bounds: amounts of 5 bits with 3 millisatoshis to the satoshi, so that 11
satoshis wrap to one millisatoshi; time locks of 3 bits, so that 8 wraps to 0 and
9 to 1, out of requests' fields of 5 bits, which may be negative (the `int32` that
a probe makes of an invoice's uint64 is `Int32`: 21 becomes -11, and 32 the
default); three private channels, one with an alias, of which one may change during
the selection; one `AddInvoice` over a registry that may already hold an
invoice, which is what its steps can meet. Requests are chosen so that each
error path and each success is taken. No fairness.

### EventStreams

`TrackPaymentV2`, `TrackPayments`, `SubscribeHtlcEvents`, the three chain
notifications and `SubscribeSingleInvoice` are the same loop with other
channels. The deprecated `TrackPayment` is the first on a stream whose `Send`
translates (`Untold`); `SendPayment` ends in it too. `Told` is the update as it
is put on the stream: its status depends on `UseStatusInitiated` (`useInit`). A
record per RPC keeps the differences: its channels, which conversions may fail,
after which event it ends, and what it returns for a closed channel, a
cancellation, a deadline, a shutdown and the source's own shutdown. `StreamInit` picks
one of them. `chan` holds what the source has emitted and the handler has not
taken; `produced` and `sent` are histories. `Take` is one select that takes an
event, `SendOk` and `SendFails` the send that follows, the `Notice...` actions
the other cases; a select takes any case that is ready. Sources, transport and
client are external: the chain notifier buffers one event per channel, the
others queue.

* `StreamTruthful`: per channel nothing is lost, repeated or reordered
  (`SentInOrder`), and a stream that ends well has told the final state
  (`EndsWithFinalState`).
* `FailsForAReason`: a call that was accepted fails only because somebody went
  away or an event cannot be told, and that event was asked for.
* `StreamEnds`: nobody's handler outlives its client or its server.
* Violated: `LegacyStreamFollowsPayment`.

No order is kept between the channels of one notification, and `Done` may
overtake a confirmation that a stalled client has not taken; the properties do
not promise otherwise.

Bounds: four events (confirmed, reorganised, confirmed again, done), one event
per notifier channel. Fairness: the handler goes on. Because events are
bounded, weak fairness is enough; with events without end it would take Go's
random choice among ready cases for an exit to be chosen.

### Watchtowers

lnd's client manager (external) runs one client per policy; all know the same
towers, and each has sessions of its own with them. The writing calls are one
call each into the manager and are left out. `ListTowers` and `GetTowerInfo`
(`Told`) ask all clients, filter (`Fetched`; `Exhausted` is the manager's
filter, which the handler asks for), convert what each knows of a tower
(`MarshallTower`, sessions `InOrder` of their ids) and merge it, one policy after
another (`Merged`), in the order in which a Go map is iterated, which is any.
There is no state: the module is a set of operators.

* `TowersTold` (`NodeServers`): for every database of sessions, request and
  order, each session of a tower is told once, with its policy and in the list
  that joins the policies, its backups are its tower's, and no pending backup is
  left out with the exhausted sessions.
* Violated: `NumSessionsTold`.

Bounds: two towers, two policies, two sessions of two backups: a tower can have
sessions of both policies, or two of one, next to a tower that has none.

## 4. Runs

| Run | Question | Result |
|---|---|---|
| `HtlcInterceptor` | one session, no stranded forward, one decision each, slot freed; interceptor optional or required | pass |
| `ProbePayment` | right answers, when the worker can panic, no leaked goroutine, patient clients answered | pass |
| `ProbePayment_graceful` | shutdown never crashes | violated |
| `WalletLeases` | leases, promises, rollback; refinement of `CoinReservation` | pass |
| `WalletLeases_template` | template inputs are not selected again | violated |
| `WalletSweeps` | what is not asked for is not changed, and stale reads do no more than is unavoidable | pass |
| `TelegramBot` | replies true, single, errors told; every update ends if every call does | pass |
| `WebsocketProxy` | nothing lost but for a cause, everything ends, for both kinds of methods | pass |
| `EventStreams` | order, final states, reasons for failures, and the end of every stream | pass |
| `NodeServers` | macaroon files over crashes and restarts, overlapping announcement updates, what is told of towers | pass |
| `PayInvoice` | from an invoice's request to its payment: hints, amounts, limits, estimates, outcomes | pass |
| `PayInvoice_shuffle` | hop hints are shuffled | violated |

`CHECK_DEADLOCK FALSE` is set where the bounded environment may run out of
things to do, or where all sessions may be over. The largest runs are
`PayInvoice` (3 million states), `WalletSweeps` (2.3 million) and `WebsocketProxy`
(1.6 million).

## 5. Findings

The counterexample of a run:

1. `ProbePayment_graceful`: `sendProbePayment` closes `errChan` on return while
   its worker may still send on it. In TLC's trace `SendPaymentV2` refuses the
   request, lnd stops before the worker has sent that error, the handler returns
   because of the shutdown, and the worker's send panics.
2. `WalletLeases_template`: `fundPsbtCoinSelect` checks the template in one
   critical section and selects in another: a template input may be added twice.
3. `PayInvoice_shuffle`: `selectHopHints` returns from inside its loop when it
   has enough, before the shuffle: the hints stand in the order of the peers'
   balances, which the comment at `invoicesrpc/addinvoice.go:795` wants hidden.

Stated as a property of a module and violated when it is put into the module's
configuration, without a run of its own:

4. `EstimationEnds` (`ProbePayment`): `sendProbePayment` does not look at its
   context: a canceled estimation waits until shutdown.
5. `ForwardsListed` (`TelegramBot`): listing any forwarding event raises
   `AttributeError` (`pub_key`).
6. `NewestInvoicesListed` (`TelegramBot`): recent invoices stop being recent after
   the first page of 100.
7. `StreamsUntilOneQuits` (`WebsocketProxy`): a second message on a
   server-streaming WebSocket cancels the stream, and so does a response over
   `MaxWsMsgSize`.
8. `BudgetRetained` (`WalletSweeps`): a bump without a budget writes back the
   budget it read, over one that another bump has set meanwhile;
   `walletrpc/walletkit.proto:1215` says current budgets are retained.
9. `FeaturesOnlyIfAsked` (`NodeAnnouncement`): the peers sub-server always hands
   over a feature vector, although `peersrpc/config_active.go` asks for nil if no
   feature is updated: a call that only changes the colour can undo another
   call's features.
10. `LegacyStreamFollowsPayment` (`EventStreams`): with `usestatusinitiated` the
    first update of a new payment is `INITIATED`, for which the deprecated
    `TrackPayment` and `SendPayment` have no word: they end with an error while
    the payment goes on.
11. `NumSessionsTold` (`Watchtowers`, in place of `TowersToldRight`):
    `num_sessions` of a tower is that of the policy a map iteration starts with,
    not the number `wtclientrpc/wtclient.proto:187` speaks of.
12. `BudgetPositive` (`WalletSweeps`): `walletrpc/walletkit_server.go:1029` says
    of the budget of a pending input that it "must be greater than zero"; a budget
    of 2^63 and more becomes a negative amount, and no check of the wallet kit
    stops it.

Seen while modelling, without a property:

* Fundings share one lock ID, so a late release frees somebody else's coin;
  `fundPsbtCoinSelect` leaves the template's inputs unlocked although the doc of
  `FundPsbt` says all inputs are locked; `/menu` is documented and has no handler.
* `probePaymentRequest` dereferences the amount and the payment address of a
  payment request without asking whether it has them, where
  `routerrpc/router_backend.go:917` handles an absent amount; an empty hint,
  which `isLSP` skips, is indexed by `maxLspFee` (`ProbePanics`).
* `probeDestination` hands over `routeFeeLimitSat` where millisatoshis are asked
  for, a limit a thousand times smaller than for invoices, and does not subtract
  the final time lock from the limit as `QueryRoutes` does.
* `paymentDetails` looks only for the error of an unexpected failure source:
  `errMissingPaymentAttempt` and `errMissingRoute`, or no attempt at all, become
  an estimate of no fee and no time lock (`zero_fee` in `ProbePayment`).
* The balances of node info leave out pending channels, whose funds are neither
  in `total_balance` nor in `ListChannels`.
* A service provider whose hints all have a time lock of 0 is probed with the
  default one.
* `XImportMissionControl` drops a failure without an amount, which
  `routerrpc/router.proto:493` calls independent of amount, and refuses a pair
  that has nothing else, although `QueryMissionControl` exports it.

## 6. Proofs

`tlapm` checks every proof from nothing. Each holds for all values of the
constants that satisfy the named assumptions of the modules, which TLC evaluates
in the runs; a theorem marked * states a property that a run checks.

`HtlcInterceptor_proofs` (`ConstantsAssumption`) — `TypeCorrect`*,
`SlotExclusive`*, `RegistrationSafe`*, `NothingStranded`*, `DecidedForGood`*.
The inductive invariant is type correctness with `OneInterceptor`, which links three facts that are only true together: the
flag, the phase of the session that set it, and the registered callback. The
action properties and `NoForwardStranded` follow from it step by step.

`WalletLeases_proofs` — `TypeCorrect`*, `LockExclusive`*, `InternalModeKept`*,
and, for `LateRelease = FALSE`, `NoDoubleFunding`*, `NothingOrphaned`*,
`LeasesRefineReservation`*. `PromisesKept` is not inductive: it is strengthened
to `FundingInv` with what a call relies on between its steps, that the coins it
verified or selected are still free while it has the lock (`CoinsStillFree`,
which rests on `Exclusive`), and that what it leased is its own to roll back
(`LockedIsOwn`). `InternalModeInputs` needs in `InputsInv` that what was
selected stays confirmed until it is leased. The refinement maps every step to
`Reserve`, `Free` or a stutter (`LeaseStepCases`).

`ProbePayment_proofs` (`MaxAttemptsAssumption`) — `ProbeTypes`*,
`AnswersAreTrue`*, `PanicsExplained`*. `ProbeInv` adds that a final status ends
the queue of updates and is the payment's (`QueueInv`), that an error comes from
a worker that ends (`ErrorInv`), and what a worker can still be doing once the
channel is closed (`ClosedInv`): without the last, the send on the closed
channel cannot be traced to a shutdown or a deadline.

`Streams_proofs` — for `WebsocketProxy` (`ProxyAssumption`) `TypesKept`*,
`NothingTakenAway`*. `CountInv` counts each message where it is, in the socket,
with a loop, in the channel or at the backend; `CancelInv` gives a loop that is
on its way out its reason before the context is canceled; `ResponseInv` says for
whom responses are given up, and why a write can have had a deadline.
For `EventStreams` (`StreamAssumption`: any number of events, any buffer)
`StreamTypes`*, `StreamsTellTruth`*, `FailuresExplained`*. The invariant,
`StreamInv`, follows an event from its source to the stream: channels hold the
latest events of their kinds (`ChannelInv`), older ones that were asked for are
with the handler or were sent (`ItemInv`, `SentInv`, `NothingSkipped`), and the
source's events come in the order of a payment's or an invoice's life
(`SourceInv`). `SentInOrder` is not inductive without `ChannelInv`, nor
`EndsWithFinalState` without `NothingSkipped` and `SourceInv`.

`TelegramBot_proofs` (`BotConstants`) — `BotTypesKept`*, `AnsweredOnceAndRight`*,
`UserIsToldAll`*. `BotInv` says that updates in the queue, in the handler and
among the replies are different ones (`QueueInv`), when the one in the handler
has been answered already (`AnsweredInv`), and, at each call of the node-info
handler, what it knows (`NodeInfoInv`). The type invariant also bounds the
replies by twice the number of updates; that takes `FifoInv`: updates are handled
in the order in which they were sent. `CallInv` says that
the calls a handler has still to make are the last ones of its list, which is
what the action property needs to know what a failed or an empty call leaves.

`NodeServers_proofs` (`MaxBootsAssumption`, `MaxUpdatesAssumption`,
`RequiresAssumption`, `RequestsAssumption`, `InitAnnAssumption`,
`TowerAssumption`) — `NodeIsWhole`*, `ServersTypesKept`*, `MacaroonsKept`*,
`UnaskedFeatures`*, `TowersAreTold`*. `FileInv`: while a file is written, lnd
creates the servers and this server's shell is empty; lnd goes on only when
every server is created. `AnnInv`: what a call holds is what it computed from
what it had read. That an address is announced once is kept by both loops of
`UpdateAddresses`, for lists and requests of any length: the first only leaves
addresses out, the second adds what it does not find (`KeptIsPart`,
`AddedIsNew`). `CallInv`: a call is under way only in a server that was started.
What is told of a tower is shown by induction on how many policies have been
merged (`ToldFirst`, `ToldNext`, `ToldRight`), from what one policy's client
tells (`SessionsListed`) and that no session has two policies (`PoliciesApart`);
that there is a list in the order of the ids is `OrderExists`.

`WalletSweeps_proofs` (`BoundsAssumption`, `RequestAssumption`) —
`BudgetsExplained`*, `BudgetsKept`*, `StaleReads`*. What fits a width stays as it
is and what does not becomes negative (`SignedSame`, `SignedNegative`): a budget
that was asked for is never zero. `SweepInv` and `FreshInv`
say of a call that nobody overtook that what it read is still there: the
sweeper's inputs, an output that is unconfirmed, the balance; and that a
deadline is the sum, in the height's width, of the target and the height that
was read.

`PayInvoice_proofs` (the assumptions of `Amounts`, `InvoiceCreation`,
`PaymentIntent`, `FeeEstimation`, `MissionControl` and `PayInvoice`) —
`CallTypesKept`*, `OutcomesAgree`*, `HintsAreRight`*, `RequestsAreKept`*.

* `OutcomeInv`: what was told of an invoice is its state, and no step leaves a
  final state.
* `CallInv`: the channels that a call lists and chooses are private, each chosen
  one is usable or known to have changed, and the terms are the request's.
* `ChoiceInv`: the hints are counted down from the largest number, and no channel
  is listed or chosen twice (`Counted`); as long as no channel changes, the chosen
  ones come before all that are left, in the order of the balances, the bandwidth
  counted is theirs, and without the least of them there was not enough (`Best`).
  At the end of the loop this is `HintsNeeded`; the sum in it is taken over a set,
  in any order, and `CapacityCounts` says that one more channel adds its balance.
* `RegistryInv`: what the registry holds has an amount and a time lock that fit
  their widths, and hints that are a list. `SentInv`: a payment is what
  `extractIntentFromSendRequest` made of an invoice that had not expired.
* About operators, for every argument: `PaymentMeans`, `QueryKept`,
  `EstimateKept` (the probe brings a service provider the greatest of its hints'
  fees and time locks), `ResultReturns` and `ConfigReturns` (mission control's
  data are read back as they were written).

The arithmetic (remainders and quotients of any width) is in `Remainder`,
`DivBound` and `AmountKept`.

The provers cannot instantiate the library's induction theorems, whose predicate
is an operator. Where a loop or a sum needs induction, `SetInduction` has it with
a set in the predicate's place, from the well-foundedness of the naturals; the
models' loops are recursive functions for that reason.

The assumptions ask no more of the constants than what they stand for has:

* `WidthsAssumption`: widths and the millisatoshis of a satoshi are positive; that
  a power of two is not zero is said too, since the provers know no powers.
  `LimitsAssumption`: limits are natural numbers.
* `SendAssumption`, `QueryAssumption`, `AddRequestsAssumption`,
  `RequestsAssumption`, `RequestAssumption`: requests have the fields and the
  signedness of their messages, repeated fields are sequences, and there is at
  most one payment request.
* `OldInvoicesAssumption`, `InvoiceAssumption`, `InitAnnAssumption`: what is there at the beginning is of the kind that the
  code leaves there; channels are finitely many, with balances that are not
  negative.
* `ProbedAssumption`: an invoice has at most one amount, and its hints are lists
  of hops of the right widths; 16 bits fit into the int32 of a request. `ResultsAssumption`: mission control (lnd's)
  never has an amount without a time, nor a success without an amount.
  `ConfigsAssumption`: settings are not negative.
* `RequiresAssumption`: a feature bit needs others of the same width.
  `BoundsAssumption`: the widths of heights and amounts are positive, a height
  fits its own, and an output is worth something.
* `TowerAssumption`: sessions and policies are finitely many, and lnd runs a
  client for one policy at least.

Only model-checked, because fairness and ENABLED are out of the prover's reach:
the liveness properties `SlotFreed`, `NobodyLeftWaiting`, `EveryUpdateEnds`,
`EverythingEnds` and `StreamEnds`. The statements that do not hold (section 5)
have their counterexamples.

## 7. Not modelled

Most of the repository's lines are generated (`*.pb.go`, `*.pb.gw.go`,
`*_grpc.pb.go`, the Python stubs): message structs, accessors and routing
tables made from the `.proto` files, in which nothing is decided. They are left
out, as are `install.py`, cryptography, serialisation and texts.

Also left out, because the code here holds no state and takes no decision that a
property could be about: wallet accounts, addresses and message signing; the
signer and its MuSig2 sessions (the sessions are lnd's); the watchtower
server's, autopilot, neutrino and dev RPCs (single calls behind a flag that
never changes); the deprecated `SendToRoute` and `QueryProbability`; the
conversion of routes, attempts, invoices and wire errors to messages;
`SendToRouteV2`, `BuildRoute`, `UpdateChanStatus`, `PendingSweeps`,
`ListSweeps`, `LookupInvoiceV2`.
