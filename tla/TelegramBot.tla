---------------------------- MODULE TelegramBot ----------------------------
(***************************************************************************)
(* The Telegram bot of src/bot_telegram/lightning_bot.py: one asyncio loop *)
(* that takes the updates of its chats one at a time, and for a pressed    *)
(* button makes blocking calls to lnd (gRPC) or to two web services        *)
(* (requests), then replies.                                               *)
(*                                                                         *)
(* What surrounds the handlers is external: the library's update queue     *)
(* (sequential, the default of Application), Telegram's answer to a        *)
(* message, and lnd, whose wallet, channels, invoices and forwards change  *)
(* between any two calls.                                                  *)
(*                                                                         *)
(* A reply is abstracted to its kind and the facts about lnd it shows.     *)
(***************************************************************************)
EXTENDS Integers, Sequences, FiniteSets

CONSTANTS
    MaxUpdates,     \* bound: updates the users send
    Funds,          \* units of money: in the wallet, in open channels, or elsewhere
    MaxInvoices,    \* bound: invoices lnd ever creates
    InvoicePage,    \* invoices lnd returns when the request names no limit
    InvoicesShown,  \* the 10 of recent_invoices = invoices[-10:]
    MaxForwards,    \* bound: forwards lnd ever makes
    TextChannels    \* channels whose listing still fits one Telegram message

ASSUME BotConstants ==
    /\ {MaxUpdates, Funds, MaxInvoices, MaxForwards, TextChannels} \subseteq Nat
    /\ {InvoicePage, InvoicesShown} \subseteq Nat \ {0}

VARIABLES
    queue,      \* updates waiting for the loop: [id, what, fresh]
    asked,      \* what each update sent so far asks, by id
    current,    \* the update being handled, or Idle
    todo,       \* the calls its handler has still to make
    got,        \* what those calls have returned
    stage,      \* "calls", "reply" (the answer is ready) or "error" (in except)
    replies,    \* messages delivered: [id, kind, shown], in order
    ended,      \* how each update ended: "waiting", "done", "ignored", "raised"
    lnd         \* lnd's wallet and open channels, invoices and forwards

vars == <<queue, asked, current, todo, got, stage, replies, ended, lnd>>

Buttons == {"nodeinfo", "channelinfo", "recenttransactions",
            "forwardingtransactions", "bitcoininfo"}
Commands == {"start", "menu"}
Ids == 1..MaxUpdates
Idle == [id |-> 0, what |-> "start", fresh |-> TRUE]
(* held and exact are history: what wallet and open channels held together *)
(* when the wallet was read, and that the channels held the same when they *)
(* were read.                                                              *)
Nothing == [wallet |-> 0, channels |-> 0, invoices |-> {}, forwards |-> 0,
            held |-> 0, exact |-> TRUE, failed |-> FALSE]

(* The calls of each handler, in order. "cert" is get_ln_stub's read of    *)
(* tls.cert; a start command makes none.                                   *)
CallsOf(what) ==
    CASE what = "nodeinfo" -> <<"cert", "GetInfo", "WalletBalance", "ListChannels">>
      [] what = "channelinfo" -> <<"cert", "ListChannels">>
      [] what = "recenttransactions" -> <<"cert", "GetTransactions", "ListInvoices">>
      [] what = "forwardingtransactions" -> <<"cert", "ForwardingHistory">>
      [] what = "bitcoininfo" -> <<"coingecko", "mempool">>
      [] OTHER -> <<>>

Rpcs == {"GetInfo", "WalletBalance", "ListChannels", "GetTransactions",
         "ListInvoices", "ForwardingHistory"}
Web == {"coingecko", "mempool"}

(* lnd numbers its invoices from 1. A request without a limit returns the  *)
(* first page; the handler keeps the last InvoicesShown of it.             *)
InvoicesReturned == {n \in 1..lnd.invoices : n <= InvoicePage}
(* Mutant: the first of the page, invoices[:10].                           *)
FirstInvoices == {n \in InvoicesReturned : n <= InvoicesShown}
RecentInvoices ==
    {n \in InvoicesReturned : n > Cardinality(InvoicesReturned) - InvoicesShown}

TypeOK ==
    /\ asked \in [Ids -> Buttons \union Commands \union {"unsent"}]
    /\ ended \in [Ids -> {"waiting", "done", "ignored", "raised"}]
    /\ \A k \in DOMAIN queue : queue[k].id \in Ids /\ queue[k].fresh \in BOOLEAN
    /\ current.id \in 0..MaxUpdates
    /\ \E n \in 0..4 : n <= Len(CallsOf(current.what)) /\
            todo = SubSeq(CallsOf(current.what), n + 1, Len(CallsOf(current.what)))
    /\ got.wallet \in 0..Funds /\ got.channels \in 0..Funds /\ got.held \in 0..Funds
    /\ got.invoices \subseteq 1..MaxInvoices /\ got.forwards \in 0..MaxForwards
    /\ stage \in {"calls", "reply", "error"}
    /\ Len(replies) <= 2 * MaxUpdates
    /\ \A k \in DOMAIN replies : replies[k].kind \in {"menu", "answer", "error"}

Init ==
    /\ queue = <<>>
    /\ asked = [i \in Ids |-> "unsent"]
    /\ current = Idle
    /\ todo = <<>>
    /\ got = Nothing
    /\ stage = "calls"
    /\ replies = <<>>
    /\ ended = [i \in Ids |-> "waiting"]
    /\ lnd \in {l \in [wallet : 0..Funds, channels : 0..Funds,
                       invoices : {0}, forwards : {0}] : l.wallet + l.channels <= Funds}

---------------------------------------------------------------------------
(* Users and lnd.                                                          *)

UserSends(i, what) ==
    /\ asked[i] = "unsent"
    /\ \A j \in Ids : j < i => asked[j] # "unsent"
    /\ asked' = [asked EXCEPT ![i] = what]
    /\ queue' = Append(queue, [id |-> i, what |-> what, fresh |-> TRUE])
    /\ UNCHANGED <<current, todo, got, stage, replies, ended, lnd>>

(* Telegram forgets a callback query that is not answered in time: one     *)
(* that waits behind a slow handler does so.                               *)
QueryExpires(k) ==
    /\ current # Idle
    /\ queue[k].what \in Buttons /\ queue[k].fresh
    /\ queue' = [queue EXCEPT ![k].fresh = FALSE]
    /\ UNCHANGED <<asked, current, todo, got, stage, replies, ended, lnd>>

(* What neither WalletBalance nor ListChannels counts: the funds of pending  *)
(* channels and of payments in flight, and other people's. A channel that   *)
(* opens or closes passes through here: it is pending in between.           *)
Elsewhere == Funds - lnd.wallet - lnd.channels

WalletMoves ==
    /\ \/ Elsewhere > 0 /\ lnd' = [lnd EXCEPT !.wallet = @ + 1]
       \/ lnd.wallet > 0 /\ lnd' = [lnd EXCEPT !.wallet = @ - 1]
    /\ UNCHANGED <<queue, asked, current, todo, got, stage, replies, ended>>

(* A channel is opened, closed, or paid through.                           *)
ChannelsMove ==
    /\ \/ Elsewhere > 0 /\ lnd' = [lnd EXCEPT !.channels = @ + 1]
       \/ lnd.channels > 0 /\ lnd' = [lnd EXCEPT !.channels = @ - 1]
    /\ got' = [got EXCEPT !.exact =
                  @ /\ ~(current.what = "nodeinfo" /\ todo = <<"ListChannels">>)]
    /\ UNCHANGED <<queue, asked, current, todo, stage, replies, ended>>

InvoiceCreated ==
    /\ lnd.invoices < MaxInvoices
    /\ lnd' = [lnd EXCEPT !.invoices = @ + 1]
    /\ UNCHANGED <<queue, asked, current, todo, got, stage, replies, ended>>

Forwarded ==
    /\ lnd.forwards < MaxForwards
    /\ lnd' = [lnd EXCEPT !.forwards = @ + 1]
    /\ UNCHANGED <<queue, asked, current, todo, got, stage, replies, ended>>

---------------------------------------------------------------------------
(* The loop.                                                               *)

(* Mutant: the calls not made stay scheduled.                              *)
EndsKeepsCalls(how) ==
    /\ ended' = [ended EXCEPT ![current.id] = how]
    /\ current' = Idle
    /\ got' = Nothing
    /\ stage' = "calls"
    /\ UNCHANGED <<asked, lnd, todo>>

Ends(how) ==
    /\ ended' = [ended EXCEPT ![current.id] = how]
    /\ current' = Idle
    /\ todo' = <<>>
    /\ got' = Nothing
    /\ stage' = "calls"
    /\ UNCHANGED <<asked, lnd>>

(* Only start and the buttons have a handler: main registers no other.     *)
Registered == {"start"} \union Buttons

Ignore ==
    /\ current = Idle /\ queue # <<>>
    /\ Head(queue).what \notin Registered
    /\ queue' = Tail(queue)
    /\ ended' = [ended EXCEPT ![Head(queue).id] = "ignored"]
    /\ UNCHANGED <<asked, current, todo, got, stage, replies, lnd>>

(* Mutant: an expired query is put back.                                   *)
AnswerRaisesRequeued ==
    /\ current = Idle /\ queue # <<>>
    /\ Head(queue).what \in Registered /\ ~Head(queue).fresh
    /\ queue' = Append(Tail(queue), Head(queue))
    /\ UNCHANGED <<asked, current, todo, got, stage, replies, ended, lnd>>

(* button awaits query.answer() before it looks at the data: on an expired *)
(* query that raises, and on a fresh one it may, for a timeout or a network *)
(* error. The click is lost.                                               *)
AnswerRaises ==
    /\ current = Idle /\ queue # <<>>
    /\ Head(queue).what \in Buttons
    /\ queue' = Tail(queue)
    /\ ended' = [ended EXCEPT ![Head(queue).id] = "raised"]
    /\ UNCHANGED <<asked, current, todo, got, stage, replies, lnd>>

Dispatch ==
    /\ current = Idle /\ queue # <<>>
    /\ Head(queue).what \in Registered /\ Head(queue).fresh
    /\ queue' = Tail(queue)
    /\ current' = Head(queue)
    /\ todo' = CallsOf(current'.what)
    /\ stage' = IF todo' = <<>> THEN "reply" ELSE "calls"
    /\ UNCHANGED <<asked, got, replies, ended, lnd>>

WalletRead == [got EXCEPT !.wallet = lnd.wallet, !.held = lnd.wallet + lnd.channels]

(* Mutant: the channels are listed first, with GetInfo.                    *)
ReadChannelsFirst(call) ==
    CASE call = "GetInfo" -> [got EXCEPT !.channels = lnd.channels]
      [] call = "WalletBalance" -> WalletRead
      [] call = "ListInvoices" -> [got EXCEPT !.invoices = RecentInvoices]
      [] OTHER -> got

Read(call) ==
    CASE call = "WalletBalance" -> WalletRead
      [] call = "ListChannels" -> [got EXCEPT !.channels = lnd.channels]
      [] call = "ListInvoices" -> [got EXCEPT !.invoices = RecentInvoices]
      [] call = "ForwardingHistory" -> [got EXCEPT !.forwards = lnd.forwards]
      [] OTHER -> got

CallReturns ==
    /\ stage = "calls" /\ todo # <<>>
    /\ got' = Read(Head(todo))
    /\ todo' = Tail(todo)
    /\ stage' = IF todo' = <<>> THEN "reply" ELSE "calls"
    /\ UNCHANGED <<queue, asked, current, replies, ended, lnd>>

(* Mutant: the handler catches nothing.                                    *)
CallFailsUncaught ==
    /\ stage = "calls" /\ todo # <<>> /\ Head(todo) \in Rpcs \union Web
    /\ Ends("raised")
    /\ UNCHANGED <<queue, replies>>

(* A gRPC error is caught: the error message is next. Any error of its two *)
(* requests makes get_bitcoin_price_and_fees return None, an ordinary      *)
(* result to get_bitcoin_info, whose reply then says so.                   *)
CallFails ==
    /\ stage = "calls" /\ todo # <<>> /\ Head(todo) \in Rpcs \union Web
    /\ todo' = <<>>
    /\ IF Head(todo) \in Web
       THEN stage' = "reply" /\ got' = [got EXCEPT !.failed = TRUE]
       ELSE stage' = "error" /\ UNCHANGED got
    /\ UNCHANGED <<queue, asked, current, replies, ended, lnd>>

(* A missing tls.cert is a FileNotFoundError: no handler catches it.       *)
CertMissing ==
    /\ stage = "calls" /\ todo # <<>> /\ Head(todo) = "cert"
    /\ Ends("raised")
    /\ UNCHANGED <<queue, replies>>

---------------------------------------------------------------------------
(* The reply. The listing of a forward reads tx.pub_key, a field that      *)
(* lnrpc.ForwardingEvent has not: AttributeError, caught by nothing.       *)

Formats == current.what = "forwardingtransactions" => got.forwards = 0

FormatRaises ==
    /\ stage = "reply" /\ ~Formats
    /\ Ends("raised")
    /\ UNCHANGED <<queue, replies>>

(* Telegram refuses a text that is too long: a listing of many channels.   *)
(* Each unit in channels is the balance of a channel of its own.           *)
Fits == current.what = "channelinfo" => got.channels <= TextChannels

ReplyKind ==
    IF current.what = "start" THEN "menu" ELSE IF got.failed THEN "error" ELSE "answer"
Message(kind) ==
    [id |-> current.id, what |-> current.what, kind |-> kind,
     shown |-> IF kind = "answer" THEN got ELSE Nothing]

Reply ==
    /\ stage = "reply" /\ Formats /\ Fits
    /\ replies' = Append(replies, Message(ReplyKind))
    /\ Ends("done")
    /\ UNCHANGED queue

(* Mutant: every handler catches Exception.                                *)
CatchesEveryReply == current.what \in Buttons

(* except Exception around the whole of get_bitcoin_info also covers its   *)
(* own reply_text; the handlers that talk to lnd catch grpc.RpcError only. *)
CatchesReply == current.what = "bitcoininfo"

(* reply_text raises: Telegram refused the text, or timed out, perhaps     *)
(* after it had delivered the message.                                     *)
ReplyRaises ==
    /\ stage = "reply" /\ Formats
    /\ \/ UNCHANGED replies
       \/ Fits /\ replies' = Append(replies, Message(ReplyKind))
    /\ IF CatchesReply
       THEN stage' = "error" /\ UNCHANGED <<asked, current, todo, got, ended, lnd>>
       ELSE Ends("raised")
    /\ UNCHANGED queue

ErrorReply ==
    /\ stage = "error"
    /\ replies' = Append(replies, Message("error"))
    /\ Ends("done")
    /\ UNCHANGED queue

ErrorReplyRaises ==
    /\ stage = "error"
    /\ replies' \in {replies, Append(replies, Message("error"))}
    /\ Ends("raised")
    /\ UNCHANGED queue

Handler ==
    \/ Ignore \/ AnswerRaises \/ Dispatch
    \/ CallReturns \/ CallFails \/ CertMissing
    \/ FormatRaises \/ Reply \/ ReplyRaises \/ ErrorReply \/ ErrorReplyRaises

Next ==
    \/ \E i \in Ids, what \in Buttons \union Commands : UserSends(i, what)
    \/ \E k \in DOMAIN queue : QueryExpires(k)
    \/ WalletMoves \/ ChannelsMove \/ InvoiceCreated \/ Forwarded
    \/ Handler

Spec == Init /\ [][Next]_vars

(* The loop runs whatever it can run. That a call ends is lnd's and the    *)
(* web services' doing: the code gives none of them a timeout.             *)
LoopSpec == Spec /\ WF_vars(Handler)

---------------------------------------------------------------------------
(* Properties.                                                             *)

(* What get_node_info shows as on-chain and Lightning balance is together  *)
(* what wallet and open channels held at one moment, unless the channels'  *)
(* balance changed between its two calls: nothing is counted twice.        *)
NodeInfoAddsUp ==
    \A k \in DOMAIN replies :
        LET m == replies[k] IN
        m.what = "nodeinfo" /\ m.kind = "answer" /\ m.shown.exact =>
            m.shown.wallet + m.shown.channels = m.shown.held

(* A user is sent two messages for one update in one case only: the reply  *)
(* of get_bitcoin_info that Telegram delivered but did not confirm, then   *)
(* the error message of its except Exception.                              *)
SecondMessageOnlyAfterBitcoinInfo ==
    \A j, k \in DOMAIN replies :
        j < k /\ replies[j].id = replies[k].id =>
            /\ replies[j].what = "bitcoininfo"
            /\ replies[k].kind = "error" /\ k = j + 1

(* A click is answered once, but for get_bitcoin_info's error message, and *)
(* a node-info answer shows balances of one moment.                        *)
RepliesRight == NodeInfoAddsUp /\ SecondMessageOnlyAfterBitcoinInfo

(* A failed call to lnd or to a web service never leaves a click without   *)
(* an attempt to tell the user: a handler that raises does so in           *)
(* query.answer(), without tls.cert, or while it replies.                  *)
CallFailureReported ==
    \A i \in Ids : ended[i] = "waiting" /\ ended'[i] = "raised" =>
        \/ current = Idle
        \/ stage # "calls"
        \/ Head(todo) = "cert"

InvoicesListed == todo = <<"ListInvoices">> /\ stage' = "reply"
Newest == {n \in 1..lnd.invoices : n > lnd.invoices - InvoicesShown}

(* While lnd holds no more invoices than it returns at once, the last ten  *)
(* of the answer are the newest ones.                                      *)
NewestInvoicesWithinPage ==
    InvoicesListed /\ lnd.invoices <= InvoicePage => got'.invoices = Newest

(* A user is told that a call failed, and of the newest invoices of a page. *)
(* Of forwards a user is not told: ForwardsListed, which does not hold.    *)
UserToldAll == [][CallFailureReported /\ NewestInvoicesWithinPage]_vars

(* README: "Recent Transactions: Lists recent on-chain and Lightning       *)
(* transactions": the listed invoices are the newest of those lnd holds.   *)
NewestInvoicesListed == [][InvoicesListed => got'.invoices = Newest]_vars

(* README: "Forwarding Transactions: Shows recent forwarding events with   *)
(* detailed information": forwards that were fetched can be listed.        *)
ForwardsListed ==
    stage = "reply" /\ current.what = "forwardingtransactions" => Formats

(* Every update is dealt with as long as every call ends.                  *)
EveryUpdateEnds ==
    \A i \in Ids : (asked[i] # "unsent") ~> (ended[i] # "waiting")
=============================================================================
