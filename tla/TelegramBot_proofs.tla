--------------------------- MODULE TelegramBot_proofs ---------------------------
(***************************************************************************)
(* Proofs about TelegramBot, for any number of updates, funds, invoices    *)
(* and forwards: a click is answered once, but for the error message of    *)
(* get_bitcoin_info, and a node-info answer shows balances of one moment;  *)
(* there are never more messages than two for each update; a failed call   *)
(* is told, and the newest invoices of a page are shown.                   *)
(***************************************************************************)
EXTENDS TelegramBot, FiniteSetTheorems, TLAPS

Asks == Buttons \cup Commands
Update == [id: Ids, what: Asks, fresh: BOOLEAN]
Figures == [wallet: Int, channels: Int, invoices: SUBSET Nat, forwards: Int,
            held: Int, exact: BOOLEAN, failed: BOOLEAN]
Lnd == [wallet: Int, channels: Int, invoices: Nat, forwards: Int]
Msg == [id: Ids, what: Asks, kind: {"menu", "answer", "error"}, shown: Figures]

BotTypes ==
    /\ queue \in Seq(Update)
    /\ asked \in [Ids -> Asks \cup {"unsent"}]
    /\ current = Idle \/ current \in Update
    /\ got \in Figures
    /\ replies \in Seq(Msg)
    /\ lnd \in Lnd

\* The updates that wait, the one that is handled and those that were answered
\* are different ones, and were all sent.
QueueInv ==
    /\ \A k \in 1..Len(queue) :
          /\ asked[queue[k].id] # "unsent" /\ queue[k].id # current.id
          /\ \A m \in 1..Len(replies) : replies[m].id # queue[k].id
    /\ \A j, k \in 1..Len(queue) : j # k => queue[j].id # queue[k].id
    /\ current # Idle => asked[current.id] # "unsent"
    /\ \A m \in 1..Len(replies) : asked[replies[m].id] # "unsent"

\* The update that is handled has been answered only if that answer's delivery
\* was not confirmed and the handler catches the error.
AnsweredInv ==
    /\ \A m \in 1..Len(replies) : replies[m].id = current.id =>
          stage = "error" /\ m = Len(replies) /\ replies[m].what = "bitcoininfo"
    /\ \A j, k \in 1..Len(replies) : j < k /\ replies[j].id = replies[k].id =>
          replies[j].what = "bitcoininfo" /\ replies[k].kind = "error" /\ k = j + 1

\* What a node-info handler has still to call, and what it knows by then.
NodeInfoInv ==
    current.what = "nodeinfo" =>
        /\ stage = "calls" =>
              todo \in {<<"cert", "GetInfo", "WalletBalance", "ListChannels">>,
                        <<"GetInfo", "WalletBalance", "ListChannels">>,
                        <<"WalletBalance", "ListChannels">>,
                        <<"ListChannels">>}
        /\ stage = "calls" /\ todo = <<"ListChannels">> /\ got.exact =>
              got.held = got.wallet + lnd.channels
        /\ stage = "reply" /\ got.exact /\ ~got.failed =>
              got.wallet + got.channels = got.held
        /\ stage # "calls" => todo = <<>>

\* NodeInfoAddsUp in terms of positions.
ShownInv ==
    \A m \in 1..Len(replies) :
        replies[m].what = "nodeinfo" /\ replies[m].kind = "answer" /\ replies[m].shown.exact =>
            replies[m].shown.wallet + replies[m].shown.channels = replies[m].shown.held

\* Nothing is to be called or replied for nobody.
IdleInv == current = Idle => stage = "calls" /\ todo = <<>>

BotInv == BotTypes /\ IdleInv /\ QueueInv /\ AnsweredInv /\ NodeInfoInv /\ ShownInv

-----------------------------------------------------------------------------
(* Sequences *)

LEMMA TailFacts ==
    ASSUME NEW S, NEW q \in Seq(S), q # <<>>
    PROVE  /\ Head(q) = q[1] /\ Head(q) \in S /\ 1 \in 1..Len(q)
           /\ Tail(q) \in Seq(S) /\ Len(Tail(q)) = Len(q) - 1 /\ Len(q) \in Nat
           /\ \A k \in 1..Len(Tail(q)) : Tail(q)[k] = q[k + 1] /\ k + 1 \in 1..Len(q)
  OBVIOUS

LEMMA AppendFacts ==
    ASSUME NEW S, NEW q \in Seq(S), NEW x \in S
    PROVE  /\ Append(q, x) \in Seq(S) /\ Len(Append(q, x)) = Len(q) + 1 /\ Len(q) \in Nat
           /\ \A k \in 1..Len(q) + 1 :
                 Append(q, x)[k] = IF k = Len(q) + 1 THEN x ELSE q[k]
  OBVIOUS

-----------------------------------------------------------------------------
(* Steps of others *)

LEMMA IdleFacts ==
    /\ Idle.id \notin Ids /\ Idle.what = "start"
    /\ Nothing \in Figures
    /\ \A u \in Update : u # Idle
  BY BotConstants DEF Idle, Ids, Nothing, Figures, Update, BotConstants

LEMMA InitBot == Init => BotInv
<1> SUFFICES ASSUME Init PROVE BotInv
  OBVIOUS
<1>1. /\ asked \in [Ids -> Asks \cup {"unsent"}]
      /\ queue = <<>> /\ replies = <<>> /\ current = Idle /\ got = Nothing
      /\ lnd \in Lnd
  BY BotConstants DEF Init, BotConstants, Lnd
<1>2. BotTypes
  BY <1>1, IdleFacts DEF BotTypes
<1>3. QueueInv /\ AnsweredInv /\ ShownInv
  BY <1>1 DEF QueueInv, AnsweredInv, ShownInv
<1>4. NodeInfoInv
  BY <1>1, IdleFacts DEF NodeInfoInv
<1>5. IdleInv
  BY DEF Init, IdleInv
<1> QED BY <1>2, <1>3, <1>4, <1>5 DEF BotInv

LEMMA UserStep ==
    ASSUME BotInv, NEW i \in Ids, NEW what \in Asks, UserSends(i, what)
    PROVE  BotInv'
<1> DEFINE u == [id |-> i, what |-> what, fresh |-> TRUE]
<1>1. /\ asked[i] = "unsent" /\ asked' = [asked EXCEPT ![i] = what] /\ queue' = Append(queue, u)
      /\ UNCHANGED <<current, todo, got, stage, replies, ended, lnd>>
  BY DEF UserSends
<1>2. u \in Update /\ u.id = i
  BY DEF Update
<1>3. what # "unsent"
  BY DEF Asks, Buttons, Commands
<1> HIDE DEF u
<1>4. queue \in Seq(Update)
  BY DEF BotInv, BotTypes
<1>5. /\ queue' \in Seq(Update) /\ Len(queue') = Len(queue) + 1 /\ Len(queue) \in Nat
      /\ \A k \in 1..Len(queue) + 1 : queue'[k] = IF k = Len(queue) + 1 THEN u ELSE queue[k]
  BY <1>1, <1>2, <1>4, AppendFacts
<1>6. /\ asked' \in [Ids -> Asks \cup {"unsent"}]
      /\ asked'[i] # "unsent"
      /\ \A j \in Ids : asked[j] # "unsent" => asked'[j] # "unsent" /\ j # i
  BY <1>1, <1>3 DEF BotInv, BotTypes
<1>7. BotTypes'
  BY <1>1, <1>5, <1>6 DEF BotInv, BotTypes
<1>8. /\ \A k \in 1..Len(queue) : queue[k].id \in Ids
      /\ \A m \in 1..Len(replies) : replies[m].id \in Ids
      /\ current # Idle => current.id \in Ids
  <2>1. ASSUME NEW k \in 1..Len(queue) PROVE queue[k].id \in Ids
    <3>1. queue[k] \in Update
      BY <1>4
    <3> QED BY <3>1 DEF Update
  <2>2. ASSUME NEW m \in 1..Len(replies) PROVE replies[m].id \in Ids
    <3>1. replies[m] \in Msg
      BY DEF BotInv, BotTypes
    <3> QED BY <3>1 DEF Msg
  <2>3. current # Idle => current.id \in Ids
    BY DEF BotInv, BotTypes, Update
  <2> QED BY <2>1, <2>2, <2>3
<1>9. current.id # i /\ \A m \in 1..Len(replies) : replies[m].id # i
  BY <1>1, <1>8, IdleFacts DEF BotInv, QueueInv
<1>10. QueueInv'
  <2>1. ASSUME NEW k \in 1..Len(queue')
        PROVE  /\ asked'[queue'[k].id] # "unsent" /\ queue'[k].id # current'.id
               /\ \A m \in 1..Len(replies') : replies'[m].id # queue'[k].id
    BY <1>1, <1>2, <1>5, <1>6, <1>8, <1>9 DEF BotInv, QueueInv
  <2>2. ASSUME NEW j \in 1..Len(queue'), NEW k \in 1..Len(queue'), j # k
        PROVE  queue'[j].id # queue'[k].id
    BY <1>1, <1>2, <1>5, <1>6, <1>8, <2>2 DEF BotInv, QueueInv
  <2> QED BY <1>1, <1>6, <1>8, <2>1, <2>2 DEF BotInv, QueueInv
<1>11. AnsweredInv' /\ NodeInfoInv' /\ ShownInv' /\ IdleInv'
  BY <1>1 DEF BotInv, AnsweredInv, NodeInfoInv, ShownInv, IdleInv
<1> QED BY <1>7, <1>10, <1>11 DEF BotInv

LEMMA ExpireStep ==
    ASSUME BotInv, NEW k \in DOMAIN queue, QueryExpires(k)
    PROVE  BotInv'
<1> DEFINE u == [queue[k] EXCEPT !.fresh = FALSE]
<1>1. /\ queue' = [queue EXCEPT ![k] = u]
      /\ UNCHANGED <<asked, current, todo, got, stage, replies, ended, lnd>>
  BY DEF QueryExpires
<1>2. queue \in Seq(Update) /\ queue[k] \in Update
  BY DEF BotInv, BotTypes
<1>3. u \in Update /\ u.id = queue[k].id
  BY <1>2 DEF Update
<1> HIDE DEF u
<1>4. /\ queue' \in Seq(Update) /\ Len(queue') = Len(queue)
      /\ \A j \in 1..Len(queue) : queue'[j] = IF j = k THEN u ELSE queue[j]
  BY <1>1, <1>2, <1>3
<1>5. \A j \in 1..Len(queue) : queue'[j].id = queue[j].id
  BY <1>3, <1>4
<1>6. BotTypes'
  BY <1>1, <1>4 DEF BotInv, BotTypes
<1>7. QueueInv'
  BY <1>1, <1>4, <1>5 DEF BotInv, QueueInv
<1> QED BY <1>1, <1>6, <1>7 DEF BotInv, AnsweredInv, NodeInfoInv, ShownInv, IdleInv

LEMMA LndStep ==
    ASSUME BotInv, WalletMoves \/ ChannelsMove \/ InvoiceCreated \/ Forwarded
    PROVE  BotInv'
<1>1. /\ UNCHANGED <<queue, asked, current, todo, stage, replies>>
      /\ lnd' \in Lnd
      /\ lnd'.channels = lnd.channels \/ ChannelsMove
  <2>0. lnd \in Lnd
    BY DEF BotInv, BotTypes
  <2>1. CASE WalletMoves
    BY <2>0, <2>1 DEF WalletMoves, Lnd
  <2>2. CASE ChannelsMove
    BY <2>0, <2>2 DEF ChannelsMove, Lnd
  <2>3. CASE InvoiceCreated
    BY <2>0, <2>3 DEF InvoiceCreated, Lnd
  <2>4. CASE Forwarded
    BY <2>0, <2>4 DEF Forwarded, Lnd
  <2> QED BY <2>1, <2>2, <2>3, <2>4
<1> DEFINE moved == current.what = "nodeinfo" /\ todo = <<"ListChannels">>
<1>2. /\ got' \in Figures /\ got'.wallet = got.wallet /\ got'.channels = got.channels
      /\ got'.failed = got.failed /\ got'.held = got.held
      /\ got'.exact => got.exact
      /\ ChannelsMove => ~(got'.exact /\ moved)
  <2>1. CASE ~ ChannelsMove
    BY <2>1 DEF WalletMoves, InvoiceCreated, Forwarded, BotInv, BotTypes
  <2>2. CASE ChannelsMove
    <3> DEFINE e == got.exact /\ ~moved
    <3>1. got' = [got EXCEPT !.exact = e]
      BY <2>2 DEF ChannelsMove
    <3>2. e \in BOOLEAN /\ (e => got.exact /\ ~moved)
      OBVIOUS
    <3>3. got \in Figures
      BY DEF BotInv, BotTypes
    <3> HIDE DEF e, moved
    <3> QED BY <3>1, <3>2, <3>3 DEF Figures
  <2> QED BY <2>1, <2>2
<1>3. BotTypes' /\ QueueInv' /\ AnsweredInv' /\ ShownInv' /\ IdleInv'
  BY <1>1, <1>2 DEF BotInv, BotTypes, QueueInv, AnsweredInv, ShownInv, IdleInv
<1>4. NodeInfoInv'
  BY <1>1, <1>2 DEF BotInv, NodeInfoInv
<1> QED BY <1>3, <1>4 DEF BotInv

-----------------------------------------------------------------------------
(* Steps of the loop *)

\* The first update leaves the queue and nothing else happens to it.
LEMMA TakenOff ==
    ASSUME BotInv, queue # <<>>, queue' = Tail(queue)
    PROVE  /\ queue' \in Seq(Update) /\ Head(queue) \in Update
           /\ Head(queue).id \in Ids /\ asked[Head(queue).id] # "unsent"
           /\ \A m \in 1..Len(replies) : replies[m].id # Head(queue).id
           /\ \A k \in 1..Len(queue') :
                 /\ queue'[k].id \in Ids
                 /\ asked[queue'[k].id] # "unsent" /\ queue'[k].id # Head(queue).id
                 /\ queue'[k].id # current.id
                 /\ \A m \in 1..Len(replies) : replies[m].id # queue'[k].id
           /\ \A j, k \in 1..Len(queue') : j # k => queue'[j].id # queue'[k].id
<1>1. queue \in Seq(Update)
  BY DEF BotInv, BotTypes
<1>2. /\ Head(queue) = queue[1] /\ Head(queue) \in Update /\ 1 \in 1..Len(queue)
      /\ queue' \in Seq(Update) /\ Len(queue') = Len(queue) - 1 /\ Len(queue) \in Nat
      /\ \A k \in 1..Len(queue') : queue'[k] = queue[k + 1] /\ k + 1 \in 1..Len(queue)
  BY <1>1, TailFacts
<1>3. \A k \in 1..Len(queue') : queue'[k].id \in Ids
  <2>1. ASSUME NEW k \in 1..Len(queue') PROVE queue'[k].id \in Ids
    <3>1. queue'[k] \in Update
      BY <1>2
    <3> QED BY <3>1 DEF Update
  <2> QED BY <2>1
<1>4. \A k \in 1..Len(queue') : queue'[k].id # Head(queue).id
  BY <1>2 DEF BotInv, QueueInv
<1>5. \A j, k \in 1..Len(queue') : j # k => queue'[j].id # queue'[k].id
  BY <1>2 DEF BotInv, QueueInv
<1> QED BY <1>2, <1>3, <1>4, <1>5 DEF BotInv, QueueInv, Update

LEMMA DispatchSteps ==
    ASSUME BotInv, Ignore \/ AnswerRaises \/ Dispatch
    PROVE  BotInv'
<1>1. current = Idle /\ queue # <<>> /\ queue' = Tail(queue)
      /\ UNCHANGED <<asked, got, replies, lnd>>
  BY DEF Ignore, AnswerRaises, Dispatch
<1>2. CASE Ignore \/ AnswerRaises
  <2>1. UNCHANGED <<current, todo, stage>>
    BY <1>2 DEF Ignore, AnswerRaises
  <2>2. BotTypes'
    BY <1>1, <2>1, TakenOff DEF BotInv, BotTypes
  <2>3. QueueInv'
    BY <1>1, <2>1, TakenOff DEF BotInv, QueueInv
  <2> QED BY <1>1, <2>1, <2>2, <2>3 DEF BotInv, AnsweredInv, NodeInfoInv, ShownInv, IdleInv
<1>3. CASE Dispatch
  <2>1. current' = Head(queue) /\ todo' = CallsOf(current'.what)
        /\ stage' = IF todo' = <<>> THEN "reply" ELSE "calls"
    BY <1>3 DEF Dispatch
  <2>2. BotTypes'
    BY <1>1, <2>1, TakenOff DEF BotInv, BotTypes
  <2>3. QueueInv' /\ AnsweredInv'
    BY <1>1, <2>1, TakenOff DEF BotInv, QueueInv, AnsweredInv
  <2>4. NodeInfoInv'
    <3> SUFFICES ASSUME current'.what = "nodeinfo" PROVE NodeInfoInv'
      BY DEF NodeInfoInv
    <3>1. todo' = <<"cert", "GetInfo", "WalletBalance", "ListChannels">>
      BY <2>1 DEF CallsOf
    <3> QED BY <2>1, <3>1 DEF NodeInfoInv
  <2>5. IdleInv'
    BY <1>1, <2>1, TakenOff, IdleFacts DEF IdleInv
  <2> QED BY <1>1, <2>2, <2>3, <2>4, <2>5 DEF BotInv, ShownInv
<1> QED BY <1>2, <1>3

LEMMA CallSteps ==
    ASSUME BotInv, CallReturns \/ CallFails
    PROVE  BotInv'
<1>1. stage = "calls" /\ todo # <<>> /\ UNCHANGED <<queue, asked, current, replies, lnd>>
  BY DEF CallReturns, CallFails
<1>2. got \in Figures /\ lnd \in Lnd /\ Funds \in Nat
  BY BotConstants DEF BotInv, BotTypes, BotConstants
<1>3. got' \in Figures
  <2>1. RecentInvoices \in SUBSET Nat
    BY <1>2 DEF RecentInvoices, InvoicesReturned
  <2>2. CASE CallReturns
    <3>1. got' = Read(Head(todo))
      BY <2>2 DEF CallReturns
    <3>2. Read(Head(todo)) \in
             {got, [got EXCEPT !.wallet = lnd.wallet, !.held = lnd.wallet + lnd.channels],
              [got EXCEPT !.channels = lnd.channels],
              [got EXCEPT !.invoices = RecentInvoices], [got EXCEPT !.forwards = lnd.forwards]}
      BY DEF Read, WalletRead
    <3>3. /\ lnd.wallet \in Int /\ lnd.channels \in Int /\ lnd.forwards \in Int
          /\ lnd.wallet + lnd.channels \in Int
      BY <1>2 DEF Lnd
    <3> HIDE DEF RecentInvoices
    <3> QED BY <1>2, <2>1, <3>1, <3>2, <3>3 DEF Figures
  <2>3. CASE CallFails
    BY <1>2, <2>3 DEF CallFails, Figures
  <2> QED BY <2>2, <2>3
<1>4. BotTypes' /\ QueueInv' /\ AnsweredInv' /\ ShownInv' /\ IdleInv'
  BY <1>1, <1>3 DEF BotInv, BotTypes, QueueInv, AnsweredInv, ShownInv, IdleInv
<1>5. NodeInfoInv'
  <2> SUFFICES ASSUME current.what = "nodeinfo" PROVE NodeInfoInv'
    BY <1>1 DEF NodeInfoInv
  <2>1. CASE CallFails
    <3>1. todo' = <<>> /\ stage' # "calls"
      BY <2>1 DEF CallFails
    <3>2. stage' = "reply" => got'.failed
      BY <1>2, <2>1 DEF CallFails, Figures
    <3> QED BY <3>1, <3>2 DEF NodeInfoInv
  <2>2. CASE CallReturns
    <3>1. /\ todo' = Tail(todo) /\ got' = Read(Head(todo))
          /\ stage' = IF todo' = <<>> THEN "reply" ELSE "calls"
      BY <2>2 DEF CallReturns
    <3>2. CASE todo = <<"cert", "GetInfo", "WalletBalance", "ListChannels">>
      <4>1. todo' = <<"GetInfo", "WalletBalance", "ListChannels">>
        BY <3>1, <3>2
      <4>2. todo' # <<>> /\ todo' # <<"ListChannels">>
        BY <4>1
      <4> QED BY <3>1, <4>1, <4>2 DEF NodeInfoInv
    <3>3. CASE todo = <<"GetInfo", "WalletBalance", "ListChannels">>
      <4>1. todo' = <<"WalletBalance", "ListChannels">>
        BY <3>1, <3>3
      <4>2. todo' # <<>> /\ todo' # <<"ListChannels">>
        BY <4>1
      <4> QED BY <3>1, <4>1, <4>2 DEF NodeInfoInv
    <3>4. CASE todo = <<"WalletBalance", "ListChannels">>
      <4>1. todo' = <<"ListChannels">> /\ Head(todo) = "WalletBalance"
        BY <3>1, <3>4
      <4>2. got'.held = got'.wallet + lnd'.channels
        BY <1>1, <1>2, <3>1, <4>1 DEF Read, WalletRead, Figures, Lnd
      <4>3. todo' # <<>>
        BY <4>1
      <4> QED BY <3>1, <4>1, <4>2, <4>3 DEF NodeInfoInv
    <3>5. CASE todo = <<"ListChannels">>
      <4>1. todo' = <<>> /\ Head(todo) = "ListChannels"
        BY <3>1, <3>5
      <4>2. /\ got'.wallet = got.wallet /\ got'.channels = lnd.channels
            /\ got'.exact = got.exact /\ got'.held = got.held
        BY <1>2, <3>1, <4>1 DEF Read, Figures
      <4>3. got.exact => got.held = got.wallet + lnd.channels
        BY <1>1, <3>5 DEF BotInv, NodeInfoInv
      <4> QED BY <3>1, <4>1, <4>2, <4>3 DEF NodeInfoInv
    <3> QED BY <1>1, <3>2, <3>3, <3>4, <3>5 DEF BotInv, NodeInfoInv
  <2> QED BY <2>1, <2>2
<1> QED BY <1>4, <1>5 DEF BotInv

-----------------------------------------------------------------------------
(* Replies *)

LEMMA EndsStep ==
    ASSUME BotInv, NEW how, Ends(how), UNCHANGED <<queue, replies>>
    PROVE  BotInv'
<1>1. /\ current' = Idle /\ todo' = <<>> /\ got' = Nothing /\ stage' = "calls"
      /\ UNCHANGED <<asked, lnd, queue, replies>>
  BY DEF Ends
<1>2. BotTypes' /\ IdleInv'
  BY <1>1, IdleFacts DEF BotInv, BotTypes, IdleInv
<1>3. \A k \in 1..Len(queue) : queue[k].id # Idle.id
  <2>1. ASSUME NEW k \in 1..Len(queue) PROVE queue[k].id \in Ids
    <3>1. queue[k] \in Update
      BY DEF BotInv, BotTypes
    <3> QED BY <3>1 DEF Update
  <2> QED BY <2>1, IdleFacts
<1>4. \A m \in 1..Len(replies) : replies[m].id # Idle.id
  <2>1. ASSUME NEW m \in 1..Len(replies) PROVE replies[m].id \in Ids
    <3>1. replies[m] \in Msg
      BY DEF BotInv, BotTypes
    <3> QED BY <3>1 DEF Msg
  <2> QED BY <2>1, IdleFacts
<1>5. QueueInv' /\ AnsweredInv'
  BY <1>1, <1>3, <1>4 DEF BotInv, QueueInv, AnsweredInv
<1>6. NodeInfoInv' /\ ShownInv'
  BY <1>1, IdleFacts DEF BotInv, NodeInfoInv, ShownInv
<1> QED BY <1>2, <1>5, <1>6 DEF BotInv

\* A message about the update that is handled, if it is the first one about it or
\* an error message after an unconfirmed one, and shows figures that add up.
LEMMA MessageSent ==
    ASSUME BotInv, current # Idle, NEW kind \in {"menu", "answer", "error"},
           replies' = Append(replies, Message(kind)), UNCHANGED <<queue, asked>>,
           kind = "error" \/ stage = "reply",
           kind = "answer" /\ current.what = "nodeinfo" /\ got.exact =>
               got.wallet + got.channels = got.held
    PROVE  /\ replies' \in Seq(Msg) /\ Len(replies') = Len(replies) + 1
           /\ \A m \in 1..Len(replies') :
                 /\ asked[replies'[m].id] # "unsent" /\ replies'[m].id \in Ids
                 /\ \A k \in 1..Len(queue) : replies'[m].id # queue[k].id
                 /\ stage = "reply" /\ replies'[m].id = current.id =>
                       m = Len(replies') /\ replies'[m].what = current.what
           /\ \A j, k \in 1..Len(replies') : j < k /\ replies'[j].id = replies'[k].id =>
                 replies'[j].what = "bitcoininfo" /\ replies'[k].kind = "error" /\ k = j + 1
           /\ ShownInv'
<1> DEFINE x == Message(kind)
<1>1. /\ x \in Msg
      /\ x.id = current.id /\ x.what = current.what /\ x.kind = kind
      /\ kind = "answer" => x.shown = got
  BY IdleFacts DEF BotInv, BotTypes, Message, Msg, Update
<1>2. replies \in Seq(Msg)
  BY DEF BotInv, BotTypes
<1> HIDE DEF x
<1>3. /\ replies' \in Seq(Msg) /\ Len(replies') = Len(replies) + 1 /\ Len(replies) \in Nat
      /\ \A m \in 1..Len(replies) + 1 :
            replies'[m] = IF m = Len(replies) + 1 THEN x ELSE replies[m]
  BY <1>1, <1>2, AppendFacts DEF x
<1>4. ASSUME NEW m \in 1..Len(replies')
      PROVE  /\ asked[replies'[m].id] # "unsent"
             /\ \A k \in 1..Len(queue) : replies'[m].id # queue[k].id
             /\ stage = "reply" /\ replies'[m].id = current.id =>
                   m = Len(replies') /\ replies'[m].what = current.what
  BY <1>1, <1>3 DEF BotInv, QueueInv, AnsweredInv
<1>5. ASSUME NEW m \in 1..Len(replies') PROVE replies'[m].id \in Ids
  <2>1. replies'[m] \in Msg
    BY <1>3
  <2> QED BY <2>1 DEF Msg
<1>6. ASSUME NEW j \in 1..Len(replies'), NEW k \in 1..Len(replies'),
             j < k, replies'[j].id = replies'[k].id
      PROVE  replies'[j].what = "bitcoininfo" /\ replies'[k].kind = "error" /\ k = j + 1
  <2>1. j \in 1..Len(replies) /\ replies'[j] = replies[j]
    BY <1>3, <1>6
  <2>2. CASE k = Len(replies) + 1
    <3>1. replies'[k] = x
      BY <1>3, <2>2
    <3>2. stage = "error" /\ j = Len(replies) /\ replies[j].what = "bitcoininfo"
      BY <1>1, <1>6, <2>1, <3>1 DEF BotInv, AnsweredInv
    <3> QED BY <1>1, <2>1, <2>2, <3>1, <3>2
  <2>3. CASE k # Len(replies) + 1
    <3>1. k \in 1..Len(replies) /\ replies'[k] = replies[k]
      BY <1>3, <2>3
    <3> QED BY <1>6, <2>1, <3>1 DEF BotInv, AnsweredInv
  <2> QED BY <2>2, <2>3
<1>7. ShownInv'
  BY <1>1, <1>3 DEF BotInv, ShownInv
<1> QED BY <1>3, <1>4, <1>5, <1>6, <1>7

\* The handler ends after its message.
LEMMA EndsWithMessage ==
    ASSUME BotInv, current # Idle, NEW kind \in {"menu", "answer", "error"}, NEW how,
           replies' = Append(replies, Message(kind)), UNCHANGED queue, Ends(how),
           kind = "error" \/ stage = "reply",
           kind = "answer" /\ current.what = "nodeinfo" /\ got.exact =>
               got.wallet + got.channels = got.held
    PROVE  BotInv'
<1>1. /\ current' = Idle /\ todo' = <<>> /\ got' = Nothing /\ stage' = "calls"
      /\ UNCHANGED <<asked, lnd, queue>>
  BY DEF Ends
<1>2. /\ replies' \in Seq(Msg) /\ ShownInv'
      /\ \A m \in 1..Len(replies') :
            /\ asked[replies'[m].id] # "unsent" /\ replies'[m].id \in Ids
            /\ \A k \in 1..Len(queue) : replies'[m].id # queue[k].id
      /\ \A j, k \in 1..Len(replies') : j < k /\ replies'[j].id = replies'[k].id =>
            replies'[j].what = "bitcoininfo" /\ replies'[k].kind = "error" /\ k = j + 1
  BY <1>1, MessageSent
<1>3. BotTypes' /\ IdleInv'
  BY <1>1, <1>2, IdleFacts DEF BotInv, BotTypes, IdleInv
<1>4. \A k \in 1..Len(queue) : queue[k].id # Idle.id
  <2>1. ASSUME NEW k \in 1..Len(queue) PROVE queue[k].id \in Ids
    <3>1. queue[k] \in Update
      BY DEF BotInv, BotTypes
    <3> QED BY <3>1 DEF Update
  <2> QED BY <2>1, IdleFacts
<1>5. QueueInv'
  BY <1>1, <1>2, <1>4 DEF BotInv, QueueInv
<1>6. AnsweredInv'
  BY <1>1, <1>2, IdleFacts DEF AnsweredInv
<1>7. NodeInfoInv'
  BY <1>1, IdleFacts DEF NodeInfoInv
<1> QED BY <1>2, <1>3, <1>5, <1>6, <1>7 DEF BotInv

\* What a reply shows adds up.
LEMMA ReplyAddsUp ==
    ASSUME BotInv, stage = "reply"
    PROVE  /\ ReplyKind \in {"menu", "answer", "error"} /\ current # Idle
           /\ ReplyKind = "answer" /\ current.what = "nodeinfo" /\ got.exact =>
                  got.wallet + got.channels = got.held
  BY DEF BotInv, ReplyKind, NodeInfoInv, IdleInv

LEMMA ReplySteps ==
    ASSUME BotInv,
           CertMissing \/ FormatRaises \/ Reply \/ ReplyRaises \/ ErrorReply \/ ErrorReplyRaises
    PROVE  BotInv'
<1>1. CASE CertMissing \/ FormatRaises
  BY <1>1, EndsStep DEF CertMissing, FormatRaises
<1>2. CASE Reply
  BY <1>2, ReplyAddsUp, EndsWithMessage DEF Reply
<1>3. CASE ErrorReply \/ ErrorReplyRaises
  <2>1. current # Idle
    BY <1>3 DEF BotInv, IdleInv, ErrorReply, ErrorReplyRaises
  <2>2. PICK how : Ends(how)
    BY <1>3 DEF ErrorReply, ErrorReplyRaises
  <2>3. UNCHANGED queue /\ (replies' = replies \/ replies' = Append(replies, Message("error")))
    BY <1>3 DEF ErrorReply, ErrorReplyRaises
  <2> QED BY <2>1, <2>2, <2>3, EndsStep, EndsWithMessage
<1>4. CASE ReplyRaises
  <2>1. stage = "reply" /\ UNCHANGED queue
        /\ (replies' = replies \/ replies' = Append(replies, Message(ReplyKind)))
    BY <1>4 DEF ReplyRaises
  <2>2. CASE ~ CatchesReply
    <3>1. Ends("raised")
      BY <1>4, <2>2 DEF ReplyRaises
    <3> QED BY <2>1, <3>1, EndsStep, EndsWithMessage, ReplyAddsUp
  <2>3. CASE CatchesReply
    <3>1. stage' = "error" /\ UNCHANGED <<asked, current, todo, got, lnd>>
      BY <1>4, <2>3 DEF ReplyRaises
    <3>2. current.what = "bitcoininfo" /\ current # Idle
      BY <2>1, <2>3, ReplyAddsUp DEF CatchesReply
    <3>3. CASE replies' = replies
      BY <2>1, <3>1, <3>2, <3>3
      DEF BotInv, BotTypes, IdleInv, QueueInv, AnsweredInv, NodeInfoInv, ShownInv
    <3>4. CASE replies' = Append(replies, Message(ReplyKind))
      <4>1. /\ replies' \in Seq(Msg) /\ Len(replies') = Len(replies) + 1 /\ ShownInv'
            /\ \A m \in 1..Len(replies') :
                  /\ asked[replies'[m].id] # "unsent"
                  /\ \A k \in 1..Len(queue) : replies'[m].id # queue[k].id
                  /\ replies'[m].id = current.id =>
                        m = Len(replies') /\ replies'[m].what = current.what
            /\ \A j, k \in 1..Len(replies') : j < k /\ replies'[j].id = replies'[k].id =>
                  replies'[j].what = "bitcoininfo" /\ replies'[k].kind = "error" /\ k = j + 1
        BY <2>1, <3>1, <3>4, ReplyAddsUp, MessageSent
      <4>2. BotTypes' /\ IdleInv' /\ QueueInv'
        BY <2>1, <3>1, <3>2, <4>1 DEF BotInv, BotTypes, IdleInv, QueueInv
      <4>3. AnsweredInv' /\ NodeInfoInv'
        BY <3>1, <3>2, <4>1 DEF AnsweredInv, NodeInfoInv
      <4> QED BY <4>1, <4>2, <4>3 DEF BotInv
    <3> QED BY <2>1, <3>3, <3>4
  <2> QED BY <2>2, <2>3
<1> QED BY <1>1, <1>2, <1>3, <1>4

LEMMA NextBot == BotInv /\ [Next]_vars => BotInv'
<1> SUFFICES ASSUME BotInv, [Next]_vars PROVE BotInv'
  OBVIOUS
<1>1. CASE UNCHANGED vars
  BY <1>1 DEF vars, BotInv, BotTypes, IdleInv, QueueInv, AnsweredInv, NodeInfoInv, ShownInv
<1>2. ASSUME NEW i \in Ids, NEW what \in Buttons \union Commands, UserSends(i, what)
      PROVE  BotInv'
  BY <1>2, UserStep DEF Asks
<1>3. CASE Handler
  BY <1>3, DispatchSteps, CallSteps, ReplySteps DEF Handler
<1> QED BY <1>1, <1>2, <1>3, ExpireStep, LndStep DEF Next

\* A click is answered by one message, or by get_bitcoin_info's answer and then
\* its error message, and a node-info answer shows what wallet and channels held
\* at one moment unless the channels' balance changed between its two calls.
THEOREM AnsweredOnceAndRight == Spec => []RepliesRight
<1>1. BotInv => RepliesRight
  <2> SUFFICES ASSUME BotInv PROVE RepliesRight
    OBVIOUS
  <2>1. DOMAIN replies = 1..Len(replies)
    BY DEF BotInv, BotTypes
  <2>2. NodeInfoAddsUp
    BY <2>1 DEF BotInv, ShownInv, NodeInfoAddsUp
  <2>3. SecondMessageOnlyAfterBitcoinInfo
    BY <2>1 DEF BotInv, AnsweredInv, SecondMessageOnlyAfterBitcoinInfo
  <2> QED BY <2>2, <2>3 DEF RepliesRight
<1> QED BY <1>1, InitBot, NextBot, PTL DEF Spec

-----------------------------------------------------------------------------
(* Updates are dealt with in the order in which they were sent *)

FifoInv ==
    /\ \A i, j \in Ids : i < j /\ asked[i] = "unsent" => asked[j] = "unsent"
    /\ \A j, k \in 1..Len(queue) : j < k => queue[j].id < queue[k].id
    /\ \A k \in 1..Len(queue) : current.id < queue[k].id
    /\ \A m \in 1..Len(replies), k \in 1..Len(queue) : replies[m].id < queue[k].id
    /\ current # Idle => \A m \in 1..Len(replies) : replies[m].id <= current.id
    /\ \A m \in 1..Len(replies) : m <= 2 * replies[m].id
    /\ \A m \in 1..Len(replies) : replies[m].id = current.id => m <= 2 * current.id - 1

LEMMA IdFacts ==
    ASSUME BotInv
    PROVE  /\ Ids \subseteq Nat \ {0} /\ Idle.id = 0
           /\ \A k \in 1..Len(queue) : queue[k].id \in Ids
           /\ \A m \in 1..Len(replies) : replies[m].id \in Ids
           /\ current.id \in Nat /\ (current # Idle => current.id \in Ids)
           /\ Len(queue) \in Nat /\ Len(replies) \in Nat
<1>1. Ids \subseteq Nat \ {0} /\ Idle.id = 0
  BY BotConstants DEF Ids, Idle, BotConstants
<1>2. ASSUME NEW k \in 1..Len(queue) PROVE queue[k].id \in Ids
  <2>1. queue[k] \in Update
    BY DEF BotInv, BotTypes
  <2> QED BY <2>1 DEF Update
<1>3. ASSUME NEW m \in 1..Len(replies) PROVE replies[m].id \in Ids
  <2>1. replies[m] \in Msg
    BY DEF BotInv, BotTypes
  <2> QED BY <2>1 DEF Msg
<1>4. current # Idle => current.id \in Ids
  BY DEF BotInv, BotTypes, Update
<1>5. Len(queue) \in Nat /\ Len(replies) \in Nat
  BY DEF BotInv, BotTypes
<1>6. current.id \in Nat
  <2>1. CASE current = Idle
    BY <1>1, <2>1
  <2>2. CASE current # Idle
    BY <1>1, <1>4, <2>2
  <2> QED BY <2>1, <2>2
<1> QED BY <1>1, <1>2, <1>3, <1>4, <1>5, <1>6

LEMMA FifoQueue ==
    ASSUME BotInv, FifoInv, current = Idle, queue # <<>>, queue' = Tail(queue),
           UNCHANGED <<asked, replies>>,
           current' = Idle \/ current' = Head(queue)
    PROVE  FifoInv'
<1>1. /\ Head(queue) = queue[1] /\ 1 \in 1..Len(queue)
      /\ Len(queue') = Len(queue) - 1
      /\ \A k \in 1..Len(queue') : queue'[k] = queue[k + 1] /\ k + 1 \in 1..Len(queue)
  BY TailFacts DEF BotInv, BotTypes
<1>2. \A k \in 1..Len(queue') : 1 < k + 1
  BY <1>1, IdFacts
<1>3. \A k \in 1..Len(queue') : /\ Idle.id < queue'[k].id /\ queue[1].id < queue'[k].id
                                /\ \A m \in 1..Len(replies) : replies[m].id < queue'[k].id
  BY <1>1, <1>2 DEF FifoInv
<1>4. \A j, k \in 1..Len(queue') : j < k => queue'[j].id < queue'[k].id
  <2> TAKE j, k \in 1..Len(queue')
  <2>1. j < k => j + 1 < k + 1
    BY IdFacts, <1>1
  <2> QED BY <1>1, <2>1 DEF FifoInv
<1>5. /\ \A m \in 1..Len(replies) : replies[m].id < queue[1].id
      /\ \A m \in 1..Len(replies) : replies[m].id # Idle.id /\ replies[m].id # queue[1].id
  BY <1>1, IdFacts DEF FifoInv
<1>6. \A m \in 1..Len(replies) : replies[m].id <= queue[1].id
  BY <1>1, <1>5, IdFacts
<1> QED BY <1>1, <1>3, <1>4, <1>5, <1>6 DEF FifoInv

LEMMA FifoSent ==
    ASSUME BotInv, FifoInv, NEW i \in Ids, NEW what \in Asks, UserSends(i, what)
    PROVE  FifoInv'
<1> DEFINE u == [id |-> i, what |-> what, fresh |-> TRUE]
<1>1. /\ asked[i] = "unsent" /\ asked' = [asked EXCEPT ![i] = what] /\ queue' = Append(queue, u)
      /\ \A j \in Ids : j < i => asked[j] # "unsent"
      /\ UNCHANGED <<current, replies>>
  BY DEF UserSends
<1>2. u \in Update /\ u.id = i /\ i \in Nat
  BY IdFacts DEF Update
<1> HIDE DEF u
<1>3. /\ Len(queue') = Len(queue) + 1 /\ Len(queue) \in Nat
      /\ \A k \in 1..Len(queue) + 1 : queue'[k] = IF k = Len(queue) + 1 THEN u ELSE queue[k]
  BY <1>1, <1>2, AppendFacts DEF BotInv, BotTypes
<1>4. ASSUME NEW j \in Ids, asked[j] # "unsent" PROVE j < i
  <2>1. j # i /\ ~(i < j)
    BY <1>1, <1>4 DEF FifoInv
  <2> QED BY <2>1, <1>2, <1>4, IdFacts
<1>5. /\ \A k \in 1..Len(queue) : queue[k].id < i
      /\ \A m \in 1..Len(replies) : replies[m].id < i
      /\ current.id < i
  <2>1. \A k \in 1..Len(queue) : asked[queue[k].id] # "unsent"
    BY DEF BotInv, QueueInv
  <2>2. \A m \in 1..Len(replies) : asked[replies[m].id] # "unsent"
    BY DEF BotInv, QueueInv
  <2>3. current # Idle => asked[current.id] # "unsent"
    BY DEF BotInv, QueueInv
  <2>4. i # 0 /\ (current = Idle => current.id < i)
    BY <1>2, IdFacts
  <2> QED BY <2>1, <2>2, <2>3, <2>4, <1>4, IdFacts
<1>6. \A j, k \in Ids : j < k /\ asked'[j] = "unsent" => asked'[k] = "unsent"
  <2> SUFFICES ASSUME NEW j \in Ids, NEW k \in Ids, j < k, asked'[j] = "unsent"
               PROVE  asked'[k] = "unsent"
    OBVIOUS
  <2>1. what # "unsent"
    BY DEF Asks, Buttons, Commands
  <2>2. asked[j] = "unsent" /\ j # i
    BY <1>1, <2>1 DEF BotInv, BotTypes
  <2>3. asked[k] = "unsent"
    BY <2>2 DEF FifoInv
  <2>4. k # i
    BY <1>1, <2>2
  <2> QED BY <1>1, <2>3, <2>4 DEF BotInv, BotTypes
<1>7. \A k \in 1..Len(queue') : k \in 1..Len(queue) \/ k = Len(queue) + 1
  BY <1>3
<1>8. /\ \A k \in 1..Len(queue') : current.id < queue'[k].id
      /\ \A m \in 1..Len(replies), k \in 1..Len(queue') : replies[m].id < queue'[k].id
  BY <1>2, <1>3, <1>5, <1>7 DEF FifoInv
<1>9. \A j, k \in 1..Len(queue') : j < k => queue'[j].id < queue'[k].id
  BY <1>2, <1>3, <1>5, <1>7 DEF FifoInv
<1> QED BY <1>1, <1>6, <1>8, <1>9 DEF FifoInv

\* A message about the update that is handled.
LEMMA FifoMessage ==
    ASSUME BotInv, FifoInv, current # Idle, NEW kind \in {"menu", "answer", "error"},
           replies' = Append(replies, Message(kind)), UNCHANGED <<queue, asked>>,
           \/ stage \in {"reply", "error"} /\ current' = Idle
           \/ stage = "reply" /\ current' = current
    PROVE  FifoInv'
<1> DEFINE x == Message(kind)
<1>1. x \in Msg /\ x.id = current.id
  BY IdleFacts DEF BotInv, BotTypes, Message, Msg, Update
<1> HIDE DEF x
<1>2. /\ Len(replies') = Len(replies) + 1 /\ Len(replies) \in Nat
      /\ \A m \in 1..Len(replies) + 1 :
            replies'[m] = IF m = Len(replies) + 1 THEN x ELSE replies[m]
  BY <1>1, AppendFacts DEF BotInv, BotTypes, x
<1> DEFINE n == Len(replies)
<1>3. current.id \in Nat \ {0}
  BY IdFacts
<1>4. n + 1 <= 2 * current.id /\ (stage = "reply" => n + 1 <= 2 * current.id - 1)
  <2>1. CASE n = 0
    BY <1>3, <2>1
  <2>2. CASE n # 0
    <3>1. n \in 1..n
      BY <1>2, <2>2
    <3>2. n <= 2 * replies[n].id /\ replies[n].id <= current.id /\ replies[n].id \in Nat
      BY <3>1, IdFacts DEF FifoInv
    <3>3. CASE replies[n].id = current.id
      <4>1. n <= 2 * current.id - 1 /\ stage = "error"
        BY <3>1, <3>3 DEF FifoInv, BotInv, AnsweredInv
      <4> QED BY <1>2, <1>3, <4>1
    <3>4. CASE replies[n].id # current.id
      BY <1>2, <1>3, <3>2, <3>4
    <3> QED BY <3>3, <3>4
  <2> QED BY <2>1, <2>2
<1>5. \A m \in 1..(n + 1) :
        (m \in 1..n /\ replies'[m] = replies[m]) \/ (m = n + 1 /\ replies'[m] = x)
  BY <1>2
<1>6. \A m \in 1..(n + 1) : m <= 2 * replies'[m].id
  BY <1>1, <1>4, <1>5 DEF FifoInv
<1>7. \A m \in 1..(n + 1), k \in 1..Len(queue) : replies'[m].id < queue[k].id
  BY <1>1, <1>5 DEF FifoInv
<1>8. \A m \in 1..(n + 1) : replies'[m].id <= current.id
  BY <1>1, <1>3, <1>5 DEF FifoInv
<1>9. CASE current' = Idle
  <2>1. \A m \in 1..(n + 1) : replies'[m].id # Idle.id
    BY <1>1, <1>3, <1>5, IdFacts
  <2>2. \A k \in 1..Len(queue) : Idle.id < queue[k].id
    BY IdFacts
  <2> QED BY <1>2, <1>6, <1>7, <1>9, <2>1, <2>2 DEF FifoInv
<1>10. CASE stage = "reply" /\ current' = current
  <2>1. \A m \in 1..(n + 1) : replies'[m].id = current.id => m <= 2 * current.id - 1
    BY <1>4, <1>5, <1>10 DEF FifoInv
  <2> QED BY <1>2, <1>6, <1>7, <1>8, <1>10, <2>1 DEF FifoInv
<1> QED BY <1>9, <1>10

LEMMA FifoEnd ==
    ASSUME BotInv, FifoInv, UNCHANGED <<queue, asked, replies>>, current' = Idle
    PROVE  FifoInv'
<1>1. \A m \in 1..Len(replies) : replies[m].id # Idle.id
  BY IdFacts
<1>2. \A k \in 1..Len(queue) : Idle.id < queue[k].id
  BY IdFacts
<1> QED BY <1>1, <1>2 DEF FifoInv

LEMMA FifoStep == BotInv /\ FifoInv /\ [Next]_vars => FifoInv'
<1> SUFFICES ASSUME BotInv, FifoInv, [Next]_vars PROVE FifoInv'
  OBVIOUS
<1>1. CASE UNCHANGED <<queue, asked, current, replies>>
  BY <1>1 DEF FifoInv
<1>2. ASSUME NEW i \in Ids, NEW what \in Buttons \union Commands, UserSends(i, what)
      PROVE  FifoInv'
  BY <1>2, FifoSent DEF Asks
<1>3. ASSUME NEW k \in DOMAIN queue, QueryExpires(k)
      PROVE  FifoInv'
  <2>1. /\ Len(queue') = Len(queue) /\ \A j \in 1..Len(queue) : queue'[j].id = queue[j].id
        /\ UNCHANGED <<asked, current, replies>>
    <3>1. queue' = [queue EXCEPT ![k].fresh = FALSE] /\ queue \in Seq(Update)
          /\ UNCHANGED <<asked, current, replies>>
      BY <1>3 DEF QueryExpires, BotInv, BotTypes
    <3>2. \A j \in 1..Len(queue) : queue[j] \in Update
      BY <3>1
    <3> QED BY <3>1, <3>2 DEF Update
  <2> QED BY <2>1 DEF FifoInv
<1>4. CASE Ignore \/ AnswerRaises \/ Dispatch
  BY <1>4, FifoQueue DEF Ignore, AnswerRaises, Dispatch
<1>5. CASE CertMissing \/ FormatRaises
  BY <1>5, FifoEnd DEF CertMissing, FormatRaises, Ends
<1>6. CASE Reply
  BY <1>6, ReplyAddsUp, FifoMessage DEF Reply, Ends
<1>7. CASE ErrorReply \/ ErrorReplyRaises
  <2>1. /\ stage = "error" /\ current # Idle /\ current' = Idle /\ UNCHANGED <<queue, asked>>
        /\ replies' \in {replies, Append(replies, Message("error"))}
    BY <1>7 DEF BotInv, IdleInv, ErrorReply, ErrorReplyRaises, Ends
  <2> QED BY <2>1, FifoEnd, FifoMessage
<1>8. CASE ReplyRaises
  <2>1. /\ stage = "reply" /\ UNCHANGED <<queue, asked>>
        /\ replies' = replies \/ replies' = Append(replies, Message(ReplyKind))
        /\ current' = current \/ current' = Idle
    BY <1>8 DEF ReplyRaises, Ends
  <2> QED BY <2>1, <1>1, FifoEnd, FifoMessage, ReplyAddsUp
<1> QED BY <1>1, <1>2, <1>3, <1>4, <1>5, <1>6, <1>7, <1>8
    DEF Next, Handler, vars, WalletMoves, ChannelsMove, InvoiceCreated, Forwarded, CallReturns, CallFails

-----------------------------------------------------------------------------
(* Types *)

\* The calls a handler has still to make, and what those it made returned.
CallInv ==
    /\ stage \in {"calls", "reply", "error"}
    /\ stage # "calls" => todo = <<>>
    /\ \E n \in 0..4 : n <= Len(CallsOf(current.what)) /\
            todo = SubSeq(CallsOf(current.what), n + 1, Len(CallsOf(current.what)))
    /\ ended \in [Ids -> {"waiting", "done", "ignored", "raised"}]
    /\ got.wallet \in 0..Funds /\ got.channels \in 0..Funds /\ got.held \in 0..Funds
    /\ got.invoices \subseteq 1..MaxInvoices /\ got.forwards \in 0..MaxForwards
    /\ lnd.wallet \in 0..Funds /\ lnd.channels \in 0..Funds
    /\ lnd.wallet + lnd.channels <= Funds /\ lnd.invoices \in 0..MaxInvoices
    /\ lnd.forwards \in 0..MaxForwards

LEMMA CallsFacts ==
    ASSUME NEW what
    PROVE  /\ CallsOf(what) \in Seq(Rpcs \cup Web \cup {"cert"})
           /\ Len(CallsOf(what)) \in 0..4
<1>1. CASE what = "nodeinfo"
  <2>1. CallsOf(what) = <<"cert", "GetInfo", "WalletBalance", "ListChannels">>
    BY <1>1 DEF CallsOf
  <2> QED BY <2>1 DEF Rpcs
<1>2. CASE what = "channelinfo"
  <2>1. CallsOf(what) = <<"cert", "ListChannels">>
    BY <1>2 DEF CallsOf
  <2> QED BY <2>1 DEF Rpcs
<1>3. CASE what = "recenttransactions"
  <2>1. CallsOf(what) = <<"cert", "GetTransactions", "ListInvoices">>
    BY <1>3 DEF CallsOf
  <2> QED BY <2>1 DEF Rpcs
<1>4. CASE what = "forwardingtransactions"
  <2>1. CallsOf(what) = <<"cert", "ForwardingHistory">>
    BY <1>4 DEF CallsOf
  <2> QED BY <2>1 DEF Rpcs
<1>5. CASE what = "bitcoininfo"
  <2>1. CallsOf(what) = <<"coingecko", "mempool">>
    BY <1>5 DEF CallsOf
  <2> QED BY <2>1 DEF Web
<1>6. CASE what \notin {"nodeinfo", "channelinfo", "recenttransactions",
                        "forwardingtransactions", "bitcoininfo"}
  <2>1. CallsOf(what) = <<>>
    BY <1>6 DEF CallsOf
  <2> QED BY <2>1
<1> QED BY <1>1, <1>2, <1>3, <1>4, <1>5, <1>6

LEMMA SuffixFacts ==
    ASSUME NEW S, NEW s \in Seq(S), NEW n \in 0..Len(s)
    PROVE  /\ SubSeq(s, n + 1, Len(s)) \in Seq(S)
           /\ Len(SubSeq(s, n + 1, Len(s))) = Len(s) - n
           /\ n = 0 => SubSeq(s, n + 1, Len(s)) = s
           /\ n = Len(s) => SubSeq(s, n + 1, Len(s)) = <<>>
           /\ n < Len(s) => Tail(SubSeq(s, n + 1, Len(s))) = SubSeq(s, n + 2, Len(s))
  OBVIOUS

LEMMA RecentFacts ==
    ASSUME lnd.invoices \in 0..MaxInvoices
    PROVE  /\ RecentInvoices \subseteq 1..MaxInvoices
           /\ lnd.invoices <= InvoicePage => RecentInvoices = Newest
<1>1. MaxInvoices \in Nat /\ InvoicePage \in Nat /\ lnd.invoices \in Nat
  BY BotConstants DEF BotConstants
<1>2. RecentInvoices \subseteq 1..MaxInvoices
  BY <1>1 DEF RecentInvoices, InvoicesReturned
<1>3. ASSUME lnd.invoices <= InvoicePage PROVE RecentInvoices = Newest
  <2>1. InvoicesReturned = 1..lnd.invoices
    BY <1>1, <1>3 DEF InvoicesReturned
  <2>2. Cardinality(1..lnd.invoices) = lnd.invoices
    BY <1>1, FS_Interval
  <2> QED BY <2>1, <2>2 DEF RecentInvoices, Newest
<1> QED BY <1>2, <1>3

LEMMA InitCalls == Init => CallInv
<1> SUFFICES ASSUME Init PROVE CallInv
  OBVIOUS
<1>1. current = Idle /\ todo = <<>> /\ got = Nothing /\ stage = "calls"
      /\ ended = [i \in Ids |-> "waiting"]
      /\ lnd.wallet \in 0..Funds /\ lnd.channels \in 0..Funds
      /\ lnd.wallet + lnd.channels <= Funds /\ lnd.invoices = 0 /\ lnd.forwards = 0
  BY DEF Init
<1>2. CallsOf(Idle.what) = <<>>
  BY DEF CallsOf, Idle
<1>3. /\ 0 \in 0..Funds /\ 0 \in 0..MaxInvoices /\ 0 \in 0..MaxForwards
  BY BotConstants DEF BotConstants
<1>4. \E n \in 0..4 : n <= Len(CallsOf(current.what)) /\
            todo = SubSeq(CallsOf(current.what), n + 1, Len(CallsOf(current.what)))
  BY <1>1, <1>2
<1> QED BY <1>1, <1>3, <1>4 DEF CallInv, Nothing

\* A handler that ends leaves nothing to call.
LEMMA CallsEnd ==
    ASSUME CallInv, NEW how \in {"done", "raised"}, Ends(how)
    PROVE  CallInv'
<1>1. current' = Idle /\ todo' = <<>> /\ got' = Nothing /\ stage' = "calls" /\ lnd' = lnd
      /\ ended' = [ended EXCEPT ![current.id] = how]
  BY DEF Ends
<1>2. CallsOf(Idle.what) = <<>>
  BY DEF CallsOf, Idle
<1>3. /\ 0 \in 0..Funds /\ 0 \in 0..MaxInvoices /\ 0 \in 0..MaxForwards
  BY BotConstants DEF BotConstants
<1>4. \E n \in 0..4 : n <= Len(CallsOf(current'.what)) /\
            todo' = SubSeq(CallsOf(current'.what), n + 1, Len(CallsOf(current'.what)))
  BY <1>1, <1>2
<1> QED BY <1>1, <1>3, <1>4 DEF CallInv, Nothing

LEMMA CallsTaken ==
    ASSUME BotInv, CallInv, CallReturns
    PROVE  CallInv'
<1>1. /\ stage = "calls" /\ todo # <<>> /\ got' = Read(Head(todo)) /\ todo' = Tail(todo)
      /\ stage' = IF todo' = <<>> THEN "reply" ELSE "calls"
      /\ UNCHANGED <<current, ended, lnd>>
  BY DEF CallReturns
<1> DEFINE s == CallsOf(current.what)
<1>2. PICK n \in 0..4 : n <= Len(s) /\ todo = SubSeq(s, n + 1, Len(s))
  BY DEF CallInv
<1>3. /\ s \in Seq(Rpcs \cup Web \cup {"cert"}) /\ Len(s) \in 0..4 /\ n \in 0..Len(s)
  BY <1>2, CallsFacts
<1> HIDE DEF s
<1>4. n < Len(s) /\ todo' = SubSeq(s, n + 2, Len(s))
  BY <1>1, <1>2, <1>3, SuffixFacts
<1>5. n + 1 \in 0..4 /\ n + 1 <= Len(s) /\ todo' = SubSeq(s, (n + 1) + 1, Len(s))
  <2>1. n + 1 \in 0..4 /\ n + 1 <= Len(s) /\ n + 2 = (n + 1) + 1
    <3>1. PICK l \in 0..4 : l = Len(s)
      BY <1>3
    <3>2. n < l
      BY <1>4, <3>1
    <3> QED BY <3>1, <3>2
  <2> QED BY <2>1, <1>4
<1>6. \E k \in 0..4 : k <= Len(CallsOf(current'.what)) /\
            todo' = SubSeq(CallsOf(current'.what), k + 1, Len(CallsOf(current'.what)))
  BY <1>1, <1>5 DEF s
<1>7. /\ got'.wallet \in 0..Funds /\ got'.channels \in 0..Funds /\ got'.held \in 0..Funds
      /\ got'.invoices \subseteq 1..MaxInvoices /\ got'.forwards \in 0..MaxForwards
  <2>1. lnd.wallet + lnd.channels \in 0..Funds
    BY BotConstants DEF CallInv, BotConstants
  <2>2. RecentInvoices \subseteq 1..MaxInvoices
    BY RecentFacts DEF CallInv
  <2>3. got \in Figures
    BY DEF BotInv, BotTypes
  <2>4. got' \in
             {got, [got EXCEPT !.wallet = lnd.wallet, !.held = lnd.wallet + lnd.channels],
              [got EXCEPT !.channels = lnd.channels],
              [got EXCEPT !.invoices = RecentInvoices], [got EXCEPT !.forwards = lnd.forwards]}
    BY <1>1 DEF Read, WalletRead
  <2> HIDE DEF RecentInvoices
  <2> QED BY <2>1, <2>2, <2>3, <2>4 DEF CallInv, Figures
<1> QED BY <1>1, <1>6, <1>7 DEF CallInv

LEMMA CallsStep == BotInv /\ CallInv /\ [Next]_vars => CallInv'
<1> SUFFICES ASSUME BotInv, CallInv, [Next]_vars PROVE CallInv'
  OBVIOUS
<1>0. got \in Figures /\ lnd \in Lnd
  BY DEF BotInv, BotTypes
<1>1. CASE \/ UNCHANGED vars
           \/ \E i \in Ids, what \in Buttons \union Commands : UserSends(i, what)
           \/ \E k \in DOMAIN queue : QueryExpires(k)
  BY <1>1 DEF vars, UserSends, QueryExpires, CallInv
<1>2. CASE WalletMoves \/ ChannelsMove
  <2>1. /\ UNCHANGED <<current, todo, stage, ended>>
        /\ lnd'.invoices = lnd.invoices /\ lnd'.forwards = lnd.forwards
        /\ got'.wallet = got.wallet /\ got'.channels = got.channels /\ got'.held = got.held
        /\ got'.invoices = got.invoices /\ got'.forwards = got.forwards
    BY <1>0, <1>2 DEF WalletMoves, ChannelsMove, Figures, Lnd
  <2>2. /\ lnd'.wallet \in 0..Funds /\ lnd'.channels \in 0..Funds
        /\ lnd'.wallet + lnd'.channels <= Funds
    <3>1. /\ lnd.wallet \in Nat /\ lnd.channels \in Nat /\ Funds \in Nat
          /\ lnd.wallet + lnd.channels <= Funds
      BY BotConstants DEF CallInv, BotConstants
    <3>2. CASE WalletMoves
      BY <1>0, <3>1, <3>2 DEF WalletMoves, Elsewhere, Lnd
    <3>3. CASE ChannelsMove
      BY <1>0, <3>1, <3>3 DEF ChannelsMove, Elsewhere, Lnd
    <3> QED BY <1>2, <3>2, <3>3
  <2> QED BY <1>0, <2>1, <2>2 DEF CallInv
<1>3. CASE InvoiceCreated \/ Forwarded
  <2>1. /\ UNCHANGED <<current, todo, stage, ended, got>>
        /\ lnd'.wallet = lnd.wallet /\ lnd'.channels = lnd.channels
        /\ lnd'.invoices \in 0..MaxInvoices /\ lnd'.forwards \in 0..MaxForwards
    <3>1. MaxInvoices \in Nat /\ MaxForwards \in Nat
      BY BotConstants DEF BotConstants
    <3>2. CASE InvoiceCreated
      <4>1. lnd' = [lnd EXCEPT !.invoices = @ + 1] /\ lnd.invoices < MaxInvoices
        BY <3>2 DEF InvoiceCreated
      <4> QED BY <1>0, <3>1, <3>2, <4>1 DEF InvoiceCreated, CallInv, Lnd
    <3>3. CASE Forwarded
      <4>1. lnd' = [lnd EXCEPT !.forwards = @ + 1] /\ lnd.forwards < MaxForwards
        BY <3>3 DEF Forwarded
      <4> QED BY <1>0, <3>1, <3>3, <4>1 DEF Forwarded, CallInv, Lnd
    <3> QED BY <1>3, <3>2, <3>3
  <2> QED BY <2>1 DEF CallInv
<1>4. CASE Ignore \/ AnswerRaises
  <2>1. /\ UNCHANGED <<current, todo, stage, got, lnd>>
        /\ \E i : ended' = [ended EXCEPT ![i] = "ignored"] \/ ended' = [ended EXCEPT ![i] = "raised"]
    BY <1>4 DEF Ignore, AnswerRaises
  <2>2. ended' \in [Ids -> {"waiting", "done", "ignored", "raised"}]
    BY <2>1 DEF CallInv
  <2> QED BY <2>1, <2>2 DEF CallInv
<1>5. CASE Dispatch
  <2>1. /\ todo' = CallsOf(current'.what)
        /\ stage' = IF todo' = <<>> THEN "reply" ELSE "calls"
        /\ UNCHANGED <<got, ended, lnd>>
    BY <1>5 DEF Dispatch
  <2>2. PICK s : s = CallsOf(current'.what)
    OBVIOUS
  <2>3. s \in Seq(Rpcs \cup Web \cup {"cert"}) /\ Len(s) \in 0..4 /\ 0 \in 0..Len(s)
    BY <2>2, CallsFacts
  <2>4. s = SubSeq(s, 0 + 1, Len(s)) /\ 0 <= Len(s)
    BY <2>3, SuffixFacts
  <2>5. \E n \in 0..4 : n <= Len(CallsOf(current'.what)) /\
            todo' = SubSeq(CallsOf(current'.what), n + 1, Len(CallsOf(current'.what)))
    BY <2>1, <2>2, <2>4
  <2> QED BY <2>1, <2>5 DEF CallInv
<1>6. CASE CallReturns
  BY <1>6, CallsTaken
<1>7. CASE CallFails
  <2>1. /\ todo' = <<>> /\ stage' \in {"reply", "error"}
        /\ UNCHANGED <<current, ended, lnd>>
        /\ got'.wallet = got.wallet /\ got'.channels = got.channels /\ got'.held = got.held
        /\ got'.invoices = got.invoices /\ got'.forwards = got.forwards
    BY <1>0, <1>7 DEF CallFails, Figures
  <2>2. PICK s : s = CallsOf(current.what)
    OBVIOUS
  <2>3. s \in Seq(Rpcs \cup Web \cup {"cert"}) /\ Len(s) \in 0..4 /\ Len(s) \in 0..Len(s)
    BY <2>2, CallsFacts
  <2>4. PICK k : k = Len(s)
    OBVIOUS
  <2>6. k \in 0..4 /\ k <= Len(s) /\ SubSeq(s, k + 1, Len(s)) = <<>>
    BY <2>3, <2>4, SuffixFacts
  <2>5. \E n \in 0..4 : n <= Len(CallsOf(current'.what)) /\
            todo' = SubSeq(CallsOf(current'.what), n + 1, Len(CallsOf(current'.what)))
    BY <2>1, <2>2, <2>6
  <2> QED BY <2>1, <2>5 DEF CallInv
<1>8. CASE CertMissing \/ FormatRaises \/ Reply \/ ErrorReply \/ ErrorReplyRaises
  BY <1>8, CallsEnd DEF CertMissing, FormatRaises, Reply, ErrorReply, ErrorReplyRaises
<1>9. CASE ReplyRaises
  <2>1. CASE CatchesReply
    BY <1>9, <2>1 DEF ReplyRaises, CallInv
  <2>2. CASE ~CatchesReply
    BY <1>9, <2>2, CallsEnd DEF ReplyRaises
  <2> QED BY <2>1, <2>2
<1> QED BY <1>1, <1>2, <1>3, <1>4, <1>5, <1>6, <1>7, <1>8, <1>9 DEF Next, Handler

-----------------------------------------------------------------------------
(* More theorems *)

LEMMA BotAlways == Spec => [](BotInv /\ FifoInv /\ CallInv)
<1>1. Init => FifoInv
  <2> SUFFICES ASSUME Init PROVE FifoInv
    OBVIOUS
  <2>1. Len(queue) = 0 /\ Len(replies) = 0 /\ current = Idle
        /\ \A i \in Ids : asked[i] = "unsent"
    BY DEF Init
  <2> QED BY <2>1 DEF FifoInv
<1> QED BY <1>1, InitBot, NextBot, FifoStep, InitCalls, CallsStep, PTL DEF Spec

\* What the loop holds at any time: known updates, the rest of the calls of the
\* one that is handled, figures that lnd can have given, and at most two messages
\* for each update.
THEOREM BotTypesKept == Spec => []TypeOK
<1>1. BotInv /\ FifoInv /\ CallInv => TypeOK
  <2> SUFFICES ASSUME BotInv, FifoInv, CallInv PROVE TypeOK
    OBVIOUS
  <2>1. Asks \cup {"unsent"} = Buttons \union Commands \union {"unsent"}
    BY DEF Asks
  <2>2. /\ asked \in [Ids -> Buttons \union Commands \union {"unsent"}]
        /\ queue \in Seq(Update) /\ DOMAIN queue = 1..Len(queue)
        /\ replies \in Seq(Msg) /\ DOMAIN replies = 1..Len(replies)
    BY <2>1 DEF BotInv, BotTypes
  <2>3. \A k \in DOMAIN queue : queue[k].id \in Ids /\ queue[k].fresh \in BOOLEAN
    <3> TAKE k \in DOMAIN queue
    <3>1. queue[k] \in Update
      BY <2>2
    <3> QED BY <3>1 DEF Update
  <2>4. \A k \in DOMAIN replies : replies[k].kind \in {"menu", "answer", "error"}
    <3> TAKE k \in DOMAIN replies
    <3>1. replies[k] \in Msg
      BY <2>2
    <3> QED BY <3>1 DEF Msg
  <2>5. current.id \in 0..MaxUpdates
    BY IdFacts, BotConstants DEF Ids, BotConstants
  <2>6. Len(replies) <= 2 * MaxUpdates
    <3>1. CASE Len(replies) = 0
      BY <3>1, BotConstants DEF BotConstants
    <3>2. CASE Len(replies) # 0
      <4>1. Len(replies) \in Nat /\ Len(replies) \in 1..Len(replies)
        BY <3>2, IdFacts
      <4>2. Len(replies) <= 2 * replies[Len(replies)].id /\ replies[Len(replies)].id \in 1..MaxUpdates
        BY <4>1, IdFacts DEF FifoInv, Ids
      <4> QED BY <4>1, <4>2, BotConstants DEF BotConstants
    <3> QED BY <3>1, <3>2
  <2> QED BY <2>2, <2>3, <2>4, <2>5, <2>6 DEF TypeOK, CallInv
<1> QED BY <1>1, BotAlways, PTL

\* A failed call ends in an attempt to say so, and while one page holds all
\* invoices the newest ones are shown.
THEOREM UserIsToldAll == Spec => UserToldAll
<1>1. ASSUME BotInv, CallInv, [Next]_vars PROVE [CallFailureReported]_vars
  <2> SUFFICES ASSUME Next, NEW i \in Ids, ended[i] = "waiting", ended'[i] = "raised"
               PROVE  current = Idle \/ stage # "calls" \/ Head(todo) = "cert"
    BY <1>1 DEF CallFailureReported
  <2>1. ended' # ended
    OBVIOUS
  <2>2. Ignore \/ AnswerRaises => current = Idle
    BY DEF Ignore, AnswerRaises
  <2>3. FormatRaises \/ Reply \/ ReplyRaises \/ ErrorReply \/ ErrorReplyRaises => stage # "calls"
    BY DEF FormatRaises, Reply, ReplyRaises, ErrorReply, ErrorReplyRaises
  <2>4. CertMissing => Head(todo) = "cert"
    BY DEF CertMissing
  <2> QED BY <2>1, <2>2, <2>3, <2>4 DEF Next, Handler, UserSends, QueryExpires,
          WalletMoves, ChannelsMove, InvoiceCreated, Forwarded, Dispatch, CallReturns, CallFails
<1>2. ASSUME BotInv, CallInv, [Next]_vars PROVE [NewestInvoicesWithinPage]_vars
  <2> SUFFICES ASSUME Next, todo = <<"ListInvoices">>, stage' = "reply",
                      lnd.invoices <= InvoicePage
               PROVE  got'.invoices = Newest
    BY <1>2 DEF NewestInvoicesWithinPage, InvoicesListed
  <2>1. todo # <<>> /\ Head(todo) = "ListInvoices"
    OBVIOUS
  <2>2. stage = "calls" /\ current # Idle
    BY <1>2, <2>1 DEF CallInv, BotInv, IdleInv
  <2>3. CallReturns
    BY <2>1, <2>2 DEF Next, Handler, UserSends, QueryExpires, WalletMoves, ChannelsMove,
       InvoiceCreated, Forwarded, Ignore, AnswerRaises, Dispatch, CallFails, Web,
       CertMissing, FormatRaises, Reply, ReplyRaises, ErrorReply, ErrorReplyRaises
  <2>4. got \in Figures /\ got' = [got EXCEPT !.invoices = RecentInvoices]
    BY <1>2, <2>1, <2>3 DEF CallReturns, Read, BotInv, BotTypes
  <2>5. RecentInvoices = Newest
    BY <1>2, RecentFacts DEF CallInv
  <2> QED BY <2>4, <2>5 DEF Figures
<1>3. BotInv /\ CallInv /\ [Next]_vars => [CallFailureReported /\ NewestInvoicesWithinPage]_vars
  BY <1>1, <1>2
<1> QED BY <1>3, BotAlways, PTL DEF Spec, UserToldAll
=============================================================================
