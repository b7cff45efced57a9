---------------------------- MODULE WalletSweeps ----------------------------
(***************************************************************************)
(* The wallet kit calls that decide on one read of the wallet or of the    *)
(* sweeper and act on a later one: BumpFee, SendOutputs and                *)
(* RemoveTransaction (walletrpc/walletkit_server.go).  None of them holds  *)
(* a lock from its first read to its last write, and every call of a       *)
(* client runs on its own goroutine, so each read and each write is a step *)
(* here and blocks, other clients and the sweeper itself come in between.  *)
(*                                                                         *)
(* The wallet, the sweeper and the chain are external: an output is        *)
(* unconfirmed, confirmed, spent, removed from the wallet, or foreign (a   *)
(* channel output, which the sweeper knows and the wallet does not).  An   *)
(* fn.Option is the empty set or a singleton.                              *)
(***************************************************************************)
EXTENDS Integers, FiniteSets

CONSTANTS
    Clients,        \* concurrent callers of the RPCs
    WalletOuts,     \* outputs of unconfirmed transactions of the wallet
    ForeignOuts,    \* channel outputs that lnd has offered to the sweeper
    BumpRequests,   \* the BumpFeeRequests a client may send
    Amounts,        \* totals of the outputs of a SendOutputsRequest
    Value,          \* satoshis in each output of the wallet
    Fee,            \* what the transaction of SendOutputs pays, at most Value
    ReservePerChan, \* reserve that one anchor channel requires
    Half,           \* 2^(w-1), for the w-bit integers of a block height
    HalfAmt,        \* 2^(w-1), for the w-bit integers of an amount
    MaxHeight, MaxAnchors, MaxCalls  \* bounds of the model

Outs == WalletOuts \cup ForeignOuts

ASSUME BoundsAssumption ==
    /\ {Value, Fee, ReservePerChan, MaxHeight, MaxAnchors, MaxCalls} \subseteq Nat
    /\ Half \in Nat /\ MaxHeight \in 1 .. Half - 1
    /\ HalfAmt \in Nat \ {0} /\ Value > 0
    /\ WalletOuts \cap ForeignOuts = {} /\ IsFiniteSet(Outs)
    /\ Amounts \subseteq Nat
ASSUME RequestAssumption ==
    BumpRequests \subseteq
        [out: Outs, satPerByte: Nat, satPerVbyte: Nat, force: BOOLEAN,
         immediate: BOOLEAN, budget: 0 .. 2 * HalfAmt - 1, targetConf: 0 .. 2 * Half - 1]

VARIABLES
    height,     \* of the best block
    utxo,       \* utxo[o]: what the wallet knows of output o
    change,     \* balance of the wallet besides WalletOuts
    anchors,    \* number of open anchor channels
    pending,    \* pending[o]: {} or the sweeper's parameters of its input o
    call,       \* call[c]: what c's handler is doing and has read
    answer,     \* answer[c]: what the last call of c returned
    calls       \* number of calls made

vars == <<height, utxo, change, anchors, pending, call, answer, calls>>

-----------------------------------------------------------------------------
(* Requests and parameters *)

\* Arithmetic in two's complement: the value of x after it wraps around.
Signed(x, half) == ((x + half) % (2 * half)) - half

Int32(x) == Signed(x, Half)

\* btcutil.Amount of a uint64: an int64.
Amount(x) == Signed(x, HalfAmt)

\* A deprecated field and the field that replaces it exclude each other.
ValidBumpFeeRequest(r) ==
    /\ ~ (r.satPerByte # 0 /\ r.satPerVbyte # 0)
    /\ ~ (r.force /\ r.immediate)

FeeRate(r) == {r.satPerByte, r.satPerVbyte} \ {0}
Immediate(r) == r.force \/ r.immediate

\* Faulty: the sum is not an int32.
DeadlineUnbounded(r, h, old) ==
    IF r.targetConf = 0 THEN old ELSE {r.targetConf + h}

\* Faulty: the target is taken for a height.
DeadlineWithoutHeight(r, h, old) ==
    IF r.targetConf = 0 THEN old ELSE {Int32(r.targetConf)}

\* A target of zero leaves the deadline old.
Deadline(r, h, old) ==
    IF r.targetConf = 0 THEN old ELSE {Int32(Int32(r.targetConf) + h)}

\* Half of the output's value: MulF64 rounds half up.
DefaultBudget == (Value + 1) \div 2

\* Faulty: a request without a budget gets the default one at once.
SweepParamsDefault(r, h, seen) ==
    [budget |-> IF r.budget # 0 THEN Amount(r.budget) ELSE DefaultBudget,
     deadline |-> Deadline(r, h, UNION {p.deadline : p \in seen}),
     feeRate |-> FeeRate(r),
     immediate |-> Immediate(r)]

\* The parameters prepared for request r at height h, when the sweeper's
\* pending inputs showed seen ({} if the input was not among them).
SweepParams(r, h, seen) ==
    [budget |-> IF r.budget # 0 \/ seen = {} THEN Amount(r.budget)
                ELSE (CHOOSE p \in seen : TRUE).budget,
     deadline |-> Deadline(r, h, UNION {p.deadline : p \in seen}),
     feeRate |-> FeeRate(r),
     immediate |-> Immediate(r)]

\* Faulty: a new input keeps the budget of its request.
WithBudgetAsAsked(params) == params

WithBudget(params) ==
    IF params.budget = 0 THEN [params EXCEPT !.budget = DefaultBudget] ELSE params

-----------------------------------------------------------------------------
(* The wallet *)

InWallet == {o \in Outs : utxo[o] \in {"unconfirmed", "confirmed"}}

\* ConfirmedBalance with zero confirmations: unconfirmed funds count.
WalletBalance == Value * Cardinality(InWallet) + change

RequiredReserve == ReservePerChan * anchors

-----------------------------------------------------------------------------
(* State *)

Params == [budget: Int, deadline: SUBSET ((-Half) .. (Half - 1)),
           feeRate: SUBSET Nat, immediate: BOOLEAN]

NoParams == [budget |-> 0, deadline |-> {}, feeRate |-> {}, immediate |-> FALSE]

Idle == [stage |-> "idle", req |-> {}, out |-> {}, amount |-> 0, height |-> 0,
         params |-> NoParams, balance |-> 0, raced |-> FALSE]

\* What the sweeper chose itself for the outputs of a force close.
SweeperParams == [NoParams EXCEPT !.budget = DefaultBudget]

Init ==
    /\ height = 1
    /\ utxo = [o \in Outs |-> IF o \in WalletOuts THEN "unconfirmed" ELSE "foreign"]
    /\ change = 0
    /\ anchors = 0
    /\ pending = [o \in Outs |-> IF o \in WalletOuts THEN {} ELSE {SweeperParams}]
    /\ call = [c \in Clients |-> Idle]
    /\ answer = [c \in Clients |-> "none"]
    /\ calls = 0

Start(c, new) ==
    /\ call[c].stage = "idle" /\ calls < MaxCalls
    /\ calls' = calls + 1
    /\ call' = [call EXCEPT ![c] = new]

Goto(c, new) ==
    /\ call' = [call EXCEPT ![c] = new]
    /\ UNCHANGED calls

\* What c's handler has read and still relies on.
ReadBy(c) ==
    CASE call[c].stage \in {"update", "fetch"} -> {"pending"} \X call[c].out
      [] call[c].stage = "offer"   -> {"pending", "utxo"} \X call[c].out
      [] call[c].stage = "remove"  -> {"utxo"} \X call[c].out
      [] call[c].stage = "reserve" -> {"utxo"} \X WalletOuts
      [] call[c].stage = "send"    -> {"utxo", "anchors"} \X WalletOuts
      [] OTHER -> {}

\* Handlers that have read something of ws, which this step writes, go on
\* with an old value: raced is a history variable and no guard reads it.
Overtaken(ws) ==
    [c \in Clients |-> [call[c] EXCEPT !.raced = @ \/ ReadBy(c) \cap ws # {}]]

\* The handler of c returns a after writing ws.
ReturnAfterWrite(c, a, ws) ==
    /\ call' = [Overtaken(ws) EXCEPT ![c] = Idle]
    /\ answer' = [answer EXCEPT ![c] = a]
    /\ UNCHANGED calls

Return(c, a) == ReturnAfterWrite(c, a, {})

-----------------------------------------------------------------------------
(* BumpFee *)

\* The outpoint is parsed and the height is read.
BumpFee(c) ==
    /\ \E r \in BumpRequests :
          Start(c, [Idle EXCEPT !.stage = "prepare", !.req = {r},
                                !.out = {r.out}, !.height = height])
    /\ UNCHANGED <<height, utxo, change, anchors, pending, answer>>

RequestOf(c) == CHOOSE r \in call[c].req : TRUE

\* The request is validated, the sweeper's inputs are read and the
\* parameters are computed from what they show.  The sweeper refuses every
\* call while it shuts down, here and below.
PrepareSweepParams(c) ==
    LET r == RequestOf(c) IN
    /\ call[c].stage = "prepare"
    /\ \/ /\ ValidBumpFeeRequest(r)
          /\ Goto(c, [call[c] EXCEPT
                         !.stage = IF pending[r.out] # {} THEN "update" ELSE "fetch",
                         !.params = SweepParams(r, call[c].height, pending[r.out])])
          /\ UNCHANGED answer
       \/ Return(c, "error")
    /\ UNCHANGED <<height, utxo, change, anchors, pending>>

\* The sweeper's UpdateParams: the input must still be pending.
UpdateParams(c) ==
    LET r == RequestOf(c) IN
    /\ call[c].stage = "update"
    /\ \/ /\ pending[r.out] # {}
          /\ pending' = [pending EXCEPT ![r.out] = {call[c].params}]
          /\ ReturnAfterWrite(c, "rbf", {<<"pending", r.out>>})
       \/ Return(c, "error") /\ UNCHANGED pending
    /\ UNCHANGED <<height, utxo, change, anchors>>

\* Faulty: the confirmations are not looked at.
FetchInputInfoAnyConfs(c) ==
    /\ call[c].stage = "fetch"
    /\ utxo[RequestOf(c).out] \in {"unconfirmed", "confirmed"}
    /\ Goto(c, [call[c] EXCEPT !.stage = "offer", !.params = WithBudget(@)])
    /\ UNCHANGED <<height, utxo, change, anchors, pending, answer>>

\* sweepNewInput: the output must be the wallet's and unconfirmed, and gets
\* the default budget if the request names none.
FetchInputInfo(c) ==
    LET r == RequestOf(c) IN
    /\ call[c].stage = "fetch"
    /\ \/ /\ utxo[r.out] = "unconfirmed"
          /\ Goto(c, [call[c] EXCEPT !.stage = "offer", !.params = WithBudget(@)])
          /\ UNCHANGED answer
       \/ /\ utxo[r.out] # "unconfirmed"
          /\ Return(c, "error")
    /\ UNCHANGED <<height, utxo, change, anchors, pending>>

\* The sweeper's SweepInput; for an input that is pending by now it replaces
\* the parameters.
SweepInput(c) ==
    LET r == RequestOf(c) IN
    /\ call[c].stage = "offer"
    /\ \/ /\ pending' = [pending EXCEPT ![r.out] = {call[c].params}]
          /\ ReturnAfterWrite(c, "cpfp", {<<"pending", r.out>>})
       \/ Return(c, "error") /\ UNCHANGED pending
    /\ UNCHANGED <<height, utxo, change, anchors>>

-----------------------------------------------------------------------------
(* SendOutputs *)

\* A request without outputs is refused; then the balance is read.
SendOutputs(c) ==
    /\ \E a \in Amounts :
          Start(c, [Idle EXCEPT !.stage = "reserve", !.amount = a,
                                !.balance = WalletBalance])
    /\ UNCHANGED <<height, utxo, change, anchors, pending, answer>>

\* Faulty: the outputs are forgotten.
CoversReserveBefore(balance, amount) == balance >= RequiredReserve

\* The balance that was read, less the outputs, must cover the reserve.
CoversReserve(balance, amount) == balance - amount >= RequiredReserve

CheckReserve(c) ==
    /\ call[c].stage = "reserve"
    /\ \/ /\ CoversReserve(call[c].balance, call[c].amount)
          /\ Goto(c, [call[c] EXCEPT !.stage = "send"])
          /\ UNCHANGED answer
       \/ /\ ~ CoversReserve(call[c].balance, call[c].amount)
          /\ Return(c, "error")
    /\ UNCHANGED <<height, utxo, change, anchors, pending>>

\* The wallet selects coins for the outputs and the fee, and their change stays
\* in the wallet; or it refuses, for want of coins with enough confirmations or
\* because the label or the selection strategy of the request is invalid.
WalletSend(c) ==
    LET Enough(s) == Value * Cardinality(s) >= call[c].amount + Fee IN
    /\ call[c].stage = "send"
    /\ \/ \E s \in SUBSET InWallet :
             /\ Enough(s) /\ \A o \in s : ~ Enough(s \ {o})
             /\ utxo' = [o \in Outs |-> IF o \in s THEN "spent" ELSE utxo[o]]
             /\ change' = change + Value * Cardinality(s) - call[c].amount - Fee
             /\ ReturnAfterWrite(c, "sent", {"utxo"} \X s)
       \/ Return(c, "error") /\ UNCHANGED <<utxo, change>>
    /\ UNCHANGED <<height, anchors, pending>>

-----------------------------------------------------------------------------
(* RemoveTransaction *)

\* The transaction of output o is looked up and must have no confirmations.
RemoveTransaction(c) ==
    /\ \E o \in WalletOuts :
          /\ utxo[o] = "unconfirmed"
          /\ Start(c, [Idle EXCEPT !.stage = "remove", !.out = {o}])
    /\ UNCHANGED <<height, utxo, change, anchors, pending, answer>>

\* The wallet drops it and its descendants.
RemoveDescendants(c) ==
    /\ call[c].stage = "remove"
    /\ utxo' = [o \in Outs |-> IF o \in call[c].out THEN "removed" ELSE utxo[o]]
    /\ ReturnAfterWrite(c, "removed", {"utxo"} \X call[c].out)
    /\ UNCHANGED <<height, change, anchors, pending>>

-----------------------------------------------------------------------------
(* The rest of lnd *)

\* A block confirms some transactions of the wallet and some that spend
\* inputs of the sweeper.
Block ==
    /\ height < MaxHeight
    /\ height' = height + 1
    /\ \E confirmed \in SUBSET {o \in Outs : utxo[o] = "unconfirmed"},
          swept \in SUBSET {o \in Outs : pending[o] # {}} :
          /\ utxo' = [o \in Outs |-> IF o \in swept THEN "spent"
                                     ELSE IF o \in confirmed THEN "confirmed"
                                     ELSE utxo[o]]
          /\ pending' = [o \in Outs |-> IF o \in swept THEN {} ELSE pending[o]]
          /\ call' = Overtaken(({"utxo"} \X (confirmed \cup swept))
                                   \cup ({"pending"} \X swept))
    /\ UNCHANGED <<change, anchors, answer, calls>>

ChannelOpens ==
    /\ anchors < MaxAnchors
    /\ anchors' = anchors + 1
    /\ call' = Overtaken({"anchors"} \X WalletOuts)
    /\ UNCHANGED <<height, utxo, change, pending, answer, calls>>

Next ==
    \/ \E c \in Clients :
          \/ BumpFee(c) \/ PrepareSweepParams(c) \/ UpdateParams(c)
          \/ FetchInputInfo(c) \/ SweepInput(c)
          \/ SendOutputs(c) \/ CheckReserve(c) \/ WalletSend(c)
          \/ RemoveTransaction(c) \/ RemoveDescendants(c)
    \/ Block
    \/ ChannelOpens

Spec == Init /\ [][Next]_vars

-----------------------------------------------------------------------------
(* Properties *)

\* A budget is positive, or it is what a request for this very output asked for,
\* a number that does not fit an amount and has become negative.
BudgetExplained(o, b) ==
    b > 0 \/ (b < 0 /\ \E r \in BumpRequests :
                           r.out = o /\ r.budget >= HalfAmt /\ b = Amount(r.budget))

\* Whatever calls interleave, no input of the sweeper has a zero budget: a new
\* input whose request names no budget gets the default one before it is offered,
\* and no budget is negative that was not asked for as one too large.
BudgetNeverZero ==
    \A o \in Outs : \A p \in pending[o] : BudgetExplained(o, p.budget)

\* What prepareSweepParams says of the budget of an input that is there: "this
\* value must be greater than zero".
BudgetPositive ==
    \A o \in Outs : \A p \in pending[o] : p.budget > 0

\* Types, and no zero budget.
TypeOK ==
    /\ height \in 1 .. MaxHeight
    /\ utxo \in [Outs -> {"unconfirmed", "confirmed", "spent", "removed", "foreign"}]
    /\ change \in Nat /\ anchors \in 0 .. MaxAnchors /\ calls \in 0 .. MaxCalls
    /\ \A o \in Outs : pending[o] \subseteq Params /\ Cardinality(pending[o]) <= 1
    /\ \A c \in Clients :
          /\ call[c].stage \in {"idle", "prepare", "update", "fetch", "offer",
                               "reserve", "send", "remove"}
          /\ call[c].req \subseteq BumpRequests /\ call[c].out \subseteq Outs
          /\ call[c].params \in Params /\ call[c].height \in 0 .. MaxHeight
          /\ {call[c].amount, call[c].balance} \subseteq Nat
          /\ call[c].raced \in BOOLEAN
    /\ answer \in [Clients -> {"none", "error", "rbf", "cpfp", "sent", "removed"}]
    /\ BudgetNeverZero

\* A BumpFee that names no budget changes the budget of a pending input only if
\* another call wrote that input, or a block took it, after it was read.
UnaskedBudgetNeedsRace ==
    [][\A c \in Clients : \A r \in call[c].req :
          r.budget = 0 /\ call'[c].stage = "idle" /\ ~ call[c].raced =>
              \A p \in pending[r.out], q \in pending'[r.out] : p.budget = q.budget]_vars

\* What the documentation of BumpFeeRequest.budget says of the program: "for
\* existing inputs, their current budgets will be retained".
BudgetRetained ==
    [][\A c \in Clients : \A r \in call[c].req :
          r.budget = 0 /\ call'[c].stage = "idle" =>
              \A p \in pending[r.out], q \in pending'[r.out] : p.budget = q.budget]_vars

\* A deadline that has passed when the sweeper gets it comes from as many blocks
\* between the reading of the height and the write as the target has, or from a
\* target that does not fit the height's integer: the height of the request is
\* old by the time it is used, but never older than the call.
PastDeadlineExplained(c) ==
    \A r \in call[c].req :
        pending'[r.out] # pending[r.out] /\ call'[c].stage = "idle" /\ r.targetConf # 0 =>
            \A p \in pending'[r.out] : \A d \in p.deadline :
                \/ d > height
                \/ r.targetConf + call[c].height >= Half
                \/ height - call[c].height >= r.targetConf

\* An output is offered to the sweeper as new, and a transaction is removed from
\* the wallet, only while it is unconfirmed (and not pending), or what the call
\* found out about it changed under it: each check comes before its write.
StaleWriteNeedsRace(c) ==
    \A o \in call[c].out :
        /\ call[c].stage = "offer" /\ call'[c].stage = "idle" =>
              call[c].raced \/ (pending[o] = {} /\ utxo[o] = "unconfirmed")
        /\ call[c].stage = "remove" /\ call'[c].stage = "idle" =>
              call[c].raced \/ utxo[o] = "unconfirmed"

\* A SendOutputs that nobody overtakes leaves the anchor reserve in the wallet
\* but for the fee of its transaction, which the check does not count.
ReserveKeptUpToFee(c) ==
    utxo' # utxo /\ call[c].stage = "send" /\ call'[c].stage = "idle" =>
        call[c].raced \/ WalletBalance' + Fee >= RequiredReserve

\* What a call has read holds when it acts on it, or somebody overtook the call.
StaleReadsExplained ==
    [][\A c \in Clients :
          PastDeadlineExplained(c) /\ StaleWriteNeedsRace(c) /\ ReserveKeptUpToFee(c)]_vars
=============================================================================
