-------------------------- MODULE WalletSweeps_proofs --------------------------
(***************************************************************************)
(* Proofs about WalletSweeps, for any outputs, requests, clients and        *)
(* amounts: types with BudgetNeverZero, when a BumpFee that names no budget *)
(* changes one, and what a stale read can do.                               *)
(***************************************************************************)
EXTENDS WalletSweeps, FiniteSetTheorems, TLAPS

-----------------------------------------------------------------------------
(* Parameters *)

LEMMA SignedRange ==
    ASSUME NEW x \in Int, NEW half \in Nat \ {0}
    PROVE  Signed(x, half) \in (-half) .. (half - 1)
<1>1. (x + half) % (2 * half) \in 0 .. (2 * half) - 1
  <2>1. \A a \in Int, b \in Nat : b > 0 => a % b \in 0 .. b - 1
    OBVIOUS
  <2>2. x + half \in Int /\ 2 * half \in Nat /\ 2 * half > 0
    OBVIOUS
  <2> QED BY <2>1, <2>2
<1> QED BY <1>1 DEF Signed

\* What fits stays as it is.
LEMMA SignedSame ==
    ASSUME NEW half \in Nat \ {0}, NEW x \in 0 .. half - 1
    PROVE  Signed(x, half) = x
<1>1. \A a \in Nat, b \in Nat : a < b => a % b = a
  OBVIOUS
<1>2. (x + half) % (2 * half) = x + half
  <2>1. x + half \in Nat /\ 2 * half \in Nat /\ x + half < 2 * half
    OBVIOUS
  <2> QED BY <1>1, <2>1
<1> QED BY <1>2 DEF Signed

\* What does not fit becomes negative.
LEMMA SignedNegative ==
    ASSUME NEW half \in Nat \ {0}, NEW x \in half .. 2 * half - 1
    PROVE  Signed(x, half) < 0
<1>1. \A a \in Nat, b \in Nat : b > 0 /\ b <= a /\ a < 2 * b => a % b = a - b
  OBVIOUS
<1>2. (x + half) % (2 * half) = (x + half) - 2 * half
  <2>1. /\ x + half \in Nat /\ 2 * half \in Nat /\ 2 * half > 0
        /\ 2 * half <= x + half /\ x + half < 2 * (2 * half)
    OBVIOUS
  <2> QED BY <1>1, <2>1
<1> QED BY <1>2 DEF Signed

LEMMA Int32Range ==
    ASSUME NEW x \in Int
    PROVE  Int32(x) \in (-Half) .. (Half - 1)
<1>1. Half \in Nat \ {0}
  BY BoundsAssumption DEF BoundsAssumption
<1> QED BY <1>1, SignedRange DEF Int32

\* The budget of a request is zero only if it names none.
LEMMA AmountOfRequest ==
    ASSUME NEW r \in BumpRequests
    PROVE  /\ Amount(r.budget) \in Int
           /\ r.budget = 0 => Amount(r.budget) = 0
           /\ r.budget # 0 => BudgetExplained(r.out, Amount(r.budget))
<1>1. HalfAmt \in Nat \ {0} /\ r.budget \in 0 .. 2 * HalfAmt - 1
  BY BoundsAssumption, RequestAssumption DEF BoundsAssumption, RequestAssumption
<1>2. Amount(r.budget) \in Int
  <2>1. Signed(r.budget, HalfAmt) \in (-HalfAmt) .. (HalfAmt - 1)
    BY <1>1, SignedRange
  <2> QED BY <1>1, <2>1 DEF Amount
<1>3. CASE r.budget < HalfAmt
  <2>1. Amount(r.budget) = r.budget
    BY <1>1, <1>3, SignedSame DEF Amount
  <2> QED BY <1>1, <1>2, <2>1 DEF BudgetExplained
<1>4. CASE ~ (r.budget < HalfAmt)
  <2>1. r.budget \in HalfAmt .. 2 * HalfAmt - 1 /\ r.budget >= HalfAmt
    BY <1>1, <1>4
  <2>2. Amount(r.budget) < 0
    BY <1>1, <2>1, SignedNegative DEF Amount
  <2>3. r.budget # 0
    BY <1>1, <2>1
  <2> QED BY <1>2, <2>1, <2>2, <2>3 DEF BudgetExplained
<1> QED BY <1>3, <1>4

LEMMA DefaultBudgetPositive == DefaultBudget \in Nat /\ DefaultBudget > 0
  BY BoundsAssumption DEF DefaultBudget, BoundsAssumption

\* What the sweeper's inputs may show of output o: nothing, or parameters with a
\* budget.
Seen(o) == {{}} \cup {{p} : p \in {q \in Params : BudgetExplained(o, q.budget)}}

LEMMA ChosenOfOne == ASSUME NEW S, NEW x, S = {x} PROVE (CHOOSE y \in S : TRUE) = x
  OBVIOUS

\* The parameters are of their type; they have a budget unless the input was not
\* seen, and keep the one that was seen when the request names none.
LEMMA SweepParamsType ==
    ASSUME NEW r \in BumpRequests, NEW h \in 0 .. MaxHeight, NEW seen \in Seen(r.out)
    PROVE  /\ SweepParams(r, h, seen) \in Params
           /\ seen # {} => BudgetExplained(r.out, SweepParams(r, h, seen).budget)
           /\ seen = {} => \/ SweepParams(r, h, seen).budget = 0
                           \/ BudgetExplained(r.out, SweepParams(r, h, seen).budget)
           /\ r.budget = 0 => \A p \in seen : p.budget = SweepParams(r, h, seen).budget
<1>1. /\ r.targetConf \in 0 .. 2 * Half - 1
      /\ r.satPerByte \in Nat /\ r.satPerVbyte \in Nat
      /\ r.force \in BOOLEAN /\ r.immediate \in BOOLEAN
  BY RequestAssumption DEF RequestAssumption
<1>2. UNION {p.deadline : p \in seen} \in SUBSET ((-Half) .. (Half - 1))
  BY DEF Seen, Params
<1>3. Deadline(r, h, UNION {p.deadline : p \in seen}) \in SUBSET ((-Half) .. (Half - 1))
  <2>1. r.targetConf \in Int /\ h \in Int
    BY <1>1, BoundsAssumption DEF BoundsAssumption
  <2>2. Int32(r.targetConf) \in Int
    BY <2>1, Int32Range, BoundsAssumption DEF BoundsAssumption
  <2>3. Int32(Int32(r.targetConf) + h) \in (-Half) .. (Half - 1)
    BY <2>1, <2>2, Int32Range
  <2> QED BY <1>2, <2>3 DEF Deadline
<1>4. FeeRate(r) \in SUBSET Nat
  BY <1>1 DEF FeeRate
<1>5. Immediate(r) \in BOOLEAN
  BY <1>1 DEF Immediate
<1> DEFINE budget == IF r.budget # 0 \/ seen = {} THEN Amount(r.budget)
                     ELSE (CHOOSE p \in seen : TRUE).budget
<1>6. /\ budget \in Int
      /\ seen # {} => BudgetExplained(r.out, budget)
      /\ seen = {} => budget = 0 \/ BudgetExplained(r.out, budget)
      /\ r.budget = 0 => \A p \in seen : p.budget = budget
  <2>1. CASE seen = {}
    BY <2>1, AmountOfRequest
  <2>2. CASE seen # {}
    <3>1. PICK p \in Params : BudgetExplained(r.out, p.budget) /\ seen = {p}
      BY <2>2 DEF Seen
    <3>2. (CHOOSE y \in seen : TRUE) = p
      BY <3>1, ChosenOfOne
    <3>3. p.budget \in Int
      BY DEF Params
    <3> QED BY <2>2, <3>1, <3>2, <3>3, AmountOfRequest
  <2> QED BY <2>1, <2>2
<1> HIDE DEF budget
<1>7. SweepParams(r, h, seen) =
        [budget |-> budget, deadline |-> Deadline(r, h, UNION {p.deadline : p \in seen}),
         feeRate |-> FeeRate(r), immediate |-> Immediate(r)]
  BY DEF SweepParams, budget
<1> QED BY <1>3, <1>4, <1>5, <1>6, <1>7 DEF Params

LEMMA WithBudgetType ==
    ASSUME NEW p \in Params, NEW o, p.budget = 0 \/ BudgetExplained(o, p.budget)
    PROVE  WithBudget(p) \in Params /\ BudgetExplained(o, WithBudget(p).budget)
  BY DefaultBudgetPositive DEF WithBudget, Params, BudgetExplained

-----------------------------------------------------------------------------
(* The invariant *)

BumpStages == {"prepare", "update", "fetch", "offer"}

SweepCall ==
    [stage: BumpStages \cup {"idle", "reserve", "send", "remove"},
     req: SUBSET BumpRequests, out: SUBSET Outs, amount: Nat, height: 0 .. MaxHeight,
     params: Params, balance: Nat, raced: BOOLEAN]

\* The call k relies on what it has read: with pend as the sweeper's inputs, a
\* call that nobody has overtaken has read what is there.
CallOK(k, pend) ==
    /\ k \in SweepCall
    /\ k.stage \in BumpStages =>
          \E r \in BumpRequests : k.req = {r} /\ k.out = {r.out}
    /\ k.stage \notin BumpStages => k.req = {}
    /\ \A r \in k.req :
          /\ k.stage \in {"update", "offer"} => BudgetExplained(r.out, k.params.budget)
          /\ k.stage = "fetch" =>
                k.params.budget = 0 \/ BudgetExplained(r.out, k.params.budget)
    /\ ~ k.raced => \A r \in k.req :
          /\ k.stage = "update" /\ r.budget = 0 =>
                \A p \in pend[r.out] : p.budget = k.params.budget
          /\ k.stage \in {"fetch", "offer"} => pend[r.out] = {}

WalletTypes ==
    /\ height \in 1 .. MaxHeight
    /\ utxo \in [Outs -> {"unconfirmed", "confirmed", "spent", "removed", "foreign"}]
    /\ change \in Nat /\ anchors \in 0 .. MaxAnchors /\ calls \in 0 .. MaxCalls
    /\ answer \in [Clients -> {"none", "error", "rbf", "cpfp", "sent", "removed"}]

SweepInv ==
    /\ WalletTypes
    /\ DOMAIN pending = Outs /\ \A o \in Outs : pending[o] \in Seen(o)
    /\ DOMAIN call = Clients
    /\ \A c \in Clients : CallOK(call[c], pending)

LEMMA NoParamsType == NoParams \in Params
  BY DEF NoParams, Params

LEMMA IdleType == Idle \in SweepCall /\ Idle.stage = "idle" /\ Idle.req = {}
  BY NoParamsType, BoundsAssumption DEF Idle, SweepCall, BoundsAssumption

LEMMA IdleOK == ASSUME NEW pend PROVE CallOK(Idle, pend)
  BY IdleType DEF CallOK, BumpStages

\* A handler that something is written under goes on, but knows nothing any more.
LEMMA OvertakenOK ==
    ASSUME SweepInv, NEW c \in Clients, NEW ws, NEW pend,
           \A o \in Outs : pend[o] # pending[o] => <<"pending", o>> \in ws
    PROVE  CallOK(Overtaken(ws)[c], pend)
<1> DEFINE k == call[c]
           b == ReadBy(c) \cap ws # {}
           n == Overtaken(ws)[c]
<1>1. k \in SweepCall /\ CallOK(k, pending)
  BY DEF SweepInv, CallOK
<1>2. n = [k EXCEPT !.raced = @ \/ b]
  BY DEF Overtaken
<1>3. (k.raced \/ b) \in BOOLEAN
  OBVIOUS
<1> HIDE DEF k, b, n
<1>4. /\ n.stage = k.stage /\ n.req = k.req /\ n.out = k.out /\ n.params = k.params
      /\ n.raced = (k.raced \/ b)
      /\ n \in SweepCall
  BY <1>1, <1>2, <1>3 DEF SweepCall
<1>5. ASSUME ~ n.raced, NEW r \in k.req, k.stage \in {"update", "fetch", "offer"}
      PROVE  ~ k.raced /\ pend[r.out] = pending[r.out]
  <2>1. ~ k.raced /\ ~ b
    BY <1>4, <1>5
  <2>2. k.out = {r.out} /\ r.out \in Outs
    BY <1>1, <1>5 DEF CallOK, BumpStages, SweepCall
  <2>3. <<"pending", r.out>> \in ReadBy(c)
    BY <1>5, <2>2 DEF ReadBy, k
  <2>4. <<"pending", r.out>> \notin ws
    BY <2>1, <2>3 DEF b
  <2> QED BY <2>1, <2>2, <2>4
<1>6. ASSUME ~ n.raced, NEW r \in n.req
      PROVE  /\ n.stage = "update" /\ r.budget = 0 =>
                   \A p \in pend[r.out] : p.budget = n.params.budget
             /\ n.stage \in {"fetch", "offer"} => pend[r.out] = {}
  BY <1>1, <1>4, <1>5, <1>6 DEF CallOK
<1>7. /\ n.stage \in BumpStages => \E r \in BumpRequests : n.req = {r} /\ n.out = {r.out}
      /\ n.stage \notin BumpStages => n.req = {}
      /\ \A r \in n.req :
            /\ n.stage \in {"update", "offer"} => BudgetExplained(r.out, n.params.budget)
            /\ n.stage = "fetch" =>
                  n.params.budget = 0 \/ BudgetExplained(r.out, n.params.budget)
  BY <1>1, <1>4 DEF CallOK
<1>8. CallOK(n, pend)
  BY <1>4, <1>6, <1>7 DEF CallOK
<1> QED BY <1>8 DEF n

\* The sweeper's inputs are all that a step may change of what calls have read.
LEMMA OthersOK ==
    ASSUME SweepInv, WalletTypes', NEW c \in Clients, NEW k, NEW ws,
           \/ call' = [call EXCEPT ![c] = k] /\ pending' = pending
           \/ call' = [Overtaken(ws) EXCEPT ![c] = k],
           \A o \in Outs : pending'[o] # pending[o] => <<"pending", o>> \in ws,
           DOMAIN pending' = Outs, \A o \in Outs : pending'[o] \in Seen(o),
           CallOK(k, pending')
    PROVE  SweepInv'
<1>1. DOMAIN call' = Clients
  BY DEF SweepInv, Overtaken
<1>2. call'[c] = k
  BY DEF SweepInv, Overtaken
<1>3. ASSUME NEW d \in Clients \ {c} PROVE CallOK(call'[d], pending')
  <2>1. CASE call' = [call EXCEPT ![c] = k] /\ pending' = pending
    BY <2>1 DEF SweepInv
  <2>2. CASE call' = [Overtaken(ws) EXCEPT ![c] = k]
    <3>1. call'[d] = Overtaken(ws)[d]
      BY <2>2 DEF Overtaken
    <3> QED BY <3>1, OvertakenOK
  <2> QED BY <2>1, <2>2
<1> QED BY <1>1, <1>2, <1>3 DEF SweepInv

-----------------------------------------------------------------------------
(* The steps *)

LEMMA InitSweeps == Init => SweepInv
<1> SUFFICES ASSUME Init PROVE SweepInv
  OBVIOUS
<1>1. WalletTypes
  BY BoundsAssumption DEF Init, WalletTypes, BoundsAssumption
<1>2. SweeperParams \in Params /\ SweeperParams.budget > 0
  <2>1. DefaultBudget \in Int /\ DefaultBudget > 0
    BY DefaultBudgetPositive
  <2> QED BY <2>1, NoParamsType DEF SweeperParams, NoParams, Params
<1>3. DOMAIN pending = Outs /\ \A o \in Outs : pending[o] \in Seen(o)
  BY <1>2 DEF Init, Seen, BudgetExplained
<1> QED BY <1>1, <1>3, IdleOK DEF Init, SweepInv

\* A call that returns without writing.
LEMMA ReturnStep ==
    ASSUME SweepInv, WalletTypes', NEW c \in Clients, NEW a, Return(c, a), pending' = pending
    PROVE  SweepInv'
<1>1. call' = [Overtaken({}) EXCEPT ![c] = Idle]
  BY DEF Return, ReturnAfterWrite
<1> QED BY <1>1, IdleOK, OthersOK DEF SweepInv

\* A call that returns after it has written the parameters of one input.
LEMMA WritePending ==
    ASSUME SweepInv, WalletTypes', NEW c \in Clients, NEW a, NEW o \in Outs, NEW p \in Params,
           BudgetExplained(o, p.budget), pending' = [pending EXCEPT ![o] = {p}],
           ReturnAfterWrite(c, a, {<<"pending", o>>})
    PROVE  SweepInv'
<1>1. call' = [Overtaken({<<"pending", o>>}) EXCEPT ![c] = Idle]
  BY DEF ReturnAfterWrite
<1>2. DOMAIN pending' = Outs /\ \A x \in Outs : pending'[x] \in Seen(x)
  BY DEF SweepInv, Seen
<1>3. \A x \in Outs : pending'[x] # pending[x] => <<"pending", x>> \in {<<"pending", o>>}
  BY DEF SweepInv
<1> QED BY <1>1, <1>2, <1>3, IdleOK, OthersOK

\* What c's call knows of its request.
LEMMA RequestKnown ==
    ASSUME SweepInv, NEW c \in Clients, call[c].stage \in BumpStages
    PROVE  /\ RequestOf(c) \in BumpRequests
           /\ call[c].req = {RequestOf(c)} /\ call[c].out = {RequestOf(c).out}
           /\ RequestOf(c).out \in Outs
<1>1. PICK r \in BumpRequests : call[c].req = {r} /\ call[c].out = {r.out}
  BY DEF SweepInv, CallOK
<1>2. RequestOf(c) = r
  BY <1>1, ChosenOfOne DEF RequestOf
<1>3. r.out \in Outs
  BY RequestAssumption DEF RequestAssumption
<1> QED BY <1>1, <1>2, <1>3

LEMMA BumpFeeStep == ASSUME SweepInv, NEW c \in Clients, BumpFee(c) PROVE SweepInv'
<1>1. PICK r \in BumpRequests :
        Start(c, [Idle EXCEPT !.stage = "prepare", !.req = {r}, !.out = {r.out},
                              !.height = height])
  BY DEF BumpFee
<1> DEFINE k == [Idle EXCEPT !.stage = "prepare", !.req = {r}, !.out = {r.out},
                             !.height = height]
<1>2. height \in 0 .. MaxHeight /\ r.out \in Outs
  BY RequestAssumption, BoundsAssumption
  DEF SweepInv, WalletTypes, RequestAssumption, BoundsAssumption
<1>3. /\ k \in SweepCall
      /\ k.stage = "prepare" /\ k.req = {r} /\ k.out = {r.out} /\ ~ k.raced
  BY <1>2, NoParamsType, BoundsAssumption DEF Idle, SweepCall, BumpStages, BoundsAssumption
<1>4. call' = [call EXCEPT ![c] = k] /\ pending' = pending
  BY <1>1 DEF BumpFee, Start
<1>5. WalletTypes'
  BY <1>1, BoundsAssumption DEF BumpFee, Start, SweepInv, WalletTypes, BoundsAssumption
<1> HIDE DEF k
<1>6. CallOK(k, pending')
  BY <1>3 DEF CallOK, BumpStages
<1> QED BY <1>4, <1>5, <1>6, OthersOK DEF SweepInv

LEMMA PrepareStep == ASSUME SweepInv, NEW c \in Clients, PrepareSweepParams(c) PROVE SweepInv'
<1> DEFINE r == RequestOf(c)
<1>1. WalletTypes' /\ pending' = pending
  BY DEF PrepareSweepParams, Return, ReturnAfterWrite, Goto, SweepInv, WalletTypes
<1>2. CASE Return(c, "error")
  BY <1>1, <1>2, ReturnStep
<1>3. CASE ~ Return(c, "error")
  <2> DEFINE params == SweepParams(r, call[c].height, pending[r.out])
             stage == IF pending[r.out] # {} THEN "update" ELSE "fetch"
             k == [call[c] EXCEPT !.stage = stage, !.params = params]
  <2>1. call[c].stage = "prepare" /\ call' = [call EXCEPT ![c] = k]
    BY <1>3 DEF PrepareSweepParams, Goto
  <2>2. /\ r \in BumpRequests /\ r.out \in Outs
        /\ call[c].req = {r} /\ call[c].out = {r.out}
    BY <2>1, RequestKnown DEF BumpStages
  <2>3. call[c] \in SweepCall /\ pending[r.out] \in Seen(r.out) /\ call[c].height \in 0 .. MaxHeight
    BY <2>2 DEF SweepInv, CallOK, SweepCall
  <2> HIDE DEF r
  <2>4. /\ params \in Params
        /\ pending[r.out] # {} => BudgetExplained(r.out, params.budget)
        /\ pending[r.out] = {} => params.budget = 0 \/ BudgetExplained(r.out, params.budget)
        /\ r.budget = 0 => \A p \in pending[r.out] : p.budget = params.budget
    BY <2>2, <2>3, SweepParamsType
  <2> HIDE DEF params
  <2>5. /\ k \in SweepCall
        /\ k.stage = stage /\ k.params = params /\ k.req = {r} /\ k.out = {r.out}
    BY <2>2, <2>3, <2>4 DEF SweepCall, BumpStages
  <2> HIDE DEF k
  <2>6. CallOK(k, pending')
    BY <1>1, <2>2, <2>4, <2>5 DEF CallOK, BumpStages
  <2> QED BY <1>1, <2>1, <2>6, OthersOK DEF SweepInv
<1> QED BY <1>2, <1>3

LEMMA UpdateStep == ASSUME SweepInv, NEW c \in Clients, UpdateParams(c) PROVE SweepInv'
<1>1. WalletTypes'
  BY DEF UpdateParams, Return, ReturnAfterWrite, SweepInv, WalletTypes
<1>2. CASE Return(c, "error") /\ pending' = pending
  BY <1>1, <1>2, ReturnStep
<1>3. CASE ~ (Return(c, "error") /\ pending' = pending)
  <2>1. /\ call[c].params \in Params /\ RequestOf(c).out \in Outs
        /\ BudgetExplained(RequestOf(c).out, call[c].params.budget)
    BY RequestKnown DEF UpdateParams, SweepInv, CallOK, SweepCall, BumpStages
  <2> QED BY <1>1, <1>3, <2>1, WritePending DEF UpdateParams
<1> QED BY <1>2, <1>3

LEMMA SweepInputStep == ASSUME SweepInv, NEW c \in Clients, SweepInput(c) PROVE SweepInv'
<1>1. WalletTypes'
  BY DEF SweepInput, Return, ReturnAfterWrite, SweepInv, WalletTypes
<1>2. CASE Return(c, "error") /\ pending' = pending
  BY <1>1, <1>2, ReturnStep
<1>3. CASE ~ (Return(c, "error") /\ pending' = pending)
  <2>1. /\ call[c].params \in Params /\ RequestOf(c).out \in Outs
        /\ BudgetExplained(RequestOf(c).out, call[c].params.budget)
    BY RequestKnown DEF SweepInput, SweepInv, CallOK, SweepCall, BumpStages
  <2> QED BY <1>1, <1>3, <2>1, WritePending DEF SweepInput
<1> QED BY <1>2, <1>3

LEMMA FetchStep == ASSUME SweepInv, NEW c \in Clients, FetchInputInfo(c) PROVE SweepInv'
<1>1. WalletTypes' /\ pending' = pending
  BY DEF FetchInputInfo, Return, ReturnAfterWrite, Goto, SweepInv, WalletTypes
<1>2. CASE Return(c, "error")
  BY <1>1, <1>2, ReturnStep
<1>3. CASE ~ Return(c, "error")
  <2> DEFINE params == WithBudget(call[c].params)
             k == [call[c] EXCEPT !.stage = "offer", !.params = params]
  <2>1. call[c].stage = "fetch" /\ call' = [call EXCEPT ![c] = k]
    BY <1>3 DEF FetchInputInfo, Goto
  <2>2. call[c] \in SweepCall /\ CallOK(call[c], pending) /\ call[c].params \in Params
    BY DEF SweepInv, CallOK, SweepCall
  <2>3. params \in Params /\ \A r \in call[c].req : BudgetExplained(r.out, params.budget)
    <3>1. call[c].req = {RequestOf(c)}
      BY <2>1, RequestKnown DEF BumpStages
    <3>2. \/ call[c].params.budget = 0
          \/ BudgetExplained(RequestOf(c).out, call[c].params.budget)
      BY <2>1, <2>2, <3>1 DEF CallOK
    <3> QED BY <2>2, <3>1, <3>2, WithBudgetType
  <2> HIDE DEF params
  <2>4. /\ k \in SweepCall /\ k.stage = "offer" /\ k.params = params
        /\ k.req = call[c].req /\ k.out = call[c].out /\ k.raced = call[c].raced
    BY <2>2, <2>3 DEF SweepCall, BumpStages
  <2> HIDE DEF k
  <2>5. CallOK(k, pending')
    BY <1>1, <2>1, <2>2, <2>3, <2>4 DEF CallOK, BumpStages
  <2> QED BY <1>1, <2>1, <2>5, OthersOK DEF SweepInv
<1> QED BY <1>2, <1>3

LEMMA BalanceType ==
    ASSUME SweepInv, NEW s \in SUBSET Outs
    PROVE  /\ Cardinality(s) \in Nat
           /\ Value * Cardinality(s) \in Nat
           /\ WalletBalance \in Nat
<1>1. IsFiniteSet(Outs) /\ Value \in Nat
  BY BoundsAssumption DEF BoundsAssumption
<1>2. \A n \in Nat : Value * n \in Nat
  BY <1>1
<1>3. Cardinality(s) \in Nat
  BY <1>1, FS_Subset, FS_CardinalityType
<1>4. Cardinality(InWallet) \in Nat
  <2>1. InWallet \subseteq Outs
    BY DEF InWallet
  <2> QED BY <1>1, <2>1, FS_Subset, FS_CardinalityType
<1>5. Value * Cardinality(InWallet) \in Nat
  BY <1>2, <1>4
<1>6. change \in Nat
  BY DEF SweepInv, WalletTypes
<1> QED BY <1>2, <1>3, <1>5, <1>6 DEF WalletBalance

LEMMA SendOutputsStep == ASSUME SweepInv, NEW c \in Clients, SendOutputs(c) PROVE SweepInv'
<1>1. PICK a \in Amounts :
        Start(c, [Idle EXCEPT !.stage = "reserve", !.amount = a, !.balance = WalletBalance])
  BY DEF SendOutputs
<1> DEFINE k == [Idle EXCEPT !.stage = "reserve", !.amount = a, !.balance = WalletBalance]
<1>2. a \in Nat /\ WalletBalance \in Nat
  BY BalanceType, BoundsAssumption DEF BoundsAssumption
<1>3. k \in SweepCall /\ k.stage = "reserve" /\ k.req = {}
  BY <1>2, IdleType DEF SweepCall
<1>4. call' = [call EXCEPT ![c] = k] /\ pending' = pending
  BY <1>1 DEF SendOutputs, Start
<1>5. WalletTypes'
  BY <1>1, BoundsAssumption DEF SendOutputs, Start, SweepInv, WalletTypes, BoundsAssumption
<1> HIDE DEF k
<1>6. CallOK(k, pending')
  BY <1>3 DEF CallOK, BumpStages
<1> QED BY <1>4, <1>5, <1>6, OthersOK DEF SweepInv

LEMMA CheckReserveStep == ASSUME SweepInv, NEW c \in Clients, CheckReserve(c) PROVE SweepInv'
<1>1. WalletTypes' /\ pending' = pending
  BY DEF CheckReserve, Return, ReturnAfterWrite, Goto, SweepInv, WalletTypes
<1>2. CASE Return(c, "error")
  BY <1>1, <1>2, ReturnStep
<1>3. CASE ~ Return(c, "error")
  <2> DEFINE k == [call[c] EXCEPT !.stage = "send"]
  <2>1. call[c].stage = "reserve" /\ call' = [call EXCEPT ![c] = k]
    BY <1>3 DEF CheckReserve, Goto
  <2>2. call[c] \in SweepCall /\ call[c].req = {}
    BY <2>1 DEF SweepInv, CallOK, BumpStages
  <2>3. k \in SweepCall /\ k.stage = "send" /\ k.req = {}
    BY <2>2 DEF SweepCall, BumpStages
  <2> HIDE DEF k
  <2>4. CallOK(k, pending')
    BY <2>3 DEF CallOK, BumpStages
  <2> QED BY <1>1, <2>1, <2>4, OthersOK DEF SweepInv
<1> QED BY <1>2, <1>3

\* A call that returns after it has written the wallet's outputs.
LEMMA WriteWallet ==
    ASSUME SweepInv, WalletTypes', NEW c \in Clients, NEW a, NEW ws, pending' = pending,
           ReturnAfterWrite(c, a, ws)
    PROVE  SweepInv'
<1>1. call' = [Overtaken(ws) EXCEPT ![c] = Idle]
  BY DEF ReturnAfterWrite
<1> QED BY <1>1, IdleOK, OthersOK DEF SweepInv

\* The change of a transaction is what its inputs exceed the outputs and the fee by.
LEMMA WalletSendStep == ASSUME SweepInv, NEW c \in Clients, WalletSend(c) PROVE SweepInv'
<1>1. pending' = pending
  BY DEF WalletSend
<1>2. CASE Return(c, "error") /\ UNCHANGED <<utxo, change>>
  <2>1. WalletTypes'
    BY <1>2 DEF WalletSend, Return, ReturnAfterWrite, SweepInv, WalletTypes
  <2> QED BY <1>1, <1>2, <2>1, ReturnStep
<1>3. ASSUME NEW s \in SUBSET InWallet,
             Value * Cardinality(s) >= call[c].amount + Fee,
             utxo' = [o \in Outs |-> IF o \in s THEN "spent" ELSE utxo[o]],
             change' = change + Value * Cardinality(s) - call[c].amount - Fee,
             ReturnAfterWrite(c, "sent", {"utxo"} \X s)
      PROVE  SweepInv'
  <2>1. s \subseteq Outs
    BY DEF InWallet
  <2>2. Value * Cardinality(s) \in Nat
    BY <2>1, BalanceType
  <2>3. call[c].amount \in Nat /\ Fee \in Nat /\ change \in Nat
    BY BoundsAssumption DEF SweepInv, CallOK, SweepCall, WalletTypes, BoundsAssumption
  <2>4. change' \in Nat
    <3> DEFINE v == Value * Cardinality(s)
    <3> HIDE DEF v
    <3>1. v \in Nat /\ v >= call[c].amount + Fee /\ change' = change + v - call[c].amount - Fee
      BY <1>3, <2>2 DEF v
    <3> QED BY <2>3, <3>1
  <2>5. WalletTypes'
    BY <1>3, <2>4 DEF WalletSend, ReturnAfterWrite, SweepInv, WalletTypes
  <2> QED BY <1>1, <1>3, <2>5, WriteWallet
<1> QED BY <1>2, <1>3 DEF WalletSend

LEMMA RemoveTransactionStep ==
    ASSUME SweepInv, NEW c \in Clients, RemoveTransaction(c) PROVE SweepInv'
<1>1. PICK o \in WalletOuts : Start(c, [Idle EXCEPT !.stage = "remove", !.out = {o}])
  BY DEF RemoveTransaction
<1> DEFINE k == [Idle EXCEPT !.stage = "remove", !.out = {o}]
<1>2. k \in SweepCall /\ k.stage = "remove" /\ k.req = {}
  <2>1. {o} \in SUBSET Outs
    BY DEF Outs
  <2> QED BY <2>1, IdleType DEF SweepCall
<1>3. call' = [call EXCEPT ![c] = k] /\ pending' = pending
  BY <1>1 DEF RemoveTransaction, Start
<1>4. WalletTypes'
  BY <1>1, BoundsAssumption DEF RemoveTransaction, Start, SweepInv, WalletTypes, BoundsAssumption
<1> HIDE DEF k
<1>5. CallOK(k, pending')
  BY <1>2 DEF CallOK, BumpStages
<1> QED BY <1>3, <1>4, <1>5, OthersOK DEF SweepInv

LEMMA RemoveDescendantsStep ==
    ASSUME SweepInv, NEW c \in Clients, RemoveDescendants(c) PROVE SweepInv'
<1>1. WalletTypes' /\ pending' = pending
  BY DEF RemoveDescendants, ReturnAfterWrite, SweepInv, WalletTypes
<1> QED BY <1>1, WriteWallet DEF RemoveDescendants

\* Every call may be overtaken by a block or a new channel.
LEMMA OutsideStep == ASSUME SweepInv, Block \/ ChannelOpens PROVE SweepInv'
<1>1. CASE Block
  <2>1. PICK confirmed \in SUBSET {o \in Outs : utxo[o] = "unconfirmed"},
             swept \in SUBSET {o \in Outs : pending[o] # {}} :
          /\ utxo' = [o \in Outs |-> IF o \in swept THEN "spent"
                                     ELSE IF o \in confirmed THEN "confirmed"
                                     ELSE utxo[o]]
          /\ pending' = [o \in Outs |-> IF o \in swept THEN {} ELSE pending[o]]
          /\ call' = Overtaken(({"utxo"} \X (confirmed \cup swept))
                                   \cup ({"pending"} \X swept))
    BY <1>1 DEF Block
  <2> DEFINE ws == ({"utxo"} \X (confirmed \cup swept)) \cup ({"pending"} \X swept)
  <2>2. WalletTypes'
    BY <1>1, <2>1, BoundsAssumption DEF Block, SweepInv, WalletTypes, BoundsAssumption
  <2>3. DOMAIN pending' = Outs /\ \A o \in Outs : pending'[o] \in Seen(o)
    BY <2>1 DEF SweepInv, Seen
  <2>4. \A o \in Outs : pending'[o] # pending[o] => <<"pending", o>> \in ws
    BY <2>1
  <2>5. call' = Overtaken(ws)
    BY <2>1
  <2> HIDE DEF ws
  <2>6. \A c \in Clients : CallOK(call'[c], pending')
    BY <2>4, <2>5, OvertakenOK
  <2> QED BY <2>2, <2>3, <2>5, <2>6 DEF SweepInv, Overtaken
<1>2. CASE ChannelOpens
  <2>1. WalletTypes' /\ pending' = pending
    BY <1>2, BoundsAssumption DEF ChannelOpens, SweepInv, WalletTypes, BoundsAssumption
  <2>2. call' = Overtaken({"anchors"} \X WalletOuts)
    BY <1>2 DEF ChannelOpens
  <2>3. \A c \in Clients : CallOK(call'[c], pending')
    BY <2>1, <2>2, OvertakenOK
  <2> QED BY <2>1, <2>2, <2>3 DEF SweepInv, Overtaken
<1> QED BY <1>1, <1>2

LEMMA NextSweeps == SweepInv /\ [Next]_vars => SweepInv'
<1>1. SweepInv /\ UNCHANGED vars => SweepInv'
  BY DEF vars, SweepInv, WalletTypes
<1> QED BY <1>1, BumpFeeStep, PrepareStep, UpdateStep, FetchStep, SweepInputStep,
           SendOutputsStep, CheckReserveStep, WalletSendStep, RemoveTransactionStep,
           RemoveDescendantsStep, OutsideStep DEF Next

LEMMA SweepsAlways == Spec => []SweepInv
  BY InitSweeps, NextSweeps, PTL DEF Spec

-----------------------------------------------------------------------------
(* What calls rely on besides the sweeper's inputs *)

\* The wallet never owns an output of a channel.
ForeignInv == \A o \in ForeignOuts : utxo[o] \in {"foreign", "spent"}

\* What call k relies on, with the outputs u, the balance b, the reserve q and
\* the height h: a deadline is the one of the height that was read, and what was
\* read of the wallet is still so unless somebody has overtaken the call.
FreshOK(k, u, b, q, h) ==
    /\ k.height <= h
    /\ k.stage \in {"update", "fetch", "offer"} => \A r \in k.req :
          r.targetConf # 0 => k.params.deadline = {Int32(Int32(r.targetConf) + k.height)}
    /\ k.stage = "remove" => k.out \subseteq WalletOuts
    /\ ~ k.raced =>
          /\ k.stage \in {"offer", "remove"} => \A o \in k.out : u[o] = "unconfirmed"
          /\ k.stage = "reserve" => k.balance = b
          /\ k.stage = "send" /\ WalletOuts # {} => b - k.amount >= q

FreshInv ==
    /\ ForeignInv
    /\ \A c \in Clients : FreshOK(call[c], utxo, WalletBalance, RequiredReserve, height)

LEMMA IdleFresh == ASSUME NEW u, NEW b, NEW q, NEW h \in Nat PROVE FreshOK(Idle, u, b, q, h)
  BY DEF Idle, FreshOK

\* What a step that writes ws, or more, does to the wallet.
Writes(ws) ==
    /\ height' >= height
    /\ \A o \in Outs : utxo'[o] # utxo[o] => <<"utxo", o>> \in ws
    /\ WalletBalance' # WalletBalance => \E o \in WalletOuts : <<"utxo", o>> \in ws
    /\ RequiredReserve' # RequiredReserve => {"anchors"} \X WalletOuts \subseteq ws

LEMMA OvertakenFresh ==
    ASSUME SweepInv, FreshInv, WalletTypes', NEW c \in Clients, NEW ws, Writes(ws)
    PROVE  FreshOK(Overtaken(ws)[c], utxo', WalletBalance', RequiredReserve', height')
<1> DEFINE k == call[c]
           w == ReadBy(c) \cap ws # {}
           n == Overtaken(ws)[c]
<1>1. k \in SweepCall /\ FreshOK(k, utxo, WalletBalance, RequiredReserve, height)
  BY DEF SweepInv, CallOK, FreshInv
<1>2. n = [k EXCEPT !.raced = @ \/ w]
  BY DEF Overtaken
<1>3. (k.raced \/ w) \in BOOLEAN
  OBVIOUS
<1> HIDE DEF k, w, n
<1>4. /\ n.stage = k.stage /\ n.req = k.req /\ n.out = k.out /\ n.params = k.params
      /\ n.height = k.height /\ n.amount = k.amount /\ n.balance = k.balance
      /\ n.raced = (k.raced \/ w)
  BY <1>1, <1>2, <1>3 DEF SweepCall
<1>5. k.height <= height'
  <2>1. k.height \in Int /\ height \in Int /\ height' \in Int
    BY <1>1, BoundsAssumption DEF SweepCall, SweepInv, WalletTypes, BoundsAssumption
  <2> QED BY <1>1, <2>1 DEF FreshOK, Writes
<1>6. ASSUME ~ n.raced, k.stage \in {"offer", "remove"}, NEW o \in k.out
      PROVE  utxo'[o] = "unconfirmed"
  <2>1. ~ k.raced /\ ~ w
    BY <1>4, <1>6
  <2>2. o \in Outs /\ utxo[o] = "unconfirmed"
    BY <1>1, <1>6, <2>1 DEF SweepCall, FreshOK
  <2>3. <<"utxo", o>> \in ReadBy(c)
    BY <1>6 DEF ReadBy, k
  <2> QED BY <2>1, <2>2, <2>3 DEF w, Writes
<1>7. ASSUME ~ n.raced, k.stage \in {"reserve", "send"}
      PROVE  ~ k.raced /\ WalletBalance' = WalletBalance
  <2>1. ~ k.raced /\ ~ w
    BY <1>4, <1>7
  <2>2. \A o \in WalletOuts : <<"utxo", o>> \in ReadBy(c)
    BY <1>7 DEF ReadBy, k
  <2> QED BY <2>1, <2>2 DEF w, Writes
<1>8. ASSUME ~ n.raced, k.stage = "send", WalletOuts # {}
      PROVE  RequiredReserve' = RequiredReserve
  <2>1. ~ w
    BY <1>4, <1>8
  <2>2. PICK o \in WalletOuts : TRUE
    BY <1>8
  <2>3. <<"anchors", o>> \in ReadBy(c) /\ <<"anchors", o>> \in {"anchors"} \X WalletOuts
    BY <1>8 DEF ReadBy, k
  <2> QED BY <2>1, <2>3 DEF w, Writes
<1>9. FreshOK(n, utxo', WalletBalance', RequiredReserve', height')
  BY <1>1, <1>4, <1>5, <1>6, <1>7, <1>8 DEF FreshOK
<1> QED BY <1>9 DEF n

\* The steps of a call: the others' calls go on as they are, or overtaken.
LEMMA OthersFresh ==
    ASSUME SweepInv, FreshInv, WalletTypes', ForeignInv', NEW c \in Clients, NEW k, NEW ws,
           Writes(ws),
           \/ call' = [call EXCEPT ![c] = k] /\ ws = {}
           \/ call' = [Overtaken(ws) EXCEPT ![c] = k],
           FreshOK(k, utxo', WalletBalance', RequiredReserve', height')
    PROVE  FreshInv'
<1>1. call'[c] = k
  BY DEF SweepInv, Overtaken
<1>2. ASSUME NEW d \in Clients \ {c}
      PROVE  FreshOK(call'[d], utxo', WalletBalance', RequiredReserve', height')
  <2>1. CASE call' = [call EXCEPT ![c] = k] /\ ws = {}
    <3>1. call'[d] = call[d]
      BY <2>1 DEF SweepInv
    <3>2. \A o \in Outs : utxo'[o] = utxo[o]
      BY <2>1 DEF Writes
    <3>3. WalletBalance' = WalletBalance
      BY <2>1 DEF Writes
    <3>4. WalletOuts # {} => RequiredReserve' = RequiredReserve
      <4>1. \A o \in WalletOuts : <<"anchors", o>> \in {"anchors"} \X WalletOuts
        OBVIOUS
      <4> QED BY <2>1, <4>1 DEF Writes
    <3>5. call[d].height <= height' /\ call[d].out \subseteq Outs
      <4>1. call[d] \in SweepCall
        BY DEF SweepInv, CallOK
      <4>2. call[d].height \in Int /\ height \in Int /\ height' \in Int
        BY <4>1, BoundsAssumption DEF SweepCall, SweepInv, WalletTypes, BoundsAssumption
      <4>3. call[d].height <= height
        BY DEF FreshInv, FreshOK
      <4> QED BY <4>1, <4>2, <4>3 DEF Writes, SweepCall
    <3>6. FreshOK(call[d], utxo, WalletBalance, RequiredReserve, height)
      BY DEF FreshInv
    <3>7. FreshOK(call[d], utxo', WalletBalance', RequiredReserve', height')
      BY <3>2, <3>3, <3>4, <3>5, <3>6 DEF FreshOK
    <3> QED BY <3>1, <3>7
  <2>2. CASE call' = [Overtaken(ws) EXCEPT ![c] = k]
    <3>1. call'[d] = Overtaken(ws)[d]
      BY <2>2 DEF Overtaken
    <3> QED BY <3>1, OvertakenFresh
  <2> QED BY <2>1, <2>2
<1> QED BY <1>1, <1>2 DEF FreshInv

\* A step that leaves the wallet alone.
LEMMA SameWallet ==
    ASSUME FreshInv, SweepInv, UNCHANGED <<height, utxo, change, anchors>>
    PROVE  /\ Writes({}) /\ ForeignInv' /\ height \in Nat
           /\ WalletBalance' = WalletBalance /\ RequiredReserve' = RequiredReserve
<1>1. height \in Nat
  BY BoundsAssumption DEF SweepInv, WalletTypes, BoundsAssumption
<1>2. WalletBalance' = WalletBalance /\ RequiredReserve' = RequiredReserve
  BY DEF WalletBalance, InWallet, RequiredReserve
<1> QED BY <1>1, <1>2 DEF Writes, FreshInv, ForeignInv

LEMMA BalanceMoves ==
    ASSUME SweepInv, ForeignInv, ForeignInv', change' = change,
           WalletBalance' # WalletBalance
    PROVE  \E o \in WalletOuts : utxo'[o] # utxo[o]
<1>1. InWallet' # InWallet
  BY DEF WalletBalance
<1>2. PICK o \in Outs : ~ (o \in InWallet <=> o \in InWallet')
  BY <1>1 DEF InWallet
<1>3. utxo'[o] # utxo[o] /\ o \notin ForeignOuts
  BY <1>2 DEF InWallet, ForeignInv
<1> QED BY <1>3 DEF Outs

LEMMA InitFresh == Init => FreshInv
<1> SUFFICES ASSUME Init PROVE FreshInv
  OBVIOUS
<1>1. ForeignInv
  BY BoundsAssumption DEF Init, ForeignInv, Outs, BoundsAssumption
<1>2. \A c \in Clients : FreshOK(call[c], utxo, WalletBalance, RequiredReserve, height)
  BY IdleFresh DEF Init
<1> QED BY <1>1, <1>2 DEF FreshInv

\* A call that returns without writing.
LEMMA ReturnFresh ==
    ASSUME SweepInv, FreshInv, WalletTypes', NEW c \in Clients, NEW a, Return(c, a),
           UNCHANGED <<height, utxo, change, anchors>>
    PROVE  FreshInv'
<1>1. call' = [Overtaken({}) EXCEPT ![c] = Idle]
  BY DEF Return, ReturnAfterWrite
<1>2. FreshOK(Idle, utxo', WalletBalance', RequiredReserve', height')
  BY SameWallet, IdleFresh
<1> QED BY <1>1, <1>2, SameWallet, OthersFresh

\* A call that starts or goes on.
LEMMA GoOnFresh ==
    ASSUME SweepInv, FreshInv, WalletTypes', NEW c \in Clients, NEW k,
           call' = [call EXCEPT ![c] = k],
           FreshOK(k, utxo, WalletBalance, RequiredReserve, height),
           UNCHANGED <<height, utxo, change, anchors>>
    PROVE  FreshInv'
<1>1. FreshOK(k, utxo', WalletBalance', RequiredReserve', height')
  BY SameWallet
<1> QED BY <1>1, SameWallet, OthersFresh

LEMMA BumpFeeFresh ==
    ASSUME SweepInv, FreshInv, WalletTypes', NEW c \in Clients, BumpFee(c)
    PROVE  FreshInv'
<1>1. PICK r \in BumpRequests :
        Start(c, [Idle EXCEPT !.stage = "prepare", !.req = {r}, !.out = {r.out},
                              !.height = height])
  BY DEF BumpFee
<1> DEFINE k == [Idle EXCEPT !.stage = "prepare", !.req = {r}, !.out = {r.out},
                             !.height = height]
<1>2. k.stage = "prepare" /\ k.height = height /\ height \in Nat
  BY BoundsAssumption DEF Idle, SweepInv, WalletTypes, BoundsAssumption
<1>3. call' = [call EXCEPT ![c] = k]
  BY <1>1 DEF Start
<1> HIDE DEF k
<1>4. FreshOK(k, utxo, WalletBalance, RequiredReserve, height)
  BY <1>2 DEF FreshOK
<1> QED BY <1>3, <1>4, GoOnFresh DEF BumpFee

LEMMA PrepareFresh ==
    ASSUME SweepInv, FreshInv, WalletTypes', NEW c \in Clients, PrepareSweepParams(c)
    PROVE  FreshInv'
<1>1. CASE Return(c, "error")
  BY <1>1, ReturnFresh DEF PrepareSweepParams
<1>2. CASE ~ Return(c, "error")
  <2> DEFINE r == RequestOf(c)
             params == SweepParams(r, call[c].height, pending[r.out])
             stage == IF pending[r.out] # {} THEN "update" ELSE "fetch"
             k == [call[c] EXCEPT !.stage = stage, !.params = params]
  <2>1. call[c].stage = "prepare" /\ call' = [call EXCEPT ![c] = k]
    BY <1>2 DEF PrepareSweepParams, Goto
  <2>2. call[c].req = {r}
    BY <2>1, RequestKnown DEF BumpStages
  <2>3. r.targetConf # 0 =>
          params.deadline = {Int32(Int32(r.targetConf) + call[c].height)}
    BY DEF SweepParams, Deadline
  <2>4. call[c] \in SweepCall /\ call[c].height <= height
    BY DEF SweepInv, CallOK, FreshInv, FreshOK
  <2> HIDE DEF r, params
  <2>5. /\ k.stage \in {"update", "fetch"} /\ k.params = params /\ k.req = {r}
        /\ k.height = call[c].height
    BY <2>2, <2>4 DEF SweepCall
  <2> HIDE DEF k
  <2>6. FreshOK(k, utxo, WalletBalance, RequiredReserve, height)
    BY <2>3, <2>4, <2>5 DEF FreshOK
  <2> QED BY <2>1, <2>6, GoOnFresh DEF PrepareSweepParams
<1> QED BY <1>1, <1>2

LEMMA FetchFresh ==
    ASSUME SweepInv, FreshInv, WalletTypes', NEW c \in Clients, FetchInputInfo(c)
    PROVE  FreshInv'
<1>1. CASE Return(c, "error")
  BY <1>1, ReturnFresh DEF FetchInputInfo
<1>2. CASE ~ Return(c, "error")
  <2> DEFINE k == [call[c] EXCEPT !.stage = "offer", !.params = WithBudget(@)]
  <2>1. /\ call[c].stage = "fetch" /\ call' = [call EXCEPT ![c] = k]
        /\ utxo[RequestOf(c).out] = "unconfirmed"
    BY <1>2 DEF FetchInputInfo, Goto
  <2>2. call[c].out = {RequestOf(c).out}
    BY <2>1, RequestKnown DEF BumpStages
  <2>3. call[c] \in SweepCall /\ FreshOK(call[c], utxo, WalletBalance, RequiredReserve, height)
    BY DEF SweepInv, CallOK, FreshInv
  <2>4. /\ k.stage = "offer" /\ k.req = call[c].req /\ k.out = call[c].out
        /\ k.height = call[c].height
        /\ k.params.deadline = call[c].params.deadline
    BY <2>3 DEF SweepCall, WithBudget, Params
  <2> HIDE DEF k
  <2>5. FreshOK(k, utxo, WalletBalance, RequiredReserve, height)
    BY <2>1, <2>2, <2>3, <2>4 DEF FreshOK
  <2> QED BY <2>1, <2>5, GoOnFresh DEF FetchInputInfo
<1> QED BY <1>1, <1>2

LEMMA WritePendingFresh ==
    ASSUME SweepInv, FreshInv, WalletTypes', NEW c \in Clients,
           UpdateParams(c) \/ SweepInput(c)
    PROVE  FreshInv'
<1>1. PICK ws : call' = [Overtaken({<<"pending", ws>>}) EXCEPT ![c] = Idle]
                \/ call' = [Overtaken({}) EXCEPT ![c] = Idle]
  BY DEF UpdateParams, SweepInput, Return, ReturnAfterWrite
<1>2. UNCHANGED <<height, utxo, change, anchors>>
  BY DEF UpdateParams, SweepInput
<1>3. FreshOK(Idle, utxo', WalletBalance', RequiredReserve', height')
  BY <1>2, SameWallet, IdleFresh
<1>4. Writes({<<"pending", ws>>}) /\ Writes({})
  BY <1>2, SameWallet DEF Writes
<1> QED BY <1>1, <1>2, <1>3, <1>4, SameWallet, OthersFresh

LEMMA SendOutputsFresh ==
    ASSUME SweepInv, FreshInv, WalletTypes', NEW c \in Clients, SendOutputs(c)
    PROVE  FreshInv'
<1>1. PICK a \in Amounts :
        Start(c, [Idle EXCEPT !.stage = "reserve", !.amount = a, !.balance = WalletBalance])
  BY DEF SendOutputs
<1> DEFINE k == [Idle EXCEPT !.stage = "reserve", !.amount = a, !.balance = WalletBalance]
<1>2. k.stage = "reserve" /\ k.height = 0 /\ k.balance = WalletBalance
  BY DEF Idle
<1>3. call' = [call EXCEPT ![c] = k]
  BY <1>1 DEF Start
<1>4. height \in Nat
  BY BoundsAssumption DEF SweepInv, WalletTypes, BoundsAssumption
<1> HIDE DEF k
<1>5. FreshOK(k, utxo, WalletBalance, RequiredReserve, height)
  BY <1>2, <1>4 DEF FreshOK
<1> QED BY <1>3, <1>5, GoOnFresh DEF SendOutputs

LEMMA CheckReserveFresh ==
    ASSUME SweepInv, FreshInv, WalletTypes', NEW c \in Clients, CheckReserve(c)
    PROVE  FreshInv'
<1>1. CASE Return(c, "error")
  BY <1>1, ReturnFresh DEF CheckReserve
<1>2. CASE ~ Return(c, "error")
  <2> DEFINE k == [call[c] EXCEPT !.stage = "send"]
  <2>1. /\ call[c].stage = "reserve" /\ call' = [call EXCEPT ![c] = k]
        /\ call[c].balance - call[c].amount >= RequiredReserve
    BY <1>2 DEF CheckReserve, Goto, CoversReserve
  <2>2. call[c] \in SweepCall /\ FreshOK(call[c], utxo, WalletBalance, RequiredReserve, height)
    BY DEF SweepInv, CallOK, FreshInv
  <2>3. /\ k.stage = "send" /\ k.height = call[c].height /\ k.raced = call[c].raced
        /\ k.amount = call[c].amount
    BY <2>2 DEF SweepCall
  <2> HIDE DEF k
  <2>4. FreshOK(k, utxo, WalletBalance, RequiredReserve, height)
    BY <2>1, <2>2, <2>3 DEF FreshOK
  <2> QED BY <2>1, <2>4, GoOnFresh DEF CheckReserve
<1> QED BY <1>1, <1>2

LEMMA RemoveTransactionFresh ==
    ASSUME SweepInv, FreshInv, WalletTypes', NEW c \in Clients, RemoveTransaction(c)
    PROVE  FreshInv'
<1>1. PICK o \in WalletOuts :
        /\ utxo[o] = "unconfirmed"
        /\ Start(c, [Idle EXCEPT !.stage = "remove", !.out = {o}])
  BY DEF RemoveTransaction
<1> DEFINE k == [Idle EXCEPT !.stage = "remove", !.out = {o}]
<1>2. k.stage = "remove" /\ k.height = 0 /\ k.out = {o}
  BY DEF Idle
<1>3. call' = [call EXCEPT ![c] = k]
  BY <1>1 DEF Start
<1>4. height \in Nat
  BY BoundsAssumption DEF SweepInv, WalletTypes, BoundsAssumption
<1> HIDE DEF k
<1>5. FreshOK(k, utxo, WalletBalance, RequiredReserve, height)
  BY <1>1, <1>2, <1>4 DEF FreshOK
<1> QED BY <1>3, <1>5, GoOnFresh DEF RemoveTransaction

LEMMA RemoveDescendantsFresh ==
    ASSUME SweepInv, FreshInv, WalletTypes', NEW c \in Clients, RemoveDescendants(c)
    PROVE  FreshInv'
<1> DEFINE ws == {"utxo"} \X call[c].out
<1>1. call[c].out \subseteq WalletOuts
  BY DEF RemoveDescendants, FreshInv, FreshOK
<1>2. /\ utxo' = [o \in Outs |-> IF o \in call[c].out THEN "removed" ELSE utxo[o]]
      /\ UNCHANGED <<height, change, anchors>>
      /\ call' = [Overtaken(ws) EXCEPT ![c] = Idle]
  BY DEF RemoveDescendants, ReturnAfterWrite
<1>3. ForeignInv'
  BY <1>1, <1>2, BoundsAssumption DEF FreshInv, ForeignInv, Outs, BoundsAssumption
<1>4. \A o \in Outs : utxo'[o] # utxo[o] => <<"utxo", o>> \in ws
  BY <1>2
<1>5. height \in Nat /\ height' = height /\ RequiredReserve' = RequiredReserve
  BY <1>2, BoundsAssumption DEF RequiredReserve, SweepInv, WalletTypes, BoundsAssumption
<1>6. WalletBalance' # WalletBalance => \E o \in WalletOuts : <<"utxo", o>> \in ws
  BY <1>2, <1>3, <1>4, BalanceMoves DEF FreshInv, Outs
<1> HIDE DEF ws
<1>7. Writes(ws)
  BY <1>4, <1>5, <1>6 DEF Writes
<1>8. FreshOK(Idle, utxo', WalletBalance', RequiredReserve', height')
  BY <1>5, IdleFresh
<1> QED BY <1>2, <1>3, <1>7, <1>8, OthersFresh

\* Coins that are spent are the wallet's, and without coins nothing is spent.
LEMMA WalletSendFresh ==
    ASSUME SweepInv, FreshInv, WalletTypes', NEW c \in Clients, WalletSend(c)
    PROVE  FreshInv'
<1>1. CASE Return(c, "error") /\ UNCHANGED <<utxo, change>>
  BY <1>1, ReturnFresh DEF WalletSend
<1>2. ASSUME NEW s \in SUBSET InWallet,
             Value * Cardinality(s) >= call[c].amount + Fee,
             utxo' = [o \in Outs |-> IF o \in s THEN "spent" ELSE utxo[o]],
             change' = change + Value * Cardinality(s) - call[c].amount - Fee,
             ReturnAfterWrite(c, "sent", {"utxo"} \X s)
      PROVE  FreshInv'
  <2> DEFINE ws == {"utxo"} \X s
  <2>1. call' = [Overtaken(ws) EXCEPT ![c] = Idle]
    BY <1>2 DEF ReturnAfterWrite
  <2>2. UNCHANGED <<height, anchors>> /\ height \in Nat
    BY BoundsAssumption DEF WalletSend, SweepInv, WalletTypes, BoundsAssumption
  <2>3. s \subseteq Outs /\ \A o \in s : o \in WalletOuts
    BY DEF InWallet, FreshInv, ForeignInv, Outs
  <2>4. ForeignInv'
    BY <1>2 DEF FreshInv, ForeignInv, Outs
  <2>5. \A o \in Outs : utxo'[o] # utxo[o] => <<"utxo", o>> \in ws
    BY <1>2
  <2>6. ASSUME s = {} PROVE WalletBalance' = WalletBalance
    <3>1. Cardinality(s) = 0
      BY <2>6, FS_EmptySet
    <3>2. Value * Cardinality(s) = 0
      BY <3>1, BoundsAssumption DEF BoundsAssumption
    <3>3. change' = change
      BY <1>2, <3>2, BoundsAssumption
      DEF SweepInv, CallOK, SweepCall, WalletTypes, BoundsAssumption
    <3>4. utxo' = utxo
      BY <1>2, <2>6 DEF SweepInv, WalletTypes
    <3> QED BY <3>3, <3>4 DEF WalletBalance, InWallet
  <2>7. WalletBalance' # WalletBalance => \E o \in WalletOuts : <<"utxo", o>> \in ws
    BY <2>3, <2>6
  <2>8. RequiredReserve' = RequiredReserve /\ height' = height
    BY <2>2 DEF RequiredReserve
  <2> HIDE DEF ws
  <2>9. Writes(ws)
    BY <2>2, <2>5, <2>7, <2>8 DEF Writes
  <2>10. FreshOK(Idle, utxo', WalletBalance', RequiredReserve', height')
    BY <2>2, <2>8, IdleFresh
  <2> QED BY <2>1, <2>4, <2>9, <2>10, OthersFresh
<1> QED BY <1>1, <1>2 DEF WalletSend

LEMMA OutsideFresh ==
    ASSUME SweepInv, FreshInv, WalletTypes', Block \/ ChannelOpens
    PROVE  FreshInv'
<1>1. CASE Block
  <2>1. PICK confirmed \in SUBSET {o \in Outs : utxo[o] = "unconfirmed"},
             swept \in SUBSET {o \in Outs : pending[o] # {}} :
          /\ utxo' = [o \in Outs |-> IF o \in swept THEN "spent"
                                     ELSE IF o \in confirmed THEN "confirmed"
                                     ELSE utxo[o]]
          /\ call' = Overtaken(({"utxo"} \X (confirmed \cup swept))
                                   \cup ({"pending"} \X swept))
    BY <1>1 DEF Block
  <2> DEFINE ws == ({"utxo"} \X (confirmed \cup swept)) \cup ({"pending"} \X swept)
  <2>2. UNCHANGED <<change, anchors>> /\ height \in Nat /\ height' = height + 1
    BY <1>1, BoundsAssumption DEF Block, SweepInv, WalletTypes, BoundsAssumption
  <2>3. ForeignInv'
    BY <2>1 DEF FreshInv, ForeignInv, Outs
  <2>4. \A o \in Outs : utxo'[o] # utxo[o] => <<"utxo", o>> \in ws
    BY <2>1
  <2>5. WalletBalance' # WalletBalance => \E o \in WalletOuts : <<"utxo", o>> \in ws
    BY <2>2, <2>3, <2>4, BalanceMoves DEF FreshInv, Outs
  <2>6. call' = Overtaken(ws)
    BY <2>1
  <2> HIDE DEF ws
  <2>7. Writes(ws)
    BY <2>2, <2>4, <2>5 DEF Writes, RequiredReserve
  <2> QED BY <2>3, <2>6, <2>7, OvertakenFresh DEF FreshInv
<1>2. CASE ChannelOpens
  <2> DEFINE ws == {"anchors"} \X WalletOuts
  <2>1. UNCHANGED <<height, utxo, change>> /\ height \in Nat /\ call' = Overtaken(ws)
    BY <1>2, BoundsAssumption DEF ChannelOpens, SweepInv, WalletTypes, BoundsAssumption
  <2>2. WalletBalance' = WalletBalance
    BY <2>1 DEF WalletBalance, InWallet
  <2>3. Writes(ws)
    BY <2>1, <2>2 DEF Writes
  <2>4. ForeignInv'
    BY <2>1 DEF FreshInv, ForeignInv
  <2> HIDE DEF ws
  <2> QED BY <2>1, <2>3, <2>4, OvertakenFresh DEF FreshInv
<1> QED BY <1>1, <1>2

LEMMA NextFresh == SweepInv /\ FreshInv /\ WalletTypes' /\ [Next]_vars => FreshInv'
<1>1. FreshInv /\ UNCHANGED vars => FreshInv'
  BY DEF vars, FreshInv, ForeignInv, WalletBalance, InWallet, RequiredReserve
<1> QED BY <1>1, BumpFeeFresh, PrepareFresh, WritePendingFresh, FetchFresh, SendOutputsFresh,
           CheckReserveFresh, WalletSendFresh, RemoveTransactionFresh, RemoveDescendantsFresh,
           OutsideFresh DEF Next

LEMMA FreshAlways == Spec => []FreshInv
<1>1. SweepInv' => WalletTypes'
  BY DEF SweepInv
<1> QED BY <1>1, InitFresh, NextFresh, SweepsAlways, PTL DEF Spec

-----------------------------------------------------------------------------
(* What a step does to a call *)

\* Who is overtaken does not notice.
LEMMA StageKept ==
    ASSUME SweepInv, NEW c \in Clients, NEW ws
    PROVE  Overtaken(ws)[c].stage = call[c].stage
  BY DEF Overtaken, SweepInv, CallOK, SweepCall

\* A call that bumps an input and returns when the inputs change has written
\* them itself: other steps only overtake it.
LEMMA WhoWrites ==
    ASSUME SweepInv, [Next]_vars, NEW c \in Clients, call[c].stage \in BumpStages,
           call'[c].stage = "idle", pending' # pending
    PROVE  UpdateParams(c) \/ SweepInput(c)
<1> SUFFICES ASSUME ~ (UpdateParams(c) \/ SweepInput(c)) PROVE FALSE
  OBVIOUS
<1>1. \/ \E d \in Clients \ {c} : UpdateParams(d) \/ SweepInput(d)
      \/ Block
  BY DEF Next, vars, BumpFee, PrepareSweepParams, FetchInputInfo, SendOutputs,
         CheckReserve, WalletSend, RemoveTransaction, RemoveDescendants, ChannelOpens
<1>2. \E ws : call'[c] = Overtaken(ws)[c]
  <2>1. ASSUME NEW d \in Clients \ {c}, UpdateParams(d) \/ SweepInput(d)
        PROVE  \E ws : call'[c] = Overtaken(ws)[c]
    BY <2>1 DEF UpdateParams, SweepInput, Return, ReturnAfterWrite, Overtaken
  <2>2. CASE Block
    BY <2>2 DEF Block
  <2> QED BY <1>1, <2>1, <2>2
<1>3. call'[c].stage = call[c].stage
  BY <1>2, StageKept
<1> QED BY <1>3 DEF BumpStages

\* Likewise a call that sends and returns when the wallet's outputs change.
LEMMA WhoSends ==
    ASSUME SweepInv, [Next]_vars, NEW c \in Clients, call[c].stage = "send",
           call'[c].stage = "idle", utxo' # utxo
    PROVE  WalletSend(c)
<1> SUFFICES ASSUME ~ WalletSend(c) PROVE FALSE
  OBVIOUS
<1>1. \/ \E d \in Clients \ {c} : WalletSend(d)
      \/ \E d \in Clients : RemoveDescendants(d)
      \/ Block
  BY DEF Next, vars, BumpFee, PrepareSweepParams, FetchInputInfo, SendOutputs, UpdateParams,
         SweepInput, CheckReserve, RemoveTransaction, ChannelOpens
<1>2. \E ws : call'[c] = Overtaken(ws)[c]
  <2>1. ASSUME NEW d \in Clients \ {c}, WalletSend(d) \/ RemoveDescendants(d)
        PROVE  \E ws : call'[c] = Overtaken(ws)[c]
    <3>1. PICK ws : call' = [Overtaken(ws) EXCEPT ![d] = Idle]
      BY <2>1 DEF WalletSend, RemoveDescendants, Return, ReturnAfterWrite
    <3> QED BY <3>1 DEF Overtaken
  <2>2. CASE Block
    BY <2>2 DEF Block
  <2>3. ~ RemoveDescendants(c)
    BY DEF RemoveDescendants
  <2> QED BY <1>1, <2>1, <2>2, <2>3
<1>3. call'[c].stage = call[c].stage
  BY <1>2, StageKept
<1> QED BY <1>3

\* A target that fits is added to the height as it is.
LEMMA Int32Same == ASSUME NEW x \in 0 .. Half - 1 PROVE Int32(x) = x
  BY SignedSame, BoundsAssumption DEF Int32, BoundsAssumption

LEMMA PastDeadline ==
    ASSUME SweepInv, FreshInv, [Next]_vars, NEW c \in Clients
    PROVE  PastDeadlineExplained(c)
<1> SUFFICES ASSUME NEW r \in call[c].req,
                    pending'[r.out] # pending[r.out], call'[c].stage = "idle",
                    r.targetConf # 0,
                    NEW p \in pending'[r.out], NEW d \in p.deadline
             PROVE  \/ d > height
                    \/ r.targetConf + call[c].height >= Half
                    \/ height - call[c].height >= r.targetConf
  BY DEF PastDeadlineExplained
<1>1. call[c].stage \in BumpStages
  BY DEF SweepInv, CallOK
<1>2. r = RequestOf(c) /\ r.out \in Outs /\ r \in BumpRequests
  BY <1>1, RequestKnown
<1>3. UpdateParams(c) \/ SweepInput(c)
  BY <1>1, WhoWrites
<1>4. pending'[r.out] = {call[c].params} /\ call[c].stage \in {"update", "offer"}
  BY <1>2, <1>3 DEF UpdateParams, SweepInput, SweepInv
<1>5. d = Int32(Int32(r.targetConf) + call[c].height)
  BY <1>4 DEF FreshInv, FreshOK
<1> DEFINE t == r.targetConf
           h == call[c].height
<1>6. t \in Nat /\ h \in Nat /\ height \in Nat /\ Half \in Nat
  <2>1. t \in 0 .. 2 * Half - 1 /\ Half \in Nat
    BY <1>2, RequestAssumption, BoundsAssumption DEF RequestAssumption, BoundsAssumption
  <2>2. h \in 0 .. MaxHeight /\ height \in 1 .. MaxHeight
    BY DEF SweepInv, CallOK, SweepCall, WalletTypes
  <2> HIDE DEF t, h
  <2> QED BY <2>1, <2>2, BoundsAssumption DEF BoundsAssumption
<1> HIDE DEF t, h
<1>7. ASSUME t + h < Half PROVE d = t + h
  <2>1. Int32(t) = t
    BY <1>6, <1>7, Int32Same
  <2>2. Int32(t + h) = t + h
    BY <1>6, <1>7, Int32Same
  <2> QED BY <1>5, <2>1, <2>2 DEF t, h
<1>8. d > height \/ t + h >= Half \/ height - h >= t
  BY <1>6, <1>7
<1> QED BY <1>8 DEF t, h

LEMMA ReserveKept ==
    ASSUME SweepInv, FreshInv, [Next]_vars, NEW c \in Clients
    PROVE  ReserveKeptUpToFee(c)
<1> SUFFICES ASSUME utxo' # utxo, call[c].stage = "send", call'[c].stage = "idle",
                    ~ call[c].raced
             PROVE  WalletBalance' + Fee >= RequiredReserve
  BY DEF ReserveKeptUpToFee
<1>1. WalletSend(c)
  BY WhoSends
<1>2. PICK s \in SUBSET InWallet :
        /\ utxo' = [o \in Outs |-> IF o \in s THEN "spent" ELSE utxo[o]]
        /\ change' = change + Value * Cardinality(s) - call[c].amount - Fee
  BY <1>1 DEF WalletSend
<1>3. WalletOuts # {}
  <2>1. s # {}
    BY <1>2 DEF SweepInv, WalletTypes
  <2> QED BY <2>1 DEF InWallet, FreshInv, ForeignInv, Outs
<1>4. WalletBalance - call[c].amount >= RequiredReserve
  BY <1>3 DEF FreshInv, FreshOK
<1>5. InWallet' = InWallet \ s
  BY <1>2 DEF InWallet
<1>6. IsFiniteSet(InWallet) /\ Value \in Nat /\ Fee \in Nat /\ ReservePerChan \in Nat
  <2>1. InWallet \subseteq Outs
    BY DEF InWallet
  <2> QED BY <2>1, FS_Subset, BoundsAssumption DEF BoundsAssumption
<1> DEFINE m == Cardinality(InWallet)
           n == Cardinality(s)
<1>7. /\ m \in Nat /\ n \in Nat /\ n <= m
      /\ Cardinality(InWallet') = m - n
  <2>1. IsFiniteSet(s) /\ InWallet \cap s = s /\ n <= m
    BY <1>6, FS_Subset
  <2>2. m \in Nat /\ n \in Nat
    BY <1>6, <2>1, FS_CardinalityType
  <2>3. Cardinality(InWallet \ s) = m - Cardinality(InWallet \cap s)
    BY <1>6, FS_Difference
  <2> QED BY <1>5, <2>1, <2>2, <2>3
<1> HIDE DEF m, n
<1>8. Value * (m - n) = Value * m - Value * n /\ Value * m \in Nat /\ Value * n \in Nat
  BY <1>6, <1>7
<1>9. change \in Nat /\ call[c].amount \in Nat /\ RequiredReserve \in Int
  <2>1. anchors \in Int
    BY BoundsAssumption DEF SweepInv, WalletTypes, BoundsAssumption
  <2>2. RequiredReserve \in Int
    BY <1>6, <2>1 DEF RequiredReserve
  <2> QED BY <2>2 DEF SweepInv, CallOK, SweepCall, WalletTypes
<1> DEFINE x == Value * m
           y == Value * n
<1>10. WalletBalance = x + change
  BY DEF WalletBalance, m
<1>11. WalletBalance' = (x - y) + (change + y - call[c].amount - Fee)
  <2>1. WalletBalance' = Value * Cardinality(InWallet') + change'
    BY DEF WalletBalance
  <2> QED BY <1>2, <1>7, <1>8, <2>1 DEF n
<1>12. x \in Nat /\ y \in Nat
  BY <1>8
<1> HIDE DEF x, y
<1> QED BY <1>4, <1>6, <1>9, <1>10, <1>11, <1>12

-----------------------------------------------------------------------------
(* Theorems *)

\* Types, and whatever calls interleave: the budget of an input of the sweeper is
\* not zero, and it is negative only if a request for that input has named one
\* that does not fit an amount.
THEOREM BudgetsExplained == Spec => []TypeOK
<1>1. SweepInv => TypeOK
  <2> SUFFICES ASSUME SweepInv PROVE TypeOK
    OBVIOUS
  <2>1. ASSUME NEW o \in Outs PROVE pending[o] \subseteq Params /\ Cardinality(pending[o]) <= 1
    <3>1. CASE pending[o] = {}
      BY <3>1, FS_EmptySet
    <3>2. CASE pending[o] # {}
      <4>1. PICK p \in Params : pending[o] = {p}
        BY <3>2 DEF SweepInv, Seen
      <4> QED BY <4>1, FS_Singleton
    <3> QED BY <3>1, <3>2
  <2>2. BudgetNeverZero
    BY DEF BudgetNeverZero, SweepInv, Seen
  <2>3. ASSUME NEW c \in Clients
        PROVE  /\ call[c].stage \in {"idle", "prepare", "update", "fetch", "offer",
                                     "reserve", "send", "remove"}
               /\ call[c].req \subseteq BumpRequests /\ call[c].out \subseteq Outs
               /\ call[c].params \in Params /\ call[c].height \in 0 .. MaxHeight
               /\ {call[c].amount, call[c].balance} \subseteq Nat
               /\ call[c].raced \in BOOLEAN
    BY DEF SweepInv, CallOK, SweepCall, BumpStages
  <2> QED BY <2>1, <2>2, <2>3 DEF TypeOK, SweepInv, WalletTypes
<1> QED BY <1>1, SweepsAlways, PTL

\* A BumpFee that names no budget keeps the input's, unless it was overtaken.
THEOREM BudgetsKept == Spec => UnaskedBudgetNeedsRace
<1> DEFINE Kept ==
      \A c \in Clients : \A r \in call[c].req :
          r.budget = 0 /\ call'[c].stage = "idle" /\ ~ call[c].raced =>
              \A p \in pending[r.out], q \in pending'[r.out] : p.budget = q.budget
<1>1. SweepInv /\ [Next]_vars => Kept
  <2> SUFFICES ASSUME SweepInv, [Next]_vars, NEW c \in Clients, NEW r \in call[c].req,
                      r.budget = 0, call'[c].stage = "idle", ~ call[c].raced,
                      NEW p \in pending[r.out], NEW q \in pending'[r.out]
               PROVE  p.budget = q.budget
    OBVIOUS
  <2>1. /\ call[c].stage \in BumpStages /\ r = RequestOf(c) /\ r.out \in Outs
        /\ DOMAIN call = Clients
    <3>1. call[c].stage \in BumpStages
      BY DEF SweepInv, CallOK
    <3> QED BY <3>1, RequestKnown DEF SweepInv
  <2>2. CASE pending' = pending
    BY <2>1, <2>2 DEF SweepInv, Seen
  <2>3. CASE pending' # pending
    <3>1. CASE UpdateParams(c)
      <4>1. pending'[r.out] = {call[c].params}
        BY <2>1, <2>3, <3>1 DEF UpdateParams, SweepInv
      <4>2. p.budget = call[c].params.budget
        BY <3>1 DEF UpdateParams, SweepInv, CallOK
      <4> QED BY <4>1, <4>2
    <3>2. CASE SweepInput(c)
      BY <3>2 DEF SweepInput, SweepInv, CallOK
    <3> QED BY <2>1, <2>3, <3>1, <3>2, WhoWrites
  <2> QED BY <2>2, <2>3
<1> QED BY <1>1, SweepsAlways, PTL DEF Spec, UnaskedBudgetNeedsRace

\* A deadline in the past, an offer of an output that is not unconfirmed, the
\* removal of a transaction that is confirmed, and a reserve that is spent each
\* need blocks in between, or another call that overtook this one.
THEOREM StaleReads == Spec => StaleReadsExplained
<1> DEFINE Explained == \A c \in Clients :
             PastDeadlineExplained(c) /\ StaleWriteNeedsRace(c) /\ ReserveKeptUpToFee(c)
<1>1. SweepInv /\ FreshInv => \A c \in Clients : StaleWriteNeedsRace(c)
  BY DEF SweepInv, FreshInv, CallOK, FreshOK, BumpStages, StaleWriteNeedsRace
<1>2. SweepInv /\ FreshInv /\ [Next]_vars => [Explained]_vars
  BY <1>1, PastDeadline, ReserveKept
<1> QED BY <1>2, SweepsAlways, FreshAlways, PTL DEF Spec, StaleReadsExplained
=============================================================================
