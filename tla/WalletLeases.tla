---------------------------- MODULE WalletLeases ----------------------------
(***************************************************************************)
(* Coin leases of the wallet kit sub-server: LeaseOutput, ReleaseOutput    *)
(* and the two funding modes of FundPsbt.                                  *)
(*                                                                         *)
(* Every RPC runs in its own goroutine. The global coin selection lock     *)
(* serialises them, but not with the world: leases expire, outputs are     *)
(* spent and confirmed at any time. The "old" mode (fundPsbtInternalWallet)*)
(* does everything under one acquisition of the lock; the coin-select mode *)
(* takes it twice, and not at all when the template pays for itself.       *)
(*                                                                         *)
(* All funding calls lease with the same static LndInternalLockID. The     *)
(* wallet (btcwallet) is outside this repository: a lease is refused when  *)
(* another ID has the output or the output is not a known unspent one; a   *)
(* release needs the ID of the lease; listing leaves leased outputs out.   *)
(*                                                                         *)
(* Amounts and fees are abstract: whether the selected or given inputs are *)
(* enough is a choice. Inputs that belong to other wallets are left out.   *)
(***************************************************************************)
EXTENDS Naturals, FiniteSets

CONSTANTS
  Clients,         \* callers, each with a lock ID of its own
  Coins,           \* outputs of the wallet
  SweeperCoins,    \* those for which Sweeper.IsSweeperOutpoint holds
  Internal,        \* LndInternalLockID
  NoLease,
  NoClient,
  LateRelease      \* clients may release a lock that has already run out

ASSUME LeaseAssumption ==
  /\ SweeperCoins \subseteq Coins
  /\ Internal \notin Clients /\ NoLease \notin Clients \cup {Internal}
  /\ NoClient \notin Clients
  /\ LateRelease \in BOOLEAN

VARIABLES
  lease,       \* lock ID under which the wallet has each output
  unspent,     \* outputs that are still unspent
  confirmed,   \* outputs with at least one confirmation
  coinLock,    \* who is inside WithCoinSelectLock
  pc,          \* where each client's FundPsbt call is
  mode,        \* which funding mode it uses
  minConfs,    \* its minimum number of confirmations, 0 or 1
  template,    \* inputs the caller specified
  toLock,      \* outpoints lockInputs has still to lease
  locked,      \* outpoints it has leased: LockedUtxos of the response
  promise      \* history: coins the client was given and has not given up

walletVars == <<lease, unspent, confirmed>>
callVars == <<pc, mode, minConfs, template, toLock, locked>>
vars == <<walletVars, coinLock, callVars, promise>>

-----------------------------------------------------------------------------
Init ==
  /\ lease = [c \in Coins |-> NoLease]
  /\ unspent = Coins
  /\ confirmed \in {Coins, Coins \ SweeperCoins}
  /\ coinLock = NoClient
  /\ pc = [p \in Clients |-> "idle"]
  /\ mode \in [Clients -> {"internal"}]
  /\ minConfs = [p \in Clients |-> 0]
  /\ template = [p \in Clients |-> {}]
  /\ toLock = [p \in Clients |-> {}]
  /\ locked = [p \in Clients |-> {}]
  /\ promise = [p \in Clients |-> {}]

\* ListUnspentWitness(minConfs, ...)
Available(m) ==
  {c \in unspent : lease[c] = NoLease /\ (m > 0 => c \in confirmed)}

\* filterFn and restrictUnstableUtxos
Stable(C) == {c \in C : c \in confirmed \/ c \notin SweeperCoins}

Inputs(p) == template[p] \cup locked[p] \cup toLock[p]

Goto(p, from, to) ==
  /\ pc[p] = from
  /\ pc' = [pc EXCEPT ![p] = to]

Enter(p) == coinLock = NoClient /\ coinLock' = p
Leave(p) == coinLock = p /\ coinLock' = NoClient

\* Wallet.LeaseOutput(id, c) would succeed.
CanLease(id, c) == c \in unspent /\ lease[c] \in {NoLease, id}

-----------------------------------------------------------------------------
(* Faulty variants of the actions below. *)

\* "At least n confirmations" read as "more than n".
StartFundOffByOne(p, md, m, T) ==
  /\ Goto(p, "idle", IF md = "internal" THEN "begin" ELSE "assert")
  /\ mode' = [mode EXCEPT ![p] = md]
  /\ minConfs' = [minConfs EXCEPT ![p] = m + 1]
  /\ template' = [template EXCEPT ![p] = T]
  /\ UNCHANGED <<walletVars, coinLock, toLock, locked, promise>>

\* The template's inputs are taken to be unspent and unlocked.
VerifyNothing(p) ==
  /\ Goto(p, "verify", "fund")
  /\ UNCHANGED <<walletVars, coinLock, mode, minConfs, template, toLock,
                 locked, promise>>

\* The sweeper's unconfirmed outputs are not filtered.
WalletFundUnfiltered(p, C) ==
  /\ Goto(p, "fund", "lock")
  /\ IF template[p] = {} THEN C \subseteq Available(minConfs[p]) /\ C # {}
     ELSE C = template[p]
  /\ toLock' = [toLock EXCEPT ![p] = C]
  /\ UNCHANGED <<walletVars, coinLock, mode, minConfs, template, locked,
                 promise>>

\* The second critical section of the coin-select mode is missing.
BeginSelectUnlocked(p) ==
  /\ Goto(p, "assessed", "select")
  /\ UNCHANGED <<walletVars, coinLock, mode, minConfs, template, toLock,
                 locked, promise>>

\* An output that cannot be leased is skipped.
LockFailsSkips(p, c) ==
  /\ pc[p] = "lock" /\ c \in toLock[p]
  /\ ~CanLease(Internal, c)
  /\ toLock' = [toLock EXCEPT ![p] = @ \ {c}]
  /\ UNCHANGED <<walletVars, coinLock, pc, mode, minConfs, template, locked,
                 promise>>

\* A failing lease leaves the earlier ones in place.
LockFailsNoRollback(p, c) ==
  /\ c \in toLock[p] /\ ~CanLease(Internal, c)
  /\ Goto(p, "lock", "failed")
  /\ Leave(p)
  /\ toLock' = [toLock EXCEPT ![p] = {}]
  /\ locked' = [locked EXCEPT ![p] = {}]
  /\ promise' = [promise EXCEPT ![p] = {}]
  /\ UNCHANGED <<walletVars, mode, minConfs, template>>

-----------------------------------------------------------------------------
(* LeaseOutput and ReleaseOutput: one wallet call under the lock.           *)

LeaseOutput(p, id, c) ==
  /\ id # Internal
  /\ coinLock = NoClient
  /\ CanLease(id, c)
  /\ lease' = [lease EXCEPT ![c] = id]
  /\ UNCHANGED <<unspent, confirmed, coinLock, callVars, promise>>

\* The internal ID is allowed here. A client that keeps track of expiry only
\* uses it on coins it still has.
ReleaseOutput(p, id, c) ==
  /\ coinLock = NoClient
  /\ lease[c] = id
  /\ id = Internal /\ ~LateRelease => c \in promise[p]
  /\ lease' = [lease EXCEPT ![c] = NoLease]
  /\ promise' = [promise EXCEPT ![p] = @ \ {c}]
  /\ UNCHANGED <<unspent, confirmed, coinLock, callVars>>

-----------------------------------------------------------------------------
(* FundPsbt. *)

\* The request is parsed; the template's shape decides on the mode.
StartFund(p, md, m, T) ==
  /\ Goto(p, "idle", IF md = "internal" THEN "begin" ELSE "assert")
  /\ mode' = [mode EXCEPT ![p] = md]
  /\ minConfs' = [minConfs EXCEPT ![p] = m]
  /\ template' = [template EXCEPT ![p] = T]
  /\ UNCHANGED <<walletVars, coinLock, toLock, locked, promise>>

\* A step under the lock returns an error: WithCoinSelectLock gives it back.
Fail(p, at) ==
  /\ Goto(p, at, "failed")
  /\ Leave(p)
  /\ UNCHANGED <<walletVars, mode, minConfs, template, toLock, locked, promise>>

\* fundPsbtInternalWallet
BeginInternal(p) ==
  /\ Goto(p, "begin", "verify")
  /\ Enter(p)
  /\ UNCHANGED <<walletVars, mode, minConfs, template, toLock, locked, promise>>

Verify(p) ==
  /\ template[p] \subseteq Stable(Available(minConfs[p]))
  /\ Goto(p, "verify", "fund")
  /\ UNCHANGED <<walletVars, coinLock, mode, minConfs, template, toLock,
                 locked, promise>>

\* Wallet.FundPsbt selects coins C, or takes the template as it is.
WalletFund(p, C) ==
  /\ Goto(p, "fund", "lock")
  /\ IF template[p] = {}
     THEN C \subseteq Stable(Available(minConfs[p])) /\ C # {}
     ELSE C = template[p]
  /\ toLock' = [toLock EXCEPT ![p] = C]
  /\ UNCHANGED <<walletVars, coinLock, mode, minConfs, template, locked,
                 promise>>

\* fundPsbtCoinSelect: assertNotAvailable has a critical section of its own.
AssertNotAvailable(p) ==
  /\ coinLock = NoClient
  /\ Goto(p, "assert",
          IF template[p] \cap Available(minConfs[p]) = {} THEN "assessed"
                                                         ELSE "failed")
  /\ UNCHANGED <<walletVars, coinLock, mode, minConfs, template, toLock,
                 locked, promise>>

\* The template's inputs pay for everything: nothing is locked.
TemplateSuffices(p) ==
  /\ template[p] # {}
  /\ Goto(p, "assessed", "funded")
  /\ UNCHANGED <<walletVars, coinLock, mode, minConfs, template, toLock,
                 locked, promise>>

\* The inputs cannot be decorated or weighed, or no change address is to be
\* had: an error outside any critical section.
AssessFails(p) ==
  /\ Goto(p, "assessed", "failed")
  /\ UNCHANGED <<walletVars, coinLock, mode, minConfs, template, toLock,
                 locked, promise>>

BeginSelect(p) ==
  /\ Goto(p, "assessed", "select")
  /\ Enter(p)
  /\ UNCHANGED <<walletVars, mode, minConfs, template, toLock, locked, promise>>

\* ListUnspentWitness and CoinSelect, which adds at least one coin.
Select(p, C) ==
  /\ Goto(p, "select", "lock")
  /\ C \subseteq Available(minConfs[p]) /\ C # {}
  /\ toLock' = [toLock EXCEPT ![p] = C]
  /\ UNCHANGED <<walletVars, coinLock, mode, minConfs, template, locked,
                 promise>>

\* lockInputs leases one output after the other.
LockNext(p, c) ==
  /\ pc[p] = "lock" /\ c \in toLock[p]
  /\ CanLease(Internal, c)
  /\ lease' = [lease EXCEPT ![c] = Internal]
  /\ toLock' = [toLock EXCEPT ![p] = @ \ {c}]
  /\ locked' = [locked EXCEPT ![p] = @ \cup {c}]
  /\ promise' = [promise EXCEPT ![p] = @ \cup {c}]
  /\ UNCHANGED <<unspent, confirmed, coinLock, pc, mode, minConfs, template>>

\* One lease is refused: those taken so far are released, an output that was
\* spent in the meantime stays as it is, and the call fails.
LockFails(p, c) ==
  /\ c \in toLock[p] /\ ~CanLease(Internal, c)
  /\ Goto(p, "lock", "failed")
  /\ Leave(p)
  /\ lease' = [d \in Coins |->
                 IF d \in locked[p] \cap unspent /\ lease[d] = Internal
                 THEN NoLease ELSE lease[d]]
  /\ toLock' = [toLock EXCEPT ![p] = {}]
  /\ locked' = [locked EXCEPT ![p] = {}]
  /\ promise' = [promise EXCEPT ![p] = {}]
  /\ UNCHANGED <<unspent, confirmed, mode, minConfs, template>>

Respond(p) ==
  /\ toLock[p] = {}
  /\ Goto(p, "lock", "funded")
  /\ Leave(p)
  /\ UNCHANGED <<walletVars, mode, minConfs, template, toLock, locked, promise>>

-----------------------------------------------------------------------------
(* The caller, and the world. *)

\* The call is over and its locals are gone.
EndCall(p, from) ==
  /\ Goto(p, from, "idle")
  /\ mode' = [mode EXCEPT ![p] = "internal"]
  /\ minConfs' = [minConfs EXCEPT ![p] = 0]
  /\ template' = [template EXCEPT ![p] = {}]
  /\ locked' = [locked EXCEPT ![p] = {}]
  /\ promise' = [promise EXCEPT ![p] = {}]
  /\ UNCHANGED toLock

\* The caller publishes the funded transaction.
Publish(p) ==
  /\ EndCall(p, "funded")
  /\ Inputs(p) \subseteq unspent
  /\ unspent' = unspent \ Inputs(p)
  /\ UNCHANGED <<lease, confirmed, coinLock>>

\* The caller got an error, or has released what it was given, or has let the
\* leases run out.
GiveUp(p) ==
  /\ EndCall(p, "funded") \/ EndCall(p, "failed")
  /\ promise[p] \cap unspent = {}
  /\ UNCHANGED <<walletVars, coinLock>>

LeaseExpires(c) ==
  /\ lease[c] # NoLease
  /\ lease' = [lease EXCEPT ![c] = NoLease]
  /\ promise' = [p \in Clients |-> promise[p] \ {c}]
  /\ UNCHANGED <<unspent, confirmed, coinLock, callVars>>

SpentElsewhere(c) ==
  /\ c \in unspent
  /\ unspent' = unspent \ {c}
  /\ UNCHANGED <<lease, confirmed, coinLock, callVars, promise>>

Confirms(c) ==
  /\ c \notin confirmed
  /\ confirmed' = confirmed \cup {c}
  /\ UNCHANGED <<lease, unspent, coinLock, callVars, promise>>

-----------------------------------------------------------------------------
UnderLock == {"verify", "fund", "select", "lock"}

Fund(p) ==
  \/ \E md \in {"internal", "coin_select"}, m \in {0, 1}, T \in SUBSET Coins :
       StartFund(p, md, m, T)
  \/ \E at \in {"verify", "fund", "select"} : Fail(p, at)
  \/ BeginInternal(p) \/ Verify(p) \/ \E C \in SUBSET Coins : WalletFund(p, C)
  \/ AssertNotAvailable(p) \/ TemplateSuffices(p) \/ AssessFails(p)
  \/ BeginSelect(p)
  \/ \E C \in SUBSET Coins : Select(p, C)
  \/ \E c \in Coins : LockNext(p, c) \/ LockFails(p, c)
  \/ Respond(p)

Client(p) ==
  \/ Fund(p) \/ Publish(p) \/ GiveUp(p)
  \/ \E c \in Coins, id \in {p, Internal} :
       LeaseOutput(p, id, c) \/ ReleaseOutput(p, id, c)

World == \E c \in Coins : LeaseExpires(c) \/ SpentElsewhere(c) \/ Confirms(c)

Next == (\E p \in Clients : Client(p)) \/ World

Spec == Init /\ [][Next]_vars

-----------------------------------------------------------------------------
TypeOK ==
  /\ lease \in [Coins -> Clients \cup {Internal, NoLease}]
  /\ unspent \in SUBSET Coins /\ confirmed \in SUBSET Coins
  /\ coinLock \in Clients \cup {NoClient}
  /\ pc \in [Clients -> {"idle", "begin", "assert", "assessed", "failed",
                         "funded"} \cup UnderLock]
  /\ mode \in [Clients -> {"internal", "coin_select"}]
  /\ minConfs \in [Clients -> {0, 1}]
  /\ template \in [Clients -> SUBSET Coins]
  /\ toLock \in [Clients -> SUBSET Coins]
  /\ locked \in [Clients -> SUBSET Coins]
  /\ promise \in [Clients -> SUBSET Coins]

\* Whoever selects or leases coins for a funding has the lock, alone.
Exclusive == \A p \in Clients : coinLock = p <=> pc[p] \in UnderLock

\* "Let's lock them to be sure they aren't spent by the time the PSBT is
\* published": until the lease runs out or its own client gives it up, a coin
\* handed out by FundPsbt stays leased, and to nobody else. The lock ID alone
\* does not tell the clients apart.
PromisesKept ==
  /\ \A p \in Clients : \A c \in promise[p] : lease[c] = Internal
  /\ \A p, q \in Clients : p # q => promise[p] \cap promise[q] = {}

\* No coin is locked for nobody: what is leased under the internal ID and not
\* spent belongs to a funding that succeeded or is under way, the partial
\* failure of lockInputs included.
NoOrphanedLease ==
  \A c \in unspent : lease[c] = Internal => \E p \in Clients : c \in promise[p]

\* FundPsbt's "all input UTXOs are locked with an internal app ID", for the
\* internal wallet's mode: the response lists every input as locked.
InternalModeLocksAll ==
  \A p \in Clients :
    pc[p] = "funded" /\ mode[p] = "internal" => Inputs(p) = locked[p]

\* "We want to make sure we don't select any inputs that are already specified
\* in the template."
TemplateNotReselected ==
  \A p \in Clients :
    mode[p] = "coin_select" => template[p] \cap (toLock[p] \cup locked[p]) = {}

\* The internal wallet's mode never picks an unconfirmed output of the
\* sweeper, which could be replaced.
OnlyStableInputs ==
  \A p \in Clients :
    mode[p] = "internal" /\ pc[p] = "lock" =>
      Stable(toLock[p]) = toLock[p]

\* What fundPsbtInternalWallet promises of its inputs: each of them is locked,
\* and none of them can be replaced by the sweeper.
InternalModeInputs == InternalModeLocksAll /\ OnlyStableInputs

-----------------------------------------------------------------------------
(* Refinement: a coin is reserved for the client that has it promised, or    *)
(* whose own lock ID it is leased under.                                     *)

OwnerOf(c) ==
  IF lease[c] \in Clients THEN lease[c]
  ELSE IF \E p \in Clients : c \in promise[p]
       THEN CHOOSE p \in Clients : c \in promise[p]
       ELSE NoClient

Reservation ==
  INSTANCE CoinReservation WITH Nobody <- NoClient,
                                owner <- [c \in Coins |-> OwnerOf(c)]

\* The leases implement the abstract reservation of coins.
ImplementsReservation == Reservation!Spec

=============================================================================
