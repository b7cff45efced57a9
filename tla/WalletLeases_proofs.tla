------------------------- MODULE WalletLeases_proofs -------------------------
(***************************************************************************)
(* For any number of clients and coins: the coin selection lock is held by *)
(* one funding at a time, and FundPsbt hands a coin out to one client only *)
(* and keeps it leased for it, provided that clients do not release locks  *)
(* that have already run out (LateRelease).                                *)
(***************************************************************************)
EXTENDS WalletLeases, TLAPS

USE LeaseAssumption

LEMMA TypeInit == Init => TypeOK
BY DEF Init, TypeOK, UnderLock

\* The calls under way have no place outside the type either.
LEMMA TypeStep == TypeOK /\ [Next]_vars => TypeOK'
<1> SUFFICES ASSUME TypeOK, [Next]_vars PROVE TypeOK'
  OBVIOUS
<1> USE DEF TypeOK, UnderLock, callVars, walletVars
<1>1. ASSUME NEW p \in Clients, Fund(p) PROVE TypeOK'
  <2>1. ASSUME NEW md \in {"internal", "coin_select"}, NEW m \in {0, 1},
               NEW T \in SUBSET Coins, StartFund(p, md, m, T)
        PROVE TypeOK'
    BY <2>1 DEF StartFund, Goto
  <2>2. ASSUME NEW at \in {"verify", "fund", "select"}, Fail(p, at)
        PROVE TypeOK'
    BY <2>2 DEF Fail, Goto, Leave
  <2>3. ASSUME BeginInternal(p) \/ BeginSelect(p) PROVE TypeOK'
    BY <2>3 DEF BeginInternal, BeginSelect, Goto, Enter
  <2>4. ASSUME Verify(p) \/ TemplateSuffices(p) \/ AssessFails(p) PROVE TypeOK'
    BY <2>4 DEF Verify, TemplateSuffices, AssessFails, Goto
  <2>5. ASSUME AssertNotAvailable(p) PROVE TypeOK'
    BY <2>5 DEF AssertNotAvailable, Goto
  <2>6. ASSUME NEW C \in SUBSET Coins, WalletFund(p, C) \/ Select(p, C)
        PROVE TypeOK'
    BY <2>6 DEF WalletFund, Select, Goto
  <2>7. ASSUME NEW c \in Coins, LockNext(p, c) PROVE TypeOK'
    BY <2>7 DEF LockNext
  <2>8. ASSUME NEW c \in Coins, LockFails(p, c) PROVE TypeOK'
    BY <2>8 DEF LockFails, Goto, Leave
  <2>9. ASSUME Respond(p) PROVE TypeOK'
    BY <2>9 DEF Respond, Goto, Leave
  <2>10. QED
    BY <1>1, <2>1, <2>2, <2>3, <2>4, <2>5, <2>6, <2>7, <2>8, <2>9 DEF Fund
<1>2. ASSUME NEW p \in Clients, Publish(p) \/ GiveUp(p) PROVE TypeOK'
  BY <1>2 DEF Publish, GiveUp, EndCall, Goto
<1>3. ASSUME NEW p \in Clients, NEW c \in Coins, NEW id \in {p, Internal},
             LeaseOutput(p, id, c) \/ ReleaseOutput(p, id, c)
      PROVE TypeOK'
  BY <1>3 DEF LeaseOutput, ReleaseOutput
<1>4. ASSUME World PROVE TypeOK'
  BY <1>4 DEF World, LeaseExpires, SpentElsewhere, Confirms
<1>5. CASE UNCHANGED vars
  BY <1>5 DEF vars
<1>6. QED
  BY <1>1, <1>2, <1>3, <1>4, <1>5 DEF Next, Client

\* Every variable of the lease model keeps its type.
THEOREM TypeCorrect == Spec => []TypeOK
BY TypeInit, TypeStep, PTL DEF Spec

-----------------------------------------------------------------------------
LEMMA ExclusiveStep == TypeOK /\ Exclusive /\ [Next]_vars => Exclusive'
<1> SUFFICES ASSUME TypeOK, Exclusive, [Next]_vars PROVE Exclusive'
  OBVIOUS
<1> USE DEF TypeOK, Exclusive, UnderLock, callVars, walletVars, Goto
<1>1. ASSUME NEW p \in Clients, Fund(p) PROVE Exclusive'
  <2>1. ASSUME NEW md \in {"internal", "coin_select"}, NEW m \in {0, 1},
               NEW T \in SUBSET Coins, StartFund(p, md, m, T)
        PROVE Exclusive'
    BY <2>1 DEF StartFund
  <2>2. ASSUME NEW at \in {"verify", "fund", "select"}, Fail(p, at)
        PROVE Exclusive'
    BY <2>2 DEF Fail, Leave
  <2>3. ASSUME BeginInternal(p) \/ BeginSelect(p) PROVE Exclusive'
    BY <2>3 DEF BeginInternal, BeginSelect, Enter
  <2>4. ASSUME Verify(p) \/ TemplateSuffices(p) \/ AssessFails(p) \/ AssertNotAvailable(p)
        PROVE Exclusive'
    BY <2>4 DEF Verify, TemplateSuffices, AssessFails, AssertNotAvailable
  <2>5. ASSUME NEW C \in SUBSET Coins, WalletFund(p, C) \/ Select(p, C)
        PROVE Exclusive'
    BY <2>5 DEF WalletFund, Select
  <2>6. ASSUME NEW c \in Coins, LockNext(p, c) PROVE Exclusive'
    BY <2>6 DEF LockNext
  <2>7. ASSUME NEW c \in Coins, LockFails(p, c) PROVE Exclusive'
    BY <2>7 DEF LockFails, Leave
  <2>8. ASSUME Respond(p) PROVE Exclusive'
    BY <2>8 DEF Respond, Leave
  <2>9. QED
    BY <1>1, <2>1, <2>2, <2>3, <2>4, <2>5, <2>6, <2>7, <2>8 DEF Fund
<1>2. ASSUME NEW p \in Clients, Publish(p) \/ GiveUp(p) PROVE Exclusive'
  BY <1>2 DEF Publish, GiveUp, EndCall
<1>3. ASSUME NEW p \in Clients, NEW c \in Coins, NEW id \in {p, Internal},
             LeaseOutput(p, id, c) \/ ReleaseOutput(p, id, c)
      PROVE Exclusive'
  BY <1>3 DEF LeaseOutput, ReleaseOutput
<1>4. ASSUME World PROVE Exclusive'
  BY <1>4 DEF World, LeaseExpires, SpentElsewhere, Confirms
<1>5. CASE UNCHANGED vars
  BY <1>5 DEF vars
<1>6. QED
  BY <1>1, <1>2, <1>3, <1>4, <1>5 DEF Next, Client

\* Selecting and leasing coins for a funding happens in mutual exclusion, on
\* every path through the lock, the failing ones included.
THEOREM LockExclusive == Spec => []Exclusive
<1>1. Init => Exclusive
  BY DEF Init, Exclusive, UnderLock
<1>2. QED
  BY <1>1, ExclusiveStep, TypeCorrect, PTL DEF Spec

-----------------------------------------------------------------------------
(* What a funding call has to know between its steps. The coins it verified  *)
(* or selected are still free when it leases them, because nobody else can   *)
(* lease while it has the lock; and what it leased is its own to roll back.  *)

CoinsStillFree ==
  \A p \in Clients :
    /\ pc[p] = "fund" => \A c \in template[p] : lease[c] = NoLease
    /\ pc[p] = "lock" => \A c \in toLock[p] : lease[c] = NoLease

LockedIsOwn ==
  \A p \in Clients :
    /\ promise[p] \subseteq locked[p]
    /\ pc[p] \notin {"lock", "funded"} => locked[p] = {}
    /\ pc[p] = "lock" =>
         \A c \in locked[p] : lease[c] = Internal => c \in promise[p]

FundingInv == CoinsStillFree /\ LockedIsOwn /\ PromisesKept

LEMMA FundingStep ==
  ASSUME LateRelease = FALSE, TypeOK, Exclusive, FundingInv, [Next]_vars
  PROVE  FundingInv'
<1> USE DEF TypeOK, Exclusive, FundingInv, CoinsStillFree, LockedIsOwn,
            PromisesKept, UnderLock, callVars, walletVars, Goto
<1>1. ASSUME NEW p \in Clients, Fund(p) PROVE FundingInv'
  <2>1. ASSUME NEW md \in {"internal", "coin_select"}, NEW m \in {0, 1},
               NEW T \in SUBSET Coins, StartFund(p, md, m, T)
        PROVE FundingInv'
    BY <2>1 DEF StartFund
  <2>2. ASSUME NEW at \in {"verify", "fund", "select"}, Fail(p, at)
        PROVE FundingInv'
    BY <2>2 DEF Fail
  <2>3. ASSUME BeginInternal(p) \/ BeginSelect(p) PROVE FundingInv'
    BY <2>3 DEF BeginInternal, BeginSelect
  <2>4. ASSUME Verify(p) PROVE FundingInv'
    BY <2>4 DEF Verify, Stable, Available
  <2>5. ASSUME TemplateSuffices(p) \/ AssessFails(p) \/ AssertNotAvailable(p) PROVE FundingInv'
    BY <2>5 DEF TemplateSuffices, AssessFails, AssertNotAvailable
  <2>6. ASSUME NEW C \in SUBSET Coins, WalletFund(p, C) PROVE FundingInv'
    BY <2>6 DEF WalletFund, Stable, Available
  <2>7. ASSUME NEW C \in SUBSET Coins, Select(p, C) PROVE FundingInv'
    BY <2>7 DEF Select, Available
  <2>8. ASSUME NEW c \in Coins, LockNext(p, c) PROVE FundingInv'
    <3>1. lease[c] = NoLease /\ \A q \in Clients : c \notin promise[q]
      BY <2>8 DEF LockNext
    <3>2. \A q \in Clients : q # p => pc[q] \notin {"fund", "lock"}
      BY <2>8 DEF LockNext
    <3>3. CoinsStillFree'
      BY <2>8, <3>2 DEF LockNext
    <3>4. LockedIsOwn'
      BY <2>8, <3>2 DEF LockNext
    <3>5. PromisesKept'
      BY <2>8, <3>1 DEF LockNext
    <3>6. QED
      BY <3>3, <3>4, <3>5
  <2>9. ASSUME NEW c \in Coins, LockFails(p, c) PROVE FundingInv'
    <3>1. \A q \in Clients : q # p => pc[q] \notin {"fund", "lock"}
      BY <2>9 DEF LockFails
    <3>2. CoinsStillFree' /\ LockedIsOwn'
      BY <2>9, <3>1 DEF LockFails
    <3>3. PromisesKept'
      BY <2>9 DEF LockFails
    <3>4. QED
      BY <3>2, <3>3
  <2>10. ASSUME Respond(p) PROVE FundingInv'
    BY <2>10 DEF Respond
  <2>11. QED
    BY <1>1, <2>1, <2>2, <2>3, <2>4, <2>5, <2>6, <2>7, <2>8, <2>9, <2>10
       DEF Fund
<1>2. ASSUME NEW p \in Clients, Publish(p) \/ GiveUp(p) PROVE FundingInv'
  BY <1>2 DEF Publish, GiveUp, EndCall
<1>3. ASSUME NEW p \in Clients, NEW c \in Coins, NEW id \in {p, Internal},
             LeaseOutput(p, id, c)
      PROVE FundingInv'
  <2>1. \A q \in Clients : pc[q] \notin {"fund", "lock"} /\ c \notin promise[q]
    BY <1>3 DEF LeaseOutput, CanLease
  <2>2. QED
    BY <1>3, <2>1 DEF LeaseOutput
<1>4. ASSUME NEW p \in Clients, NEW c \in Coins, NEW id \in {p, Internal},
             ReleaseOutput(p, id, c)
      PROVE FundingInv'
  <2>1. \A q \in Clients : pc[q] \notin {"fund", "lock"}
    BY <1>4 DEF ReleaseOutput
  <2>2. \A q \in Clients : q # p => c \notin promise[q]
    BY <1>4 DEF ReleaseOutput
  <2>3. QED
    BY <1>4, <2>1, <2>2 DEF ReleaseOutput
<1>5. ASSUME NEW c \in Coins, LeaseExpires(c) PROVE FundingInv'
  BY <1>5 DEF LeaseExpires
<1>6. ASSUME NEW c \in Coins, SpentElsewhere(c) \/ Confirms(c)
      PROVE FundingInv'
  BY <1>6 DEF SpentElsewhere, Confirms
<1>7. CASE UNCHANGED vars
  BY <1>7 DEF vars
<1>8. QED
  BY <1>1, <1>2, <1>3, <1>4, <1>5, <1>6, <1>7 DEF Next, Client, World

\* As long as nobody releases a lock that already ran out, a coin handed out
\* by FundPsbt stays leased for the client that got it, and for it alone.
THEOREM NoDoubleFunding ==
  ASSUME LateRelease = FALSE
  PROVE  Spec => []PromisesKept
<1>1. Init => FundingInv
  BY DEF Init, FundingInv, CoinsStillFree, LockedIsOwn, PromisesKept
<1>2. TypeOK /\ Exclusive /\ FundingInv /\ [Next]_vars => FundingInv'
  BY FundingStep
<1>3. FundingInv => PromisesKept
  BY DEF FundingInv
<1>4. QED
  BY <1>1, <1>2, <1>3, TypeCorrect, LockExclusive, PTL DEF Spec

-----------------------------------------------------------------------------
LEMMA OwnedStep ==
  ASSUME TypeOK, LockedIsOwn, NoOrphanedLease, [Next]_vars
  PROVE  NoOrphanedLease'
<1> USE DEF TypeOK, LockedIsOwn, NoOrphanedLease, callVars, walletVars, Goto
<1>1. ASSUME NEW p \in Clients, NEW c \in Coins,
             LockNext(p, c) \/ LockFails(p, c)
      PROVE NoOrphanedLease'
  BY <1>1 DEF LockNext, LockFails
<1>2. ASSUME NEW p \in Clients, Fund(p),
             ~\E c \in Coins : LockNext(p, c) \/ LockFails(p, c)
      PROVE NoOrphanedLease'
  <2>1. UNCHANGED <<lease, unspent, promise>>
    BY <1>2 DEF Fund, StartFund, Fail, BeginInternal, Verify, WalletFund,
                AssertNotAvailable, TemplateSuffices, AssessFails, BeginSelect, Select,
                Respond
  <2>2. QED
    BY <2>1
<1>3. ASSUME NEW p \in Clients, Publish(p) \/ GiveUp(p)
      PROVE NoOrphanedLease'
  BY <1>3 DEF Publish, GiveUp, EndCall, Inputs
<1>4. ASSUME NEW p \in Clients, NEW c \in Coins, NEW id \in {p, Internal},
             LeaseOutput(p, id, c) \/ ReleaseOutput(p, id, c)
      PROVE NoOrphanedLease'
  BY <1>4 DEF LeaseOutput, ReleaseOutput
<1>5. ASSUME World PROVE NoOrphanedLease'
  BY <1>5 DEF World, LeaseExpires, SpentElsewhere, Confirms
<1>6. CASE UNCHANGED vars
  BY <1>6 DEF vars
<1>7. QED
  BY <1>1, <1>2, <1>3, <1>4, <1>5, <1>6 DEF Next, Client

\* Whatever fails half-way, no unspent coin is left locked under the internal
\* ID without a funding it was locked for.
THEOREM NothingOrphaned ==
  ASSUME LateRelease = FALSE
  PROVE  Spec => []NoOrphanedLease
<1>1. Init => FundingInv /\ NoOrphanedLease
  BY DEF Init, FundingInv, CoinsStillFree, LockedIsOwn, PromisesKept,
         NoOrphanedLease
<1>2. TypeOK /\ Exclusive /\ FundingInv /\ [Next]_vars => FundingInv'
  BY FundingStep
<1>3. TypeOK /\ FundingInv /\ NoOrphanedLease /\ [Next]_vars
        => NoOrphanedLease'
  BY OwnedStep DEF FundingInv
<1>4. QED
  BY <1>1, <1>2, <1>3, TypeCorrect, LockExclusive, PTL DEF Spec

-----------------------------------------------------------------------------
(* The internal wallet's mode.                                               *)

\* Coins the sweeper cannot replace; they stay so.
Unreplaceable(C) == \A c \in C : c \in confirmed \/ c \notin SweeperCoins

\* What a call of the internal wallet's mode has found out and locked so far.
InternalCall(p) ==
  /\ pc[p] = "fund" => Unreplaceable(template[p])
  /\ pc[p] = "lock" => Unreplaceable(toLock[p])
  /\ pc[p] \in {"lock", "funded"} => template[p] \subseteq locked[p] \cup toLock[p]

InputsInv ==
  \A p \in Clients :
    /\ pc[p] \in {"assert", "assessed", "select"} => mode[p] = "coin_select"
    /\ pc[p] # "lock" => toLock[p] = {}
    /\ mode[p] = "internal" => InternalCall(p)

LEMMA InputsStep == TypeOK /\ InputsInv /\ [Next]_vars => InputsInv'
<1> SUFFICES ASSUME TypeOK, InputsInv, [Next]_vars PROVE InputsInv'
  OBVIOUS
<1> USE DEF TypeOK, InputsInv, InternalCall, Unreplaceable, UnderLock, callVars, walletVars, Goto
<1>1. ASSUME NEW p \in Clients, Fund(p) PROVE InputsInv'
  <2>1. ASSUME NEW md \in {"internal", "coin_select"}, NEW m \in {0, 1},
               NEW T \in SUBSET Coins, StartFund(p, md, m, T)
        PROVE InputsInv'
    BY <2>1 DEF StartFund
  <2>2. ASSUME NEW at \in {"verify", "fund", "select"}, Fail(p, at)
        PROVE InputsInv'
    BY <2>2 DEF Fail, Leave
  <2>3. ASSUME BeginInternal(p) \/ BeginSelect(p) PROVE InputsInv'
    BY <2>3 DEF BeginInternal, BeginSelect, Enter
  <2>4. ASSUME Verify(p) \/ TemplateSuffices(p) \/ AssessFails(p) \/ AssertNotAvailable(p)
        PROVE InputsInv'
    BY <2>4 DEF Verify, TemplateSuffices, AssessFails, AssertNotAvailable, Stable
  <2>5. ASSUME NEW C \in SUBSET Coins, WalletFund(p, C) PROVE InputsInv'
    BY <2>5 DEF WalletFund, Stable
  <2>6. ASSUME NEW C \in SUBSET Coins, Select(p, C) PROVE InputsInv'
    BY <2>6 DEF Select
  <2>7. ASSUME NEW c \in Coins, LockNext(p, c) PROVE InputsInv'
    BY <2>7 DEF LockNext
  <2>8. ASSUME NEW c \in Coins, LockFails(p, c) PROVE InputsInv'
    BY <2>8 DEF LockFails, Leave
  <2>9. ASSUME Respond(p) PROVE InputsInv'
    BY <2>9 DEF Respond, Leave
  <2>10. QED
    BY <1>1, <2>1, <2>2, <2>3, <2>4, <2>5, <2>6, <2>7, <2>8, <2>9 DEF Fund
<1>2. ASSUME NEW p \in Clients, Publish(p) \/ GiveUp(p) PROVE InputsInv'
  BY <1>2 DEF Publish, GiveUp, EndCall
<1>3. ASSUME NEW p \in Clients, NEW c \in Coins, NEW id \in {p, Internal},
             LeaseOutput(p, id, c) \/ ReleaseOutput(p, id, c)
      PROVE InputsInv'
  BY <1>3 DEF LeaseOutput, ReleaseOutput
<1>4. ASSUME World PROVE InputsInv'
  BY <1>4 DEF World, LeaseExpires, SpentElsewhere, Confirms
<1>5. CASE UNCHANGED vars
  BY <1>5 DEF vars
<1>6. QED
  BY <1>1, <1>2, <1>3, <1>4, <1>5 DEF Next, Client

\* A funding by the internal wallet's mode locks every input it answers with,
\* and locks no unconfirmed output of the sweeper, whatever confirms, is spent
\* or is released meanwhile, and however often leases fail.
THEOREM InternalModeKept == Spec => []InternalModeInputs
<1>1. Init => InputsInv
  BY DEF Init, InputsInv, InternalCall, Unreplaceable
<1>2. TypeOK /\ InputsInv => InternalModeInputs
  BY DEF TypeOK, InputsInv, InternalCall, Unreplaceable, InternalModeInputs, InternalModeLocksAll,
         OnlyStableInputs, Inputs, Stable
<1>3. QED
  BY <1>1, <1>2, InputsStep, TypeCorrect, PTL DEF Spec

-----------------------------------------------------------------------------
(* Refinement. The owner of a coin, as a function of leases and promises.    *)

LEMMA OwnerFacts ==
  ASSUME TypeOK, PromisesKept, NEW c \in Coins
  PROVE  /\ lease[c] \in Clients => OwnerOf(c) = lease[c]
         /\ \A q \in Clients : c \in promise[q] => OwnerOf(c) = q
         /\ lease[c] \notin Clients /\ (\A q \in Clients : c \notin promise[q])
              => OwnerOf(c) = NoClient
<1> USE DEF TypeOK, PromisesKept
<1>1. ASSUME NEW q \in Clients, c \in promise[q] PROVE OwnerOf(c) = q
  <2>1. lease[c] \notin Clients
    BY <1>1
  <2>2. \A r \in Clients : c \in promise[r] <=> r = q
    BY <1>1
  <2>3. (CHOOSE r \in Clients : c \in promise[r]) = q
    BY <2>2
  <2>4. QED
    BY <1>1, <2>1, <2>3 DEF OwnerOf
<1>2. QED
  BY <1>1 DEF OwnerOf

LEMMA OwnerFactsNext ==
  ASSUME TypeOK', PromisesKept', NEW c \in Coins
  PROVE  /\ lease'[c] \in Clients => OwnerOf(c)' = lease'[c]
         /\ \A q \in Clients : c \in promise'[q] => OwnerOf(c)' = q
         /\ lease'[c] \notin Clients /\ (\A q \in Clients : c \notin promise'[q])
              => OwnerOf(c)' = NoClient
<1> USE DEF TypeOK, PromisesKept
<1>1. ASSUME NEW q \in Clients, c \in promise'[q] PROVE OwnerOf(c)' = q
  <2>1. lease'[c] \notin Clients
    BY <1>1
  <2>2. \A r \in Clients : c \in promise'[r] <=> r = q
    BY <1>1
  <2>3. (CHOOSE r \in Clients : c \in promise'[r]) = q
    BY <2>2
  <2>4. QED
    BY <1>1, <2>1, <2>3 DEF OwnerOf
<1>2. QED
  BY <1>1 DEF OwnerOf

\* A step hands out one coin, or only takes coins back.
LEMMA LeaseStepCases ==
  ASSUME LateRelease = FALSE, TypeOK, Exclusive, FundingInv, [Next]_vars
  PROVE
    \/ \E p \in Clients, c \in Coins :
         /\ lease[c] \in {NoLease, p} /\ \A q \in Clients : c \notin promise[q]
         /\ \/ lease' = [lease EXCEPT ![c] = p] /\ promise' = promise
            \/ lease' = [lease EXCEPT ![c] = Internal]
               /\ promise' = [promise EXCEPT ![p] = @ \cup {c}]
    \/ /\ \A c \in Coins : lease'[c] \in {NoLease, lease[c]}
       /\ \A q \in Clients : promise'[q] \subseteq promise[q]
<1> USE DEF TypeOK, Exclusive, FundingInv, CoinsStillFree, LockedIsOwn,
            PromisesKept, UnderLock, callVars, walletVars, Goto
<1>1. ASSUME NEW p \in Clients, NEW c \in Coins, LockNext(p, c)
      PROVE  /\ lease[c] = NoLease /\ \A q \in Clients : c \notin promise[q]
             /\ lease' = [lease EXCEPT ![c] = Internal]
             /\ promise' = [promise EXCEPT ![p] = @ \cup {c}]
  BY <1>1 DEF LockNext
<1>2. ASSUME NEW p \in Clients, NEW c \in Coins, LockFails(p, c)
      PROVE  /\ \A d \in Coins : lease'[d] \in {NoLease, lease[d]}
             /\ \A q \in Clients : promise'[q] \subseteq promise[q]
  BY <1>2 DEF LockFails
<1>3. ASSUME NEW p \in Clients, Fund(p),
             ~\E c \in Coins : LockNext(p, c) \/ LockFails(p, c)
      PROVE  UNCHANGED <<lease, promise>>
  BY <1>3 DEF Fund, StartFund, Fail, BeginInternal, Verify, WalletFund,
              AssertNotAvailable, TemplateSuffices, AssessFails, BeginSelect, Select, Respond
<1>4. ASSUME NEW p \in Clients, Publish(p) \/ GiveUp(p)
      PROVE  /\ \A d \in Coins : lease'[d] \in {NoLease, lease[d]}
             /\ \A q \in Clients : promise'[q] \subseteq promise[q]
  BY <1>4 DEF Publish, GiveUp, EndCall
<1>5. ASSUME NEW p \in Clients, NEW c \in Coins, NEW id \in {p, Internal},
             LeaseOutput(p, id, c)
      PROVE  /\ lease[c] \in {NoLease, p} /\ \A q \in Clients : c \notin promise[q]
             /\ lease' = [lease EXCEPT ![c] = p] /\ promise' = promise
  <2>1. id = p /\ lease[c] \in {NoLease, p}
    BY <1>5 DEF LeaseOutput, CanLease
  <2>2. \A q \in Clients : c \notin promise[q]
    BY <2>1
  <2>3. QED
    BY <1>5, <2>1, <2>2 DEF LeaseOutput
<1>6. ASSUME NEW p \in Clients, NEW c \in Coins, NEW id \in {p, Internal},
             ReleaseOutput(p, id, c)
      PROVE  /\ \A d \in Coins : lease'[d] \in {NoLease, lease[d]}
             /\ \A q \in Clients : promise'[q] \subseteq promise[q]
  BY <1>6 DEF ReleaseOutput
<1>7. ASSUME World
      PROVE  /\ \A d \in Coins : lease'[d] \in {NoLease, lease[d]}
             /\ \A q \in Clients : promise'[q] \subseteq promise[q]
  BY <1>7 DEF World, LeaseExpires, SpentElsewhere, Confirms
<1>8. CASE UNCHANGED vars
  BY <1>8 DEF vars
<1>9. QED
  BY <1>1, <1>2, <1>3, <1>4, <1>5, <1>6, <1>7, <1>8 DEF Next, Client

LEMMA ReservationStep ==
  ASSUME LateRelease = FALSE, TypeOK, Exclusive, FundingInv, [Next]_vars
  PROVE  Reservation!Next
<1> DEFINE own == [c \in Coins |-> OwnerOf(c)]
<1>1. TypeOK' /\ FundingInv' /\ PromisesKept /\ PromisesKept'
  BY TypeStep, FundingStep DEF FundingInv
<1>2. ASSUME NEW p \in Clients, NEW c \in Coins,
             lease[c] \in {NoLease, p}, \A q \in Clients : c \notin promise[q],
             \/ lease' = [lease EXCEPT ![c] = p] /\ promise' = promise
             \/ lease' = [lease EXCEPT ![c] = Internal]
                /\ promise' = [promise EXCEPT ![p] = @ \cup {c}]
      PROVE Reservation!Reserve(p, c)
  <2>1. own[c] \in {NoClient, p}
    BY <1>1, <1>2, OwnerFacts
  <2>2. OwnerOf(c)' = p
    BY <1>1, <1>2, OwnerFactsNext DEF TypeOK
  <2>3. ASSUME NEW d \in Coins, d # c PROVE OwnerOf(d)' = OwnerOf(d)
    <3>1. lease'[d] = lease[d]
          /\ \A q \in Clients : d \in promise'[q] <=> d \in promise[q]
      BY <1>2, <2>3 DEF TypeOK
    <3>2. QED
      BY <3>1, <1>1, OwnerFacts, OwnerFactsNext, <2>3
  <2>4. own' = [own EXCEPT ![c] = p]
    BY <2>2, <2>3
  <2>5. QED
    BY <2>1, <2>4 DEF Reservation!Reserve
<1>3. ASSUME \A c \in Coins : lease'[c] \in {NoLease, lease[c]},
             \A q \in Clients : promise'[q] \subseteq promise[q]
      PROVE  Reservation!Free({c \in Coins : OwnerOf(c)' = NoClient})
  <2>1. ASSUME NEW c \in Coins, OwnerOf(c)' # NoClient
        PROVE  OwnerOf(c)' = OwnerOf(c)
    <3>1. CASE lease'[c] \in Clients
      BY <3>1, <1>1, <1>3, OwnerFacts, OwnerFactsNext
    <3>2. CASE \E q \in Clients : c \in promise'[q]
      BY <3>2, <1>1, <1>3, OwnerFacts, OwnerFactsNext
    <3>3. QED
      BY <3>1, <3>2, <1>1, <2>1, OwnerFactsNext
  <2>2. own' = [c \in Coins |-> IF c \in {d \in Coins : OwnerOf(d)' = NoClient}
                                THEN NoClient ELSE own[c]]
    BY <2>1
  <2>3. QED
    BY <2>2 DEF Reservation!Free
<1>4. QED
  BY <1>2, <1>3, LeaseStepCases DEF Reservation!Next

\* The lease RPCs, with their lock, their shared internal ID and their partial
\* failures, implement the abstract reservation of coins.
THEOREM LeasesRefineReservation ==
  ASSUME LateRelease = FALSE
  PROVE  Spec => ImplementsReservation
<1>1. Init => Reservation!Init
  BY DEF Init, Reservation!Init, OwnerOf
<1>2. Init => FundingInv
  BY DEF Init, FundingInv, CoinsStillFree, LockedIsOwn, PromisesKept
<1>3. TypeOK /\ Exclusive /\ FundingInv /\ [Next]_vars => FundingInv'
  BY FundingStep
<1>4. TypeOK /\ Exclusive /\ FundingInv /\ [Next]_vars => Reservation!Next
  BY ReservationStep
<1>5. QED
  BY <1>1, <1>2, <1>3, <1>4, TypeCorrect, LockExclusive, PTL
     DEF Spec, ImplementsReservation, Reservation!Spec

=============================================================================
