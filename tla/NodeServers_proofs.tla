--------------------------- MODULE NodeServers_proofs ---------------------------
(***************************************************************************)
(* Proofs about NodeServers, for any bounds, callers and requests: what the *)
(* sub-servers' macaroon files (FileInv) and the node's announcement        *)
(* (AnnInv) go through, in which servers calls are made (CallInv), and, for *)
(* any towers, policies and sessions, what is told of the towers.           *)
(***************************************************************************)
EXTENDS NodeServers, SequenceTheorems, FiniteSetTheorems, WellFoundedInduction, TLAPS

-----------------------------------------------------------------------------
(* Macaroon files *)

\* The part of ServersTypeOK that the files' invariant needs.
FileTypes ==
    /\ shell \in [registered -> {"empty", "filled", "started", "stopped"}]
    /\ baking \subseteq registered \cap Bakers
    /\ file \in [registered \cap Bakers -> {"absent", "partial", "whole"}]

\* While a file is being written, lnd creates the servers and that server is
\* the only one whose shell waits; a server is not written for twice.
BakingInv ==
    baking # {} =>
        /\ lnd = "creating" /\ config.mac = "files"
        /\ \A s \in baking : baking = {s} /\ shell[s] = "empty" /\ file[s] = "partial"

\* Why MacaroonsWholeUnlessSpoiled holds: a server that was created has its
\* file, and lnd goes on from creating only when every server was.
FileInv ==
    /\ FileTypes
    /\ BakingInv
    /\ \A s \in registered \cap Bakers : file[s] = "partial" => s \in baking \cup spoiled
    /\ lnd # "down" /\ config.mac = "files" =>
          \A s \in registered \cap Bakers :
              shell[s] # "empty" => file[s] = "whole" \/ s \in spoiled
    /\ lnd \in {"starting", "serving"} => \A s \in registered : shell[s] # "empty"

LEMMA InitFiles == ServersInit => FileInv
  BY DEF ServersInit, NoShells, FileInv, FileTypes, BakingInv

LEMMA BootFiles == FileInv /\ Boot => FileInv'
  BY DEF FileInv, FileTypes, BakingInv, Boot, NoShells

LEMMA CreateFiles ==
    ASSUME FileInv, NEW s \in registered, CreateSubServer(s)
    PROVE  FileInv'
<1>1. CASE /\ Configured(s)
           /\ shell' = [shell EXCEPT ![s] = "filled"]
           /\ spoiled' = IF NeedsMacaroon(s) THEN spoiled \cup {s} ELSE spoiled
           /\ UNCHANGED <<registered, config, lnd, baking, file, boots>>
  BY <1>1 DEF FileInv, FileTypes, BakingInv, CreateSubServer, NeedsMacaroon
<1>2. CASE /\ Configured(s) /\ NeedsMacaroon(s)
           /\ baking' = {s}
           /\ file' = [file EXCEPT ![s] = "partial"]
           /\ UNCHANGED <<registered, config, lnd, shell, spoiled, boots>>
  BY <1>2 DEF FileInv, FileTypes, BakingInv, CreateSubServer, NeedsMacaroon
<1>3. CASE StartupFails /\ UNCHANGED <<baking, file, spoiled>>
  BY <1>3 DEF FileInv, FileTypes, BakingInv, CreateSubServer, StartupFails
<1> QED BY <1>1, <1>2, <1>3 DEF CreateSubServer

LEMMA RunningFiles == FileInv /\ Running => FileInv'
<1> SUFFICES ASSUME FileInv, Running PROVE FileInv'
  OBVIOUS
<1>1. ASSUME NEW s \in registered, WriteMacaroon(s) PROVE FileInv'
  BY <1>1 DEF FileInv, FileTypes, BakingInv, WriteMacaroon
<1>2. ASSUME NEW s \in registered, WriteMacaroonFails(s) PROVE FileInv'
  BY <1>2 DEF FileInv, FileTypes, BakingInv, WriteMacaroonFails, StartupFails
<1>3. CASE AllCreated
  BY <1>3 DEF FileInv, FileTypes, BakingInv, AllCreated
<1>4. ASSUME NEW s \in registered, Start(s) PROVE FileInv'
  BY <1>4 DEF FileInv, FileTypes, BakingInv, Start
<1>5. CASE Serve \/ Shutdown
  BY <1>5 DEF FileInv, FileTypes, BakingInv, Serve, Shutdown
<1>6. ASSUME NEW s \in registered, Stop(s) PROVE FileInv'
  BY <1>6 DEF FileInv, FileTypes, BakingInv, Stop
<1> QED BY <1>1, <1>2, <1>3, <1>4, <1>5, <1>6, CreateFiles DEF Running

LEMMA NextFiles == FileInv /\ [Next]_vars => FileInv'
<1> SUFFICES ASSUME FileInv, [Next]_vars PROVE FileInv'
  OBVIOUS
<1>1. CASE Exit \/ Crash
  BY <1>1 DEF FileInv, FileTypes, BakingInv, Exit, Crash, NoShells
<1>2. CASE UNCHANGED serverVars
  BY <1>2 DEF serverVars, FileInv, FileTypes, BakingInv
<1> QED BY <1>1, <1>2, BootFiles, RunningFiles DEF Next, Route, Finish, vars

LEMMA FilesAlways == Spec => []FileInv
<1>1. Init => FileInv
  BY InitFiles DEF Init
<1> QED BY <1>1, NextFiles, PTL DEF Spec

\* When lnd serves with macaroon files, each server that bakes one has a whole
\* one, but for the files that the code is known to take for one.
THEOREM MacaroonsWhole == Spec => []MacaroonsWholeUnlessSpoiled
<1>1. FileInv => MacaroonsWholeUnlessSpoiled
  BY DEF FileInv, MacaroonsWholeUnlessSpoiled
<1> QED BY <1>1, FilesAlways, PTL

\* No start, restart or crash replaces a macaroon file that is there.
THEOREM MacaroonsKept == Spec => MacaroonsNotReplaced
<1> DEFINE Kept == \A s \in registered \cap Bakers : file'[s] # file[s] =>
                      config.mac = "files" /\ (file[s] = "absent" \/ s \in baking)
<1>1. FileInv /\ [Next]_vars => [Kept]_serverVars
  <2> SUFFICES ASSUME FileInv, [Next]_vars PROVE Kept \/ UNCHANGED serverVars
    OBVIOUS
  <2>1. CASE file' = file
    BY <2>1
  <2>2. ASSUME NEW s \in registered, CreateSubServer(s) PROVE Kept
    BY <2>2 DEF CreateSubServer, NeedsMacaroon, FileInv, FileTypes, StartupFails
  <2>3. ASSUME NEW s \in registered, WriteMacaroon(s) \/ WriteMacaroonFails(s) PROVE Kept
    BY <2>3 DEF WriteMacaroon, WriteMacaroonFails, FileInv, FileTypes, BakingInv
  <2>4. CASE ~ \E s \in registered :
               CreateSubServer(s) \/ WriteMacaroon(s) \/ WriteMacaroonFails(s)
    <3>1. file' = file
      BY <2>4 DEF Next, Boot, Running, AllCreated, Start, Serve, Shutdown, Stop, Exit, Crash,
                  Route, Finish, vars, serverVars
    <3> QED BY <2>1, <3>1
  <2> QED BY <2>2, <2>3, <2>4
<1> QED BY <1>1, FilesAlways, PTL DEF Spec, MacaroonsNotReplaced

-----------------------------------------------------------------------------
(* Loops.  Induction over data is done with sets for predicates, since the  *)
(* provers cannot instantiate an operator.                                  *)

\* Induction, with a set for the predicate.
LEMMA SetInduction ==
    ASSUME NEW T, 0 \in T, \A k \in Nat : k \in T => k + 1 \in T
    PROVE  Nat \subseteq T
<1> SUFFICES ASSUME Nat \ T # {} PROVE FALSE
  OBVIOUS
<1>1. PICK least \in Nat \ T : \A k \in Nat \ T : ~ (<<k, least>> \in OpToRel(<, Nat))
  <2>1. IsWellFoundedOn(OpToRel(<, Nat), Nat)
    BY NatLessThanWellFounded
  <2>2. Nat \ T \subseteq Nat
    OBVIOUS
  <2> QED BY <2>1, <2>2, WFMin, Zenon
<1>2. \A k \in Nat : k < least => <<k, least>> \in OpToRel(<, Nat)
  BY DEF OpToRel
<1>3. least # 0 /\ least - 1 \in Nat /\ least - 1 < least /\ (least - 1) + 1 = least
  OBVIOUS
<1>4. least - 1 \in T
  BY <1>1, <1>2, <1>3
<1> QED BY <1>3, <1>4

\* What each step of a loop keeps, S[k] after k of them, holds after all.
LEMMA LoopKeeps ==
    ASSUME NEW n \in Nat, NEW S, NEW g, g[0] \in S[0],
           \A k \in 0 .. n - 1 : g[k] \in S[k] => g[k + 1] \in S[k + 1]
    PROVE  g[n] \in S[n]
<1> DEFINE T == {k \in Nat : k <= n => g[k] \in S[k]}
<1>1. 0 \in T
  OBVIOUS
<1>2. ASSUME NEW k \in Nat, k \in T PROVE k + 1 \in T
  BY <1>2
<1>3. Nat \subseteq T
  <2> HIDE DEF T
  <2> QED BY <1>1, <1>2, SetInduction
<1> QED BY <1>3

\* A loop of n steps that starts with base and stays in S, and its runs.
IsLoop(S, base, n, step) == base \in S /\ n \in Nat /\ step \in [1 .. n -> [S -> S]]

HasRun(S, base, n, step) ==
    \E g \in [0 .. n -> S] : g[0] = base /\ \A k \in 1 .. n : g[k] = step[k][g[k - 1]]

\* Each step is a function of the state, so the loop has a run.
LEMMA LoopRuns ==
    ASSUME NEW S, NEW base, NEW n, NEW step, IsLoop(S, base, n, step)
    PROVE  HasRun(S, base, n, step)
<1> USE DEF IsLoop
<1> DEFINE Run(m, g) == g[0] = base /\ \A k \in 1 .. m : g[k] = step[k][g[k - 1]]
           T == {m \in Nat : m <= n => \E g \in [0 .. m -> S] : Run(m, g)}
<1>1. 0 \in T
  <2>1. [k \in 0 .. 0 |-> base] \in [0 .. 0 -> S] /\ Run(0, [k \in 0 .. 0 |-> base])
    OBVIOUS
  <2> QED BY <2>1
<1>2. ASSUME NEW m \in Nat, m \in T PROVE m + 1 \in T
  <2> SUFFICES ASSUME m + 1 <= n PROVE \E g \in [0 .. m + 1 -> S] : Run(m + 1, g)
    OBVIOUS
  <2>1. PICK g \in [0 .. m -> S] : Run(m, g)
    BY <1>2
  <2> DEFINE h == [k \in 0 .. m + 1 |-> IF k = m + 1 THEN step[m + 1][g[m]] ELSE g[k]]
  <2>2. step[m + 1] \in [S -> S] /\ g[m] \in S
    OBVIOUS
  <2>3. h \in [0 .. m + 1 -> S]
    BY <2>2
  <2>4. Run(m + 1, h)
    <3>1. h[0] = base
      BY <2>1
    <3>2. ASSUME NEW k \in 1 .. m + 1 PROVE h[k] = step[k][h[k - 1]]
      <4>1. CASE k = m + 1
        BY <4>1
      <4>2. CASE k # m + 1
        <5>1. k \in 1 .. m /\ k - 1 \in 0 .. m
          BY <4>2
        <5> QED BY <2>1, <4>2, <5>1
      <4> QED BY <4>1, <4>2
    <3> QED BY <3>1, <3>2
  <2> QED BY <2>3, <2>4
<1>3. n \in T
  <2> HIDE DEF T
  <2> QED BY <1>1, <1>2, SetInduction
<1> QED BY <1>3 DEF HasRun

-----------------------------------------------------------------------------
(* What the loops over the updates of a request compute *)

\* The actions on features stay within the bits.
LEMMA AppliedWithinBits ==
    ASSUME NEW r \in Requests, NEW current, current \subseteq Bits
    PROVE  AppliedFeatures(current, r.features) \subseteq SUBSET Bits
<1> DEFINE us == r.features
           n == Len(us)
           S == SUBSET SUBSET Bits
           Body(g) == [k \in 0 .. n |-> IF k = 0 THEN {current} ELSE ApplyFeature(g[k - 1], us[k])]
           after == CHOOSE g : g = Body(g)
           step == [k \in 1 .. n |-> [v \in S |-> ApplyFeature(v, us[k])]]
<1>1. n \in Nat /\ \A k \in 1 .. n : FeatureBit(us[k].bit) \in Bits
  <2>1. us \in Seq(ToSet(us)) /\ \A u \in ToSet(us) : FeatureBit(u.bit) \in Bits
    <3>1. us \in Seq(ToSet(us)) /\ \A u \in ToSet(us) : u.bit \in Int
      BY RequestsAssumption DEF RequestsAssumption
    <3>2. \A i \in Int : FeatureBit(i) \in Bits
      BY RequiresAssumption DEF RequiresAssumption, FeatureBit, Bits
    <3> QED BY <3>1, <3>2
  <2>2. n \in Nat /\ DOMAIN us = 1 .. n
    BY <2>1
  <2>3. \A k \in 1 .. n : us[k] \in ToSet(us)
    BY <2>2 DEF ToSet
  <2> QED BY <2>1, <2>2, <2>3
<1>2. \A k \in 1 .. n, v \in S : ApplyFeature(v, us[k]) \in S
  BY <1>1 DEF ApplyFeature
<1>3. step \in [1 .. n -> [S -> S]]
  BY <1>2
<1>4. {current} \in S
  OBVIOUS
<1>5. PICK g \in [0 .. n -> S] :
         g[0] = {current} /\ \A k \in 1 .. n : g[k] = step[k][g[k - 1]]
  <2>1. IsLoop(S, {current}, n, step)
    BY <1>1, <1>3, <1>4 DEF IsLoop
  <2> HIDE DEF step, n, S
  <2> QED BY <2>1, LoopRuns DEF HasRun
<1>6. g = Body(g)
  <2>1. \A k \in 0 .. n : k # 0 => k \in 1 .. n /\ k - 1 \in 0 .. n
    BY <1>1
  <2> HIDE DEF S
  <2>2. \A k \in 1 .. n : step[k][g[k - 1]] = ApplyFeature(g[k - 1], us[k])
    BY <2>1
  <2>3. g = [k \in 0 .. n |-> g[k]]
    BY <1>5
  <2> HIDE DEF step, n
  <2>4. \A k \in 0 .. n : g[k] = IF k = 0 THEN {current} ELSE ApplyFeature(g[k - 1], us[k])
    BY <1>5, <2>1, <2>2
  <2> QED BY <2>3, <2>4
<1>7. after = Body(after)
  <2> HIDE DEF Body
  <2> QED BY <1>6
<1>8. after[n] \in S
  <2> DEFINE kept == [k \in 0 .. n |-> S]
  <2> HIDE DEF after
  <2>1. after[0] \in kept[0]
    <3>1. 0 \in 0 .. n
      BY <1>1
    <3> QED BY <1>4, <1>7, <3>1
  <2>2. ASSUME NEW k \in 0 .. n - 1, after[k] \in kept[k] PROVE after[k + 1] \in kept[k + 1]
    <3>1. k \in 0 .. n /\ k + 1 \in 0 .. n /\ k + 1 # 0 /\ (k + 1) - 1 = k /\ k + 1 \in 1 .. n
      BY <1>1
    <3>2. after[k + 1] = ApplyFeature(after[k], us[k + 1])
      BY <1>7, <3>1
    <3>3. ApplyFeature(after[k], us[k + 1]) \in S
      BY <1>2, <2>2, <3>1
    <3> QED BY <3>1, <3>2, <3>3
  <2>3. n \in Nat /\ n \in 0 .. n
    BY <1>1
  <2>4. after[n] \in kept[n]
    <3> HIDE DEF kept, n
    <3> QED BY <2>1, <2>2, <2>3, LoopKeeps
  <2> HIDE DEF S, n
  <2> QED BY <2>3, <2>4
<1>9. AppliedFeatures(current, us) = after[n]
  BY DEF AppliedFeatures
<1> HIDE DEF after, n
<1> QED BY <1>8, <1>9

\* What may be announced: a list of addresses that parse, each of them once.
Announceable(addrs) ==
    /\ addrs \in Seq(ToSet(addrs)) /\ IsInjective(addrs)
    /\ ToSet(addrs) \cap Unparsable = {}

\* What is left of a list without repetitions has none and nothing new.
LEMMA KeptIsPart ==
    ASSUME NEW current, current \in Seq(ToSet(current)), IsInjective(current), NEW us
    PROVE  /\ KeptAddresses(current, us) \in Seq(ToSet(current))
           /\ IsInjective(KeptAddresses(current, us))
<1> DEFINE n == Len(current)
           A == ToSet(current)
           S == Seq(A)
           Step(s, k) == IF current[k] \in AddrsOf(us, "remove") THEN s ELSE Append(s, current[k])
           Body(g) == [k \in 0 .. n |->
               IF k = 0 THEN << >>
               ELSE IF current[k] \in AddrsOf(us, "remove") THEN g[k - 1]
               ELSE Append(g[k - 1], current[k])]
           kept == CHOOSE g : g = Body(g)
           step == [k \in 1 .. n |-> [s \in S |-> Step(s, k)]]
           Part == [k \in 0 .. n |-> {s \in S : /\ IsInjective(s)
                                                /\ \A i \in DOMAIN s : \E j \in 1 .. k : s[i] = current[j]}]
<1>1. n \in Nat /\ DOMAIN current = 1 .. n /\ \A k \in 1 .. n : current[k] \in A
  OBVIOUS
<1>2. \A k \in 1 .. n, s \in S : Step(s, k) \in S
  BY <1>1
<1>3. step \in [1 .. n -> [S -> S]]
  BY <1>2
<1>4. PICK g \in [0 .. n -> S] : g[0] = << >> /\ \A k \in 1 .. n : g[k] = step[k][g[k - 1]]
  <2>1. IsLoop(S, << >>, n, step)
    BY <1>1, <1>3 DEF IsLoop
  <2> HIDE DEF step, n, S
  <2> QED BY <2>1, LoopRuns DEF HasRun
<1>5. g = Body(g)
  <2>1. \A k \in 0 .. n : k # 0 => k \in 1 .. n /\ k - 1 \in 0 .. n
    BY <1>1
  <2>2. \A k \in 1 .. n : step[k][g[k - 1]] = Step(g[k - 1], k)
    BY <2>1
  <2>3. g = [k \in 0 .. n |-> g[k]]
    BY <1>4
  <2> HIDE DEF step, n
  <2>4. \A k \in 0 .. n : g[k] = IF k = 0 THEN << >> ELSE Step(g[k - 1], k)
    BY <1>4, <2>1, <2>2
  <2> QED BY <2>3, <2>4
<1>6. kept = Body(kept)
  <2> HIDE DEF Body
  <2> QED BY <1>5
<1>7. kept[n] \in Part[n]
  <2> HIDE DEF kept
  <2>1. kept[0] \in Part[0]
    <3>1. 0 \in 0 .. n
      BY <1>1
    <3>2. kept[0] = << >>
      BY <1>6, <3>1
    <3> QED BY <3>1, <3>2 DEF IsInjective
  <2>2. ASSUME NEW k \in 0 .. n - 1, kept[k] \in Part[k] PROVE kept[k + 1] \in Part[k + 1]
    <3>1. k \in 0 .. n /\ k + 1 \in 0 .. n /\ k + 1 # 0 /\ (k + 1) - 1 = k /\ k + 1 \in 1 .. n
      BY <1>1
    <3>2. kept[k + 1] = Step(kept[k], k + 1)
      BY <1>6, <3>1
    <3>3. PICK s \in S : s = kept[k]
      BY <2>2, <3>1
    <3>4. /\ IsInjective(s)
          /\ \A i \in DOMAIN s : \E j \in 1 .. k : s[i] = current[j]
      BY <2>2, <3>1, <3>3
    <3>5. CASE kept[k + 1] = s
      BY <3>1, <3>4, <3>5
    <3>6. CASE kept[k + 1] = Append(s, current[k + 1])
      <4>1. /\ Append(s, current[k + 1]) \in S
            /\ DOMAIN s = 1 .. Len(s) /\ Len(s) \in Nat
            /\ DOMAIN Append(s, current[k + 1]) = 1 .. Len(s) + 1
            /\ \A i \in DOMAIN s : Append(s, current[k + 1])[i] = s[i]
            /\ Append(s, current[k + 1])[Len(s) + 1] = current[k + 1]
        BY <1>1, <3>1
      <4>2. \A i \in DOMAIN s : s[i] # current[k + 1]
        <5>1. \A j \in 1 .. k : j \in 1 .. n /\ j # k + 1
          BY <1>1
        <5> QED BY <1>1, <3>1, <3>4, <5>1 DEF IsInjective
      <4>3. PICK t : t = Append(s, current[k + 1])
        OBVIOUS
      <4>4. \A i \in DOMAIN t : i \in DOMAIN s \/ i = Len(s) + 1
        BY <4>1, <4>3
      <4>5. IsInjective(t)
        BY <3>4, <4>1, <4>2, <4>3, <4>4 DEF IsInjective
      <4>6. \A i \in DOMAIN t : \E j \in 1 .. k + 1 : t[i] = current[j]
        <5>1. k + 1 \in 1 .. k + 1 /\ \A j \in 1 .. k : j \in 1 .. k + 1
          BY <1>1
        <5> QED BY <3>4, <4>1, <4>3, <4>4, <5>1
      <4> QED BY <3>1, <3>6, <4>1, <4>3, <4>5, <4>6
    <3> QED BY <3>2, <3>3, <3>5, <3>6
  <2>3. n \in Nat
    BY <1>1
  <2> HIDE DEF Part, n
  <2> QED BY <2>1, <2>2, <2>3, LoopKeeps
<1>8. kept[n] \in S /\ IsInjective(kept[n])
  <2>1. n \in 0 .. n
    BY <1>1
  <2> HIDE DEF kept, n, S
  <2> QED BY <1>7, <2>1
<1>9. KeptAddresses(current, us) = kept[n]
  BY DEF KeptAddresses
<1> QED BY <1>8, <1>9

\* What is added parses, and is not there yet.
LEMMA AddedIsNew ==
    ASSUME NEW r \in Requests, ~ AddressError(r.addrs),
           NEW addrs, Announceable(addrs)
    PROVE  Announceable(WithAdded(addrs, r.addrs))
<1> DEFINE us == r.addrs
           n == Len(us)
           A == ToSet(addrs) \cup {us[k].addr : k \in 1 .. n}
           S == {s \in Seq(A) : IsInjective(s)}
           Body(g) == [k \in 0 .. n |-> IF k = 0 THEN addrs ELSE AddNew(g[k - 1], us[k])]
           added == CHOOSE g : g = Body(g)
           step == [k \in 1 .. n |-> [s \in S |-> AddNew(s, us[k])]]
           Kept == [k \in 0 .. n |-> S]
<1>1. n \in Nat /\ DOMAIN us = 1 .. n
  BY RequestsAssumption DEF RequestsAssumption
<1>2. A \cap Unparsable = {}
  BY <1>1 DEF AddressError, Announceable
<1>3. ASSUME NEW k \in 1 .. n, NEW s \in S PROVE AddNew(s, us[k]) \in S
  <2>1. PICK a \in A : a = us[k].addr
    BY <1>1
  <2>2. CASE AddNew(s, us[k]) = s
    BY <2>2
  <2>3. CASE AddNew(s, us[k]) = Append(s, a) /\ ~ Contains(s, a)
    <3>1. /\ Append(s, a) \in Seq(A)
          /\ DOMAIN s = 1 .. Len(s) /\ Len(s) \in Nat
          /\ DOMAIN Append(s, a) = 1 .. Len(s) + 1
          /\ \A i \in DOMAIN s : Append(s, a)[i] = s[i]
          /\ Append(s, a)[Len(s) + 1] = a
      OBVIOUS
    <3>2. \A i \in DOMAIN s : s[i] # a
      BY <2>3, <3>1 DEF Contains
    <3>3. PICK t : t = Append(s, a)
      OBVIOUS
    <3>4. \A i \in DOMAIN t : i \in DOMAIN s \/ i = Len(s) + 1
      BY <3>1, <3>3
    <3>5. IsInjective(t)
      BY <3>1, <3>2, <3>3, <3>4 DEF IsInjective
    <3> QED BY <2>3, <3>1, <3>3, <3>5
  <2> QED BY <2>1, <2>2, <2>3 DEF AddNew
<1>4. step \in [1 .. n -> [S -> S]]
  BY <1>3
<1>5. addrs \in S
  <2>1. addrs \in Seq(ToSet(addrs)) /\ ToSet(addrs) \subseteq A /\ IsInjective(addrs)
    BY DEF Announceable
  <2> HIDE DEF A
  <2> QED BY <2>1
<1>6. PICK g \in [0 .. n -> S] : g[0] = addrs /\ \A k \in 1 .. n : g[k] = step[k][g[k - 1]]
  <2>1. IsLoop(S, addrs, n, step)
    BY <1>1, <1>4, <1>5 DEF IsLoop
  <2> HIDE DEF step, n, S
  <2> QED BY <2>1, LoopRuns DEF HasRun
<1>7. g = Body(g)
  <2>1. \A k \in 0 .. n : k # 0 => k \in 1 .. n /\ k - 1 \in 0 .. n
    BY <1>1
  <2> HIDE DEF S
  <2>2. \A k \in 1 .. n : step[k][g[k - 1]] = AddNew(g[k - 1], us[k])
    BY <2>1
  <2>3. g = [k \in 0 .. n |-> g[k]]
    BY <1>6
  <2> HIDE DEF step, n
  <2>4. \A k \in 0 .. n : g[k] = IF k = 0 THEN addrs ELSE AddNew(g[k - 1], us[k])
    BY <1>6, <2>1, <2>2
  <2> QED BY <2>3, <2>4
<1>8. added = Body(added)
  <2> HIDE DEF Body
  <2> QED BY <1>7
<1>9. added[n] \in S
  <2> HIDE DEF added, S
  <2>1. added[0] \in Kept[0]
    <3>1. 0 \in 0 .. n
      BY <1>1
    <3> QED BY <1>5, <1>8, <3>1
  <2>2. ASSUME NEW k \in 0 .. n - 1, added[k] \in Kept[k] PROVE added[k + 1] \in Kept[k + 1]
    <3>1. k \in 0 .. n /\ k + 1 \in 0 .. n /\ k + 1 # 0 /\ (k + 1) - 1 = k /\ k + 1 \in 1 .. n
      BY <1>1
    <3>2. added[k + 1] = AddNew(added[k], us[k + 1])
      BY <1>8, <3>1
    <3> QED BY <1>3, <2>2, <3>1, <3>2
  <2>3. n \in Nat /\ n \in 0 .. n
    BY <1>1
  <2>4. added[n] \in Kept[n]
    <3> HIDE DEF Kept, n
    <3> QED BY <2>1, <2>2, <2>3, LoopKeeps
  <2> HIDE DEF n
  <2> QED BY <2>3, <2>4
<1>10. WithAdded(addrs, us) = added[n]
  BY DEF WithAdded
<1>11. Announceable(added[n])
  <2> HIDE DEF added, n
  <2>1. added[n] \in Seq(A) /\ IsInjective(added[n])
    BY <1>9
  <2>2. PICK s \in Seq(A) : s = added[n]
    BY <2>1
  <2>3. ToSet(s) \subseteq A /\ s \in Seq(ToSet(s))
    <3> HIDE DEF A
    <3> QED BY DEF ToSet
  <2> QED BY <1>2, <2>1, <2>2, <2>3 DEF Announceable
<1> QED BY <1>10, <1>11

\* A list that is handed to lnd may be announced if the one that was read could.
LEMMA AddressesAnnounceable ==
    ASSUME NEW r \in Requests, NEW current, Announceable(current),
           NEW a \in UpdateAddresses(current, r.addrs)
    PROVE  Announceable(a)
<1>1. ~ AddressError(r.addrs) /\ a = WithAdded(KeptAddresses(current, r.addrs), r.addrs)
  BY DEF UpdateAddresses
<1>2. PICK kept : kept = KeptAddresses(current, r.addrs)
  OBVIOUS
<1>3. kept \in Seq(ToSet(current)) /\ IsInjective(kept)
  BY <1>2, KeptIsPart DEF Announceable
<1>4. kept \in Seq(ToSet(kept)) /\ ToSet(kept) \subseteq ToSet(current)
  <2> DEFINE A == ToSet(current)
  <2>1. kept \in Seq(A)
    BY <1>3
  <2>2. kept \in Seq(ToSet(kept)) /\ ToSet(kept) \subseteq A
    <3> HIDE DEF A
    <3> QED BY <2>1 DEF ToSet
  <2> QED BY <2>2
<1>5. Announceable(kept)
  BY <1>3, <1>4 DEF Announceable
<1> QED BY <1>1, <1>2, <1>5, AddedIsNew

-----------------------------------------------------------------------------
(* The announcement *)

\* What lnd announces and every call starts from: features that go together, and
\* addresses that parse, each of them once.
Sound(a) ==
    /\ a.features \subseteq Bits /\ ValidFeatures(a.features)
    /\ Announceable(a.addrs)

\* What a call that is under way holds: what it read, and what follows from it.
AnnInv ==
    /\ DOMAIN ann = {"features", "addrs", "color", "alias"} /\ Sound(ann)
    /\ DOMAIN update = Callers
    /\ \A c \in Callers :
          \/ update[c] = NoUpdate
          \/ \E r \in Requests, read \in update[c].read :
                /\ Sound(read) /\ NewAnnouncement(r, read) # {}
                /\ update[c] = [req |-> {r}, read |-> {read}, new |-> NewAnnouncement(r, read)]
    /\ updates \in 0 .. MaxUpdates

\* What a request does not name is handed over as it was read, or not at all,
\* and a vector that is handed over is whole.
LEMMA HandedOver ==
    ASSUME NEW r, NEW read, NEW m \in NewAnnouncement(r, read)
    PROVE  /\ r.features = << >> => m.features = read.features
           /\ ValidFeatures(read.features) => ValidFeatures(m.features)
           /\ r.addrs = << >> => m.addrs = {}
           /\ r.color = {} => m.color = {}
           /\ r.alias = {} => m.alias = {}
<1>1. /\ m.features \in IF r.features = << >> THEN {read.features}
                        ELSE UpdateFeatures(read.features, r.features)
      /\ m.addrs \in IF r.addrs = << >> THEN {{}}
                     ELSE {{a} : a \in UpdateAddresses(read.addrs, r.addrs)}
      /\ m.color = r.color \ {read.color}
      /\ m.alias = r.alias \ {read.alias}
  BY DEF NewAnnouncement
<1>2. \A v \in UpdateFeatures(read.features, r.features) : ValidFeatures(v)
  BY DEF UpdateFeatures
<1> QED BY <1>1, <1>2

\* So what a call hands over can be announced.
LEMMA HandedOverSound ==
    ASSUME NEW r \in Requests, NEW read, Sound(read), NEW m \in NewAnnouncement(r, read)
    PROVE  /\ m.features \subseteq Bits /\ ValidFeatures(m.features)
           /\ \A a \in m.addrs : Announceable(a)
<1>1. /\ m.features \in IF r.features = << >> THEN {read.features}
                        ELSE UpdateFeatures(read.features, r.features)
      /\ m.addrs \in IF r.addrs = << >> THEN {{}}
                     ELSE {{a} : a \in UpdateAddresses(read.addrs, r.addrs)}
  BY DEF NewAnnouncement
<1>2. m.features \subseteq Bits
  BY <1>1, AppliedWithinBits DEF UpdateFeatures, Sound
<1>3. ASSUME NEW a \in m.addrs PROVE Announceable(a)
  BY <1>1, AddressesAnnounceable DEF Sound
<1> QED BY <1>2, <1>3, HandedOver DEF Sound

LEMMA InitAnn1 == AnnInit => AnnInv
<1> SUFFICES ASSUME AnnInit PROVE AnnInv
  OBVIOUS
<1>1. Sound(ann) /\ DOMAIN ann = {"features", "addrs", "color", "alias"}
  BY InitAnnAssumption DEF AnnInit, InitAnnAssumption, Sound, ValidFeatures, Announceable
<1>2. updates \in 0 .. MaxUpdates
  BY MaxUpdatesAssumption DEF AnnInit, MaxUpdatesAssumption
<1> QED BY <1>1, <1>2 DEF AnnInit, AnnInv

LEMMA GetAnn ==
    ASSUME AnnInv, NEW c \in Callers, GetNodeAnnouncement(c)
    PROVE  AnnInv'
<1>1. PICK r \in Requests :
        update' = [update EXCEPT ![c] =
            IF NewAnnouncement(r, ann) = {} THEN NoUpdate
            ELSE [req |-> {r}, read |-> {ann}, new |-> NewAnnouncement(r, ann)]]
  BY DEF GetNodeAnnouncement
<1>2. ann' = ann /\ updates' \in 0 .. MaxUpdates
  BY MaxUpdatesAssumption DEF GetNodeAnnouncement, AnnInv, MaxUpdatesAssumption
<1>3. \/ update'[c] = NoUpdate
      \/ /\ NewAnnouncement(r, ann) # {}
         /\ update'[c] = [req |-> {r}, read |-> {ann}, new |-> NewAnnouncement(r, ann)]
  BY <1>1 DEF AnnInv
<1>4. \/ update'[c] = NoUpdate
      \/ \E q \in Requests, read \in update'[c].read :
            /\ Sound(read) /\ NewAnnouncement(q, read) # {}
            /\ update'[c] = [req |-> {q}, read |-> {read}, new |-> NewAnnouncement(q, read)]
  <2>1. ASSUME NewAnnouncement(r, ann) # {},
               update'[c] = [req |-> {r}, read |-> {ann}, new |-> NewAnnouncement(r, ann)]
        PROVE  \E read \in update'[c].read :
                  /\ Sound(read) /\ NewAnnouncement(r, read) # {}
                  /\ update'[c] = [req |-> {r}, read |-> {read}, new |-> NewAnnouncement(r, read)]
    <3>1. ann \in update'[c].read
      BY <2>1
    <3>2. Sound(ann)
      BY DEF AnnInv
    <3> QED BY <2>1, <3>1, <3>2
  <2> QED BY <1>3, <2>1
<1>5. \A d \in Callers \ {c} : update'[d] = update[d]
  BY <1>1 DEF AnnInv
<1> QED BY <1>1, <1>2, <1>4, <1>5 DEF AnnInv

\* One step of a call that ends: what was announced stays, or is what the call
\* computed from what it had read.
LEMMA EndAnn ==
    ASSUME AnnInv, NEW c \in Callers, UpdateNodeAnnouncement(c)
    PROVE  /\ DOMAIN update' = Callers
           /\ update'[c] = NoUpdate
           /\ \A d \in Callers \ {c} : update'[d] = update[d]
           /\ updates' = updates
           /\ \E r \in Requests, read \in update[c].read :
                 /\ Sound(read)
                 /\ update[c].req = {r} /\ update[c].read = {read}
                 /\ \/ ann' = ann
                    \/ \E m \in NewAnnouncement(r, read) :
                          ann' = [features |-> m.features, addrs |-> Else(m.addrs, ann.addrs),
                                  color |-> Else(m.color, ann.color),
                                  alias |-> Else(m.alias, ann.alias)]
<1>1. PICK r \in Requests, read \in update[c].read :
         /\ Sound(read)
         /\ update[c] = [req |-> {r}, read |-> {read}, new |-> NewAnnouncement(r, read)]
  BY DEF AnnInv, UpdateNodeAnnouncement
<1>2. /\ update[c].req = {r} /\ update[c].read = {read}
      /\ update[c].new = NewAnnouncement(r, read)
  BY <1>1
<1>3. update' = [update EXCEPT ![c] = NoUpdate]
  BY DEF UpdateNodeAnnouncement
<1> QED BY <1>1, <1>2, <1>3 DEF UpdateNodeAnnouncement, AnnInv

LEMMA UpdateAnn ==
    ASSUME AnnInv, NEW c \in Callers, UpdateNodeAnnouncement(c)
    PROVE  AnnInv'
<1>1. /\ DOMAIN update' = Callers
      /\ update'[c] = NoUpdate
      /\ \A d \in Callers \ {c} : update'[d] = update[d]
  BY EndAnn
<1>2. PICK r \in Requests, read \in update[c].read :
         /\ Sound(read)
         /\ \/ ann' = ann
            \/ \E m \in NewAnnouncement(r, read) :
                  ann' = [features |-> m.features, addrs |-> Else(m.addrs, ann.addrs),
                          color |-> Else(m.color, ann.color), alias |-> Else(m.alias, ann.alias)]
  BY EndAnn
<1>3. DOMAIN ann' = {"features", "addrs", "color", "alias"} /\ Sound(ann')
  <2>1. CASE ann' = ann
    BY <2>1 DEF AnnInv
  <2>2. ASSUME NEW m \in NewAnnouncement(r, read),
               ann' = [features |-> m.features, addrs |-> Else(m.addrs, ann.addrs),
                       color |-> Else(m.color, ann.color), alias |-> Else(m.alias, ann.alias)]
        PROVE  DOMAIN ann' = {"features", "addrs", "color", "alias"} /\ Sound(ann')
    <3>1. /\ m.features \subseteq Bits /\ ValidFeatures(m.features)
          /\ \A a \in m.addrs : Announceable(a)
      BY <1>2, HandedOverSound
    <3>2. Announceable(Else(m.addrs, ann.addrs))
      BY <3>1 DEF Else, AnnInv, Sound
    <3>3. /\ DOMAIN ann' = {"features", "addrs", "color", "alias"}
          /\ ann'.features = m.features /\ ann'.addrs = Else(m.addrs, ann.addrs)
      BY <2>2
    <3> QED BY <3>1, <3>2, <3>3 DEF Sound
  <2> QED BY <1>2, <2>1, <2>2
<1>4. updates' = updates
  BY EndAnn
<1> QED BY <1>1, <1>3, <1>4 DEF AnnInv

LEMMA NextAnn == AnnInv /\ [Next]_vars => AnnInv'
<1> SUFFICES ASSUME AnnInv, [Next]_vars PROVE AnnInv'
  OBVIOUS
<1>1. CASE UNCHANGED annVars
  BY <1>1 DEF annVars, AnnInv
<1>2. CASE DropUpdates
  BY <1>2 DEF DropUpdates, AnnInv
<1>3. ASSUME NEW c \in Callers, GetNodeAnnouncement(c) \/ UpdateNodeAnnouncement(c)
      PROVE  AnnInv'
  BY <1>3, GetAnn, UpdateAnn
<1> QED BY <1>1, <1>2, <1>3 DEF Next, Route, Finish, vars

LEMMA AnnAlways == Spec => []AnnInv
<1>1. Init => AnnInv
  BY InitAnn1 DEF Init
<1> QED BY <1>1, NextAnn, PTL DEF Spec

\* A call that changes what its request does not name changes the features, and
\* another call has changed them since it read them.
THEOREM UnaskedFeatures == Spec => UnaskedChangeNeedsOverlap
<1> DEFINE Explained ==
             \A c \in Callers : \A r \in update[c].req, read \in update[c].read :
                update'[c] = NoUpdate =>
                    \A f \in DOMAIN ann : ann'[f] # ann[f] =>
                        Asked(r, f) \/ (f = "features" /\ ann.features # read.features)
<1>1. AnnInv /\ [Next]_vars => Explained
  <2> SUFFICES ASSUME AnnInv, [Next]_vars,
                      NEW c \in Callers, NEW r \in update[c].req, NEW read \in update[c].read,
                      update'[c] = NoUpdate, NEW f \in DOMAIN ann, ann'[f] # ann[f]
               PROVE  Asked(r, f) \/ (f = "features" /\ ann.features # read.features)
    OBVIOUS
  <2>1. PICK d \in Callers : UpdateNodeAnnouncement(d)
    BY DEF Next, Route, Finish, GetNodeAnnouncement, DropUpdates, vars, annVars
  <2>2. d = c
    <3>1. update[c] # NoUpdate
      BY DEF NoUpdate
    <3> QED BY <2>1, <3>1, EndAnn
  <2>3. PICK m \in NewAnnouncement(r, read) :
           ann' = [features |-> m.features, addrs |-> Else(m.addrs, ann.addrs),
                   color |-> Else(m.color, ann.color), alias |-> Else(m.alias, ann.alias)]
    BY <2>1, <2>2, EndAnn
  <2>4. f \in {"features", "addrs", "color", "alias"}
    BY DEF AnnInv
  <2>5. CASE f = "features"
    <3>1. ann'.features = m.features
      BY <2>3
    <3> QED BY <2>5, <3>1, HandedOver DEF Asked
  <2>6. CASE f = "addrs"
    <3>1. ann'.addrs = Else(m.addrs, ann.addrs)
      BY <2>3
    <3> QED BY <2>6, <3>1, HandedOver DEF Asked, Else
  <2>7. CASE f = "color"
    <3>1. ann'.color = Else(m.color, ann.color)
      BY <2>3
    <3> QED BY <2>7, <3>1, HandedOver DEF Asked, Else
  <2>8. CASE f = "alias"
    <3>1. ann'.alias = Else(m.alias, ann.alias)
      BY <2>3
    <3> QED BY <2>8, <3>1, HandedOver DEF Asked, Else
  <2> QED BY <2>4, <2>5, <2>6, <2>7, <2>8
<1> QED BY <1>1, AnnAlways, PTL DEF Spec, UnaskedChangeNeedsOverlap

\* However calls overlap and lnd restarts, the announced features include all that
\* they depend on, no address is announced twice nor one that does not parse, and
\* macaroon files are whole: failures, crashes and overlapping calls leave nothing
\* half done.
THEOREM NodeIsWhole == Spec => []NothingHalfDone
<1>1. AnnInv => AnnouncementValid
  BY DEF AnnInv, Sound, Announceable, AnnouncementValid
<1> QED BY <1>1, AnnAlways, MacaroonsWhole, PTL DEF NothingHalfDone

-----------------------------------------------------------------------------
(* Types *)

\* What the types need beside the invariants: configurations are lnd's, and a
\* call is only made once the peers sub-server was started.
CallInv ==
    /\ registered \subseteq Names /\ config \in Configs
    /\ lnd \in {"down", "creating", "starting", "serving", "stopping"}
    /\ spoiled \subseteq registered \cap Bakers
    /\ boots \in 0 .. MaxBoots
    /\ lnd = "serving" => \A s \in registered : shell[s] = "started"
    /\ \A c \in Callers : update[c] # NoUpdate =>
          /\ "PeersRPC" \in registered /\ lnd \in {"serving", "stopping"}
          /\ shell["PeersRPC"] \in {"started", "stopped"}

LEMMA InitCall == Init => CallInv
<1> SUFFICES ASSUME Init PROVE CallInv
  OBVIOUS
<1>1. config \in Configs
  BY DEF Init, ServersInit, Configs
<1> QED BY <1>1, MaxBootsAssumption DEF Init, ServersInit, AnnInit, CallInv, MaxBootsAssumption

\* lnd's own steps while it runs leave a call's server as it was or stop it.
LEMMA RunningCall ==
    ASSUME FileInv, CallInv, Boot \/ Running, UNCHANGED annVars
    PROVE  CallInv'
<1> USE DEF annVars
<1>1. CASE Boot
  <2>1. config' \in Configs /\ registered' = registered
    BY <1>1 DEF Boot
  <2>2. config' \in Configs'
    BY <2>1 DEF Configs
  <2>3. boots' \in 0 .. MaxBoots
    BY <1>1, MaxBootsAssumption DEF Boot, CallInv, MaxBootsAssumption
  <2> QED BY <1>1, <2>2, <2>3 DEF Boot, CallInv
<1>2. CASE Running
  <2>1. UNCHANGED <<registered, config, boots>>
    BY <1>2 DEF Running, CreateSubServer, StartupFails, WriteMacaroon, WriteMacaroonFails,
                AllCreated, Start, Serve, Shutdown, Stop
  <2>2. Configs' = Configs
    BY <2>1 DEF Configs
  <2>3. ASSUME NEW s \in registered, CreateSubServer(s) PROVE CallInv'
    BY <2>1, <2>2, <2>3 DEF CreateSubServer, StartupFails, CallInv, NeedsMacaroon
  <2>4. ASSUME NEW s \in registered, WriteMacaroon(s) \/ WriteMacaroonFails(s) PROVE CallInv'
    BY <2>1, <2>2, <2>4 DEF WriteMacaroon, WriteMacaroonFails, StartupFails, CallInv,
                            FileInv, BakingInv, FileTypes
  <2>5. CASE AllCreated \/ Serve \/ Shutdown
    BY <2>1, <2>2, <2>5 DEF AllCreated, Serve, Shutdown, CallInv
  <2>6. ASSUME NEW s \in registered, Start(s) PROVE CallInv'
    BY <2>1, <2>2, <2>6 DEF Start, CallInv
  <2>7. ASSUME NEW s \in registered, Stop(s) PROVE CallInv'
    BY <2>1, <2>2, <2>7 DEF Stop, CallInv, FileInv, FileTypes
  <2> QED BY <1>2, <2>3, <2>4, <2>5, <2>6, <2>7 DEF Running
<1> QED BY <1>1, <1>2

LEMMA NextCall == FileInv /\ AnnInv /\ CallInv /\ [Next]_vars => CallInv'
<1> SUFFICES ASSUME FileInv, AnnInv, CallInv, [Next]_vars PROVE CallInv'
  OBVIOUS
<1>1. CASE (Exit \/ Crash) /\ DropUpdates
  <2>1. UNCHANGED <<registered, config, boots>>
    BY <1>1 DEF Exit, Crash
  <2>2. Configs' = Configs
    BY <2>1 DEF Configs
  <2> QED BY <1>1, <2>1, <2>2 DEF Exit, Crash, DropUpdates, CallInv, FileInv, FileTypes
<1>2. ASSUME UNCHANGED serverVars PROVE Configs' = Configs
  BY <1>2 DEF serverVars, Configs
<1>3. ASSUME NEW c \in Callers, Route(c) PROVE CallInv'
  BY <1>2, <1>3 DEF Route, GetNodeAnnouncement, serverVars, CallInv, AnnInv
<1>4. ASSUME NEW c \in Callers, Finish(c) PROVE CallInv'
  BY <1>2, <1>4 DEF Finish, UpdateNodeAnnouncement, serverVars, CallInv, AnnInv
<1>5. CASE UNCHANGED vars
  BY <1>2, <1>5 DEF vars, annVars, serverVars, CallInv
<1> QED BY <1>1, <1>3, <1>4, <1>5, RunningCall DEF Next

\* Types, and a call is only under way in a sub-server that was started.
THEOREM ServersTypesKept == Spec => []TypeOK
<1>1. FileInv /\ CallInv => ServersTypeOK
  <2> SUFFICES ASSUME FileInv, CallInv PROVE ServersTypeOK
    OBVIOUS
  <2>1. Cardinality(baking) <= 1
    <3>1. CASE baking = {}
      BY <3>1, FS_EmptySet
    <3>2. ASSUME NEW s \in baking PROVE Cardinality(baking) <= 1
      <4>1. baking = {s}
        BY <3>2 DEF FileInv, BakingInv
      <4> QED BY <4>1, FS_Singleton
    <3> QED BY <3>1, <3>2
  <2> QED BY <2>1 DEF FileInv, FileTypes, CallInv, ServersTypeOK
<1>2. AnnInv => AnnTypeOK
  <2> SUFFICES ASSUME AnnInv PROVE AnnTypeOK
    OBVIOUS
  <2>1. ASSUME NEW c \in Callers
        PROVE  /\ update[c].req \subseteq Requests
               /\ (update[c].new = {}) = (update[c] = NoUpdate)
               /\ \A m \in update[c].new : m.features \subseteq Bits
    <3>1. CASE update[c] = NoUpdate
      BY <3>1 DEF NoUpdate
    <3>2. CASE update[c] # NoUpdate
      <4>1. PICK r \in Requests, read \in update[c].read :
               /\ Sound(read) /\ NewAnnouncement(r, read) # {}
               /\ update[c] = [req |-> {r}, read |-> {read}, new |-> NewAnnouncement(r, read)]
        BY <3>2 DEF AnnInv
      <4>2. update[c].req = {r} /\ update[c].new = NewAnnouncement(r, read)
        BY <4>1
      <4> QED BY <3>2, <4>1, <4>2, HandedOverSound
    <3> QED BY <3>1, <3>2
  <2> QED BY <2>1 DEF AnnInv, Sound, AnnTypeOK
<1>3. FileInv /\ AnnInv /\ CallInv => TypeOK
  BY <1>1, <1>2 DEF CallInv, TypeOK
<1> QED BY <1>3, FilesAlways, AnnAlways, InitCall, NextCall, PTL DEF Spec

-----------------------------------------------------------------------------
(* Sequences without repetitions *)

\* A sequence is one of its own elements.
LEMMA SeqOfOwn ==
    ASSUME NEW S, NEW s \in Seq(S)
    PROVE  s \in Seq(ToSet(s)) /\ ToSet(s) \subseteq S
<1>1. Len(s) \in Nat /\ DOMAIN s = 1 .. Len(s) /\ s \in [1 .. Len(s) -> S]
  BY LenProperties
<1>2. s \in [1 .. Len(s) -> ToSet(s)]
  BY <1>1 DEF ToSet
<1>3. ToSet(s) \subseteq S
  BY <1>1 DEF ToSet
<1> QED BY <1>1, <1>2, <1>3

\* A sequence without repetitions is as long as it has elements.
LEMMA InjectiveLen ==
    ASSUME NEW S, NEW s \in Seq(S), IsInjective(s)
    PROVE  IsFiniteSet(ToSet(s)) /\ Cardinality(ToSet(s)) = Len(s)
<1>1. Len(s) \in Nat /\ DOMAIN s = 1 .. Len(s) /\ s \in [1 .. Len(s) -> S]
  BY LenProperties
<1>2. s \in Bijection(1 .. Len(s), ToSet(s))
  <2>1. s \in [1 .. Len(s) -> ToSet(s)]
    BY <1>1 DEF ToSet
  <2>2. s \in Injection(1 .. Len(s), ToSet(s))
    BY <1>1, <2>1 DEF Injection, IsInjective
  <2>3. s \in Surjection(1 .. Len(s), ToSet(s))
    BY <1>1, <2>1 DEF Surjection, ToSet
  <2> QED BY <2>2, <2>3 DEF Bijection
<1>3. ExistsBijection(1 .. Len(s), ToSet(s))
  BY <1>2 DEF ExistsBijection
<1>4. Cardinality(ToSet(s)) = Len(s)
  BY <1>1, <1>3, FS_CountingElements
<1>5. IsFiniteSet(ToSet(s))
  BY <1>1, <1>3, FS_NatBijection
<1> QED BY <1>4, <1>5

\* The sequences of SetToSeqs have every element once.
LEMMA PermutationAll ==
    ASSUME NEW S, IsFiniteSet(S), NEW s \in SetToSeqs(S)
    PROVE  /\ s \in Seq(S) /\ Len(s) = Cardinality(S) /\ DOMAIN s = 1 .. Len(s)
           /\ IsInjective(s) /\ ToSet(s) = S
<1> DEFINE n == Cardinality(S)
<1>1. n \in Nat
  BY FS_CardinalityType
<1>2. s \in [1 .. n -> S] /\ \A i, j \in 1 .. n : i # j => s[i] # s[j]
  BY DEF SetToSeqs
<1>3. IsFiniteSet(1 .. n) /\ Cardinality(1 .. n) = n
  <2>1. IsFiniteSet(1 .. n) /\ Cardinality(1 .. n) = IF 1 > n THEN 0 ELSE n - 1 + 1
    BY <1>1, FS_Interval
  <2> QED BY <1>1, <2>1
<1>4. s \in Injection(1 .. n, S)
  BY <1>2 DEF Injection, IsInjective
<1>5. s \in Surjection(1 .. n, S)
  BY <1>3, <1>4, FS_Injection
<1> HIDE DEF n
<1>6. s \in Seq(S) /\ Len(s) = n /\ DOMAIN s = 1 .. n
  BY <1>1, <1>2
<1>7. ToSet(s) = S
  BY <1>2, <1>5 DEF ToSet, Surjection
<1>8. IsInjective(s)
  BY <1>2 DEF IsInjective
<1> QED BY <1>6, <1>7, <1>8 DEF n

-----------------------------------------------------------------------------
(* Towers *)

\* A set of numbers has its elements in order.
LEMMA OrderExists ==
    ASSUME NEW S \in SUBSET Nat, IsFiniteSet(S)
    PROVE  \E s \in SetToSeqs(S) : Ascending(s)
<1> DEFINE T == {n \in Nat : \A A \in SUBSET Nat : IsFiniteSet(A) /\ Cardinality(A) = n =>
                                \E s \in SetToSeqs(A) : Ascending(s)}
<1>1. 0 \in T
  <2> SUFFICES ASSUME NEW A \in SUBSET Nat, IsFiniteSet(A), Cardinality(A) = 0
               PROVE  \E s \in SetToSeqs(A) : Ascending(s)
    OBVIOUS
  <2>1. A = {} /\ << >> \in [1 .. 0 -> A]
    BY FS_EmptySet
  <2>2. << >> \in SetToSeqs(A)
    BY <2>1 DEF SetToSeqs
  <2>3. Ascending(<< >>)
    BY DEF Ascending
  <2> QED BY <2>2, <2>3
<1>2. ASSUME NEW n \in Nat, n \in T PROVE n + 1 \in T
  <2> SUFFICES ASSUME NEW A \in SUBSET Nat, IsFiniteSet(A), Cardinality(A) = n + 1
               PROVE  \E s \in SetToSeqs(A) : Ascending(s)
    OBVIOUS
  <2>1. A # {}
    BY FS_EmptySet
  <2>2. PICK least \in A : \A x \in A : x # least => least < x
    <3>1. PICK least \in A : \A x \in A : ~ (<<x, least>> \in OpToRel(<, Nat))
      <4>1. IsWellFoundedOn(OpToRel(<, Nat), Nat)
        BY NatLessThanWellFounded
      <4> QED BY <2>1, <4>1, WFMin, Zenon
    <3>2. \A x \in A : x < least => <<x, least>> \in OpToRel(<, Nat)
      BY DEF OpToRel
    <3>3. \A x \in A : ~ (x < least)
      BY <3>1, <3>2
    <3> QED BY <3>3
  <2> DEFINE B == A \ {least}
  <2>3. IsFiniteSet(B) /\ Cardinality(B) = n
    <3>1. IsFiniteSet(B) /\ Cardinality(B) = Cardinality(A) - 1
      BY FS_RemoveElement
    <3> QED BY <3>1
  <2>4. B \in SUBSET Nat
    OBVIOUS
  <2>5. PICK s \in SetToSeqs(B) : Ascending(s)
    <3> HIDE DEF B
    <3> QED BY <1>2, <2>3, <2>4
  <2>6. /\ s \in [1 .. n -> B] /\ \A i, j \in 1 .. n : i # j => s[i] # s[j]
        /\ \A i, j \in 1 .. n : i < j => s[i] < s[j]
    <3>1. s \in [1 .. n -> B] /\ \A i, j \in 1 .. n : i # j => s[i] # s[j]
      <4> HIDE DEF B
      <4> QED BY <2>3, <2>5 DEF SetToSeqs
    <3> QED BY <2>5, <3>1 DEF Ascending
  <2> DEFINE t == [i \in 1 .. n + 1 |-> IF i = 1 THEN least ELSE s[i - 1]]
  <2>7. \A i \in 1 .. n + 1 : i # 1 => i - 1 \in 1 .. n
    OBVIOUS
  <2>8. \A i \in 1 .. n + 1 : i # 1 => t[i] = s[i - 1] /\ t[i] \in B
    BY <2>6, <2>7
  <2>9. t[1] = least
    OBVIOUS
  <2>10. t \in [1 .. n + 1 -> A]
    BY <2>6, <2>7
  <2> HIDE DEF t
  <2>11. \A i, j \in 1 .. n + 1 : i < j => t[i] < t[j]
    <3> SUFFICES ASSUME NEW i \in 1 .. n + 1, NEW j \in 1 .. n + 1, i < j PROVE t[i] < t[j]
      OBVIOUS
    <3>1. j # 1
      OBVIOUS
    <3>2. CASE i = 1
      BY <2>2, <2>8, <2>9, <3>1, <3>2
    <3>3. CASE i # 1
      <4>1. i - 1 \in 1 .. n /\ j - 1 \in 1 .. n /\ i - 1 < j - 1
        BY <3>1, <3>3
      <4>2. s[i - 1] < s[j - 1]
        BY <2>6, <4>1
      <4> QED BY <2>8, <3>1, <3>3, <4>2
    <3> QED BY <3>2, <3>3
  <2>12. \A i, j \in 1 .. n + 1 : i # j => t[i] # t[j]
    <3> SUFFICES ASSUME NEW i \in 1 .. n + 1, NEW j \in 1 .. n + 1, i # j PROVE t[i] # t[j]
      OBVIOUS
    <3>1. i < j \/ j < i
      OBVIOUS
    <3>2. t[i] \in Nat /\ t[j] \in Nat
      BY <2>10
    <3> QED BY <2>11, <3>1, <3>2
  <2>13. t \in SetToSeqs(A)
    BY <2>10, <2>12 DEF SetToSeqs
  <2>14. DOMAIN t = 1 .. n + 1
    BY <2>10
  <2>15. Ascending(t)
    BY <2>11, <2>14 DEF Ascending
  <2> QED BY <2>13, <2>15
<1>3. Nat \subseteq T
  <2> HIDE DEF T
  <2> QED BY <1>1, <1>2, SetInduction
<1> QED BY <1>3, FS_CardinalityType

\* Two sequences without repetitions and nothing in common, one after the other.
LEMMA ConcatDistinct ==
    ASSUME NEW X, NEW s \in Seq(X), NEW t \in Seq(X), IsInjective(s), IsInjective(t),
           ToSet(s) \cap ToSet(t) = {}
    PROVE  s \o t \in Seq(X) /\ IsInjective(s \o t) /\ ToSet(s \o t) = ToSet(s) \cup ToSet(t)
<1> DEFINE u == s \o t
<1>1. /\ u \in Seq(X) /\ Len(u) = Len(s) + Len(t) /\ Len(s) \in Nat /\ Len(t) \in Nat
      /\ \A i \in 1 .. Len(u) : u[i] = IF i <= Len(s) THEN s[i] ELSE t[i - Len(s)]
  BY ConcatProperties, LenProperties
<1>2. DOMAIN u = 1 .. Len(u) /\ DOMAIN s = 1 .. Len(s) /\ DOMAIN t = 1 .. Len(t)
  BY <1>1, LenProperties
<1> HIDE DEF u
<1>3. ASSUME NEW i \in 1 .. Len(s) PROVE i \in DOMAIN u /\ u[i] = s[i]
  BY <1>1, <1>2
<1>4. ASSUME NEW i \in 1 .. Len(t) PROVE i + Len(s) \in DOMAIN u /\ u[i + Len(s)] = t[i]
  BY <1>1, <1>2
<1>5. ASSUME NEW i \in DOMAIN u
      PROVE  (i \in DOMAIN s /\ u[i] = s[i]) \/ (i - Len(s) \in DOMAIN t /\ u[i] = t[i - Len(s)])
  BY <1>1, <1>2
<1>6. \A i \in DOMAIN s : s[i] \in ToSet(s)
  BY DEF ToSet
<1>7. \A i \in DOMAIN t : t[i] \in ToSet(t)
  BY DEF ToSet
<1>8. ToSet(u) \subseteq ToSet(s) \cup ToSet(t)
  BY <1>5, <1>6, <1>7 DEF ToSet
<1>9. ToSet(s) \subseteq ToSet(u)
  BY <1>2, <1>3 DEF ToSet
<1>10. ToSet(t) \subseteq ToSet(u)
  BY <1>2, <1>4 DEF ToSet
<1>11. ASSUME NEW i \in DOMAIN u, NEW j \in DOMAIN u, u[i] = u[j] PROVE i = j
  <2>1. \A x : ~ (x \in ToSet(s) /\ x \in ToSet(t))
    OBVIOUS
  <2>2. CASE i \in DOMAIN s /\ u[i] = s[i] /\ j \in DOMAIN s /\ u[j] = s[j]
    BY <1>11, <2>2 DEF IsInjective
  <2>3. CASE /\ i - Len(s) \in DOMAIN t /\ u[i] = t[i - Len(s)]
             /\ j - Len(s) \in DOMAIN t /\ u[j] = t[j - Len(s)]
    <3>1. i - Len(s) = j - Len(s)
      BY <1>11, <2>3 DEF IsInjective
    <3> QED BY <1>1, <1>2, <3>1
  <2> QED BY <1>5, <1>6, <1>7, <1>11, <2>1, <2>2, <2>3
<1>12. IsInjective(u)
  BY <1>11 DEF IsInjective
<1> QED BY <1>1, <1>8, <1>9, <1>10, <1>12 DEF u

\* The sessions of a tower under one policy, as they are told.
ListedIds(db, t, p, req) == IF req.include_sessions THEN InOrder(Fetched(db, t, p, req)) ELSE << >>

SessionsTold(db, t, p, req) ==
    [k \in DOMAIN ListedIds(db, t, p, req) |-> TowerSession(db, ListedIds(db, t, p, req)[k])]

Info(db, t, p, req) ==
    [policy_type |-> p, num_sessions |-> Cardinality(Fetched(db, t, p, req)),
     sessions |-> SessionsTold(db, t, p, req)]

SessionSet(db, ids) == {TowerSession(db, i) : i \in ids}

\* The parts of a tower under one policy.
LEMMA MarshallParts ==
    ASSUME NEW db, NEW t, NEW p, NEW req
    PROVE  MarshallTower(db, t, p, req)
              = [pubkey |-> t, num_sessions |-> Cardinality(Fetched(db, t, p, req)),
                 sessions |-> SessionsTold(db, t, p, req),
                 session_info |-> <<Info(db, t, p, req)>>]
  BY Zenon DEF MarshallTower, SessionsTold, ListedIds, Info

\* The ids that are fetched, of which there are finitely many.
LEMMA FetchedIds ==
    ASSUME NEW db \in Databases, NEW t, NEW p, NEW req
    PROVE  /\ Fetched(db, t, p, req) \subseteq SessionsOf(db, t, p)
           /\ Fetched(db, t, p, req) \in SUBSET Nat /\ IsFiniteSet(Fetched(db, t, p, req))
<1>1. PICK ids \in SUBSET SessionIds : db \in [ids -> Sessions]
  BY DEF Databases
<1>2. Fetched(db, t, p, req) \subseteq SessionsOf(db, t, p)
  BY DEF Fetched
<1>3. SessionsOf(db, t, p) \subseteq SessionIds
  BY <1>1 DEF SessionsOf
<1>4. SessionIds \subseteq Nat /\ IsFiniteSet(SessionIds)
  BY TowerAssumption DEF TowerAssumption
<1>5. Fetched(db, t, p, req) \subseteq SessionIds
  BY <1>2, <1>3
<1>6. IsFiniteSet(Fetched(db, t, p, req))
  BY <1>4, <1>5, FS_Subset
<1> QED BY <1>2, <1>4, <1>5, <1>6

\* The ids of a policy's sessions, in order and each once.
LEMMA IdsListed ==
    ASSUME NEW db \in Databases, NEW t, NEW p, NEW req
    PROVE  LET l == ListedIds(db, t, p, req)
               ids == Fetched(db, t, p, req)
           IN  /\ l \in Seq(ids) /\ DOMAIN l = 1 .. Len(l) /\ IsInjective(l) /\ Ascending(l)
               /\ req.include_sessions => Len(l) = Cardinality(ids) /\ ToSet(l) = ids
<1> DEFINE l == ListedIds(db, t, p, req)
           ids == Fetched(db, t, p, req)
<1>1. ids \in SUBSET Nat /\ IsFiniteSet(ids)
  BY FetchedIds
<1>2. CASE req.include_sessions
  <2>1. l = InOrder(ids)
    BY <1>2 DEF ListedIds
  <2> HIDE DEF l, ids
  <2>2. l \in SetToSeqs(ids) /\ Ascending(l)
    BY <1>1, <2>1, OrderExists DEF InOrder
  <2>3. /\ l \in Seq(ids) /\ Len(l) = Cardinality(ids) /\ DOMAIN l = 1 .. Len(l)
        /\ IsInjective(l) /\ ToSet(l) = ids
    BY <1>1, <2>2, PermutationAll
  <2> QED BY <2>2, <2>3 DEF l, ids
<1>3. CASE ~ req.include_sessions
  <2>1. l = << >>
    BY <1>3 DEF ListedIds
  <2> HIDE DEF l, ids
  <2>2. << >> \in Seq(ids) /\ Len(<< >>) = 0 /\ DOMAIN << >> = 1 .. 0
    OBVIOUS
  <2>3. IsInjective(<< >>) /\ Ascending(<< >>)
    BY DEF IsInjective, Ascending
  <2> QED BY <1>3, <2>1, <2>2, <2>3 DEF l, ids
<1> QED BY <1>2, <1>3

\* The sessions of a policy, each once.
LEMMA SessionsListed ==
    ASSUME NEW db \in Databases, NEW t, NEW p, NEW req
    PROVE  LET l == ListedIds(db, t, p, req)
               s == SessionsTold(db, t, p, req)
               ids == Fetched(db, t, p, req)
           IN  /\ s \in Seq(SessionSet(db, ids)) /\ DOMAIN s = DOMAIN l /\ Len(s) = Len(l)
               /\ IsInjective(s) /\ \A k \in DOMAIN s : s[k].id = l[k]
               /\ ToSet(s) \subseteq SessionSet(db, ids)
               /\ req.include_sessions => SessionSet(db, ids) \subseteq ToSet(s)
<1> DEFINE l == ListedIds(db, t, p, req)
           s == SessionsTold(db, t, p, req)
           ids == Fetched(db, t, p, req)
           X == SessionSet(db, ids)
<1>1. /\ l \in Seq(ids) /\ DOMAIN l = 1 .. Len(l) /\ IsInjective(l)
      /\ req.include_sessions => ToSet(l) = ids
  BY IdsListed
<1>2. s = [k \in DOMAIN l |-> TowerSession(db, l[k])]
  BY DEF SessionsTold
<1>3. \A i : TowerSession(db, i).id = i
  BY DEF TowerSession
<1>4. \A k \in DOMAIN l : l[k] \in ids
  BY <1>1, ElementOfSeq
<1>5. \A i \in ids : TowerSession(db, i) \in X
  BY DEF SessionSet
<1>6. \A x \in X : \E i \in ids : x = TowerSession(db, i)
  BY DEF SessionSet
<1> HIDE DEF l, s, ids, X
<1>7. Len(l) \in Nat
  BY <1>1, LenProperties
<1>8. s \in [1 .. Len(l) -> X]
  BY <1>1, <1>2, <1>4, <1>5
<1>9. s \in Seq(X) /\ Len(s) = Len(l) /\ DOMAIN s = DOMAIN l
  BY <1>1, <1>7, <1>8
<1>10. \A k \in DOMAIN s : s[k].id = l[k]
  BY <1>2, <1>3
<1>11. IsInjective(s)
  BY <1>1, <1>9, <1>10 DEF IsInjective
<1>12. ToSet(s) \subseteq X
  BY <1>1, <1>8, <1>9 DEF ToSet
<1>13. ASSUME req.include_sessions, NEW x \in X PROVE x \in ToSet(s)
  <2>1. PICK i \in ids : x = TowerSession(db, i)
    BY <1>6
  <2>2. PICK k \in DOMAIN l : l[k] = i
    BY <1>1, <1>13, <2>1 DEF ToSet
  <2>3. s[k] = x /\ k \in DOMAIN s
    BY <1>2, <2>1, <2>2
  <2> QED BY <2>3 DEF ToSet
<1> QED BY <1>9, <1>10, <1>11, <1>12, <1>13 DEF l, s, ids, X

\* Sessions of different policies are different.
LEMMA PoliciesApart ==
    ASSUME NEW db \in Databases, NEW t, NEW req, NEW p, NEW q, p # q
    PROVE  ToSet(SessionsTold(db, t, p, req)) \cap ToSet(SessionsTold(db, t, q, req)) = {}
<1> SUFFICES ASSUME NEW x \in ToSet(SessionsTold(db, t, p, req)),
                    x \in ToSet(SessionsTold(db, t, q, req))
             PROVE  FALSE
  OBVIOUS
<1>1. ASSUME NEW o, x \in ToSet(SessionsTold(db, t, o, req)) PROVE db[x.id].policy = o
  <2>1. x \in SessionSet(db, Fetched(db, t, o, req))
    BY <1>1, SessionsListed
  <2>2. PICK i \in Fetched(db, t, o, req) : x = TowerSession(db, i)
    BY <2>1 DEF SessionSet
  <2>3. x.id = i
    BY <2>2 DEF TowerSession
  <2> QED BY <2>3 DEF Fetched, SessionsOf
<1> QED BY <1>1

\* What is merged of a tower: its infos, and its sessions.
Towards(db, t, req) ==
    [pubkey : {t}, num_sessions : Nat, sessions : Seq(SessionSet(db, DOMAIN db)),
     session_info : Seq({Info(db, t, p, req) : p \in Policies})]

\* A tower as one client's marshalling tells it.
LEMMA MarshallType ==
    ASSUME NEW db \in Databases, NEW t, NEW req, NEW p \in Policies
    PROVE  MarshallTower(db, t, p, req) \in Towards(db, t, req)
<1> DEFINE ids == Fetched(db, t, p, req)
           n == Cardinality(ids)
           s == SessionsTold(db, t, p, req)
           info == Info(db, t, p, req)
<1>1. MarshallTower(db, t, p, req)
         = [pubkey |-> t, num_sessions |-> n, sessions |-> s, session_info |-> <<info>>]
  BY MarshallParts
<1>2. n \in Nat
  BY FetchedIds, FS_CardinalityType
<1>3. s \in Seq(SessionSet(db, DOMAIN db))
  <2>1. SessionSet(db, ids) \subseteq SessionSet(db, DOMAIN db)
    BY DEF SessionSet, Fetched, SessionsOf
  <2>2. s \in Seq(SessionSet(db, ids))
    BY SessionsListed
  <2> HIDE DEF ids, s
  <2> QED BY <2>1, <2>2, SeqMonotonic
<1>4. <<info>> \in Seq({Info(db, t, o, req) : o \in Policies})
  OBVIOUS
<1> HIDE DEF ids, n, s, info
<1> QED BY <1>1, <1>2, <1>3, <1>4 DEF Towards

\* Merging keeps what a tower is made of.
LEMMA MergedType ==
    ASSUME NEW db, NEW t, NEW req, NEW a \in Towards(db, t, req), NEW b \in Towards(db, t, req)
    PROVE  Merged(a, b) \in Towards(db, t, req)
<1> DEFINE m == Merged(a, b)
<1>1. m = [a EXCEPT !.session_info = a.session_info \o b.session_info,
                    !.sessions = a.sessions \o b.sessions]
  BY DEF Merged
<1>2. DOMAIN a = {"pubkey", "num_sessions", "sessions", "session_info"}
  BY DEF Towards
<1>3. a.pubkey = t /\ a.num_sessions \in Nat
  BY DEF Towards
<1>4. a.sessions \in Seq(SessionSet(db, DOMAIN db)) /\ b.sessions \in Seq(SessionSet(db, DOMAIN db))
  BY DEF Towards
<1>5. /\ a.session_info \in Seq({Info(db, t, p, req) : p \in Policies})
      /\ b.session_info \in Seq({Info(db, t, p, req) : p \in Policies})
  BY DEF Towards
<1>6. PICK ss, ii : ss = a.sessions \o b.sessions /\ ii = a.session_info \o b.session_info
  OBVIOUS
<1>7. ss \in Seq(SessionSet(db, DOMAIN db))
  BY <1>4, <1>6, ConcatProperties
<1>8. ii \in Seq({Info(db, t, p, req) : p \in Policies})
  BY <1>5, <1>6, ConcatProperties
<1>9. m = [a EXCEPT !.session_info = ii, !.sessions = ss]
  BY <1>1, <1>6
<1>10. m = [pubkey |-> a.pubkey, num_sessions |-> a.num_sessions, sessions |-> ss,
            session_info |-> ii]
  BY <1>2, <1>9
<1>11. m \in Towards(db, t, req)
  BY <1>3, <1>7, <1>8, <1>10 DEF Towards
<1> QED BY <1>11

\* The tower as it is told after the first k policies.
IsTold(db, t, req, order, k, m) ==
    /\ m \in Towards(db, t, req)
    /\ Len(m.session_info) = k
    /\ \A i \in 1 .. k : m.session_info[i] = Info(db, t, order[i], req)
    /\ IsInjective(m.sessions)
    /\ ToSet(m.sessions) = UNION {ToSet(SessionsTold(db, t, order[i], req)) : i \in 1 .. k}

\* After the first policy, what its client says is told.
LEMMA ToldFirst ==
    ASSUME NEW db \in Databases, NEW t, NEW req, NEW order, order[1] \in Policies
    PROVE  IsTold(db, t, req, order, 1, MarshallTower(db, t, order[1], req))
<1> DEFINE p == order[1]
           s == SessionsTold(db, t, p, req)
           info == Info(db, t, p, req)
<1>1. PICK m : m = MarshallTower(db, t, p, req)
  OBVIOUS
<1>2. m \in Towards(db, t, req)
  BY <1>1, MarshallType
<1>3. m = [pubkey |-> t, num_sessions |-> Cardinality(Fetched(db, t, p, req)),
           sessions |-> s, session_info |-> <<info>>]
  BY <1>1, MarshallParts
<1> HIDE DEF s, info, p
<1>4. m.sessions = s
  BY <1>3
<1>5. m.session_info = <<info>>
  BY <1>3
<1>6. Len(<<info>>) = 1 /\ <<info>>[1] = info
  OBVIOUS
<1>7. \A i \in 1 .. 1 : i = 1
  OBVIOUS
<1>8. IsInjective(s)
  BY SessionsListed DEF s
<1>9. ToSet(s) = UNION {ToSet(SessionsTold(db, t, order[i], req)) : i \in 1 .. 1}
  BY <1>7 DEF s, p
<1>10. \A i \in 1 .. 1 : m.session_info[i] = Info(db, t, order[i], req)
  BY <1>5, <1>6, <1>7 DEF info, p
<1> QED BY <1>1, <1>2, <1>4, <1>5, <1>6, <1>8, <1>9, <1>10 DEF IsTold, p

\* Each further policy adds its info and its sessions, which are others.
LEMMA ToldNext ==
    ASSUME NEW db \in Databases, NEW t, NEW req, NEW n \in Nat, NEW order \in [1 .. n -> Policies],
           IsInjective(order), NEW k \in 1 .. n, k + 1 \in 1 .. n,
           NEW a, IsTold(db, t, req, order, k, a)
    PROVE  IsTold(db, t, req, order, k + 1,
                  Merged(a, MarshallTower(db, t, order[k + 1], req)))
<1> DEFINE p == order[k + 1]
           s == SessionsTold(db, t, p, req)
           info == Info(db, t, p, req)
           Y == {Info(db, t, o, req) : o \in Policies}
           X == SessionSet(db, DOMAIN db)
<1>0. p \in Policies
  OBVIOUS
<1>1. PICK b : b = MarshallTower(db, t, p, req)
  OBVIOUS
<1>2. b \in Towards(db, t, req)
  BY <1>0, <1>1, MarshallType
<1>3. b = [pubkey |-> t, num_sessions |-> Cardinality(Fetched(db, t, p, req)),
           sessions |-> s, session_info |-> <<info>>]
  BY <1>1, MarshallParts
<1>4. PICK m : m = Merged(a, b)
  OBVIOUS
<1>5. a \in Towards(db, t, req)
  BY DEF IsTold
<1>6. m \in Towards(db, t, req)
  BY <1>2, <1>4, <1>5, MergedType
<1>6a. PICK ss, ii : ss = a.sessions \o b.sessions /\ ii = a.session_info \o b.session_info
  OBVIOUS
<1>6b. m.sessions = ss /\ m.session_info = ii
  <2>1. m = [a EXCEPT !.session_info = ii, !.sessions = ss]
    BY <1>4, <1>6a DEF Merged
  <2>2. DOMAIN a = {"pubkey", "num_sessions", "sessions", "session_info"}
    BY <1>5 DEF Towards
  <2>3. m.sessions = ss
    BY <2>1, <2>2
  <2>4. m.session_info = ii
    BY <2>1, <2>2
  <2> QED BY <2>3, <2>4
<1>7. a.sessions \in Seq(X) /\ b.sessions \in Seq(X)
  BY <1>2, <1>5 DEF Towards
<1>8. a.session_info \in Seq(Y) /\ b.session_info \in Seq(Y)
  BY <1>2, <1>5 DEF Towards
<1> HIDE DEF s, info, X, Y
<1>9. b.sessions = s
  BY <1>3
<1>10. b.session_info = <<info>>
  BY <1>3
<1>11. Len(b.session_info) = 1 /\ b.session_info[1] = info
  BY <1>10
<1>12. Len(a.session_info) = k /\ \A i \in 1 .. k : a.session_info[i] = Info(db, t, order[i], req)
  BY DEF IsTold
<1>13. /\ Len(m.session_info) = k + 1
       /\ \A i \in 1 .. k + 1 : m.session_info[i] = IF i <= k THEN a.session_info[i]
                                                   ELSE b.session_info[i - k]
  <2>1. PICK c, d, e : c = a.session_info /\ d = b.session_info /\ e = m.session_info
    OBVIOUS
  <2>2. c \in Seq(Y) /\ d \in Seq(Y) /\ e = c \o d /\ Len(c) = k /\ Len(d) = 1
    BY <1>6a, <1>6b, <1>8, <1>11, <1>12, <2>1
  <2>3. /\ Len(c \o d) = Len(c) + Len(d)
        /\ \A i \in 1 .. Len(c \o d) : (c \o d)[i] = IF i <= Len(c) THEN c[i] ELSE d[i - Len(c)]
    <3>1. PICK Z : c \in Seq(Z) /\ d \in Seq(Z)
      BY <2>2
    <3> QED BY <3>1, ConcatProperties
  <2>4. Len(e) = k + 1 /\ \A i \in 1 .. k + 1 : e[i] = IF i <= k THEN c[i] ELSE d[i - k]
    BY <2>2, <2>3
  <2> QED BY <2>1, <2>4
<1>15. ASSUME NEW i \in 1 .. k + 1 PROVE m.session_info[i] = Info(db, t, order[i], req)
  <2>1. CASE i <= k
    <3>1. i \in 1 .. k
      BY <2>1
    <3> QED BY <1>12, <1>13, <2>1, <3>1
  <2>2. CASE ~ (i <= k)
    <3>1. i = k + 1 /\ i - k = 1
      BY <2>2
    <3> QED BY <1>11, <1>13, <2>2, <3>1 DEF info
  <2> QED BY <2>1, <2>2
<1>16. ToSet(a.sessions) = UNION {ToSet(SessionsTold(db, t, order[i], req)) : i \in 1 .. k}
       /\ IsInjective(a.sessions)
  BY DEF IsTold
<1>17. ASSUME NEW i \in 1 .. k PROVE ToSet(SessionsTold(db, t, order[i], req)) \cap ToSet(s) = {}
  <2>1. i \in 1 .. n /\ i # k + 1
    OBVIOUS
  <2>2. order[i] # p
    BY <2>1 DEF IsInjective
  <2> QED BY <2>2, PoliciesApart DEF s
<1>18. ToSet(a.sessions) \cap ToSet(s) = {}
  BY <1>16, <1>17
<1>19. IsInjective(s)
  BY SessionsListed DEF s
<1>20. IsInjective(m.sessions) /\ ToSet(m.sessions) = ToSet(a.sessions) \cup ToSet(s)
  BY <1>6a, <1>6b, <1>7, <1>9, <1>16, <1>18, <1>19, ConcatDistinct
<1>21. \A i : i \in 1 .. k + 1 <=> i \in 1 .. k \/ i = k + 1
  OBVIOUS
<1>22. ToSet(m.sessions) = UNION {ToSet(SessionsTold(db, t, order[i], req)) : i \in 1 .. k + 1}
  <2>1. ASSUME NEW x \in ToSet(m.sessions)
        PROVE  \E i \in 1 .. k + 1 : x \in ToSet(SessionsTold(db, t, order[i], req))
    BY <1>16, <1>20, <1>21 DEF s
  <2>2. ASSUME NEW i \in 1 .. k + 1, NEW x \in ToSet(SessionsTold(db, t, order[i], req))
        PROVE  x \in ToSet(m.sessions)
    BY <1>16, <1>20, <1>21 DEF s
  <2> QED BY <2>1, <2>2
<1> QED BY <1>1, <1>4, <1>6, <1>13, <1>15, <1>20, <1>22 DEF IsTold

\* A tower is told of by merging what each policy's client says.
LEMMA ToldRight ==
    ASSUME NEW db \in Databases, NEW t, NEW req, NEW n \in Nat, n # 0,
           NEW order \in [1 .. n -> Policies], IsInjective(order), Len(order) = n
    PROVE  IsTold(db, t, req, order, n, Told(db, t, req, order))
<1> DEFINE S == Towards(db, t, req)
           of == [k \in 1 .. n |-> MarshallTower(db, t, order[k], req)]
           Body(g) == [k \in DOMAIN order |-> IF k = 1 THEN MarshallTower(db, t, order[1], req)
                                              ELSE Merged(g[k - 1],
                                                          MarshallTower(db, t, order[k], req))]
           told == CHOOSE g : g = Body(g)
           step == [k \in 1 .. n - 1 |-> [v \in S |-> Merged(v, of[k + 1])]]
<1>1. DOMAIN order = 1 .. n /\ \A k \in 1 .. n : order[k] \in Policies
  OBVIOUS
<1>2. \A k \in 1 .. n : of[k] \in S /\ of[k] = MarshallTower(db, t, order[k], req)
  BY <1>1, MarshallType
<1>3. 1 \in 1 .. n /\ n - 1 \in Nat /\ \A k \in 1 .. n - 1 : k \in 1 .. n /\ k + 1 \in 1 .. n
  OBVIOUS
<1>4. \A k \in 1 .. n - 1, v \in S : Merged(v, of[k + 1]) \in S
  BY <1>2, <1>3, MergedType
<1>5. step \in [1 .. n - 1 -> [S -> S]]
  BY <1>4
<1>6. PICK g \in [0 .. n - 1 -> S] :
         g[0] = of[1] /\ \A k \in 1 .. n - 1 : g[k] = step[k][g[k - 1]]
  <2>1. IsLoop(S, of[1], n - 1, step)
    BY <1>2, <1>3, <1>5 DEF IsLoop
  <2> HIDE DEF step, of, S
  <2>2. HasRun(S, of[1], n - 1, step)
    BY <2>1, LoopRuns, Zenon
  <2> QED BY <2>2, Zenon DEF HasRun
<1>7. \E h : h = Body(h)
  <2> DEFINE h == [k \in 1 .. n |-> g[k - 1]]
  <2>1. \A k \in 1 .. n : k # 1 => k - 1 \in 1 .. n - 1 /\ (k - 1) - 1 \in 0 .. n - 1
                                   /\ (k - 1) + 1 = k /\ k - 1 \in 1 .. n
    BY <1>3
  <2>2. \A k \in 1 .. n : h[k] = g[k - 1]
    OBVIOUS
  <2>3. ASSUME NEW k \in 1 .. n
        PROVE  h[k] = IF k = 1 THEN MarshallTower(db, t, order[1], req)
                      ELSE Merged(h[k - 1], MarshallTower(db, t, order[k], req))
    <3>1. CASE k = 1
      <4>1. h[1] = g[0] /\ g[0] = of[1]
        BY <1>3, <1>6, <2>2
      <4> HIDE DEF h, of
      <4> QED BY <1>2, <1>3, <3>1, <4>1
    <3>2. CASE k # 1
      <4>1. h[k] = g[k - 1] /\ h[k - 1] = g[(k - 1) - 1]
        BY <2>1, <2>2, <3>2
      <4> HIDE DEF h
      <4>2. PICK j : j = k - 1
        OBVIOUS
      <4>3. j \in 1 .. n - 1 /\ j - 1 \in 0 .. n - 1 /\ j + 1 = k
        BY <2>1, <3>2, <4>2
      <4>4. g[j] = step[j][g[j - 1]] /\ g[j - 1] \in S
        <5> HIDE DEF step, S
        <5> QED BY <1>6, <4>3
      <4>5. step[j][g[j - 1]] = Merged(g[j - 1], of[j + 1])
        <5> HIDE DEF S, of
        <5> QED BY <4>3, <4>4
      <4>6. of[j + 1] = MarshallTower(db, t, order[k], req)
        <5> HIDE DEF of
        <5> QED BY <1>2, <4>3
      <4>7. h[k] = Merged(h[k - 1], MarshallTower(db, t, order[k], req))
        <5> HIDE DEF step, S, of
        <5> QED BY <4>1, <4>2, <4>4, <4>5, <4>6
      <4> QED BY <3>2, <4>7
    <3> QED BY <3>1, <3>2
  <2>4. h = [k \in 1 .. n |-> h[k]]
    OBVIOUS
  <2> HIDE DEF h
  <2>5. h = Body(h)
    BY <1>1, <2>3, <2>4
  <2> QED BY <2>5
<1>8. told = Body(told)
  <2> HIDE DEF Body
  <2> QED BY <1>7
<1>9. told[1] = MarshallTower(db, t, order[1], req)
  <2> HIDE DEF told
  <2> QED BY <1>1, <1>3, <1>8
<1>10. ASSUME NEW k \in 1 .. n, k # 1
       PROVE  told[k] = Merged(told[k - 1], MarshallTower(db, t, order[k], req))
  <2> HIDE DEF told
  <2> QED BY <1>1, <1>8, <1>10
<1> HIDE DEF told, S, step, of, Body
<1> DEFINE T == {k \in Nat : k + 1 \in 1 .. n => IsTold(db, t, req, order, k + 1, told[k + 1])}
<1>11. 0 \in T
  <2>1. IsTold(db, t, req, order, 1, told[1])
    BY <1>1, <1>3, <1>9, ToldFirst
  <2>2. 0 + 1 = 1
    OBVIOUS
  <2> QED BY <2>1, <2>2
<1>12. ASSUME NEW k \in Nat, k \in T PROVE k + 1 \in T
  <2> SUFFICES ASSUME (k + 1) + 1 \in 1 .. n
               PROVE  IsTold(db, t, req, order, (k + 1) + 1, told[(k + 1) + 1])
    OBVIOUS
  <2>1. PICK j : j = k + 1
    OBVIOUS
  <2>2. j \in 1 .. n /\ j + 1 \in 1 .. n /\ (j + 1) - 1 = j /\ j + 1 # 1
    BY <2>1
  <2>3. IsTold(db, t, req, order, j, told[j])
    BY <1>12, <2>1, <2>2
  <2>4. IsTold(db, t, req, order, j + 1, Merged(told[j], MarshallTower(db, t, order[j + 1], req)))
    <3> HIDE DEF T
    <3> QED BY <2>2, <2>3, ToldNext
  <2>5. told[j + 1] = Merged(told[j], MarshallTower(db, t, order[j + 1], req))
    BY <1>10, <2>2
  <2> QED BY <2>1, <2>4, <2>5
<1>13. n - 1 \in T
  <2> HIDE DEF T
  <2>1. Nat \subseteq T
    BY <1>11, <1>12, SetInduction
  <2> QED BY <1>3, <2>1
<1>14. IsTold(db, t, req, order, n, told[n])
  <2>1. (n - 1) + 1 = n /\ n \in 1 .. n
    OBVIOUS
  <2> QED BY <1>13, <2>1
<1>15. Told(db, t, req, order) = told[n]
  BY DEF Told, told, Body
<1> QED BY <1>14, <1>15

\* A build with the watchtower client tells, in whatever order the clients' map is
\* iterated and whatever sessions the towers have, each session of a tower once,
\* under its policy and in the list that joins the policies, and of what is still
\* pending everything.
THEOREM TowersAreTold == Spec => []TowersTold
<1>1. ASSUME NEW db \in Databases, NEW req \in TowerRequests, NEW order \in SetToSeqs(Policies),
             NEW t \in Towers
      PROVE  /\ Told(db, t, req, order).pubkey = t
             /\ SessionsToldOnce(db, req, Told(db, t, req, order))
             /\ BackupsTold(db, req, Told(db, t, req, order))
  <2>1. PICK m : m = Told(db, t, req, order)
    OBVIOUS
  <2>2. PICK n : n = Cardinality(Policies)
    OBVIOUS
  <2>3. n \in Nat /\ n # 0
    BY <2>2, TowerAssumption, FS_CardinalityType, FS_EmptySet DEF TowerAssumption
  <2>4. /\ order \in Seq(Policies) /\ Len(order) = n /\ DOMAIN order = 1 .. n
        /\ IsInjective(order) /\ ToSet(order) = Policies
    BY <2>2, PermutationAll, TowerAssumption DEF TowerAssumption
  <2>5. order \in [1 .. n -> Policies]
    BY <2>2 DEF SetToSeqs
  <2>6. IsTold(db, t, req, order, n, m)
    BY <2>1, <2>3, <2>4, <2>5, ToldRight
  <2>7. m \in Towards(db, t, req)
    BY <2>6 DEF IsTold
  <2>8. m.pubkey = t
    BY <2>7 DEF Towards
  <2>9. m.session_info \in Seq({Info(db, t, p, req) : p \in Policies})
    BY <2>7 DEF Towards
  <2>10. m.sessions \in Seq(SessionSet(db, DOMAIN db))
    BY <2>7 DEF Towards
  <2>11. PICK info : info = m.session_info
    OBVIOUS
  <2>12. Len(info) = n /\ DOMAIN info = 1 .. n
    <3>1. Len(m.session_info) = n
      BY <2>6 DEF IsTold
    <3> QED BY <2>9, <2>11, <3>1, LenProperties
  <2>13. ASSUME NEW k \in 1 .. n
         PROVE  /\ info[k] = Info(db, t, order[k], req) /\ info[k].policy_type = order[k]
                /\ info[k].sessions = SessionsTold(db, t, order[k], req)
                /\ info[k].num_sessions = Cardinality(Fetched(db, t, order[k], req))
    <3>1. info[k] = Info(db, t, order[k], req)
      BY <2>6, <2>11 DEF IsTold
    <3> QED BY <3>1 DEF Info
  <2>14. {info[k].policy_type : k \in DOMAIN info} = Policies
    <3>1. {info[k].policy_type : k \in DOMAIN info} = {order[k] : k \in 1 .. n}
      BY <2>12, <2>13
    <3>2. {order[k] : k \in 1 .. n} = Policies
      BY <2>4 DEF ToSet
    <3> QED BY <3>1, <3>2
  <2>15. ASSUME NEW k \in DOMAIN info
         PROVE  LET ids == [i \in DOMAIN info[k].sessions |-> info[k].sessions[i].id]
                IN  /\ Ascending(ids)
                    /\ ToSet(ids) \subseteq SessionsOf(db, m.pubkey, info[k].policy_type)
                    /\ req.include_sessions => info[k].num_sessions = Len(ids)
    <3> DEFINE p == order[k]
               s == SessionsTold(db, t, p, req)
               l == ListedIds(db, t, p, req)
               fetched == Fetched(db, t, p, req)
               ids == [i \in DOMAIN info[k].sessions |-> info[k].sessions[i].id]
    <3>1. /\ info[k].sessions = s /\ info[k].policy_type = p
          /\ info[k].num_sessions = Cardinality(fetched)
      BY <2>12, <2>13
    <3>2. /\ l \in Seq(fetched) /\ DOMAIN l = 1 .. Len(l) /\ Ascending(l)
          /\ req.include_sessions => Len(l) = Cardinality(fetched) /\ ToSet(l) = fetched
      BY IdsListed
    <3>3. DOMAIN s = DOMAIN l /\ \A i \in DOMAIN s : s[i].id = l[i]
      BY SessionsListed
    <3>4. fetched \subseteq SessionsOf(db, t, p)
      BY FetchedIds
    <3> HIDE DEF s, l, fetched, p
    <3>5. l = [i \in DOMAIN l |-> l[i]]
      BY <3>2
    <3>6. ids = l
      BY <3>1, <3>3, <3>5
    <3>7. ToSet(l) \subseteq fetched
      BY <3>2, ElementOfSeq DEF ToSet
    <3> HIDE DEF ids
    <3>8. Ascending(ids) /\ ToSet(ids) \subseteq SessionsOf(db, m.pubkey, info[k].policy_type)
      BY <2>8, <3>1, <3>2, <3>4, <3>6, <3>7
    <3>9. req.include_sessions => info[k].num_sessions = Len(ids)
      BY <3>1, <3>2, <3>6
    <3> QED BY <3>8, <3>9 DEF ids
  <2> DEFINE all == UNION {ToSet(info[k].sessions) : k \in DOMAIN info}
  <2>16. ToSet(m.sessions) = all
    <3>1. ToSet(m.sessions) = UNION {ToSet(SessionsTold(db, t, order[i], req)) : i \in 1 .. n}
      BY <2>6 DEF IsTold
    <3>2. all = UNION {ToSet(SessionsTold(db, t, order[i], req)) : i \in 1 .. n}
      BY <2>12, <2>13
    <3> QED BY <3>1, <3>2
  <2>17. Len(m.sessions) = Cardinality(all)
    <3>1. IsInjective(m.sessions)
      BY <2>6 DEF IsTold
    <3> QED BY <2>10, <2>16, <3>1, InjectiveLen
  <2>18. SessionsToldOnce(db, req, m)
    <3> HIDE DEF all
    <3> QED BY <2>2, <2>11, <2>12, <2>14, <2>15, <2>16, <2>17 DEF SessionsToldOnce, all
  <2>19. ASSUME req.include_sessions, NEW i \in DOMAIN db, db[i].tower = m.pubkey
         PROVE  LET told == {s \in ToSet(m.sessions) : s.id = i} IN
                /\ db[i].committed > 0 \/ ~ req.exclude_exhausted_sessions => told # {}
                /\ \A s \in told :
                      /\ s.num_pending_backups = db[i].committed
                      /\ s.num_backups + s.num_pending_backups = SeqNum(db[i])
    <3> DEFINE told == {s \in ToSet(m.sessions) : s.id = i}
    <3>1. PICK ids \in SUBSET SessionIds : db \in [ids -> Sessions]
      BY DEF Databases
    <3>2. db[i] \in Sessions
      BY <3>1
    <3>3. db[i].policy \in Policies /\ db[i].tower = t /\ db[i].committed \in Nat
          /\ db[i].acked \in Nat /\ db[i].rogue \in Nat
      BY <2>8, <2>19, <3>2, TowerAssumption DEF Sessions, TowerAssumption
    <3>4. ASSUME db[i].committed > 0 \/ ~ req.exclude_exhausted_sessions PROVE told # {}
      <4>1. PICK k \in 1 .. n : order[k] = db[i].policy
        BY <2>4, <3>3 DEF ToSet
      <4>2. i \in Fetched(db, t, order[k], req)
        <5>1. ~ Exhausted(db[i]) \/ ~ req.exclude_exhausted_sessions
          BY <3>3, <3>4 DEF Exhausted
        <5> QED BY <3>3, <4>1, <5>1 DEF Fetched, SessionsOf
      <4>3. TowerSession(db, i) \in SessionSet(db, Fetched(db, t, order[k], req))
        BY <4>2 DEF SessionSet
      <4>4. TowerSession(db, i) \in ToSet(SessionsTold(db, t, order[k], req))
        BY <2>19, <4>3, SessionsListed
      <4>5. TowerSession(db, i) \in ToSet(m.sessions)
        BY <2>6, <4>4 DEF IsTold
      <4>6. TowerSession(db, i).id = i
        BY DEF TowerSession
      <4> QED BY <4>5, <4>6
    <3>5. ASSUME NEW s \in told
          PROVE  /\ s.num_pending_backups = db[i].committed
                 /\ s.num_backups + s.num_pending_backups = SeqNum(db[i])
      <4>1. s \in SessionSet(db, DOMAIN db) /\ s.id = i
        BY <2>10, ElementOfSeq DEF ToSet
      <4>2. PICK j \in DOMAIN db : s = TowerSession(db, j)
        BY <4>1 DEF SessionSet
      <4>3. s.id = j
        BY <4>2 DEF TowerSession
      <4>4. s = TowerSession(db, i)
        BY <4>1, <4>2, <4>3
      <4>5. s.num_pending_backups = db[i].committed
        BY <4>4 DEF TowerSession
      <4>6. s.num_backups = db[i].acked + db[i].rogue
        BY <4>4 DEF TowerSession
      <4>7. s.num_backups + s.num_pending_backups = SeqNum(db[i])
        BY <4>5, <4>6 DEF SeqNum
      <4> QED BY <4>5, <4>7
    <3> QED BY <3>4, <3>5
  <2>20. BackupsTold(db, req, m)
    BY <2>19 DEF BackupsTold
  <2> QED BY <2>1, <2>8, <2>18, <2>20
<1>2. TowersToldRight
  <2> SUFFICES ASSUME NEW db \in Databases, NEW req \in TowerRequests,
                      NEW order \in SetToSeqs(Policies)
               PROVE  LET answer == ListTowers(db, req, order) IN
                      /\ {tower.pubkey : tower \in answer} = Towers
                      /\ \A tower \in answer :
                            SessionsToldOnce(db, req, tower) /\ BackupsTold(db, req, tower)
    BY DEF TowersToldRight
  <2>1. \A t \in Towers : Told(db, t, req, order).pubkey = t
    BY <1>1
  <2>2. {tower.pubkey : tower \in ListTowers(db, req, order)} = Towers
    BY <2>1 DEF ListTowers
  <2>3. ASSUME NEW tower \in ListTowers(db, req, order)
        PROVE  SessionsToldOnce(db, req, tower) /\ BackupsTold(db, req, tower)
    <3>1. PICK t \in Towers : tower = Told(db, t, req, order)
      BY DEF ListTowers
    <3> QED BY <1>1, <3>1
  <2> QED BY <2>2, <2>3
<1>3. TowersTold
  BY <1>2 DEF TowersTold
<1> QED BY <1>3, PTL
=============================================================================
