---------------------------- MODULE MissionControl ----------------------------
(***************************************************************************)
(* The mission control RPCs (routerrpc/router_server.go): results of       *)
(* payment attempts, per pair of nodes, are exported and imported again,   *)
(* and its configuration is read and set.  A result is {the value}, or {}  *)
(* for an error; a time is seconds, 0 for none.                            *)
(***************************************************************************)
EXTENDS Amounts

CONSTANTS
    Results,       \* what mission control may know of a pair
    MCConfigs,     \* configurations it may have, durations in ticks
    TicksPerSec    \* ticks of a duration in a second

Side == [amt : 0 .. 2^AmtBits - 1, time : Nat]

\* Only a failure can lack an amount and have a time.
ASSUME ResultsAssumption ==
    /\ Results \subseteq [fail : Side, success : Side]
    /\ \A r \in Results : /\ r.fail.amt # 0 => r.fail.time # 0
                          /\ (r.success.amt # 0) = (r.success.time # 0)

ASSUME ConfigsAssumption ==
    /\ TicksPerSec \in Nat \ {0}
    /\ \A c \in MCConfigs :
          /\ c = [model |-> c.model, max |-> c.max, relax |-> c.relax, time |-> c.time,
                  weight |-> c.weight]
          /\ {c.relax, c.time} \subseteq Nat

-----------------------------------------------------------------------------
(* Results of pairs *)

\* Faulty: the two amounts must be the same to the millisatoshi.
GetMsatPairValueExact(msat, sat) ==
    IF msat = sat * MsatPerSat THEN {msat}
    ELSE IF msat = 0 THEN {Uint64(sat * MsatPerSat)}
    ELSE IF sat = 0 THEN {msat} ELSE {}

GetMsatPairValue(msat, sat) ==
    IF msat \div MsatPerSat = sat THEN {msat}
    ELSE IF msat = 0 THEN {Uint64(sat * MsatPerSat)}
    ELSE IF sat = 0 THEN {msat} ELSE {}

\* A success needs both an amount and a time, or neither; a failure that lacks
\* one of them is no failure.
GetPair(msat, sat, time, isFailure) ==
    {IF amt # 0 /\ time # 0 THEN [amt |-> amt, time |-> time] ELSE [amt |-> 0, time |-> 0] :
        amt \in {a \in GetMsatPairValue(Uint64(msat), sat) :
                    isFailure \/ (a # 0) = (time # 0)}}

\* One side of PairData, of a result that has an amount and a time.
ToRPCSide(side) ==
    [sat |-> side.amt \div MsatPerSat, msat |-> Int64(side.amt), time |-> side.time]

ToRPCPairData(result) ==
    [fail |-> ToRPCSide(result.fail), success |-> ToRPCSide(result.success)]

\* XImportMissionControl, for one pair.
ToPairSnapshot(from, to, data) ==
    {[fail |-> f, success |-> s] :
        f \in GetPair(data.fail.msat, data.fail.sat, data.fail.time, TRUE),
        s \in {x \in GetPair(data.success.msat, data.success.sat, data.success.time, FALSE) :
                  from # to}}
    \ {[fail |-> [amt |-> 0, time |-> 0], success |-> [amt |-> 0, time |-> 0]]}

-----------------------------------------------------------------------------
(* Configuration *)

Seconds(ticks) == ticks \div TicksPerSec

\* An apriori configuration is told twice, once in deprecated fields.
GetMissionControlConfig(cfg) ==
    [model |-> cfg.model, max |-> cfg.max, relax |-> Seconds(cfg.relax),
     estimator |-> {[model |-> cfg.model, time |-> Seconds(cfg.time), weight |-> cfg.weight]},
     deprecated |-> IF cfg.model = "apriori"
                    THEN [time |-> Seconds(cfg.time), weight |-> cfg.weight]
                    ELSE [time |-> 0, weight |-> 0]]

\* Faulty: the deprecated fields come first.
SetMissionControlConfigDeprecated(req) ==
    {[model |-> req.model, max |-> req.max, relax |-> req.relax * TicksPerSec,
      time |-> req.deprecated.time * TicksPerSec, weight |-> req.deprecated.weight]}

\* The estimator's own parameters must be for the model that is asked for; only
\* apriori can do with the deprecated fields.
SetMissionControlConfig(req) ==
    {[model |-> req.model, max |-> req.max, relax |-> req.relax * TicksPerSec,
      time |-> e.time * TicksPerSec, weight |-> e.weight] :
        e \in IF req.estimator = {} /\ req.model = "apriori" THEN {req.deprecated}
              ELSE {x \in req.estimator : x.model = req.model}}

-----------------------------------------------------------------------------
(* Properties *)

\* What QueryMissionControl exports, XImportMissionControl takes back as it was,
\* to the millisatoshi, but for a failure that does not depend on the amount: it
\* has no amount and is dropped, and a pair that has nothing else is refused.
ExportIsImported ==
    \A r \in Results :
        LET kept == [r EXCEPT !.fail = IF r.fail.amt = 0 THEN [amt |-> 0, time |-> 0] ELSE @]
        IN  ToPairSnapshot("a", "b", ToRPCPairData(r)) =
                IF kept.fail.amt = 0 /\ kept.success.amt = 0 THEN {} ELSE {kept}

\* A configuration that is read and set again is the same, but for parts of a
\* second.
ConfigIsKept ==
    \A c \in MCConfigs : \E d \in SetMissionControlConfig(GetMissionControlConfig(c)) :
        /\ [d EXCEPT !.relax = c.relax, !.time = c.time] = c
        /\ Seconds(d.relax) = Seconds(c.relax) /\ Seconds(d.time) = Seconds(c.time)
=============================================================================
