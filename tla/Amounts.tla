------------------------------- MODULE Amounts -------------------------------
(***************************************************************************)
(* Amounts and time locks of requests (marshall_utils.go): int64 fields in *)
(* satoshis or millisatoshis become a lnwire.MilliSatoshi, a uint64, and   *)
(* time locks a uint16.  The widths are parameters, so that TLC meets the  *)
(* values that wrap.                                                       *)
(***************************************************************************)
EXTENDS Integers

CONSTANTS
    AmtBits,      \* width of an amount (64)
    MsatPerSat,   \* millisatoshis in a satoshi (1000)
    CltvBits      \* width of a final time lock (16)

\* That powers are not zero follows from the rest, but the provers know no powers.
ASSUME WidthsAssumption ==
    /\ AmtBits \in Nat \ {0} /\ CltvBits \in Nat \ {0} /\ MsatPerSat \in Nat \ {0}
    /\ {2^AmtBits, 2^CltvBits} \subseteq Nat \ {0}

Uint64(x) == x % 2^AmtBits
Int64(x) == IF x < 2^(AmtBits - 1) THEN x ELSE x - 2^AmtBits
Uint16(x) == x % 2^CltvBits

\* Faulty: an amount in satoshis is taken for one in millisatoshis.
UnmarshallAmtUnscaled(sat, msat) ==
    IF sat # 0 /\ msat # 0 THEN {} ELSE {Uint64(sat + msat)}

\* {the amount}, or {} if both fields are set.
UnmarshallAmt(sat, msat) ==
    IF sat # 0 /\ msat # 0 THEN {}
    ELSE {Uint64(IF sat # 0 THEN sat * MsatPerSat ELSE msat)}

\* The fee limit of a route query; without one, lnwallet's default for the amount.
CalculateFeeLimit(limit, amount) ==
    CASE limit.kind = "fixed" -> Uint64(limit.of * MsatPerSat)
      [] limit.kind = "fixed_msat" -> Uint64(limit.of)
      [] limit.kind = "percent" -> Uint64(amount * limit.of) \div 100
      [] limit.kind = "none" -> IF amount <= 1000 * MsatPerSat THEN amount
                                ELSE Uint64(amount * 5) \div 100

\* What the fields of an amount ask for, and whether an amount can hold it.
Asked(sat, msat) == sat * MsatPerSat + msat
Fits(x) == x \in 0 .. 2^AmtBits - 1
=============================================================================
