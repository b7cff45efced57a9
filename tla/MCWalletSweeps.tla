--------------------------- MODULE MCWalletSweeps ---------------------------
(* Requests that bump one output of the wallet and one of a channel, with   *)
(* and without a budget, a target, the deprecated fields and a target that  *)
(* does not fit the height's integer, or a budget that does not fit an      *)
(* amount.                                                                  *)
EXTENDS WalletSweeps, TLC

Bump(out, budget, target) ==
    [out |-> out, satPerByte |-> 0, satPerVbyte |-> 1, force |-> FALSE,
     immediate |-> FALSE, budget |-> budget, targetConf |-> target]

ClientSymmetry == Permutations(Clients)

MCBumpRequests ==
    LET w == CHOOSE o \in WalletOuts : TRUE
        f == CHOOSE o \in ForeignOuts : TRUE
    IN  {Bump(w, 0, 0), Bump(w, 3, 1), Bump(f, 0, 2 * Half - 1), Bump(f, 3, 0),
         Bump(f, 0, 1),
         Bump(w, 2 * HalfAmt - 1, 0), Bump(f, HalfAmt, 0),
         [Bump(w, 0, 0) EXCEPT !.satPerByte = 1],
         [Bump(f, 0, 0) EXCEPT !.force = TRUE, !.satPerVbyte = 0]}
=============================================================================
