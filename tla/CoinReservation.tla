--------------------------- MODULE CoinReservation ---------------------------
(***************************************************************************)
(* What the wallet's lease RPCs promise, without locks, lock IDs or        *)
(* expiry times: a coin is reserved for at most one client, and it passes  *)
(* from one client to another only through a moment in which it is free.   *)
(***************************************************************************)
CONSTANTS
  Clients,
  Coins,
  Nobody    \* stands for no client

VARIABLE owner   \* for whom each coin is reserved

Init == owner \in [Coins -> {Nobody}]

Reserve(p, c) ==
  /\ owner[c] \in {Nobody, p}
  /\ owner' = [owner EXCEPT ![c] = p]

\* A client gives coins back, spends them, or its leases run out.
Free(C) ==
  owner' = [c \in Coins |-> IF c \in C THEN Nobody ELSE owner[c]]

Next ==
  \/ \E p \in Clients, c \in Coins : Reserve(p, c)
  \/ \E C \in SUBSET Coins : Free(C)

Spec == Init /\ [][Next]_owner

=============================================================================
