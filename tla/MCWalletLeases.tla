---------------------------- MODULE MCWalletLeases ----------------------------
(* Instance of WalletLeases for TLC: clients are interchangeable.            *)
EXTENDS WalletLeases, TLC

ClientSymmetry == Permutations(Clients)
===============================================================================
