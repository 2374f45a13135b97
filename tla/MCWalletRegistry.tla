-------------------------- MODULE MCWalletRegistry --------------------------
(* Instances of WalletRegistry for TLC.                                    *)
EXTENDS WalletRegistry

CONSTANTS alice, bob, p1, p2
============================================================================
