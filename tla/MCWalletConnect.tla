--------------------------- MODULE MCWalletConnect ---------------------------
(* Instances of WalletConnect for TLC. *)
EXTENDS WalletConnect

CONSTANTS w1, w2

Symmetry == Permutations(Wallets)
=============================================================================
