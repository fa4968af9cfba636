----------------------------- MODULE MCDialects -----------------------------
(* Wallets of every generation: this SDK's; one that echoes the dApp's version; *)
(* a WalletConnect one; one of version 3; one with a version nobody can read.   *)
EXTENDS Dialects

WalletSoftware ==
    [w \in Wallets |-> CASE w = "current" -> "this" [] w = "connect" -> "walletconnect" [] OTHER -> "other"]
Versions ==
    [w \in Wallets |-> CASE w = "connect" -> Absent [] w = "three" -> 3 [] w = "garbled" -> Garbled
                         [] OTHER -> BEACON_VERSION]

MarkedWallets == Wallets \cap {"current", "three", "garbled"}
=============================================================================
