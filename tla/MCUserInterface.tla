--------------------------- MODULE MCUserInterface ---------------------------
(* Instances of UserInterface for TLC: a wallet of each way of pairing.    *)
EXTENDS UserInterface, TLC

CONSTANTS kukai, umami, web

AllSubjects == Requests \cup {Connecting}

WalletTypes ==
    (kukai :> {"ios", "web", "extension"}) @@
    (umami :> {"ios", "desktop"}) @@ (web :> {"web"})
=============================================================================
