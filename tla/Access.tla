------------------------------- MODULE Access -------------------------------
(***************************************************************************)
(* What dApp and wallet promise each other about accounts, whatever they   *)
(* say to do it: a dApp knows an account only because the wallet granted   *)
(* it, and it knows no account of a wallet that has withdrawn its grants   *)
(* once it has heard of that.  Dialects implements this.                   *)
(***************************************************************************)
CONSTANTS Wallets, Accounts

VARIABLES
    granted,         \* what the wallets have granted: pairs of a wallet and an account
    known,           \* the pairs that the dApp has stored
    leaving          \* wallets that withdrew their grants and were not heard yet

vars == <<granted, known, leaving>>

Of(w) == {w} \X Accounts

Init == granted = {} /\ known = {} /\ leaving = {}

Grant(w) ==
    /\ granted \subseteq granted' /\ granted' \ granted \subseteq Of(w)
    /\ UNCHANGED <<known, leaving>>

\* An account has one wallet: another wallet's entry for it gives way.
Learn(w) ==
    /\ known' \ known \subseteq IF w \in leaving THEN Of(w) ELSE Of(w) \cap granted
    /\ UNCHANGED <<granted, leaving>>

Forget == known' \subseteq known /\ UNCHANGED <<granted, leaving>>

\* A wallet that the dApp has left forgets it without a word.
Withdraw(w) ==
    /\ granted' = granted \ Of(w)
    /\ leaving' = leaving \cup {w} \/ (known \cap Of(w) = {} /\ leaving' = leaving)
    /\ UNCHANGED known

Hear(w) ==
    /\ w \in leaving /\ leaving' \in {leaving, leaving \ {w}}
    /\ known' = known \ Of(w)
    /\ UNCHANGED granted

Next == Forget \/ \E w \in Wallets : Grant(w) \/ Learn(w) \/ Withdraw(w) \/ Hear(w)

Spec == Init /\ [][Next]_vars

\* What is known and not granted any more is of a wallet that withdrew.
KnownIsGranted == \A p \in known : p \in granted \/ p[1] \in leaving
=============================================================================
