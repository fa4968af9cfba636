--------------------------- MODULE DialectsProofs ---------------------------
(***************************************************************************)
(* What dApp and wallets say to each other, proved for any wallets, chains *)
(* and addresses: it has its types, it is understood, and in terms of what *)
(* both sides know of accounts it implements Access; what the dApp knows   *)
(* the wallet permits, and several networks are granted together.          *)
(*                                                                         *)
(* It all rests on the order of messages: the wallet hears a goodbye     *)
(* before whatever the dApp requests of it afterwards, so an answer to the *)
(* open request is never older than the goodbye that took its grants away. *)
(***************************************************************************)
EXTENDS Dialects, FiniteSetTheorems, TLAPS

-----------------------------------------------------------------------------
(* Types.                                                                  *)

RequestTypes == {"permission", "generic permission", "operation", "sign", "unchecked", "generic",
                 "disconnect"}
Requests == [n : Nat, type : RequestTypes, version : Nat, wrapped : BOOLEAN, networks : SUBSET Chains,
             form : {"id", "object"}, network : Networks, source : Addresses \cup {None}]

PermissionTypes == {"permission", "generic permission"}
AccountMaps == {<<>>} \cup UNION {[S -> Addresses] : S \in SUBSET (Networks \cup {Malformed})}
Answers == [n : Nat, type : PermissionTypes \cup {"done", "error", "no key"}, version : Nat,
            wrapped : BOOLEAN, accounts : AccountMaps, network : Networks,
            address : Addresses \cup {None}]
Goodbyes == [n : {0}, type : {"disconnect"}, version : {BEACON_VERSION}, wrapped : BOOLEAN]

DAppTyped ==
    /\ minimum \in 1..BEACON_VERSION
    /\ peers \subseteq Wallets /\ activePeer \in Wallets \cup {None}
    /\ accounts \subseteq Accounts /\ active \in Accounts \cup {None}
    /\ made \in 0..MaxRequests /\ events \in 0..MaxEvents
    /\ open # None => open.to \in Wallets /\ open.networks \subseteq Chains /\ open.n \in 1..made

WalletsTyped ==
    /\ paired \subseteq Wallets
    /\ grants \in [Wallets -> SUBSET Identifiers]

QueuesTyped ==
    /\ toWallet \in [Wallets -> Seq(Requests)]
    /\ toDApp \in [Wallets -> Seq(Answers \cup Goodbyes)]

Typed == DAppTyped /\ WalletsTyped /\ QueuesTyped

-----------------------------------------------------------------------------
(* The order of messages.                                                  *)

IsGoodbye(m) == m.type = "disconnect"

\* No message is about a request that was not made yet.
NumbersAreMade ==
    \A w \in Wallets :
        /\ \A i \in 1..Len(toWallet[w]) : toWallet[w][i].n <= made
        /\ \A i \in 1..Len(toDApp[w]) : toDApp[w][i].n <= made

\* No goodbye follows the open request, nor is one on its way once it is answered.
GoodbyesAreOlder ==
    open # None =>
        LET w == open.to
        IN  /\ \A i, j \in 1..Len(toWallet[w]) :
                  i < j /\ toWallet[w][i].n = open.n => ~IsGoodbye(toWallet[w][j])
            /\ \A i \in 1..Len(toDApp[w]) : toDApp[w][i].n = open.n =>
                  \A j \in 1..Len(toWallet[w]) : ~IsGoodbye(toWallet[w][j])

\* The dApp has no account of a wallet that it left and that has not left itself.
LeftIsForgotten ==
    \A w \in Wallets \ Leaving :
        (\E i \in 1..Len(toWallet[w]) : IsGoodbye(toWallet[w][i])) => \A a \in accounts : a.wallet # w

AccountsHavePeers == \A a \in accounts : a.wallet \in peers

\* What the open request is answered with was granted, unless a goodbye comes after it.
Infos(w, m) == GetAccountInfos(m, VersionOf(w, m))
AnswersAreGranted ==
    open # None =>
        LET w == open.to
        IN  \A i \in 1..Len(toDApp[w]) :
                toDApp[w][i].n = open.n /\ toDApp[w][i].type \in PermissionTypes =>
                    /\ Infos(w, toDApp[w][i]) \subseteq Identifiers
                    /\ \/ Infos(w, toDApp[w][i]) \subseteq grants[w]
                       \/ \E j \in 1..Len(toDApp[w]) : i < j /\ IsGoodbye(toDApp[w][j])

OrderInv ==
    /\ NumbersAreMade /\ GoodbyesAreOlder
    /\ LeftIsForgotten /\ AccountsHavePeers /\ AnswersAreGranted

-----------------------------------------------------------------------------
(* Queues.                                                                 *)

LEMMA Taken ==
    ASSUME NEW S, NEW queue \in [Wallets -> Seq(S)], NEW w \in Wallets, queue[w] # <<>>
    PROVE  /\ Unsent(queue, w) \in [Wallets -> Seq(S)]
           /\ \A v \in Wallets \ {w} : Unsent(queue, w)[v] = queue[v]
           /\ Len(queue[w]) \in Nat \ {0} /\ Len(Unsent(queue, w)[w]) = Len(queue[w]) - 1
           /\ Head(queue[w]) = queue[w][1] /\ Head(queue[w]) \in S
           /\ \A i \in 1..Len(queue[w]) - 1 : Unsent(queue, w)[w][i] = queue[w][i + 1]
BY DEF Unsent

-----------------------------------------------------------------------------
(* Messages.                                                               *)

LEMMA ChainsAreNetworks == OwnChain \in Networks /\ Chains \subseteq Networks /\ OwnNetwork \in Networks
                           /\ OtherNetwork \in Networks /\ Mapped \subseteq Chains
BY NetworksAssumption DEF Networks

LEMMA VersionsAreTyped ==
    ASSUME NEW w \in Wallets
    PROVE  /\ Declared[w] \in Int /\ EffectivePeerVersion(w) \in Int
           /\ \A v \in Int : NegotiateEnvelopeVersion(v) \in Nat
<1>1. Declared[w] \in Int /\ EffectivePeerVersion(w) \in Int
    BY WalletsAssumption DEF EffectivePeerVersion, Absent, Garbled, LEGACY_ENVELOPE_VERSION
<1>2. ASSUME NEW v \in Int PROVE NegotiateEnvelopeVersion(v) \in Nat
    BY DEF NegotiateEnvelopeVersion, UsesWrappedMessages, IsAtLeastVersion,
           MESSAGE_WRAPPED_FROM_VERSION, LEGACY_ENVELOPE_VERSION, BEACON_VERSION
<1> QED BY <1>1, <1>2

\* The dialect a wallet is spoken to in: this SDK's, or the third version or the flat one.
LEMMA DialectOfWallets ==
    ASSUME NEW w \in Wallets
    PROVE  LET v == NegotiateEnvelopeVersion(EffectivePeerVersion(w))
           IN  /\ Software[w] = "this" => v = 4
               /\ Software[w] = "other" => v \in {2, 3}
<1> USE VersionsAreTyped, WalletsAssumption
    DEF EffectivePeerVersion, NegotiateEnvelopeVersion, UsesWrappedMessages, IsAtLeastVersion,
        MESSAGE_WRAPPED_FROM_VERSION, LEGACY_ENVELOPE_VERSION, BEACON_VERSION, Absent
<1>1. CASE Software[w] = "this"
    BY <1>1
<1>2. CASE Software[w] = "other"
    <2>1. EffectivePeerVersion(w) \in Int /\ EffectivePeerVersion(w) < 4
        BY <1>2
    <2> QED BY <1>2, <2>1
<1>3. CASE Software[w] \notin {"this", "other"}
    BY <1>3
<1> QED BY <1>1, <1>2, <1>3

LEMMA SpokenIsUnderstood ==
    ASSUME NEW w \in Wallets, NEW m, m.version >= 3 => m.wrapped = TRUE, ~(m.version >= 3) => m.wrapped = FALSE,
           Software[w] \in {"this", "other", "walletconnect"},
           Software[w] = "this" => m.version = 4,
           Software[w] = "other" => m.version \in {2, 3}
    PROVE  Understands(w, m)
<1> USE DEF UsesWrappedMessages, IsAtLeastVersion, MESSAGE_WRAPPED_FROM_VERSION, LEGACY_ENVELOPE_VERSION
<1>1. CASE Software[w] = "this"
    <2>1. m.wrapped = TRUE /\ (m.version >= 3) = TRUE /\ m.version >= 2
        BY <1>1
    <2> QED BY <1>1, <2>1 DEF Understands
<1>2. CASE Software[w] = "other"
    <2>1. CASE m.version = 2
        <3>1. m.wrapped = FALSE
            BY <2>1
        <3>2. m.version = IF m.wrapped THEN 3 ELSE 2
            BY <2>1, <3>1
        <3> QED BY <1>2, <3>2 DEF Understands
    <2>2. CASE m.version = 3
        <3>1. m.wrapped = TRUE
            BY <2>2
        <3>2. m.version = IF m.wrapped THEN 3 ELSE 2
            BY <2>2, <3>1
        <3> QED BY <1>2, <3>2 DEF Understands
    <2> QED BY <1>2, <2>1, <2>2
<1>3. CASE Software[w] = "walletconnect"
    BY <1>3 DEF Understands
<1> QED BY <1>1, <1>2, <1>3

LEMMA RequestIsTyped ==
    ASSUME made \in Nat, NEW type \in RequestTypes, NEW version \in Nat, NEW wrapped \in BOOLEAN
    PROVE  Request(type, version, wrapped) \in Requests
BY ChainsAreNetworks DEF Request, Requests

\* What is flat or wrapped as the version of the wallet wants it is understood.
LEMMA FlatIsUnderstood ==
    ASSUME made \in Nat, NEW w \in Wallets, NEW m, m.version = Flat(w).version, m.wrapped = Flat(w).wrapped
    PROVE  Understands(w, m) /\ Flat(w) \in Requests /\ Flat(w).n = made + 1 /\ Flat(w).type = "permission"
<1>1. Flat(w) \in Requests /\ Flat(w).n = made + 1 /\ Flat(w).type = "permission"
    <2>1. UsesWrappedMessages(NegotiateEnvelopeVersion(EffectivePeerVersion(w))) \in BOOLEAN
        BY DEF UsesWrappedMessages, IsAtLeastVersion
    <2>2. NegotiateEnvelopeVersion(EffectivePeerVersion(w)) \in Nat
        BY VersionsAreTyped
    <2>3. Flat(w) \in Requests
        BY <2>1, <2>2, RequestIsTyped DEF Flat, RequestTypes
    <2> QED BY <2>3 DEF Flat, Request
<1>2. m.version = NegotiateEnvelopeVersion(EffectivePeerVersion(w))
      /\ m.wrapped = UsesWrappedMessages(NegotiateEnvelopeVersion(EffectivePeerVersion(w)))
    BY DEF Flat, Request
<1>3. Software[w] \in {"this", "other", "walletconnect"}
    BY WalletsAssumption
<1>4. (m.version >= 3 => m.wrapped = TRUE) /\ (~(m.version >= 3) => m.wrapped = FALSE)
    <2>1. m.wrapped = (m.version >= 3)
        BY <1>2, Zenon DEF UsesWrappedMessages, IsAtLeastVersion, MESSAGE_WRAPPED_FROM_VERSION
    <2>2. (m.version >= 3) = TRUE \/ (m.version >= 3) = FALSE
        OBVIOUS
    <2> QED BY <2>1, <2>2, Zenon
<1>5. Software[w] = "this" => m.version = 4
    BY <1>2, DialectOfWallets
<1>6. Software[w] = "other" => m.version \in {2, 3}
    BY <1>2, DialectOfWallets
<1>7. Understands(w, m)
    BY <1>3, <1>4, <1>5, <1>6, SpokenIsUnderstood
<1> QED BY <1>1, <1>7

LEMMA WrappedIsUnderstood ==
    ASSUME made \in Nat, NEW w \in Wallets, Software[w] # "walletconnect", NEW type \in RequestTypes
    PROVE  Understands(w, Wrapped(w, type)) /\ Wrapped(w, type) \in Requests
           /\ Wrapped(w, type).n = made + 1 /\ Wrapped(w, type).type = type
<1> DEFINE v == NegotiateEnvelopeVersion(EffectivePeerVersion(w))
<1> DEFINE u == IF UsesWrappedMessages(v) THEN v ELSE MESSAGE_WRAPPED_FROM_VERSION
<1>1. v \in Nat /\ u \in Nat
    BY VersionsAreTyped DEF MESSAGE_WRAPPED_FROM_VERSION
<1>2. Request(type, u, TRUE) \in Requests
    BY <1>1, RequestIsTyped
<1>3. Wrapped(w, type) = [Request(type, u, TRUE) EXCEPT !.network = OtherNetwork]
    BY DEF Wrapped
<1>4. Wrapped(w, type) \in Requests /\ Wrapped(w, type).n = made + 1 /\ Wrapped(w, type).type = type
      /\ Wrapped(w, type).version = u /\ Wrapped(w, type).wrapped = TRUE
    BY <1>2, <1>3, ChainsAreNetworks DEF Request, Requests
<1>5. Software[w] \in {"this", "other"}
    BY WalletsAssumption
<1>6. (Software[w] = "this" => u = 4) /\ (Software[w] = "other" => u = 3)
    BY DialectOfWallets DEF UsesWrappedMessages, IsAtLeastVersion, MESSAGE_WRAPPED_FROM_VERSION
<1>7. u >= 3
    BY <1>1 DEF UsesWrappedMessages, IsAtLeastVersion, MESSAGE_WRAPPED_FROM_VERSION
<1>8. Understands(w, Wrapped(w, type))
    BY <1>4, <1>5, <1>6, <1>7, SpokenIsUnderstood
<1> QED BY <1>4, <1>8

-----------------------------------------------------------------------------
(* The steps by what they do to the queues.                                *)

\* The dApp requests something of a wallet.
Asks(w, m) ==
    /\ Prepare(w) /\ Leaves(w, m)
    /\ m \in Requests /\ m.n = made + 1 /\ ~IsGoodbye(m) /\ Understands(w, m)

AskStep ==
    \/ \E w \in Wallets :
          \/ \E networks \in SUBSET Chains : RequestPermissions(w, networks)
          \/ PermissionRequest(w) \/ RequestBroadcast(w)
    \/ \E chain \in Chains : RequestOperation(chain)
    \/ RequestOperationAnywhere \/ RequestSignPayload \/ RequestProofOfEventChallenge
    \/ BlockchainRequest

\* A message like the flat one, but for what it requests.
LEMMA LikeFlat ==
    ASSUME made \in Nat, NEW w \in Wallets, NEW m \in Requests, Prepare(w), Leaves(w, m),
           m.n = Flat(w).n, m.version = Flat(w).version, m.wrapped = Flat(w).wrapped, ~IsGoodbye(m)
    PROVE  Asks(w, m)
BY FlatIsUnderstood DEF Asks

LEMMA ActiveIsTyped ==
    ASSUME DAppTyped, active # None
    PROVE  active.wallet \in Wallets /\ active.id[1] \in Addresses /\ active.id[2] \in Networks
BY DEF DAppTyped, Accounts, Identifiers

LEMMA AskStepsAsk ==
    ASSUME Typed, AskStep
    PROVE  \E w \in Wallets, m \in Requests : Asks(w, m)
<1>0. made \in Nat
    BY BoundsAssumption DEF Typed, DAppTyped
<1> DEFINE Goal == \E w \in Wallets, m \in Requests : Asks(w, m)
<1>1. ASSUME NEW w \in Wallets, NEW networks \in SUBSET Chains, RequestPermissions(w, networks) PROVE Goal
    <2> DEFINE m == [Flat(w) EXCEPT !.networks = networks]
    <2>1. Flat(w) \in Requests /\ Flat(w).type = "permission"
        BY <1>0, FlatIsUnderstood
    <2>2. m \in Requests /\ m.n = Flat(w).n /\ m.version = Flat(w).version
          /\ m.wrapped = Flat(w).wrapped /\ m.type = "permission"
        BY <2>1 DEF Requests
    <2>3. Leaves(w, Flat(w)) \/ Leaves(w, m)
        BY <1>1 DEF RequestPermissions
    <2>4. Prepare(w)
        BY <1>1 DEF RequestPermissions
    <2> HIDE DEF m
    <2>5. CASE Leaves(w, Flat(w))
        BY <1>0, <2>1, <2>4, <2>5, LikeFlat DEF IsGoodbye
    <2>6. CASE Leaves(w, m)
        BY <1>0, <2>2, <2>4, <2>6, LikeFlat DEF IsGoodbye
    <2> QED BY <2>3, <2>5, <2>6
<1>2. ASSUME NEW w \in Wallets, PermissionRequest(w) PROVE Goal
    BY <1>0, <1>2, WrappedIsUnderstood DEF PermissionRequest, Asks, IsGoodbye, RequestTypes
<1>3. ASSUME NEW w \in Wallets, Prepare(w), Leaves(w, Unchecked(w)) PROVE Goal
    <2>1. Flat(w) \in Requests
        BY <1>0, FlatIsUnderstood
    <2>2. Unchecked(w) \in Requests /\ Unchecked(w).n = Flat(w).n /\ Unchecked(w).version = Flat(w).version
          /\ Unchecked(w).wrapped = Flat(w).wrapped /\ Unchecked(w).type = "unchecked"
        BY <2>1 DEF Requests, RequestTypes, Unchecked
    <2> QED BY <1>0, <1>3, <2>2, LikeFlat DEF IsGoodbye
<1>4. ASSUME NEW form \in {"id", "object"}, NEW network \in Networks, active # None,
             ToActive(Operation(form, network))
      PROVE  Goal
    <2> DEFINE w == active.wallet
    <2>0. w \in Wallets /\ active.id[1] \in Addresses
        BY <1>4, ActiveIsTyped DEF Typed
    <2>1. Flat(w) \in Requests
        BY <1>0, <2>0, FlatIsUnderstood
    <2> DEFINE m == Operation(form, network)
    <2>2. m \in Requests /\ m.n = Flat(w).n /\ m.version = Flat(w).version
          /\ m.wrapped = Flat(w).wrapped /\ m.type = "operation"
        BY <2>0, <2>1 DEF Requests, RequestTypes, Operation
    <2>3. Prepare(w) /\ Leaves(w, m)
        BY <1>4 DEF ToActive
    <2> QED BY <1>0, <2>0, <2>2, <2>3, LikeFlat DEF IsGoodbye
<1>5. ASSUME NEW chain \in Chains, RequestOperation(chain) PROVE Goal
    <2>1. active # None /\ active.id[2] \in Networks /\ chain \in Networks
        BY <1>5, ActiveIsTyped, ChainsAreNetworks DEF RequestOperation, Typed
    <2>2. ToActive(Operation("id", chain)) \/ ToActive(Operation("object", active.id[2]))
        BY <1>5 DEF RequestOperation
    <2> QED BY <1>4, <2>1, <2>2
<1>6. CASE RequestOperationAnywhere
    <2>1. active # None /\ active.id[2] \in Networks
        BY <1>6, ActiveIsTyped DEF RequestOperationAnywhere, Typed
    <2> QED BY <1>4, <1>6, <2>1 DEF RequestOperationAnywhere
<1>7. CASE RequestSignPayload
    <2> DEFINE w == active.wallet
    <2>0. w \in Wallets /\ active.id[1] \in Addresses
        BY <1>7, ActiveIsTyped DEF Typed, RequestSignPayload
    <2>1. Flat(w) \in Requests
        BY <1>0, <2>0, FlatIsUnderstood
    <2> DEFINE m == [Flat(w) EXCEPT !.type = "sign", !.source = active.id[1]]
    <2>2. m \in Requests /\ m.n = Flat(w).n /\ m.version = Flat(w).version
          /\ m.wrapped = Flat(w).wrapped /\ m.type = "sign"
        BY <2>0, <2>1 DEF Requests, RequestTypes
    <2>3. Prepare(w) /\ Leaves(w, m)
        BY <1>7 DEF ToActive, RequestSignPayload
    <2> QED BY <1>0, <2>0, <2>2, <2>3, LikeFlat DEF IsGoodbye
<1>8. CASE RequestProofOfEventChallenge
    BY <1>3, <1>8, ActiveIsTyped DEF RequestProofOfEventChallenge, ToActive, Typed
<1>9. CASE BlockchainRequest
    <2>1. active.wallet \in Wallets /\ Software[active.wallet] # "walletconnect"
        BY <1>9, ActiveIsTyped DEF BlockchainRequest, Typed
    <2> QED BY <1>0, <1>9, <2>1, WrappedIsUnderstood DEF BlockchainRequest, ToActive, Asks, IsGoodbye, RequestTypes
<1> QED
    BY <1>1, <1>2, <1>3, <1>5, <1>6, <1>7, <1>8, <1>9 DEF AskStep, RequestBroadcast

-----------------------------------------------------------------------------
(* The invariant, and what a step of Access is here.                       *)

Spoken ==
    \A w \in Wallets :
        /\ \A i \in 1..Len(toWallet[w]) : Understands(w, toWallet[w][i])
        /\ \A i \in 1..Len(toDApp[w]) : Routed(toDApp[w][i])

IInv == Typed /\ Spoken /\ OrderInv

LEMMA LeavingByIndex ==
    ASSUME QueuesTyped
    PROVE  Leaving = {w \in Wallets : \E i \in 1..Len(toDApp[w]) : IsGoodbye(toDApp[w][i])}
<1>1. \A w \in Wallets : DOMAIN toDApp[w] = 1..Len(toDApp[w])
    BY DEF QueuesTyped
<1> QED BY <1>1 DEF Leaving, IsGoodbye

LEMMA SameQueueSameLeaving ==
    ASSUME toDApp' = toDApp
    PROVE  Leaving' = Leaving
BY DEF Leaving

\* The dApp's accounts become fewer, or stay: the step of Access that forgets.
LEMMA Forgets ==
    ASSUME accounts' \subseteq accounts, UNCHANGED grants, Leaving' = Leaving
    PROVE  [A!Next]_(A!vars)
<1>1. KnownPairs' \subseteq KnownPairs
    BY DEF KnownPairs
<1>2. GrantedPairs' = GrantedPairs
    BY DEF GrantedPairs
<1> QED BY <1>1, <1>2 DEF A!Next, A!Forget

LEMMA ElementsAreTyped ==
    ASSUME QueuesTyped, NEW w \in Wallets
    PROVE  /\ Len(toWallet[w]) \in Nat /\ Len(toDApp[w]) \in Nat
           /\ \A i \in 1..Len(toWallet[w]) : toWallet[w][i] \in Requests /\ toWallet[w][i].n \in Nat
           /\ \A i \in 1..Len(toDApp[w]) : toDApp[w][i] \in Answers \cup Goodbyes /\ toDApp[w][i].n \in Nat
<1>1. toWallet[w] \in Seq(Requests) /\ toDApp[w] \in Seq(Answers \cup Goodbyes)
    BY DEF QueuesTyped
<1>2. \A m \in Requests : m.n \in Nat
    BY DEF Requests
<1>3. \A m \in Answers \cup Goodbyes : m.n \in Nat
    <2>1. \A m \in Answers : m.n \in Nat
        BY DEF Answers
    <2>2. \A m \in Goodbyes : m.n \in Nat
        BY DEF Goodbyes
    <2> QED BY <2>1, <2>2
<1> QED BY <1>1, <1>2, <1>3

\* A message is sent to a wallet, and one to the dApp.
LEMMA SentToWallet ==
    ASSUME QueuesTyped, NEW w \in Wallets, NEW m \in Requests, toWallet' = Message(toWallet, w, m)
    PROVE  /\ toWallet' \in [Wallets -> Seq(Requests)]
           /\ \A v \in Wallets \ {w} : toWallet'[v] = toWallet[v]
           /\ Len(toWallet'[w]) = Len(toWallet[w]) + 1
           /\ toWallet'[w][Len(toWallet[w]) + 1] = m
           /\ \A i \in 1..Len(toWallet[w]) : toWallet'[w][i] = toWallet[w][i]
<1>1. toWallet \in [Wallets -> Seq(Requests)]
    BY DEF QueuesTyped
<1> QED BY <1>1 DEF Message

LEMMA SentToDApp ==
    ASSUME QueuesTyped, NEW w \in Wallets, NEW m \in Answers \cup Goodbyes, toDApp' = Message(toDApp, w, m)
    PROVE  /\ toDApp' \in [Wallets -> Seq(Answers \cup Goodbyes)]
           /\ \A v \in Wallets \ {w} : toDApp'[v] = toDApp[v]
           /\ Len(toDApp'[w]) = Len(toDApp[w]) + 1
           /\ toDApp'[w][Len(toDApp[w]) + 1] = m
           /\ \A i \in 1..Len(toDApp[w]) : toDApp'[w][i] = toDApp[w][i]
<1>1. toDApp \in [Wallets -> Seq(Answers \cup Goodbyes)]
    BY DEF QueuesTyped
<1> QED BY <1>1 DEF Message

\* A message is taken by a wallet, and one by the dApp.
LEMMA TakenByWallet ==
    ASSUME QueuesTyped, NEW w \in Wallets, toWallet[w] # <<>>, toWallet' = Unsent(toWallet, w)
    PROVE  /\ toWallet' \in [Wallets -> Seq(Requests)]
           /\ \A v \in Wallets \ {w} : toWallet'[v] = toWallet[v]
           /\ Len(toWallet[w]) \in Nat \ {0} /\ Len(toWallet'[w]) = Len(toWallet[w]) - 1
           /\ Head(toWallet[w]) = toWallet[w][1] /\ Head(toWallet[w]) \in Requests
           /\ \A i \in 1..Len(toWallet'[w]) : i + 1 \in 1..Len(toWallet[w]) /\ toWallet'[w][i] = toWallet[w][i + 1]
<1>1. toWallet \in [Wallets -> Seq(Requests)]
    BY DEF QueuesTyped
<1> QED BY <1>1, Taken

LEMMA TakenByDApp ==
    ASSUME QueuesTyped, NEW w \in Wallets, toDApp[w] # <<>>, toDApp' = Unsent(toDApp, w)
    PROVE  /\ toDApp' \in [Wallets -> Seq(Answers \cup Goodbyes)]
           /\ \A v \in Wallets \ {w} : toDApp'[v] = toDApp[v]
           /\ Len(toDApp[w]) \in Nat \ {0} /\ Len(toDApp'[w]) = Len(toDApp[w]) - 1
           /\ Head(toDApp[w]) = toDApp[w][1] /\ Head(toDApp[w]) \in Answers \cup Goodbyes
           /\ \A i \in 1..Len(toDApp'[w]) : i + 1 \in 1..Len(toDApp[w]) /\ toDApp'[w][i] = toDApp[w][i + 1]
<1>1. toDApp \in [Wallets -> Seq(Answers \cup Goodbyes)]
    BY DEF QueuesTyped
<1> QED BY <1>1, Taken

Simulates == IInv' /\ [A!Next]_(A!vars)

LEMMA AskEffect ==
    ASSUME Typed, UNCHANGED minimum, NEW w \in Wallets, NEW m \in Requests, Asks(w, m)
    PROVE  /\ UNCHANGED <<accounts, active, toDApp, grants, events>> /\ open = None
           /\ peers \subseteq peers' /\ Typed'
           /\ \/ UNCHANGED <<made, open, toWallet>>
              \/ /\ made' = made + 1 /\ open'.to = w /\ open'.n = made + 1
                 /\ toWallet' \in {toWallet, Message(toWallet, w, m)}
<1> USE DEF Asks, Prepare
<1>1. \/ UNCHANGED <<made, open, toWallet>>
      \/ /\ made' = made + 1 /\ open'.to = w /\ open'.n = made + 1 /\ open'.networks = m.networks
         /\ toWallet' \in {toWallet, Message(toWallet, w, m)}
    BY DEF Leaves, Send
<1>2. DAppTyped'
    <2>1. made' \in 0..MaxRequests
        BY <1>1, BoundsAssumption DEF Typed, DAppTyped
    <2>2. open' # None => open'.to \in Wallets /\ open'.networks \subseteq Chains /\ open'.n \in 1..made'
        <3>1. CASE UNCHANGED <<made, open, toWallet>>
            BY <3>1
        <3>2. CASE made' = made + 1 /\ open'.to = w /\ open'.n = made + 1 /\ open'.networks = m.networks
            BY <2>1, <3>2, BoundsAssumption DEF Requests, Typed, DAppTyped
        <3> QED BY <1>1, <3>1, <3>2
    <2>3. peers' \subseteq Wallets /\ activePeer' \in Wallets \cup {None}
        BY DEF Typed, DAppTyped
    <2> QED BY <2>1, <2>2, <2>3 DEF Typed, DAppTyped
<1>3. WalletsTyped'
    BY DEF Typed, WalletsTyped
<1>4. QueuesTyped'
    <2>1. QueuesTyped /\ toDApp' = toDApp
        BY DEF Typed
    <2>2. toWallet' \in {toWallet, Message(toWallet, w, m)}
        BY <1>1
    <2> QED BY <2>1, <2>2, SentToWallet DEF QueuesTyped
<1> QED BY <1>1, <1>2, <1>3, <1>4 DEF Typed

LEMMA AskSimulates ==
    ASSUME IInv, UNCHANGED minimum, NEW w \in Wallets, NEW m \in Requests, Asks(w, m)
    PROVE  Simulates
<1>0. Typed
    BY DEF IInv
<1>1. /\ UNCHANGED <<accounts, active, toDApp, grants, events>> /\ open = None
      /\ peers \subseteq peers' /\ Typed'
    BY <1>0, AskEffect
<1>2. [A!Next]_(A!vars) /\ Leaving' = Leaving
    BY <1>1, SameQueueSameLeaving, Forgets
<1>3. CASE UNCHANGED <<made, open, toWallet>>
    BY <1>1, <1>2, <1>3
    DEF IInv, Spoken, OrderInv, NumbersAreMade, GoodbyesAreOlder, LeftIsForgotten, AccountsHavePeers,
        AnswersAreGranted, Simulates
<1>n. made \in Nat /\ QueuesTyped /\ NumbersAreMade
    BY <1>0, BoundsAssumption DEF Typed, DAppTyped, IInv, OrderInv
<1>m. \A v \in Wallets :
        /\ \A i \in 1..Len(toWallet[v]) : toWallet[v][i].n < made + 1
        /\ \A i \in 1..Len(toDApp[v]) : toDApp[v][i].n < made + 1
    <2> SUFFICES ASSUME NEW v \in Wallets
                 PROVE  /\ \A i \in 1..Len(toWallet[v]) : toWallet[v][i].n < made + 1
                        /\ \A i \in 1..Len(toDApp[v]) : toDApp[v][i].n < made + 1
        OBVIOUS
    <2>1. /\ \A i \in 1..Len(toWallet[v]) : toWallet[v][i].n \in Nat /\ toWallet[v][i].n <= made
          /\ \A i \in 1..Len(toDApp[v]) : toDApp[v][i].n \in Nat /\ toDApp[v][i].n <= made
        BY <1>n, ElementsAreTyped DEF NumbersAreMade
    <2> QED BY <1>n, <2>1
<1>4. CASE made' = made + 1 /\ open'.to = w /\ open'.n = made + 1 /\ toWallet' = toWallet
    <2>1. NumbersAreMade'
        BY <1>1, <1>n, <1>4, ElementsAreTyped DEF NumbersAreMade
    <2>2. GoodbyesAreOlder' /\ AnswersAreGranted'
        BY <1>1, <1>n, <1>m, <1>4, ElementsAreTyped DEF GoodbyesAreOlder, AnswersAreGranted
    <2> QED
        BY <1>1, <1>2, <1>4, <2>1, <2>2
        DEF IInv, Spoken, OrderInv, LeftIsForgotten, AccountsHavePeers, Simulates
<1>5. CASE made' = made + 1 /\ open'.to = w /\ open'.n = made + 1 /\ toWallet' = Message(toWallet, w, m)
    <2>1. /\ \A v \in Wallets \ {w} : toWallet'[v] = toWallet[v]
          /\ Len(toWallet[w]) \in Nat /\ Len(toWallet'[w]) = Len(toWallet[w]) + 1
          /\ toWallet'[w][Len(toWallet[w]) + 1] = m
          /\ \A i \in 1..Len(toWallet[w]) : toWallet'[w][i] = toWallet[w][i]
        BY <1>n, <1>5, SentToWallet, ElementsAreTyped
    <2>2. m.n = made + 1 /\ ~IsGoodbye(m) /\ Understands(w, m)
        BY DEF Asks
    <2>3. Spoken'
        BY <1>1, <2>1, <2>2 DEF IInv, Spoken
    <2>4. NumbersAreMade'
        <3>1. \A i \in 1..Len(toWallet'[w]) : toWallet'[w][i].n <= made + 1
            <4>1. ASSUME NEW i \in 1..Len(toWallet'[w]) PROVE toWallet'[w][i].n <= made + 1
                <5>1. i \in 1..Len(toWallet[w]) \/ i = Len(toWallet[w]) + 1
                    BY <2>1
                <5>2. CASE i \in 1..Len(toWallet[w])
                    <6>1. toWallet[w][i].n \in Nat /\ toWallet[w][i].n <= made
                        BY <1>n, <5>2, ElementsAreTyped DEF NumbersAreMade
                    <6>2. toWallet[w][i].n <= made + 1
                        BY <1>n, <6>1
                    <6> QED BY <2>1, <5>2, <6>2
                <5>3. CASE i = Len(toWallet[w]) + 1
                    <6>1. made + 1 <= made + 1
                        BY <1>n
                    <6> QED BY <2>1, <2>2, <5>3, <6>1
                <5> QED BY <5>1, <5>2, <5>3
            <4> QED BY <4>1
        <3>2. ASSUME NEW v \in Wallets \ {w} PROVE \A i \in 1..Len(toWallet'[v]) : toWallet'[v][i].n <= made + 1
            <4>1. \A i \in 1..Len(toWallet[v]) : toWallet[v][i].n \in Nat /\ toWallet[v][i].n <= made
                BY <1>n, ElementsAreTyped DEF NumbersAreMade
            <4>2. toWallet'[v] = toWallet[v]
                BY <2>1
            <4>3. \A i \in 1..Len(toWallet[v]) : toWallet[v][i].n <= made + 1
                BY <1>n, <4>1
            <4> QED BY <4>2, <4>3
        <3>3. \A v \in Wallets : \A i \in 1..Len(toDApp'[v]) : toDApp'[v][i].n <= made + 1
            BY <1>1, <1>n, <1>m, ElementsAreTyped
        <3> QED BY <1>5, <3>1, <3>2, <3>3 DEF NumbersAreMade
    <2>5. GoodbyesAreOlder'
        <3>1. ASSUME NEW i \in 1..Len(toWallet'[w]), NEW j \in 1..Len(toWallet'[w]), i < j,
                     toWallet'[w][i].n = made + 1
              PROVE  FALSE
            <4>1. i \in 1..Len(toWallet[w])
                BY <2>1, <3>1
            <4> QED BY <1>n, <1>m, <2>1, <3>1, <4>1
        <3>2. ASSUME NEW i \in 1..Len(toDApp'[w]), toDApp'[w][i].n = made + 1 PROVE FALSE
            BY <1>1, <1>n, <1>m, <3>2
        <3> QED BY <1>5, <3>1, <3>2 DEF GoodbyesAreOlder
    <2>6. LeftIsForgotten'
        BY <1>1, <1>2, <2>1, <2>2 DEF IInv, OrderInv, LeftIsForgotten
    <2>7. AccountsHavePeers'
        BY <1>1 DEF IInv, OrderInv, AccountsHavePeers
    <2>8. AnswersAreGranted'
        <3>1. ASSUME NEW i \in 1..Len(toDApp'[w]), toDApp'[w][i].n = made + 1 PROVE FALSE
            BY <1>1, <1>n, <1>m, <3>1
        <3> QED BY <1>5, <3>1 DEF AnswersAreGranted
    <2> QED BY <1>1, <1>2, <2>3, <2>4, <2>5, <2>6, <2>7, <2>8 DEF IInv, OrderInv, Simulates
<1> QED BY <1>0, <1>3, <1>4, <1>5, AskEffect

-----------------------------------------------------------------------------
(* A wallet answers.                                                       *)

LEMMA AnswerIsNoGoodbye == ASSUME NEW m \in Answers PROVE ~IsGoodbye(m) /\ m \in Answers \cup Goodbyes
BY DEF Answers, IsGoodbye, PermissionTypes

\* What is granted more, and answered to the message at the head.
LEMMA ReplySimulates ==
    ASSUME IInv, UNCHANGED minimum, NEW w \in Wallets, Take(w), NEW m \in Answers, Respond(w, m),
           m.n = Head(toWallet[w]).n, Routed(m),
           NEW G \in SUBSET Identifiers, grants' = [grants EXCEPT ![w] = @ \cup G],
           m.type \in PermissionTypes => Infos(w, m) \subseteq G
    PROVE  Simulates
<1>0. Typed /\ QueuesTyped /\ WalletsTyped /\ OrderInv /\ Spoken
    BY DEF IInv, Typed
<1>1. /\ toWallet[w] # <<>> /\ toWallet' = Unsent(toWallet, w) /\ toDApp' = Message(toDApp, w, m)
      /\ UNCHANGED <<peers, activePeer, accounts, active, open, made, events, paired>>
    BY DEF Take, Respond, dapp
<1>2. /\ \A v \in Wallets \ {w} : toWallet'[v] = toWallet[v]
      /\ Len(toWallet[w]) \in Nat \ {0} /\ Len(toWallet'[w]) = Len(toWallet[w]) - 1
      /\ Head(toWallet[w]) = toWallet[w][1]
      /\ \A i \in 1..Len(toWallet'[w]) : i + 1 \in 1..Len(toWallet[w]) /\ toWallet'[w][i] = toWallet[w][i + 1]
    BY <1>0, <1>1, TakenByWallet
<1>3. /\ \A v \in Wallets \ {w} : toDApp'[v] = toDApp[v]
      /\ Len(toDApp'[w]) = Len(toDApp[w]) + 1
      /\ toDApp'[w][Len(toDApp[w]) + 1] = m
      /\ \A i \in 1..Len(toDApp[w]) : toDApp'[w][i] = toDApp[w][i]
    BY <1>0, <1>1, SentToDApp, AnswerIsNoGoodbye
<1>4. Len(toDApp[w]) \in Nat /\ ~IsGoodbye(m)
    BY <1>0, ElementsAreTyped, AnswerIsNoGoodbye
<1>5. QueuesTyped'
    BY <1>0, <1>1, TakenByWallet, SentToDApp, AnswerIsNoGoodbye DEF QueuesTyped
<1>6. /\ \A v \in Wallets \ {w} : grants'[v] = grants[v]
      /\ grants'[w] = grants[w] \cup G /\ grants' \in [Wallets -> SUBSET Identifiers]
    BY <1>0 DEF WalletsTyped
<1>7. Typed'
    BY <1>0, <1>1, <1>5, <1>6 DEF Typed, DAppTyped, WalletsTyped
<1>8. Leaving' = Leaving
    <2>1. ASSUME NEW v \in Wallets
          PROVE  (\E i \in 1..Len(toDApp'[v]) : IsGoodbye(toDApp'[v][i]))
                 <=> (\E i \in 1..Len(toDApp[v]) : IsGoodbye(toDApp[v][i]))
        <3>1. CASE v # w
            BY <1>3, <3>1
        <3>2. CASE v = w
            BY <1>3, <1>4, <3>2
        <3> QED BY <3>1, <3>2
    <2>2. Leaving' = {v \in Wallets : \E i \in 1..Len(toDApp'[v]) : IsGoodbye(toDApp'[v][i])}
        BY <1>5, LeavingByIndex DEF Leaving, QueuesTyped, IsGoodbye
    <2> QED BY <1>0, <2>1, <2>2, LeavingByIndex
<1>9. Spoken'
    <2>1. ASSUME NEW v \in Wallets PROVE \A i \in 1..Len(toWallet'[v]) : Understands(v, toWallet'[v][i])
        BY <1>0, <1>2 DEF Spoken
    <2>2. ASSUME NEW v \in Wallets PROVE \A i \in 1..Len(toDApp'[v]) : Routed(toDApp'[v][i])
        BY <1>0, <1>3, <1>4 DEF Spoken
    <2> QED BY <2>1, <2>2 DEF Spoken
<1>10. NumbersAreMade'
    <2>1. m.n <= made
        BY <1>0, <1>2 DEF OrderInv, NumbersAreMade
    <2>2. ASSUME NEW v \in Wallets PROVE \A i \in 1..Len(toWallet'[v]) : toWallet'[v][i].n <= made
        BY <1>0, <1>2 DEF OrderInv, NumbersAreMade
    <2>3. ASSUME NEW v \in Wallets PROVE \A i \in 1..Len(toDApp'[v]) : toDApp'[v][i].n <= made
        <3>1. \A i \in 1..Len(toDApp[v]) : toDApp[v][i].n <= made
            BY <1>0 DEF OrderInv, NumbersAreMade
        <3>2. CASE v # w
            BY <1>3, <3>1, <3>2
        <3>3. CASE v = w
            <4>1. ASSUME NEW i \in 1..Len(toDApp'[w]) PROVE toDApp'[w][i].n <= made
                <5>1. i \in 1..Len(toDApp[w]) \/ i = Len(toDApp[w]) + 1
                    BY <1>3, <1>4
                <5>2. CASE i \in 1..Len(toDApp[w])
                    BY <1>3, <3>1, <3>3, <5>2
                <5>3. CASE i = Len(toDApp[w]) + 1
                    BY <1>3, <2>1, <5>3
                <5> QED BY <5>1, <5>2, <5>3
            <4> QED BY <3>3, <4>1
        <3> QED BY <3>2, <3>3
    <2> QED BY <1>1, <2>2, <2>3 DEF NumbersAreMade
<1>11. GoodbyesAreOlder'
    <2> SUFFICES ASSUME open # None
                 PROVE  LET v == open.to
                        IN  /\ \A i, j \in 1..Len(toWallet'[v]) :
                                  i < j /\ toWallet'[v][i].n = open.n => ~IsGoodbye(toWallet'[v][j])
                            /\ \A i \in 1..Len(toDApp'[v]) : toDApp'[v][i].n = open.n =>
                                  \A j \in 1..Len(toWallet'[v]) : ~IsGoodbye(toWallet'[v][j])
        BY <1>1 DEF GoodbyesAreOlder
    <2>0. open.to \in Wallets /\ GoodbyesAreOlder
        BY <1>0 DEF Typed, DAppTyped, OrderInv
    <2>1. CASE open.to # w
        BY <1>2, <1>3, <2>0, <2>1 DEF GoodbyesAreOlder
    <2>2. CASE open.to = w
        <3>1. ASSUME NEW i \in 1..Len(toWallet'[w]), NEW j \in 1..Len(toWallet'[w]), i < j,
                     toWallet'[w][i].n = open.n
              PROVE  ~IsGoodbye(toWallet'[w][j])
            <4>1. /\ i + 1 \in 1..Len(toWallet[w]) /\ j + 1 \in 1..Len(toWallet[w]) /\ i + 1 < j + 1
                  /\ toWallet[w][i + 1].n = open.n /\ toWallet'[w][j] = toWallet[w][j + 1]
                BY <1>2, <3>1
            <4>2. ~IsGoodbye(toWallet[w][j + 1])
                BY <2>0, <2>2, <4>1 DEF GoodbyesAreOlder
            <4> QED BY <4>1, <4>2
        <3>2. ASSUME NEW i \in 1..Len(toDApp'[w]), toDApp'[w][i].n = open.n,
                     NEW j \in 1..Len(toWallet'[w])
              PROVE  ~IsGoodbye(toWallet'[w][j])
            <4>1. CASE i \in 1..Len(toDApp[w])
                BY <1>2, <1>3, <2>0, <2>2, <3>2, <4>1 DEF GoodbyesAreOlder
            <4>2. CASE i = Len(toDApp[w]) + 1
                <5>1. toWallet[w][1].n = open.n /\ 1 \in 1..Len(toWallet[w]) /\ j + 1 \in 1..Len(toWallet[w]) /\ 1 < j + 1
                    BY <1>2, <1>3, <3>2, <4>2
                <5>2. ~IsGoodbye(toWallet[w][j + 1])
                    BY <2>0, <2>2, <5>1 DEF GoodbyesAreOlder
                <5> QED BY <1>2, <3>2, <5>2
            <4> QED BY <1>3, <1>4, <3>2, <4>1, <4>2
        <3> QED BY <2>2, <3>1, <3>2
    <2> QED BY <2>1, <2>2
<1>12. LeftIsForgotten'
    <2>1. ASSUME NEW v \in Wallets, \E i \in 1..Len(toWallet'[v]) : IsGoodbye(toWallet'[v][i])
          PROVE  \E i \in 1..Len(toWallet[v]) : IsGoodbye(toWallet[v][i])
        BY <1>2, <2>1
    <2> QED BY <1>0, <1>1, <1>8, <2>1 DEF OrderInv, LeftIsForgotten
<1>13. AccountsHavePeers'
    BY <1>0, <1>1 DEF OrderInv, AccountsHavePeers
<1>14. AnswersAreGranted'
    <2> SUFFICES ASSUME open # None, NEW i \in 1..Len(toDApp'[open.to]),
                        toDApp'[open.to][i].n = open.n, toDApp'[open.to][i].type \in PermissionTypes
                 PROVE  /\ Infos(open.to, toDApp'[open.to][i]) \subseteq Identifiers
                        /\ \/ Infos(open.to, toDApp'[open.to][i]) \subseteq grants'[open.to]
                           \/ \E j \in 1..Len(toDApp'[open.to]) : i < j /\ IsGoodbye(toDApp'[open.to][j])
        BY <1>1 DEF AnswersAreGranted, Infos, GetAccountInfos, VersionOf
    <2>0. open.to \in Wallets /\ AnswersAreGranted
        BY <1>0 DEF Typed, DAppTyped, OrderInv
    <2>1. CASE open.to # w
        BY <1>3, <1>6, <2>0, <2>1 DEF AnswersAreGranted
    <2>2. CASE open.to = w /\ i \in 1..Len(toDApp[w])
        <3>1. /\ Infos(w, toDApp[w][i]) \subseteq Identifiers
              /\ \/ Infos(w, toDApp[w][i]) \subseteq grants[w]
                 \/ \E j \in 1..Len(toDApp[w]) : i < j /\ IsGoodbye(toDApp[w][j])
            BY <1>3, <2>0, <2>2 DEF AnswersAreGranted
        <3> QED BY <1>3, <1>4, <1>6, <2>2, <3>1
    <2>3. CASE open.to = w /\ i = Len(toDApp[w]) + 1
        BY <1>3, <1>6, <2>3
    <2> QED BY <1>3, <1>4, <2>1, <2>2, <2>3
<1>15. [A!Next]_(A!vars)
    <2>1. GrantedPairs \subseteq GrantedPairs'
        BY <1>6 DEF GrantedPairs
    <2>2. GrantedPairs' \ GrantedPairs \subseteq {w} \X Identifiers
        BY <1>6 DEF GrantedPairs
    <2>3. KnownPairs' = KnownPairs
        BY <1>1 DEF KnownPairs
    <2>4. A!Grant(w)
        BY <1>8, <2>1, <2>2, <2>3 DEF A!Grant, A!Of
    <2> QED BY <2>4 DEF A!Next
<1> QED
    BY <1>7, <1>9, <1>10, <1>11, <1>12, <1>13, <1>14, <1>15 DEF IInv, OrderInv, Simulates

LEMMA WrappingIsBoolean ==
    ASSUME NEW version \in Nat
    PROVE  UsesWrappedMessages(version) \in BOOLEAN
BY DEF UsesWrappedMessages, IsAtLeastVersion

\* An answer is typed and is heard by the dApp.
LEMMA PlainAnswer ==
    ASSUME NEW m \in Requests, NEW type \in PermissionTypes \cup {"done", "error", "no key"}
    PROVE  /\ Answer(m, type) \in Answers /\ Routed(Answer(m, type))
           /\ Answer(m, type).n = m.n /\ Answer(m, type).type = type
<1>0. m.version \in Nat
    BY DEF Requests
<1>1. UsesWrappedMessages(m.version) \in BOOLEAN
    BY <1>0, WrappingIsBoolean
<1>2. Answer(m, type) \in Answers
    BY <1>0, <1>1, ChainsAreNetworks DEF Answer, Answers, Requests, AccountMaps
<1> QED BY <1>2 DEF Answer, Routed

LEMMA FanoutsAreMaps ==
    ASSUME NEW keys \in SUBSET (Networks \cup {Malformed}), NEW accs \in Fanouts(keys)
    PROVE  accs \in AccountMaps /\ ChainAccounts(accs) \subseteq Identifiers /\ DOMAIN accs # {}
<1>1. PICK S \in (SUBSET keys) \ {{}} : accs \in [S -> Addresses]
    BY DEF Fanouts
<1>2. accs \in AccountMaps
    BY <1>1 DEF AccountMaps
<1>3. ChainAccounts(accs) \subseteq Identifiers
    BY <1>1, ChainsAreNetworks DEF ChainAccounts, ValidChains, GetAccountIdentifier, Identifiers
<1> QED BY <1>1, <1>2, <1>3

\* Both sides read the accounts of a permission alike.
LEMMA PermissionIsReadAlike ==
    ASSUME NEW w \in Wallets, NEW m \in Requests, m.type \in PermissionTypes,
           NEW answer \in PermissionAnswers(w, m)
    PROVE  /\ answer \in Answers /\ answer.n = m.n /\ Routed(answer)
           /\ Infos(w, answer) \subseteq Identifiers
           /\ Infos(w, answer) = GetAccountInfos(answer, IF Software[w] = "other" THEN 3 ELSE BEACON_VERSION)
<1> DEFINE plain == Answer(m, m.type)
<1> DEFINE one == {[plain EXCEPT !.address = a, !.network = m.network] : a \in Addresses}
<1> DEFINE kept == GetAccountInfos(answer, IF Software[w] = "other" THEN 3 ELSE BEACON_VERSION)
<1> USE DEF IsMultiNetworkVersion, IsAtLeastVersion, MULTI_NETWORK_FROM_VERSION, BEACON_VERSION
<1>0. plain \in Answers /\ Routed(plain) /\ plain.n = m.n /\ plain.accounts = <<>>
    BY PlainAnswer DEF Answer
<1>1. Software[w] \in {"this", "other", "walletconnect"} /\ m.network \in Networks
    BY WalletsAssumption DEF Requests
<1>2. CASE answer \in one
    <2>1. PICK a \in Addresses : answer = [plain EXCEPT !.address = a, !.network = m.network]
        BY <1>2
    <2>2. answer \in Answers /\ answer.n = m.n /\ answer.accounts = <<>>
          /\ answer.address \in Addresses /\ answer.network \in Networks
        BY <1>0, <1>1, <2>1 DEF Answers
    <2>3. Routed(answer)
        BY <1>0, <2>1 DEF Answers, Routed
    <2>4. DOMAIN answer.accounts = {}
        BY <2>2
    <2>5. \A version : GetAccountInfos(answer, version) = {GetAccountIdentifier(answer.address, answer.network)}
        BY <2>4 DEF GetAccountInfos
    <2>6. {GetAccountIdentifier(answer.address, answer.network)} \subseteq Identifiers
        BY <2>2 DEF GetAccountIdentifier, Identifiers
    <2>7. Infos(w, answer) = {GetAccountIdentifier(answer.address, answer.network)}
        BY <2>5, Zenon DEF Infos
    <2>8. kept = {GetAccountIdentifier(answer.address, answer.network)}
        BY <2>5, Zenon
    <2> HIDE DEF kept
    <2>9. Infos(w, answer) = kept /\ Infos(w, answer) \subseteq Identifiers
        BY <2>6, <2>7, <2>8, Zenon
    <2> QED BY <2>2, <2>3, <2>9 DEF kept
<1>3. CASE Software[w] = "walletconnect"
    <2>1. PICK accs \in Fanouts(ProposalNetworks(m.networks)) :
             answer = [plain EXCEPT !.version = 4, !.wrapped = TRUE, !.accounts = accs]
        BY <1>3 DEF PermissionAnswers
    <2>2. ProposalNetworks(m.networks) \in SUBSET (Networks \cup {Malformed})
        BY ChainsAreNetworks DEF ProposalNetworks, NamedChains
    <2>3. accs \in AccountMaps /\ ChainAccounts(accs) \subseteq Identifiers /\ DOMAIN accs # {}
        BY <2>2, FanoutsAreMaps
    <2>8. answer = [n |-> m.n, type |-> m.type, version |-> 4, wrapped |-> TRUE,
                    accounts |-> accs, network |-> OwnNetwork, address |-> None]
        BY <2>1 DEF Answer
    <2>4. answer \in Answers /\ answer.n = m.n /\ answer.accounts = accs /\ answer.version = 4
        <3>1. m.n \in Nat
            BY DEF Requests
        <3>2. answer \in Answers
            <4> HIDE DEF one, kept, plain
            <4>1. m.type \in PermissionTypes \cup {"done", "error", "no key"} /\ TRUE \in BOOLEAN
                  /\ None \in Addresses \cup {None} /\ accs \in AccountMaps /\ OwnNetwork \in Networks
                BY <2>3, ChainsAreNetworks, Zenon
            <4>2. 4 \in Int
                OBVIOUS
            <4> QED BY <2>8, <3>1, <4>1, <4>2 DEF Answers
        <3> QED BY <2>8, <3>2
    <2>5. VersionOf(w, answer) = 4
        BY <1>3, <2>4, WalletsAssumption DEF VersionOf
    <2>6. \A version : version = 4 => GetAccountInfos(answer, version) = ChainAccounts(accs)
        BY <2>3, <2>4 DEF GetAccountInfos
    <2>7. Routed(answer)
        BY <2>4 DEF Routed, UsesWrappedMessages, MESSAGE_WRAPPED_FROM_VERSION
    <2> QED BY <1>3, <2>3, <2>4, <2>5, <2>6, <2>7 DEF Infos
<1>4. CASE Software[w] = "this" /\ answer \notin one
    <2>1. PICK accs \in Fanouts(m.networks \cup {Malformed}) : answer = [plain EXCEPT !.accounts = accs]
        BY <1>4 DEF PermissionAnswers
    <2>2. m.networks \cup {Malformed} \in SUBSET (Networks \cup {Malformed})
        BY ChainsAreNetworks DEF Requests
    <2>3. accs \in AccountMaps /\ ChainAccounts(accs) \subseteq Identifiers /\ DOMAIN accs # {}
        BY <2>2, FanoutsAreMaps
    <2>4. answer \in Answers /\ answer.n = m.n /\ answer.accounts = accs
        BY <1>0, <2>1, <2>3 DEF Answers
    <2>5. Routed(answer)
        BY <1>0, <2>1 DEF Answers, Routed
    <2>8. w \in Marked /\ Declared[w] >= 4 /\ Declared[w] \in Int
        BY <1>4, WalletsAssumption, VersionsAreTyped
    <2>6. VersionOf(w, answer) >= 4
        BY <2>8 DEF VersionOf, EffectivePeerVersion, Absent
    <2>7. \A version : version >= 4 => GetAccountInfos(answer, version) = ChainAccounts(accs)
        BY <2>3, <2>4 DEF GetAccountInfos
    <2>9. Infos(w, answer) = ChainAccounts(accs) /\ kept = ChainAccounts(accs)
        <3>1. Infos(w, answer) = ChainAccounts(accs)
            BY <2>6, <2>7, Zenon DEF Infos
        <3>0. Software[w] # "other" /\ BEACON_VERSION = 4 /\ 4 >= 4
            <4>1. Software[w] = "this"
                BY <1>4, Zenon
            <4> HIDE DEF one, kept
            <4> QED BY <4>1
        <3>2. (IF Software[w] = "other" THEN 3 ELSE BEACON_VERSION) = 4 /\ 4 >= 4
            BY <3>0, Zenon
        <3> QED BY <2>7, <3>1, <3>2, Zenon
    <2> HIDE DEF kept
    <2> QED BY <2>3, <2>4, <2>5, <2>9 DEF kept
<1>5. CASE Software[w] = "other" /\ answer \notin one
    BY <1>5 DEF PermissionAnswers
<1> QED BY <1>1, <1>2, <1>3, <1>4, <1>5

LEMMA WalletAnswerSimulates ==
    ASSUME IInv, UNCHANGED minimum, NEW w \in Wallets,
           GrantPermission(w) \/ Perform(w) \/ Refuse(w)
    PROVE  Simulates
<1> DEFINE m == Head(toWallet[w])
<1>0. Take(w) /\ toWallet[w] # <<>> /\ toWallet' = Unsent(toWallet, w)
    BY DEF GrantPermission, Perform, Refuse, Take
<1>1. m \in Requests /\ WalletsTyped
    BY <1>0, TakenByWallet DEF IInv, Typed
<1> HIDE DEF m
<1>2. CASE GrantPermission(w)
    <2>1. PICK answer \in PermissionAnswers(w, m) : Respond(w, answer) /\ PersistGrantedPermissions(w, answer)
        BY <1>2 DEF GrantPermission, m
    <2>2. m.type \in PermissionTypes
        BY <1>2 DEF GrantPermission, PermissionTypes, m
    <2> DEFINE G == GetAccountInfos(answer, IF Software[w] = "other" THEN 3 ELSE BEACON_VERSION)
    <2>3. answer \in Answers /\ answer.n = m.n /\ Routed(answer)
          /\ Infos(w, answer) \subseteq Identifiers /\ Infos(w, answer) = G
        BY <1>1, <2>2, PermissionIsReadAlike
    <2>4. grants' = [grants EXCEPT ![w] = @ \cup G]
        BY <2>1 DEF PersistGrantedPermissions
    <2> HIDE DEF G
    <2> QED BY <1>0, <2>1, <2>3, <2>4, ReplySimulates DEF m
<1>3. ASSUME NEW type \in {"done", "error", "no key"}, Respond(w, Answer(m, type)), UNCHANGED grants
      PROVE  Simulates
    <2>1. Answer(m, type) \in Answers /\ Routed(Answer(m, type)) /\ Answer(m, type).n = m.n
          /\ Answer(m, type).type \notin PermissionTypes
        BY <1>1, PlainAnswer DEF PermissionTypes
    <2> DEFINE answer == Answer(m, type)
    <2> DEFINE G == {}
    <2>2. grants' = [grants EXCEPT ![w] = @ \cup G] /\ G \in SUBSET Identifiers
        BY <1>1, <1>3 DEF WalletsTyped
    <2> HIDE DEF answer, G
    <2>3. answer \in Answers /\ Routed(answer) /\ answer.n = m.n /\ answer.type \notin PermissionTypes
          /\ Respond(w, answer)
        BY <1>3, <2>1 DEF answer
    <2> QED BY <1>0, <2>2, <2>3, ReplySimulates DEF m
<1>4. CASE Perform(w)
    BY <1>3, <1>4 DEF Perform, m
<1>5. CASE Refuse(w)
    BY <1>3, <1>5 DEF Refuse, m
<1> QED BY <1>2, <1>4, <1>5

-----------------------------------------------------------------------------
(* A wallet withdraws.                                                     *)

LEMMA WithdrawsFrom ==
    ASSUME WalletsTyped, NEW w \in Wallets, grants' = [grants EXCEPT ![w] = {}]
    PROVE  /\ GrantedPairs' = GrantedPairs \ A!Of(w)
           /\ grants' \in [Wallets -> SUBSET Identifiers]
           /\ \A v \in Wallets \ {w} : grants'[v] = grants[v]
<1>1. \A v \in Wallets : grants'[v] = IF v = w THEN {} ELSE grants[v]
    BY DEF WalletsTyped
<1> QED BY <1>1 DEF GrantedPairs, A!Of, WalletsTyped

LEMMA HearDisconnectSimulates ==
    ASSUME IInv, UNCHANGED minimum, NEW w \in Wallets, HearDisconnect(w)
    PROVE  Simulates
<1>0. Typed /\ QueuesTyped /\ WalletsTyped /\ OrderInv /\ Spoken
    BY DEF IInv, Typed
<1>1. /\ toWallet[w] # <<>> /\ toWallet' = Unsent(toWallet, w) /\ toDApp' = toDApp
      /\ UNCHANGED <<peers, activePeer, accounts, active, open, made, events>>
    BY DEF HearDisconnect, Take, dapp
<1>2. /\ \A v \in Wallets \ {w} : toWallet'[v] = toWallet[v]
      /\ Len(toWallet[w]) \in Nat \ {0} /\ Len(toWallet'[w]) = Len(toWallet[w]) - 1
      /\ Head(toWallet[w]) = toWallet[w][1]
      /\ \A i \in 1..Len(toWallet'[w]) : i + 1 \in 1..Len(toWallet[w]) /\ toWallet'[w][i] = toWallet[w][i + 1]
      /\ toWallet' \in [Wallets -> Seq(Requests)]
    BY <1>0, <1>1, TakenByWallet
<1>3. Understands(w, toWallet[w][1]) /\ 1 \in 1..Len(toWallet[w])
    BY <1>0, <1>2 DEF Spoken
<1>4. IsGoodbye(toWallet[w][1]) /\ paired' = paired \ {w} /\ grants' = [grants EXCEPT ![w] = {}]
    BY <1>2, <1>3 DEF HearDisconnect, IsGoodbye
<1>5. /\ GrantedPairs' = GrantedPairs \ A!Of(w)
      /\ grants' \in [Wallets -> SUBSET Identifiers]
      /\ \A v \in Wallets \ {w} : grants'[v] = grants[v]
    BY <1>0, <1>4, WithdrawsFrom
<1>6. Typed'
    <2>1. DAppTyped'
        BY <1>0, <1>1 DEF Typed, DAppTyped
    <2>2. WalletsTyped'
        BY <1>0, <1>4, <1>5 DEF WalletsTyped
    <2>3. QueuesTyped'
        BY <1>0, <1>1, <1>2 DEF QueuesTyped
    <2> QED BY <2>1, <2>2, <2>3 DEF Typed
<1>7. Leaving' = Leaving
    BY <1>1, SameQueueSameLeaving
<1>k. \A v \in Wallets : \A i \in 1..Len(toWallet'[v]) :
          \E k \in 1..Len(toWallet[v]) : toWallet'[v][i] = toWallet[v][k]
    BY <1>2
<1>8. Spoken'
    BY <1>0, <1>1, <1>k DEF Spoken
<1>9. NumbersAreMade'
    <2>1. \A v \in Wallets : \A i \in 1..Len(toWallet'[v]) : toWallet'[v][i].n <= made
        BY <1>0, <1>k DEF OrderInv, NumbersAreMade
    <2>2. made' = made /\ toDApp' = toDApp
        BY <1>1
    <2> QED BY <1>0, <2>1, <2>2 DEF OrderInv, NumbersAreMade
<1>10. GoodbyesAreOlder' /\ AnswersAreGranted'
    <2> SUFFICES ASSUME open # None PROVE GoodbyesAreOlder' /\ AnswersAreGranted'
        BY <1>1 DEF GoodbyesAreOlder, AnswersAreGranted
    <2>0. open.to \in Wallets /\ GoodbyesAreOlder /\ AnswersAreGranted
        BY <1>0 DEF Typed, DAppTyped, OrderInv
    <2>1. CASE open.to # w
        <3>1. toWallet'[open.to] = toWallet[open.to] /\ grants'[open.to] = grants[open.to]
            BY <1>2, <1>5, <2>0, <2>1
        <3> QED BY <1>1, <2>0, <3>1 DEF GoodbyesAreOlder, AnswersAreGranted, Infos, GetAccountInfos, VersionOf
    <2>2. CASE open.to = w
        <3>1. ASSUME NEW i \in 1..Len(toDApp[w]), toDApp[w][i].n = open.n PROVE FALSE
            BY <1>3, <1>4, <2>0, <2>2, <3>1 DEF GoodbyesAreOlder
        <3>2. ASSUME NEW i \in 1..Len(toWallet'[w]), NEW j \in 1..Len(toWallet'[w]), i < j,
                     toWallet'[w][i].n = open.n
              PROVE  ~IsGoodbye(toWallet'[w][j])
            <4>1. /\ i + 1 \in 1..Len(toWallet[w]) /\ j + 1 \in 1..Len(toWallet[w]) /\ i + 1 < j + 1
                  /\ toWallet[w][i + 1].n = open.n /\ toWallet'[w][j] = toWallet[w][j + 1]
                BY <1>2, <3>2
            <4>2. ~IsGoodbye(toWallet[w][j + 1])
                BY <2>0, <2>2, <4>1 DEF GoodbyesAreOlder
            <4> QED BY <4>1, <4>2
        <3>3. GoodbyesAreOlder'
            BY <1>1, <2>2, <3>1, <3>2 DEF GoodbyesAreOlder
        <3>4. AnswersAreGranted'
            BY <1>1, <2>2, <3>1 DEF AnswersAreGranted
        <3> QED BY <3>3, <3>4
    <2> QED BY <2>1, <2>2
<1>11. LeftIsForgotten'
    <2>1. ASSUME NEW v \in Wallets, \E i \in 1..Len(toWallet'[v]) : IsGoodbye(toWallet'[v][i])
          PROVE  \E i \in 1..Len(toWallet[v]) : IsGoodbye(toWallet[v][i])
        BY <1>2, <2>1
    <2> QED BY <1>0, <1>1, <1>7, <2>1 DEF OrderInv, LeftIsForgotten
<1>12. AccountsHavePeers'
    BY <1>0, <1>1 DEF OrderInv, AccountsHavePeers
<1>13. A!Withdraw(w)
    <2>1. KnownPairs' = KnownPairs
        BY <1>1 DEF KnownPairs
    <2>2. CASE w \in Leaving
        BY <1>5, <1>7, <2>1, <2>2 DEF A!Withdraw
    <2>3. CASE w \notin Leaving
        <3>1. \A a \in accounts : a.wallet # w
            BY <1>0, <1>3, <1>4, <2>3 DEF OrderInv, LeftIsForgotten
        <3>2. KnownPairs \cap A!Of(w) = {}
            BY <3>1 DEF KnownPairs, A!Of
        <3> QED BY <1>5, <1>7, <2>1, <3>2 DEF A!Withdraw
    <2> QED BY <2>2, <2>3
<1> QED
    BY <1>6, <1>8, <1>9, <1>10, <1>11, <1>12, <1>13 DEF IInv, OrderInv, Simulates, A!Next

LEMMA RemovePeerSimulates ==
    ASSUME IInv, UNCHANGED minimum, NEW w \in Wallets, RemovePeer(w)
    PROVE  Simulates
<1> DEFINE m == [n |-> 0, type |-> "disconnect", version |-> BEACON_VERSION, wrapped |-> Software[w] = "this"]
<1>0. Typed /\ QueuesTyped /\ WalletsTyped /\ OrderInv /\ Spoken /\ made \in Nat
    BY BoundsAssumption DEF IInv, Typed, DAppTyped
<1>1. /\ toWallet' = [toWallet EXCEPT ![w] = <<>>] /\ toDApp' = Message(toDApp, w, m)
      /\ paired' = paired \ {w} /\ grants' = [grants EXCEPT ![w] = {}]
      /\ events < MaxEvents /\ events' = events + 1
      /\ UNCHANGED <<peers, activePeer, accounts, active, open, made>>
    BY DEF RemovePeer, Happen, dapp
<1>2. m \in Goodbyes /\ IsGoodbye(m) /\ Routed(m) /\ m.n = 0
    <2>1. (Software[w] = "this") \in BOOLEAN
        OBVIOUS
    <2>2. m \in Goodbyes
        BY <2>1 DEF Goodbyes
    <2>3. UsesWrappedMessages(m.version)
        BY DEF UsesWrappedMessages, IsAtLeastVersion, MESSAGE_WRAPPED_FROM_VERSION, BEACON_VERSION
    <2> QED BY <2>2, <2>3 DEF IsGoodbye, Routed
<1> HIDE DEF m
<1>3. /\ \A v \in Wallets \ {w} : toWallet'[v] = toWallet[v]
      /\ toWallet'[w] = <<>> /\ Len(toWallet'[w]) = 0
      /\ toWallet' \in [Wallets -> Seq(Requests)]
    BY <1>0, <1>1 DEF QueuesTyped
<1>4. /\ toDApp' \in [Wallets -> Seq(Answers \cup Goodbyes)]
      /\ \A v \in Wallets \ {w} : toDApp'[v] = toDApp[v]
      /\ Len(toDApp[w]) \in Nat /\ Len(toDApp'[w]) = Len(toDApp[w]) + 1
      /\ toDApp'[w][Len(toDApp[w]) + 1] = m
      /\ \A i \in 1..Len(toDApp[w]) : toDApp'[w][i] = toDApp[w][i]
    BY <1>0, <1>1, <1>2, SentToDApp, ElementsAreTyped
<1>5. /\ GrantedPairs' = GrantedPairs \ A!Of(w)
      /\ grants' \in [Wallets -> SUBSET Identifiers]
      /\ \A v \in Wallets \ {w} : grants'[v] = grants[v]
    BY <1>0, <1>1, WithdrawsFrom
<1>6. Typed'
    <2>1. events' \in 0..MaxEvents
        BY <1>0, <1>1, BoundsAssumption DEF Typed, DAppTyped
    <2>2. DAppTyped'
        BY <1>0, <1>1, <2>1 DEF Typed, DAppTyped
    <2>3. WalletsTyped'
        BY <1>0, <1>1, <1>5 DEF WalletsTyped
    <2> QED BY <1>3, <1>4, <2>2, <2>3 DEF Typed, QueuesTyped
<1>7. Leaving' = Leaving \cup {w}
    <2>1. \A v \in Wallets \ {w} : (\E i \in 1..Len(toDApp'[v]) : IsGoodbye(toDApp'[v][i]))
                 <=> (\E i \in 1..Len(toDApp[v]) : IsGoodbye(toDApp[v][i]))
        BY <1>4
    <2>2. \E i \in 1..Len(toDApp'[w]) : IsGoodbye(toDApp'[w][i])
        BY <1>2, <1>4
    <2>3. Leaving' = {v \in Wallets : \E i \in 1..Len(toDApp'[v]) : IsGoodbye(toDApp'[v][i])}
        BY <1>6, LeavingByIndex DEF Leaving, QueuesTyped, IsGoodbye, Typed
    <2>4. Leaving = {v \in Wallets : \E i \in 1..Len(toDApp[v]) : IsGoodbye(toDApp[v][i])}
        BY <1>0, LeavingByIndex
    <2> QED BY <2>1, <2>2, <2>3, <2>4
<1>8. Spoken'
    <2>1. ASSUME NEW v \in Wallets PROVE \A i \in 1..Len(toWallet'[v]) : Understands(v, toWallet'[v][i])
        <3>1. CASE v = w
            BY <1>3, <3>1
        <3>2. CASE v # w
            BY <1>0, <1>3, <3>2 DEF Spoken
        <3> QED BY <3>1, <3>2
    <2>2. ASSUME NEW v \in Wallets PROVE \A i \in 1..Len(toDApp'[v]) : Routed(toDApp'[v][i])
        BY <1>0, <1>2, <1>4 DEF Spoken
    <2> QED BY <2>1, <2>2 DEF Spoken
<1>9. NumbersAreMade'
    <2>1. ASSUME NEW v \in Wallets PROVE \A i \in 1..Len(toWallet'[v]) : toWallet'[v][i].n <= made
        BY <1>0, <1>3 DEF OrderInv, NumbersAreMade
    <2>2. ASSUME NEW v \in Wallets PROVE \A i \in 1..Len(toDApp'[v]) : toDApp'[v][i].n <= made
        <3>1. \A i \in 1..Len(toDApp[v]) : toDApp[v][i].n <= made
            BY <1>0 DEF OrderInv, NumbersAreMade
        <3>2. CASE v # w
            BY <1>4, <3>1, <3>2
        <3>3. CASE v = w
            BY <1>0, <1>2, <1>4, <3>1, <3>3
        <3> QED BY <3>2, <3>3
    <2> QED BY <1>1, <2>1, <2>2 DEF NumbersAreMade
<1>10. GoodbyesAreOlder' /\ AnswersAreGranted'
    <2> SUFFICES ASSUME open # None PROVE GoodbyesAreOlder' /\ AnswersAreGranted'
        BY <1>1 DEF GoodbyesAreOlder, AnswersAreGranted
    <2>0. open.to \in Wallets /\ GoodbyesAreOlder /\ AnswersAreGranted /\ open.n \in Nat \ {0}
        BY <1>0 DEF Typed, DAppTyped, OrderInv
    <2>1. CASE open.to # w
        <3>1. toWallet'[open.to] = toWallet[open.to] /\ grants'[open.to] = grants[open.to]
              /\ toDApp'[open.to] = toDApp[open.to]
            BY <1>3, <1>4, <1>5, <2>0, <2>1
        <3>2. GoodbyesAreOlder'
            BY <1>1, <2>0, <3>1 DEF GoodbyesAreOlder
        <3>3. ASSUME NEW i \in 1..Len(toDApp'[open.to]),
                     toDApp'[open.to][i].n = open.n, toDApp'[open.to][i].type \in PermissionTypes
              PROVE  /\ Infos(open.to, toDApp'[open.to][i]) \subseteq Identifiers
                     /\ \/ Infos(open.to, toDApp'[open.to][i]) \subseteq grants'[open.to]
                        \/ \E j \in 1..Len(toDApp'[open.to]) : i < j /\ IsGoodbye(toDApp'[open.to][j])
            BY <2>0, <3>1, <3>3 DEF AnswersAreGranted
        <3>4. AnswersAreGranted'
            BY <1>1, <3>3 DEF AnswersAreGranted, Infos, GetAccountInfos, VersionOf
        <3> QED BY <3>2, <3>4
    <2>2. CASE open.to = w
        <3>1. GoodbyesAreOlder'
            BY <1>1, <1>3, <2>2 DEF GoodbyesAreOlder
        <3>2. ASSUME NEW i \in 1..Len(toDApp'[w]), toDApp'[w][i].n = open.n, toDApp'[w][i].type \in PermissionTypes
              PROVE  /\ Infos(w, toDApp'[w][i]) \subseteq Identifiers
                     /\ \E j \in 1..Len(toDApp'[w]) : i < j /\ IsGoodbye(toDApp'[w][j])
            <4>1. i \in 1..Len(toDApp[w])
                BY <1>2, <1>4, <2>0, <3>2
            <4>2. Infos(w, toDApp[w][i]) \subseteq Identifiers
                BY <1>4, <2>0, <2>2, <3>2, <4>1 DEF AnswersAreGranted
            <4> QED BY <1>2, <1>4, <4>1, <4>2
        <3>3. AnswersAreGranted'
            BY <1>1, <2>2, <3>2 DEF AnswersAreGranted, Infos, GetAccountInfos, VersionOf
        <3> QED BY <3>1, <3>3
    <2> QED BY <2>1, <2>2
<1>11. LeftIsForgotten'
    BY <1>0, <1>1, <1>3, <1>7 DEF OrderInv, LeftIsForgotten
<1>12. AccountsHavePeers'
    BY <1>0, <1>1 DEF OrderInv, AccountsHavePeers
<1>13. KnownPairs' = KnownPairs
    BY <1>1 DEF KnownPairs
<1>14. A!Withdraw(w)
    BY <1>5, <1>7, <1>13 DEF A!Withdraw
<1> QED
    BY <1>6, <1>8, <1>9, <1>10, <1>11, <1>12, <1>14 DEF IInv, OrderInv, Simulates, A!Next

-----------------------------------------------------------------------------
(* The dApp hears a message.                                               *)

\* What holds whatever the dApp makes of the message it takes.
Heard(w) ==
    /\ toDApp[w] # <<>> /\ toDApp' = Unsent(toDApp, w)
    /\ UNCHANGED <<minimum, made, toWallet, paired, grants, events>>
    /\ open' \in {None, open} /\ DAppTyped'

LEMMA HeardEffect ==
    ASSUME IInv, NEW w \in Wallets, Heard(w)
    PROVE  /\ Typed' /\ Spoken' /\ NumbersAreMade' /\ GoodbyesAreOlder' /\ AnswersAreGranted'
           /\ Len(toDApp[w]) \in Nat \ {0} /\ Head(toDApp[w]) = toDApp[w][1]
           /\ ~IsGoodbye(Head(toDApp[w])) => Leaving' = Leaving
           /\ IsGoodbye(Head(toDApp[w])) => w \in Leaving /\ Leaving' \in {Leaving, Leaving \ {w}}
<1>0. Typed /\ QueuesTyped /\ OrderInv /\ Spoken
    BY DEF IInv, Typed
<1>1. /\ \A v \in Wallets \ {w} : toDApp'[v] = toDApp[v]
      /\ Len(toDApp[w]) \in Nat \ {0} /\ Len(toDApp'[w]) = Len(toDApp[w]) - 1
      /\ Head(toDApp[w]) = toDApp[w][1]
      /\ \A i \in 1..Len(toDApp'[w]) : i + 1 \in 1..Len(toDApp[w]) /\ toDApp'[w][i] = toDApp[w][i + 1]
      /\ toDApp' \in [Wallets -> Seq(Answers \cup Goodbyes)]
    BY <1>0, TakenByDApp DEF Heard
<1>5. \A v \in Wallets : \A i \in 1..Len(toDApp'[v]) :
          \E k \in 1..Len(toDApp[v]) : toDApp'[v][i] = toDApp[v][k]
    BY <1>1
<1>2. Typed'
    BY <1>0, <1>1 DEF Heard, Typed, WalletsTyped, QueuesTyped
<1>3. Spoken'
    <2>1. ASSUME NEW v \in Wallets PROVE \A i \in 1..Len(toDApp'[v]) : Routed(toDApp'[v][i])
        BY <1>0, <1>1 DEF Spoken
    <2> QED BY <1>0, <2>1 DEF Heard, Spoken
<1>4. NumbersAreMade'
    <2>1. ASSUME NEW v \in Wallets PROVE \A i \in 1..Len(toDApp'[v]) : toDApp'[v][i].n <= made
        BY <1>0, <1>5 DEF OrderInv, NumbersAreMade
    <2> QED BY <1>0, <2>1 DEF Heard, OrderInv, NumbersAreMade
<1>6. GoodbyesAreOlder'
    <2> SUFFICES ASSUME open # None, open' = open PROVE GoodbyesAreOlder'
        BY DEF Heard, GoodbyesAreOlder
    <2>1. open.to \in Wallets /\ GoodbyesAreOlder
        BY <1>0 DEF Typed, DAppTyped, OrderInv
    <2> QED BY <1>5, <2>1 DEF Heard, GoodbyesAreOlder
<1>7. AnswersAreGranted'
    <2> SUFFICES ASSUME open # None, open' = open, NEW i \in 1..Len(toDApp'[open.to]),
                        toDApp'[open.to][i].n = open.n, toDApp'[open.to][i].type \in PermissionTypes
                 PROVE  /\ Infos(open.to, toDApp'[open.to][i]) \subseteq Identifiers
                        /\ \/ Infos(open.to, toDApp'[open.to][i]) \subseteq grants[open.to]
                           \/ \E j \in 1..Len(toDApp'[open.to]) : i < j /\ IsGoodbye(toDApp'[open.to][j])
        BY DEF Heard, AnswersAreGranted, Infos, GetAccountInfos, VersionOf
    <2>0. open.to \in Wallets /\ AnswersAreGranted
        BY <1>0 DEF Typed, DAppTyped, OrderInv
    <2>1. CASE open.to # w
        BY <1>1, <2>0, <2>1 DEF AnswersAreGranted
    <2>2. CASE open.to = w
        <3>1. i + 1 \in 1..Len(toDApp[w]) /\ toDApp'[w][i] = toDApp[w][i + 1]
            BY <1>1, <2>2
        <3>2. /\ Infos(w, toDApp[w][i + 1]) \subseteq Identifiers
              /\ \/ Infos(w, toDApp[w][i + 1]) \subseteq grants[w]
                 \/ \E j \in 1..Len(toDApp[w]) : i + 1 < j /\ IsGoodbye(toDApp[w][j])
            BY <2>0, <2>2, <3>1 DEF AnswersAreGranted
        <3>3. ASSUME NEW j \in 1..Len(toDApp[w]), i + 1 < j, IsGoodbye(toDApp[w][j])
              PROVE  \E k \in 1..Len(toDApp'[w]) : i < k /\ IsGoodbye(toDApp'[w][k])
            <4>1. j - 1 \in 1..Len(toDApp'[w]) /\ i < j - 1 /\ (j - 1) + 1 = j
                BY <1>1, <2>2, <3>3
            <4> QED BY <1>1, <3>3, <4>1
        <3> QED BY <2>2, <3>1, <3>2, <3>3
    <2> QED BY <2>1, <2>2
<1>8. /\ Leaving' = {v \in Wallets : \E i \in 1..Len(toDApp'[v]) : IsGoodbye(toDApp'[v][i])}
      /\ Leaving = {v \in Wallets : \E i \in 1..Len(toDApp[v]) : IsGoodbye(toDApp[v][i])}
    <2>1. Leaving' = {v \in Wallets : \E i \in 1..Len(toDApp'[v]) : IsGoodbye(toDApp'[v][i])}
        BY <1>2, LeavingByIndex DEF Leaving, QueuesTyped, IsGoodbye, Typed
    <2> QED BY <1>0, <2>1, LeavingByIndex
<1>9. \A v \in Wallets \ {w} : v \in Leaving' <=> v \in Leaving
    BY <1>1, <1>8
<1>10. w \in Leaving' => w \in Leaving
    BY <1>5, <1>8
<1>11. ASSUME ~IsGoodbye(toDApp[w][1]), w \in Leaving PROVE w \in Leaving'
    <2>1. PICK i \in 1..Len(toDApp[w]) : IsGoodbye(toDApp[w][i])
        BY <1>8, <1>11
    <2>2. i - 1 \in 1..Len(toDApp'[w]) /\ (i - 1) + 1 = i
        BY <1>1, <1>11, <2>1
    <2> QED BY <1>1, <1>8, <2>1, <2>2
<1>12. IsGoodbye(toDApp[w][1]) => w \in Leaving
    BY <1>1, <1>8
<1>13. Leaving \subseteq Wallets /\ Leaving' \subseteq Wallets
    BY <1>8
<1>14. ~IsGoodbye(toDApp[w][1]) => Leaving' = Leaving
    BY <1>9, <1>10, <1>11, <1>13
<1>15. Leaving' \in {Leaving, Leaving \ {w}}
    <2>1. CASE w \in Leaving'
        BY <1>9, <1>10, <1>13, <2>1
    <2>2. CASE w \notin Leaving'
        <3>1. Leaving' = Leaving \ {w}
            BY <1>9, <1>13, <2>2
        <3> QED BY <3>1
    <2> QED BY <2>1, <2>2
<1> QED BY <1>1, <1>2, <1>3, <1>4, <1>6, <1>7, <1>12, <1>14, <1>15

\* It learns nothing from the message, or nothing that the wallet's goodbye would
\* have it forget.
LEMMA HearSimulates ==
    ASSUME IInv, NEW w \in Wallets, Heard(w), accounts' \subseteq accounts,
           \A a \in accounts' : a.wallet \in peers',
           IsGoodbye(Head(toDApp[w])) => accounts' = {a \in accounts : a.wallet # w}
    PROVE  Simulates
<1>1. /\ Typed' /\ Spoken' /\ NumbersAreMade' /\ GoodbyesAreOlder' /\ AnswersAreGranted'
      /\ ~IsGoodbye(Head(toDApp[w])) => Leaving' = Leaving
      /\ IsGoodbye(Head(toDApp[w])) => w \in Leaving /\ Leaving' \in {Leaving, Leaving \ {w}}
    BY HeardEffect
<1>2. AccountsHavePeers'
    BY DEF AccountsHavePeers
<1>3. LeftIsForgotten /\ UNCHANGED <<toWallet, grants>>
    BY DEF Heard, IInv, OrderInv
<1>4. CASE ~IsGoodbye(Head(toDApp[w]))
    <2>1. LeftIsForgotten'
        BY <1>1, <1>3, <1>4 DEF LeftIsForgotten
    <2>2. [A!Next]_(A!vars)
        BY <1>1, <1>3, <1>4, Forgets
    <2> QED BY <1>1, <1>2, <2>1, <2>2 DEF IInv, OrderInv, Simulates
<1>5. CASE IsGoodbye(Head(toDApp[w]))
    <2>1. LeftIsForgotten'
        BY <1>1, <1>3, <1>5 DEF LeftIsForgotten
    <2>2. KnownPairs' = KnownPairs \ A!Of(w)
        <3>1. KnownPairs \subseteq Wallets \X Identifiers
            BY DEF KnownPairs, IInv, Typed, DAppTyped, Accounts
        <3> QED BY <1>5, <3>1 DEF KnownPairs, A!Of
    <2>3. GrantedPairs' = GrantedPairs
        BY <1>3 DEF GrantedPairs
    <2>4. A!Hear(w)
        BY <1>1, <1>5, <2>2, <2>3 DEF A!Hear
    <2> QED BY <1>1, <1>2, <2>1, <2>4 DEF IInv, OrderInv, Simulates, A!Next
<1> QED BY <1>4, <1>5

\* It learns the accounts that the open request is answered with.
LEMMA LearnSimulates ==
    ASSUME IInv, NEW w \in Wallets, Heard(w), IsAnswer(w), w \in peers, peers' = peers,
           Head(toDApp[w]).type \in PermissionTypes,
           accounts' = AddAccounts(Infos(w, Head(toDApp[w])), w)
    PROVE  Simulates
<1> DEFINE ids == Infos(w, Head(toDApp[w]))
<1>1. /\ Typed' /\ Spoken' /\ NumbersAreMade' /\ GoodbyesAreOlder' /\ AnswersAreGranted'
      /\ Len(toDApp[w]) \in Nat \ {0} /\ Head(toDApp[w]) = toDApp[w][1]
      /\ ~IsGoodbye(Head(toDApp[w])) => Leaving' = Leaving
    BY HeardEffect
<1>2. ~IsGoodbye(Head(toDApp[w])) /\ Leaving' = Leaving
    BY <1>1 DEF IsGoodbye, PermissionTypes
<1>3. open # None /\ open.to = w /\ open.n = toDApp[w][1].n /\ 1 \in 1..Len(toDApp[w])
    BY <1>1 DEF IsAnswer
<1>4. Typed /\ QueuesTyped /\ OrderInv /\ UNCHANGED <<toWallet, grants>>
    BY DEF IInv, Typed, Heard
<1>5. /\ ids \subseteq Identifiers
      /\ ids \subseteq grants[w] \/ \E j \in 1..Len(toDApp[w]) : IsGoodbye(toDApp[w][j])
    BY <1>1, <1>3, <1>4 DEF OrderInv, AnswersAreGranted
<1>6. ids \subseteq grants[w] \/ w \in Leaving
    BY <1>4, <1>5, LeavingByIndex
<1>7. \A j \in 1..Len(toWallet[w]) : ~IsGoodbye(toWallet[w][j])
    BY <1>3, <1>4 DEF OrderInv, GoodbyesAreOlder
<1> HIDE DEF ids
<1>8. accounts' \subseteq accounts \cup {[id |-> id, wallet |-> w] : id \in ids}
    BY DEF AddAccounts, ids
<1>9. LeftIsForgotten'
    BY <1>2, <1>4, <1>7, <1>8 DEF OrderInv, LeftIsForgotten
<1>10. AccountsHavePeers'
    BY <1>4, <1>8 DEF OrderInv, AccountsHavePeers
<1>11. A!Learn(w)
    <2>1. KnownPairs' \ KnownPairs \subseteq {<<w, id>> : id \in ids}
        BY <1>8 DEF KnownPairs
    <2>2. {<<w, id>> : id \in ids} \subseteq A!Of(w)
        BY <1>5 DEF A!Of, ids
    <2>3. GrantedPairs' = GrantedPairs
        BY <1>4 DEF GrantedPairs
    <2>4. w \notin Leaving => {<<w, id>> : id \in ids} \subseteq GrantedPairs
        BY <1>5, <1>6 DEF GrantedPairs, ids
    <2> QED BY <1>2, <2>1, <2>2, <2>3, <2>4 DEF A!Learn
<1> QED BY <1>1, <1>9, <1>10, <1>11 DEF IInv, OrderInv, Simulates, A!Next

LEMMA HearsIsHeard ==
    ASSUME IInv, UNCHANGED minimum, NEW w \in Wallets, NEW types, Hears(w, types),
           open' = None, peers' \subseteq Wallets,
           activePeer' \in Wallets \cup {None}, accounts' \subseteq Accounts, active' \in Accounts \cup {None}
    PROVE  Heard(w)
BY DEF Hears, Heard, IInv, Typed, DAppTyped

LEMMA GrantedSimulates ==
    ASSUME IInv, UNCHANGED minimum, NEW w \in Wallets, Granted(w) \/ GenericGranted(w)
    PROVE  Simulates
<1> DEFINE m == Head(toDApp[w])
<1> DEFINE ids == Infos(w, m)
<1> DEFINE types == IF Granted(w) THEN {"permission"} ELSE {"generic permission"}
<1>0. Typed /\ QueuesTyped /\ OrderInv
    BY DEF IInv, Typed
<1>1. Hears(w, types) /\ IsAnswer(w) /\ open' = None /\ w \in peers
      /\ m.type \in PermissionTypes /\ toDApp[w] # <<>>
    BY DEF Granted, GenericGranted, Hears, PermissionTypes
<1>2. Accept(w, ids) \/ UNCHANGED <<peers, activePeer, accounts, active>>
    BY DEF Granted, GenericGranted, Infos
<1>3. Len(toDApp[w]) \in Nat \ {0} /\ m = toDApp[w][1]
    BY <1>0, <1>1, TakenByDApp DEF Hears
<1>4. ids \subseteq Identifiers
    <2>0. 1 \in 1..Len(toDApp[w])
        BY <1>3
    <2> HIDE DEF m, ids, types
    <2>1. /\ open # None /\ open.to = w /\ 1 \in 1..Len(toDApp[w])
          /\ toDApp[w][1].n = open.n /\ toDApp[w][1].type \in PermissionTypes
        <3>1. open # None /\ open.to = w /\ open.n = m.n
            BY <1>1, Zenon DEF IsAnswer, m
        <3> QED BY <1>1, <1>3, <2>0, <3>1
    <2>2. Infos(w, toDApp[w][1]) \subseteq Identifiers
        BY <1>0, <2>1 DEF OrderInv, AnswersAreGranted
    <2> QED BY <1>3, <2>2 DEF ids
<1> HIDE DEF ids, types
<1>5. CASE Accept(w, ids)
    <2>1. accounts' = AddAccounts(ids, w) /\ accounts' \subseteq Accounts
        BY <1>0, <1>4, <1>5 DEF Accept, AddAccounts, Accounts, Typed, DAppTyped
    <2>2. active' \in Accounts
        BY <1>4, <1>5 DEF Accept, Accounts
    <2>3. peers' = peers /\ activePeer' = w
        BY <1>5 DEF Accept
    <2>4. Heard(w)
        BY <1>0, <1>1, <2>1, <2>2, <2>3, HearsIsHeard DEF Typed, DAppTyped
    <2> QED BY <1>1, <2>1, <2>3, <2>4, LearnSimulates DEF ids
<1>6. CASE UNCHANGED <<peers, activePeer, accounts, active>>
    <2>1. Heard(w)
        BY <1>0, <1>1, <1>6, HearsIsHeard DEF Typed, DAppTyped
    <2>2. ~IsGoodbye(m)
        BY <1>1 DEF IsGoodbye, PermissionTypes
    <2> QED BY <1>0, <1>6, <2>1, <2>2, HearSimulates DEF OrderInv, AccountsHavePeers
<1> QED BY <1>2, <1>5, <1>6

LEMMA AnsweredSimulates ==
    ASSUME IInv, UNCHANGED minimum, NEW w \in Wallets,
           Done(w) \/ Refused(w) \/ AccountRemoved(w)
    PROVE  Simulates
<1> DEFINE types == IF Done(w) THEN {"done"} ELSE IF Refused(w) THEN {"error", "no key"} ELSE {"no key"}
<1>0. Typed /\ AccountsHavePeers
    BY DEF IInv, OrderInv
<1>1. Hears(w, types) /\ open' = None /\ ~IsGoodbye(Head(toDApp[w]))
    BY DEF Done, Refused, AccountRemoved, Hears, IsGoodbye
<1>2. /\ peers' = peers /\ accounts' \subseteq accounts
      /\ activePeer' \in {activePeer, None} /\ active' \in {active, None}
    BY DEF Done, Refused, AccountRemoved
<1> HIDE DEF types
<1>3. Heard(w)
    BY <1>0, <1>1, <1>2, HearsIsHeard DEF Typed, DAppTyped
<1> QED BY <1>0, <1>1, <1>2, <1>3, HearSimulates DEF AccountsHavePeers

LEMMA DepartedSimulates ==
    ASSUME IInv, UNCHANGED minimum, NEW w \in Wallets, Departed(w)
    PROVE  Simulates
<1>0. Typed /\ AccountsHavePeers
    BY DEF IInv, OrderInv
<1>1. /\ Hears(w, {"disconnect"}) /\ open' = None
      /\ peers' = peers \ {w} /\ activePeer' = None
      /\ accounts' = {a \in accounts : a.wallet # w}
      /\ active' \in {active, None}
    BY DEF Departed
<1>2. Heard(w)
    BY <1>0, <1>1, HearsIsHeard DEF Typed, DAppTyped
<1> QED BY <1>0, <1>1, <1>2, HearSimulates DEF AccountsHavePeers

LEMMA IgnoreSimulates ==
    ASSUME IInv, UNCHANGED minimum, NEW w \in Wallets, Ignore(w)
    PROVE  Simulates
<1>0. Typed /\ QueuesTyped /\ AccountsHavePeers /\ Spoken
    BY DEF IInv, OrderInv, Typed
<1>1. /\ toDApp[w] # <<>> /\ toDApp' = Unsent(toDApp, w)
      /\ UNCHANGED <<peers, activePeer, accounts, active, open, made, toWallet, paired, grants, events>>
    BY DEF Ignore, dapp
<1>2. Heard(w)
    BY <1>0, <1>1 DEF Heard, Typed, DAppTyped
<1>3. Routed(Head(toDApp[w]))
    BY <1>0, <1>1, TakenByDApp DEF Spoken
<1>4. IsGoodbye(Head(toDApp[w])) => w \notin peers
    BY <1>3 DEF Ignore, IsGoodbye
<1> QED BY <1>0, <1>1, <1>2, <1>4, HearSimulates DEF AccountsHavePeers

-----------------------------------------------------------------------------
(* The dApp's other calls.                                                 *)

LEMMA SetActiveAccountSimulates ==
    ASSUME IInv, UNCHANGED minimum, NEW a \in accounts \cup {None}, SetActiveAccount(a)
    PROVE  Simulates
<1>0. Typed
    BY DEF IInv
<1>1. /\ active' = a /\ activePeer' = IF a = None THEN None ELSE a.wallet
      /\ events < MaxEvents /\ events' = events + 1
      /\ UNCHANGED <<peers, accounts, open, made, toWallet, toDApp, paired, grants>>
    BY DEF SetActiveAccount, Happen
<1>2. active' \in Accounts \cup {None} /\ activePeer' \in Wallets \cup {None}
    BY <1>0, <1>1 DEF Typed, DAppTyped, Accounts
<1>3. events' \in 0..MaxEvents
    BY <1>0, <1>1, BoundsAssumption DEF Typed, DAppTyped
<1>4. DAppTyped'
    BY <1>0, <1>1, <1>2, <1>3 DEF Typed, DAppTyped
<1>5. Typed'
    BY <1>0, <1>1, <1>4 DEF Typed, WalletsTyped, QueuesTyped
<1>6. Leaving' = Leaving
    BY <1>1, SameQueueSameLeaving
<1>7. Spoken' /\ NumbersAreMade' /\ GoodbyesAreOlder'
    BY <1>1 DEF IInv, OrderInv, Spoken, NumbersAreMade, GoodbyesAreOlder
<1>8. LeftIsForgotten' /\ AccountsHavePeers' /\ AnswersAreGranted'
    BY <1>1, <1>6
    DEF IInv, OrderInv, LeftIsForgotten, AccountsHavePeers, AnswersAreGranted, Infos, GetAccountInfos,
        VersionOf
<1>9. [A!Next]_(A!vars)
    BY <1>1, <1>6, Forgets
<1> QED BY <1>5, <1>7, <1>8, <1>9 DEF IInv, OrderInv, Simulates

LEMMA DisconnectSimulates ==
    ASSUME IInv, UNCHANGED minimum, Disconnect
    PROVE  Simulates
<1> DEFINE w == activePeer
<1> DEFINE m == [Flat(w) EXCEPT !.type = "disconnect", !.n = 0]
<1>0. Typed /\ QueuesTyped /\ OrderInv /\ Spoken /\ made \in Nat /\ w \in Wallets
    BY BoundsAssumption DEF IInv, Typed, DAppTyped, Disconnect
<1>1. /\ events < MaxEvents /\ events' = events + 1
      /\ UNCHANGED <<made, toDApp, paired, grants>>
      /\ peers' = peers \ {w} /\ accounts' = {a \in accounts : a.wallet # w}
      /\ active' = None /\ activePeer' = None /\ open' = None
      /\ toWallet' \in {toWallet, Message(toWallet, w, m)}
    BY DEF Disconnect, Happen, Send
<1>2. m \in Requests /\ m.n = 0 /\ IsGoodbye(m) /\ m.version = Flat(w).version /\ m.wrapped = Flat(w).wrapped
    <2>1. Flat(w) \in Requests
        BY <1>0, FlatIsUnderstood
    <2> HIDE DEF w
    <2> QED BY <2>1 DEF Requests, RequestTypes, IsGoodbye
<1> HIDE DEF m
<1>3. Understands(w, m)
    BY <1>0, <1>2, FlatIsUnderstood
<1>4. /\ \A v \in Wallets \ {w} : toWallet'[v] = toWallet[v]
      /\ \A i \in 1..Len(toWallet'[w]) :
            toWallet'[w][i] = m \/ (i \in 1..Len(toWallet[w]) /\ toWallet'[w][i] = toWallet[w][i])
      /\ toWallet' \in [Wallets -> Seq(Requests)]
    <2>1. CASE toWallet' = toWallet
        BY <1>0, <2>1 DEF QueuesTyped
    <2>2. CASE toWallet' = Message(toWallet, w, m)
        <3>1. /\ toWallet' \in [Wallets -> Seq(Requests)]
              /\ \A v \in Wallets \ {w} : toWallet'[v] = toWallet[v]
              /\ Len(toWallet'[w]) = Len(toWallet[w]) + 1 /\ Len(toWallet[w]) \in Nat
              /\ toWallet'[w][Len(toWallet[w]) + 1] = m
              /\ \A i \in 1..Len(toWallet[w]) : toWallet'[w][i] = toWallet[w][i]
            BY <1>0, <1>2, <2>2, SentToWallet, ElementsAreTyped
        <3>2. \A i \in 1..Len(toWallet'[w]) : i \in 1..Len(toWallet[w]) \/ i = Len(toWallet[w]) + 1
            BY <3>1
        <3> QED BY <3>1, <3>2
    <2> QED BY <1>1, <2>1, <2>2
<1>5. Typed'
    <2>1. events' \in 0..MaxEvents
        BY <1>0, <1>1, BoundsAssumption DEF Typed, DAppTyped
    <2>2. DAppTyped'
        BY <1>0, <1>1, <2>1 DEF Typed, DAppTyped
    <2> QED BY <1>0, <1>1, <1>4, <2>2 DEF Typed, WalletsTyped, QueuesTyped
<1>6. Leaving' = Leaving
    BY <1>1, SameQueueSameLeaving
<1>7. Spoken'
    <2>1. ASSUME NEW v \in Wallets PROVE \A i \in 1..Len(toWallet'[v]) : Understands(v, toWallet'[v][i])
        BY <1>0, <1>3, <1>4 DEF Spoken
    <2> QED BY <1>0, <1>1, <2>1 DEF Spoken
<1>8. NumbersAreMade'
    <2>1. ASSUME NEW v \in Wallets PROVE \A i \in 1..Len(toWallet'[v]) : toWallet'[v][i].n <= made
        BY <1>0, <1>2, <1>4 DEF OrderInv, NumbersAreMade
    <2> QED BY <1>0, <1>1, <2>1 DEF OrderInv, NumbersAreMade
<1>9. GoodbyesAreOlder' /\ AnswersAreGranted'
    BY <1>1 DEF GoodbyesAreOlder, AnswersAreGranted
<1>10. LeftIsForgotten'
    BY <1>0, <1>1, <1>4, <1>6 DEF OrderInv, LeftIsForgotten
<1>11. AccountsHavePeers'
    BY <1>0, <1>1 DEF OrderInv, AccountsHavePeers
<1>12. [A!Next]_(A!vars)
    BY <1>1, <1>6, Forgets
<1> QED BY <1>5, <1>7, <1>8, <1>9, <1>10, <1>11, <1>12 DEF IInv, OrderInv, Simulates

-----------------------------------------------------------------------------
(* Theorems.                                                               *)

LEMMA InitEstablishes ==
    ASSUME Init
    PROVE  IInv /\ A!Init
<1> USE DEF Init
<1>1. /\ toWallet = [w \in Wallets |-> <<>>] /\ toDApp = [w \in Wallets |-> <<>>]
      /\ \A w \in Wallets : Len(toWallet[w]) = 0 /\ Len(toDApp[w]) = 0
    OBVIOUS
<1>2. minimum \in 1..BEACON_VERSION
    BY RequiredAssumption DEF ResolveRequiredMinimumVersion, BEACON_VERSION, DEFAULT_REQUIRED_MINIMUM_VERSION
<1>3. DAppTyped
    BY <1>2, BoundsAssumption DEF DAppTyped
<1>4. WalletsTyped
    BY DEF WalletsTyped
<1>5. QueuesTyped
    BY <1>1 DEF QueuesTyped
<1>6. Spoken /\ NumbersAreMade
    BY <1>1 DEF Spoken, NumbersAreMade
<1>7. GoodbyesAreOlder /\ LeftIsForgotten /\ AccountsHavePeers /\ AnswersAreGranted
    BY <1>1 DEF GoodbyesAreOlder, LeftIsForgotten, AccountsHavePeers, AnswersAreGranted
<1>8. Leaving = {}
    BY <1>1, <1>5, LeavingByIndex
<1>9. GrantedPairs = {} /\ KnownPairs = {}
    BY DEF GrantedPairs, KnownPairs
<1> QED BY <1>3, <1>4, <1>5, <1>6, <1>7, <1>8, <1>9 DEF IInv, Typed, OrderInv, A!Init

LEMMA StutteringSimulates ==
    ASSUME IInv, UNCHANGED vars
    PROVE  Simulates
<1>1. UNCHANGED <<minimum, peers, activePeer, accounts, active, open, made, toWallet, toDApp, paired,
                  grants, events>>
    BY DEF vars, dapp
<1>2. Typed'
    BY <1>1 DEF IInv, Typed, DAppTyped, WalletsTyped, QueuesTyped
<1>3. Leaving' = Leaving
    BY <1>1, SameQueueSameLeaving
<1>4. Spoken' /\ NumbersAreMade' /\ GoodbyesAreOlder'
    BY <1>1 DEF IInv, OrderInv, Spoken, NumbersAreMade, GoodbyesAreOlder
<1>5. LeftIsForgotten' /\ AccountsHavePeers' /\ AnswersAreGranted'
    BY <1>1, <1>3
    DEF IInv, OrderInv, LeftIsForgotten, AccountsHavePeers, AnswersAreGranted, Infos, GetAccountInfos,
        VersionOf
<1>6. [A!Next]_(A!vars)
    BY <1>1, <1>3, Forgets
<1> QED BY <1>2, <1>4, <1>5, <1>6 DEF IInv, OrderInv, Simulates

LEMMA NextSimulates ==
    ASSUME IInv, [Next]_vars
    PROVE  Simulates
<1>1. CASE UNCHANGED vars
    BY <1>1, StutteringSimulates
<1>2. CASE Next
    <2>0. UNCHANGED minimum /\ Step /\ Typed
        BY <1>2 DEF Next, IInv
    <2>1. CASE AskStep
        BY <2>0, <2>1, AskStepsAsk, AskSimulates
    <2>2. CASE \E w \in Wallets : GrantPermission(w) \/ Perform(w) \/ Refuse(w)
        BY <2>0, <2>2, WalletAnswerSimulates
    <2>3. CASE \E w \in Wallets : HearDisconnect(w)
        BY <2>0, <2>3, HearDisconnectSimulates
    <2>4. CASE \E w \in Wallets : RemovePeer(w)
        BY <2>0, <2>4, RemovePeerSimulates
    <2>5. CASE \E w \in Wallets : Granted(w) \/ GenericGranted(w)
        BY <2>0, <2>5, GrantedSimulates
    <2>6. CASE \E w \in Wallets : Done(w) \/ Refused(w) \/ AccountRemoved(w)
        BY <2>0, <2>6, AnsweredSimulates
    <2>7. CASE \E w \in Wallets : Departed(w)
        BY <2>0, <2>7, DepartedSimulates
    <2>8. CASE \E w \in Wallets : Ignore(w)
        BY <2>0, <2>8, IgnoreSimulates
    <2>9. CASE \E a \in accounts \cup {None} : SetActiveAccount(a)
        BY <2>0, <2>9, SetActiveAccountSimulates
    <2>10. CASE Disconnect
        BY <2>0, <2>10, DisconnectSimulates
    <2> QED
        BY <2>0, <2>1, <2>2, <2>3, <2>4, <2>5, <2>6, <2>7, <2>8, <2>9, <2>10, Zenon DEF Step, AskStep
<1> QED BY <1>1, <1>2

LEMMA Invariance == Spec => []IInv
<1>1. Init => IInv
    BY InitEstablishes
<1>2. IInv /\ [Next]_vars => IInv'
    BY NextSimulates DEF Simulates
<1> QED BY <1>1, <1>2, PTL DEF Spec

\* The types of both sides (DAppClient's stores and open requests, the wallet's
\* permissions), with every message that is under way (Typed).
THEOREM TypeCorrect == Spec => []TypeOK
<1>1. IInv => TypeOK
    BY DEF IInv, Typed, DAppTyped, WalletsTyped, TypeOK
<1> QED BY <1>1, Invariance, PTL

\* The dialect that is negotiated for a wallet is one it understands, and nothing
\* it says is dropped, whatever wallets there are and whatever versions they
\* declare (effectivePeerVersion, negotiateEnvelopeVersion, handleResponse).
THEOREM NothingSaidIsDropped == Spec => []NothingIsDropped
<1>1. IInv => NothingIsDropped
    <2> SUFFICES ASSUME IInv PROVE NothingIsDropped
        OBVIOUS
    <2>1. \A w \in Wallets : DOMAIN toWallet[w] = 1..Len(toWallet[w]) /\ DOMAIN toDApp[w] = 1..Len(toDApp[w])
        BY DEF IInv, Typed, QueuesTyped
    <2> QED BY <2>1 DEF IInv, Spoken, NothingIsDropped
<1> QED BY <1>1, Invariance, PTL

\* Whatever is said to do it, the dApp knows an account only because the wallet
\* granted it, and none once it has heard that the wallet withdrew
\* (requestPermissions, handleDisconnect and the interceptors).
THEOREM AccessIsImplemented == Spec => ImplementsAccess
<1>1. Init => A!Init
    BY InitEstablishes
<1>2. IInv /\ [Next]_vars => [A!Next]_(A!vars)
    BY NextSimulates DEF Simulates
<1> QED BY <1>1, <1>2, Invariance, PTL DEF Spec, ImplementsAccess, A!Spec

\* An account is known only while it is granted or its wallet has left, so that
\* both sides, who derive its identifier alike, agree on what is permitted.
THEOREM KnownAccountsWork == Spec => []KnownAccountsArePermitted
<1>1. Init => A!KnownIsGranted
    BY InitEstablishes DEF A!Init, A!KnownIsGranted
<1>2. IInv /\ A!KnownIsGranted /\ [A!Next]_(A!vars) => A!KnownIsGranted'
    <2> SUFFICES ASSUME IInv, A!KnownIsGranted, [A!Next]_(A!vars),
                        NEW p \in KnownPairs', p \notin GrantedPairs'
                 PROVE  p[1] \in Leaving'
        BY DEF A!KnownIsGranted
    <2>1. CASE UNCHANGED A!vars \/ A!Forget
        BY <2>1 DEF A!KnownIsGranted, A!Forget, A!vars
    <2>2. ASSUME NEW w \in Wallets, A!Grant(w) PROVE p[1] \in Leaving'
        BY <2>2 DEF A!KnownIsGranted, A!Grant
    <2>3. ASSUME NEW w \in Wallets, A!Learn(w) PROVE p[1] \in Leaving'
        <3>1. p \in KnownPairs \/ (w \in Leaving /\ p \in A!Of(w))
            BY <2>3 DEF A!Learn
        <3>2. p \in A!Of(w) => p[1] = w
            BY DEF A!Of
        <3> QED BY <2>3, <3>1, <3>2 DEF A!KnownIsGranted, A!Learn
    <2>4. ASSUME NEW w \in Wallets, A!Withdraw(w) PROVE p[1] \in Leaving'
        <3>1. p \in KnownPairs /\ (p \in GrantedPairs => p \in A!Of(w))
            BY <2>4 DEF A!Withdraw
        <3>2. p \in A!Of(w) => p[1] = w
            BY DEF A!Of
        <3> QED BY <2>4, <3>1, <3>2 DEF A!KnownIsGranted, A!Withdraw
    <2>5. ASSUME NEW w \in Wallets, A!Hear(w) PROVE p[1] \in Leaving'
        <3>1. p \in KnownPairs /\ p \notin A!Of(w)
            BY <2>5 DEF A!Hear
        <3>2. p[1] = w => p \in A!Of(w)
            <4>1. PICK a \in accounts : p = <<a.wallet, a.id>>
                BY <3>1 DEF KnownPairs
            <4>2. a.id \in Identifiers
                BY DEF IInv, Typed, DAppTyped, Accounts
            <4> QED BY <4>1, <4>2 DEF A!Of
        <3> QED BY <2>5, <3>1, <3>2 DEF A!KnownIsGranted, A!Hear
    <2> QED BY <2>1, <2>2, <2>3, <2>4, <2>5 DEF A!Next
<1>3. IInv /\ [Next]_vars => [A!Next]_(A!vars)
    BY NextSimulates DEF Simulates
<1>4. Spec => []A!KnownIsGranted
    BY <1>1, <1>2, <1>3, Invariance, PTL DEF Spec
<1>5. IInv /\ A!KnownIsGranted => KnownAccountsArePermitted
    <2> SUFFICES ASSUME IInv, A!KnownIsGranted, NEW w \in Wallets \ Leaving, NEW m,
                        m.type \in {"operation", "sign"}, NEW a \in accounts, a.wallet = w,
                        a.id[1] = m.source, m.type = "operation" => a.id[2] = m.network
                 PROVE  HasPermission(w, m)
        BY DEF KnownAccountsArePermitted
    <2>1. a.id \in Identifiers
        BY DEF IInv, Typed, DAppTyped, Accounts
    <2>2. <<w, a.id>> \in KnownPairs
        BY DEF KnownPairs
    <2>3. <<w, a.id>> \in GrantedPairs
        BY <2>2 DEF A!KnownIsGranted
    <2>4. a.id \in grants[w]
        BY <2>3 DEF GrantedPairs
    <2>5. a.id = <<a.id[1], a.id[2]>>
        BY <2>1 DEF Identifiers
    <2>6. CASE m.type = "operation"
        BY <2>4, <2>5, <2>6 DEF HasPermission, GetAccountIdentifier, NetworkForId
    <2>7. CASE m.type = "sign"
        BY <2>4, <2>7 DEF HasPermission
    <2> QED BY <2>6, <2>7
<1> QED BY <1>4, <1>5, Invariance, PTL

-----------------------------------------------------------------------------
(* All networks or none.                                                   *)

\* A message about the open request is of its type, and so is the permission
\* that answers it.
Replies ==
    open # None =>
        /\ \A i \in 1..Len(toWallet[open.to]) :
              toWallet[open.to][i].n = open.n => toWallet[open.to][i].type = open.type
        /\ \A i \in 1..Len(toDApp[open.to]) :
              toDApp[open.to][i].n = open.n /\ toDApp[open.to][i].type \in PermissionTypes
              => toDApp[open.to][i].type = open.type

\* A message m is old in a queue, or no permission, or answers one there.
IsReply(m, w) ==
    \/ \E k \in 1..Len(toDApp[w]) : m = toDApp[w][k]
    \/ m.type \notin PermissionTypes
    \/ \E k \in 1..Len(toWallet[w]) : toWallet[w][k].n = m.n /\ toWallet[w][k].type = m.type

\* What answers a request for permission is of its type.
LEMMA PermissionIsOfItsType ==
    ASSUME NEW w \in Wallets, NEW m, NEW answer \in PermissionAnswers(w, m)
    PROVE  answer.type = m.type
<1>1. \A accs : [Answer(m, m.type) EXCEPT !.version = BEACON_VERSION, !.wrapped = TRUE,
                                                 !.accounts = accs].type = m.type
    BY DEF Answer
<1>2. \A accs : [Answer(m, m.type) EXCEPT !.accounts = accs].type = m.type
    BY DEF Answer
<1>3. \A a : [Answer(m, m.type) EXCEPT !.address = a, !.network = m.network].type = m.type
    BY DEF Answer
<1>4. CASE Software[w] = "walletconnect"
    BY <1>1, <1>4 DEF PermissionAnswers
<1>5. CASE Software[w] # "walletconnect"
    BY <1>2, <1>3, <1>5 DEF PermissionAnswers
<1> QED BY <1>4, <1>5

LEMMA RepliesKept ==
    ASSUME Typed, Replies, open' \in {None, open},
           \A v \in Wallets : \A i \in 1..Len(toWallet'[v]) :
              \E k \in 1..Len(toWallet[v]) : toWallet'[v][i] = toWallet[v][k],
           \A v \in Wallets : \A i \in 1..Len(toDApp'[v]) : IsReply(toDApp'[v][i], v)
    PROVE  Replies'
<1> SUFFICES ASSUME open # None, open' = open PROVE Replies'
    BY DEF Replies
<1>1. open.to \in Wallets
    BY DEF Typed, DAppTyped
<1>2. ASSUME NEW i \in 1..Len(toWallet'[open.to]), toWallet'[open.to][i].n = open.n
      PROVE  toWallet'[open.to][i].type = open.type
    <2>1. PICK k \in 1..Len(toWallet[open.to]) : toWallet'[open.to][i] = toWallet[open.to][k]
        BY <1>1
    <2>2. toWallet[open.to][k].n = open.n => toWallet[open.to][k].type = open.type
        BY DEF Replies
    <2> QED BY <1>2, <2>1, <2>2, Zenon
<1>3. ASSUME NEW i \in 1..Len(toDApp'[open.to]), toDApp'[open.to][i].n = open.n,
             toDApp'[open.to][i].type \in PermissionTypes
      PROVE  toDApp'[open.to][i].type = open.type
    <2>1. PICK m : m = toDApp'[open.to][i]
        OBVIOUS
    <2>2. IsReply(m, open.to) /\ m.n = open.n /\ m.type \in PermissionTypes
        BY <1>1, <1>3, <2>1
    <2>3. m.type = open.type
        BY <2>2 DEF IsReply, Replies
    <2> QED BY <2>1, <2>3
<1> QED BY <1>2, <1>3 DEF Replies

LEMMA AskReplies ==
    ASSUME IInv, Replies, NEW w \in Wallets, NEW m \in Requests, Asks(w, m)
    PROVE  Replies'
<1>1. Typed /\ QueuesTyped /\ NumbersAreMade /\ made \in Nat /\ toDApp' = toDApp /\ open = None
    BY BoundsAssumption DEF IInv, OrderInv, Typed, DAppTyped, Asks, Prepare
<1>2. CASE UNCHANGED open
    BY <1>1, <1>2 DEF Replies
<1>3. CASE /\ open'.to = w /\ open'.n = made + 1 /\ open'.type = m.type
           /\ toWallet' \in {toWallet, Message(toWallet, w, m)}
    <2>1. \A i \in 1..Len(toDApp[w]) : toDApp[w][i].n # made + 1
        <3>1. \A i \in 1..Len(toDApp[w]) : toDApp[w][i].n \in Nat /\ toDApp[w][i].n <= made
            BY <1>1, ElementsAreTyped DEF NumbersAreMade
        <3> QED BY <1>1, <3>1
    <2>2. \A i \in 1..Len(toWallet[w]) : toWallet[w][i].n # made + 1
        <3>1. \A i \in 1..Len(toWallet[w]) : toWallet[w][i].n \in Nat /\ toWallet[w][i].n <= made
            BY <1>1, ElementsAreTyped DEF NumbersAreMade
        <3> QED BY <1>1, <3>1
    <2>3. \A i \in 1..Len(toWallet'[w]) : toWallet'[w][i].n = made + 1 => toWallet'[w][i] = m
        <3>1. CASE toWallet' = toWallet
            BY <2>2, <3>1
        <3>2. CASE toWallet' = Message(toWallet, w, m)
            <4>1. /\ Len(toWallet'[w]) = Len(toWallet[w]) + 1 /\ Len(toWallet[w]) \in Nat
                  /\ toWallet'[w][Len(toWallet[w]) + 1] = m
                  /\ \A i \in 1..Len(toWallet[w]) : toWallet'[w][i] = toWallet[w][i]
                BY <1>1, <3>2, SentToWallet, ElementsAreTyped
            <4>2. \A i \in 1..Len(toWallet'[w]) : i \in 1..Len(toWallet[w]) \/ i = Len(toWallet[w]) + 1
                BY <4>1
            <4> QED BY <2>2, <4>1, <4>2, Zenon
        <3> QED BY <1>3, <3>1, <3>2
    <2> QED BY <1>1, <1>3, <2>1, <2>3 DEF Replies
<1>4. UNCHANGED open \/ (/\ open'.to = w /\ open'.n = made + 1 /\ open'.type = m.type
                         /\ toWallet' \in {toWallet, Message(toWallet, w, m)})
    BY DEF Asks, Leaves, Send
<1> QED BY <1>2, <1>3, <1>4

\* What a wallet answers a request with.
LEMMA AnswerReplies ==
    ASSUME IInv, Replies, NEW w \in Wallets, GrantPermission(w) \/ Perform(w) \/ Refuse(w)
    PROVE  Replies'
<1> DEFINE m == Head(toWallet[w])
<1>0. Typed /\ QueuesTyped
    BY DEF IInv, Typed
<1>1. toWallet[w] # <<>> /\ toWallet' = Unsent(toWallet, w) /\ open' = open
    BY DEF GrantPermission, Perform, Refuse, Take, dapp
<1>2. /\ \A v \in Wallets \ {w} : toWallet'[v] = toWallet[v]
      /\ \A i \in 1..Len(toWallet'[w]) : i + 1 \in 1..Len(toWallet[w]) /\ toWallet'[w][i] = toWallet[w][i + 1]
      /\ Len(toWallet[w]) \in Nat \ {0} /\ m = toWallet[w][1] /\ m \in Requests
    BY <1>0, <1>1, TakenByWallet
<1> HIDE DEF m
<1>3. 1 \in 1..Len(toWallet[w])
    BY <1>2
<1>4. \A v \in Wallets : \A i \in 1..Len(toWallet'[v]) :
          \E k \in 1..Len(toWallet[v]) : toWallet'[v][i] = toWallet[v][k]
    BY <1>2
<1>5. ASSUME NEW answer \in Answers, Respond(w, answer), answer.n = m.n,
             answer.type \in PermissionTypes => answer.type = m.type
      PROVE  Replies'
    <2>1. toDApp' = Message(toDApp, w, answer) /\ answer \in Answers \cup Goodbyes
        BY <1>5 DEF Respond
    <2>2. /\ \A v \in Wallets \ {w} : toDApp'[v] = toDApp[v]
          /\ Len(toDApp'[w]) = Len(toDApp[w]) + 1 /\ Len(toDApp[w]) \in Nat
          /\ toDApp'[w][Len(toDApp[w]) + 1] = answer
          /\ \A i \in 1..Len(toDApp[w]) : toDApp'[w][i] = toDApp[w][i]
        BY <1>0, <2>1, SentToDApp, ElementsAreTyped
    <2>3. \A i \in 1..Len(toDApp'[w]) : i \in 1..Len(toDApp[w]) \/ i = Len(toDApp[w]) + 1
        BY <2>2
    <2>4. IsReply(answer, w)
        BY <1>2, <1>3, <1>5, Zenon DEF IsReply
    <2>5. \A i \in 1..Len(toDApp[w]) : IsReply(toDApp[w][i], w)
        BY DEF IsReply
    <2>6. \A i \in 1..Len(toDApp'[w]) : IsReply(toDApp'[w][i], w)
        BY <2>2, <2>3, <2>4, <2>5, Zenon
    <2>7. \A v \in Wallets \ {w} : \A i \in 1..Len(toDApp'[v]) : IsReply(toDApp'[v][i], v)
        BY <2>2, Zenon DEF IsReply
    <2>8. \A v \in Wallets : \A i \in 1..Len(toDApp'[v]) : IsReply(toDApp'[v][i], v)
        BY <2>6, <2>7
    <2> QED BY <1>0, <1>1, <1>4, <2>8, RepliesKept
<1>6. CASE GrantPermission(w)
    <2>1. PICK answer \in PermissionAnswers(w, m) : Respond(w, answer)
        BY <1>6 DEF GrantPermission, m
    <2>2. m.type \in PermissionTypes
        BY <1>6 DEF GrantPermission, PermissionTypes, m
    <2>3. answer \in Answers /\ answer.n = m.n
        BY <1>2, <2>2, PermissionIsReadAlike
    <2>4. answer.type = m.type
        BY PermissionIsOfItsType
    <2> QED BY <1>5, <2>1, <2>3, <2>4
<1>7. ASSUME NEW type \in {"done", "error", "no key"}, Respond(w, Answer(m, type)) PROVE Replies'
    <2>1. Answer(m, type) \in Answers /\ Answer(m, type).n = m.n /\ Answer(m, type).type \notin PermissionTypes
        BY <1>2, PlainAnswer DEF PermissionTypes
    <2> QED BY <1>5, <1>7, <2>1
<1>8. CASE Perform(w)
    BY <1>7, <1>8 DEF Perform, m
<1>9. CASE Refuse(w)
    BY <1>7, <1>9 DEF Refuse, m
<1> QED BY <1>6, <1>8, <1>9

\* Hearing a goodbye, or saying one, leaves the replies as they are.
LEMMA GoodbyeReplies ==
    ASSUME IInv, Replies, NEW w \in Wallets, HearDisconnect(w) \/ RemovePeer(w)
    PROVE  Replies'
<1>0. Typed /\ QueuesTyped
    BY DEF IInv, Typed
<1>1. CASE HearDisconnect(w)
    <2>1. /\ toWallet[w] # <<>> /\ toWallet' = Unsent(toWallet, w) /\ toDApp' = toDApp /\ open' = open
        BY <1>1 DEF HearDisconnect, Take, dapp
    <2>2. /\ \A v \in Wallets \ {w} : toWallet'[v] = toWallet[v]
          /\ \A i \in 1..Len(toWallet'[w]) : i + 1 \in 1..Len(toWallet[w]) /\ toWallet'[w][i] = toWallet[w][i + 1]
        BY <1>0, <2>1, TakenByWallet
    <2>3. \A v \in Wallets : \A i \in 1..Len(toWallet'[v]) :
              \E k \in 1..Len(toWallet[v]) : toWallet'[v][i] = toWallet[v][k]
        BY <2>2
    <2>4. \A v \in Wallets : \A i \in 1..Len(toDApp'[v]) : IsReply(toDApp'[v][i], v)
        BY <2>1, Zenon DEF IsReply
    <2> QED BY <1>0, <2>1, <2>3, <2>4, RepliesKept
<1>2. CASE RemovePeer(w)
    <2> DEFINE m == [n |-> 0, type |-> "disconnect", version |-> BEACON_VERSION, wrapped |-> Software[w] = "this"]
    <2>1. toWallet' = [toWallet EXCEPT ![w] = <<>>] /\ toDApp' = Message(toDApp, w, m) /\ open' = open
        BY <1>2 DEF RemovePeer, dapp
    <2>2. m \in Goodbyes /\ m.type \notin PermissionTypes
        BY DEF Goodbyes, PermissionTypes
    <2> HIDE DEF m
    <2>3. /\ \A v \in Wallets \ {w} : toDApp'[v] = toDApp[v]
          /\ Len(toDApp'[w]) = Len(toDApp[w]) + 1 /\ Len(toDApp[w]) \in Nat
          /\ toDApp'[w][Len(toDApp[w]) + 1] = m
          /\ \A i \in 1..Len(toDApp[w]) : toDApp'[w][i] = toDApp[w][i]
        BY <1>0, <2>1, <2>2, SentToDApp, ElementsAreTyped
    <2>4. \A i \in 1..Len(toDApp'[w]) : i \in 1..Len(toDApp[w]) \/ i = Len(toDApp[w]) + 1
        BY <2>3
    <2>5. \A i \in 1..Len(toDApp'[w]) : IsReply(toDApp'[w][i], w)
        BY <2>2, <2>3, <2>4, Zenon DEF IsReply
    <2>6. \A v \in Wallets \ {w} : \A i \in 1..Len(toDApp'[v]) : IsReply(toDApp'[v][i], v)
        BY <2>3, Zenon DEF IsReply
    <2>7. \A v \in Wallets : \A i \in 1..Len(toDApp'[v]) : IsReply(toDApp'[v][i], v)
        BY <2>5, <2>6
    <2>8. /\ \A v \in Wallets \ {w} : toWallet'[v] = toWallet[v]
          /\ 1..Len(toWallet'[w]) = {}
        BY <1>0, <2>1 DEF QueuesTyped
    <2>9. \A v \in Wallets : \A i \in 1..Len(toWallet'[v]) :
              \E k \in 1..Len(toWallet[v]) : toWallet'[v][i] = toWallet[v][k]
        BY <2>8
    <2> QED BY <1>0, <2>1, <2>7, <2>9, RepliesKept
<1> QED BY <1>1, <1>2

\* No other step answers anything but with the end of the request.
LEMMA IgnoreReplies ==
    ASSUME IInv, Replies, NEW w \in Wallets, Ignore(w)
    PROVE  Replies'
<1>0. Typed /\ QueuesTyped
    BY DEF IInv, Typed
<1>1. toDApp[w] # <<>> /\ toDApp' = Unsent(toDApp, w) /\ toWallet' = toWallet /\ open' = open
    BY DEF Ignore, dapp
<1>2. /\ \A v \in Wallets \ {w} : toDApp'[v] = toDApp[v]
      /\ \A i \in 1..Len(toDApp'[w]) : i + 1 \in 1..Len(toDApp[w]) /\ toDApp'[w][i] = toDApp[w][i + 1]
    BY <1>0, <1>1, TakenByDApp
<1>3. \A v \in Wallets : \A i \in 1..Len(toDApp'[v]) :
          \E k \in 1..Len(toDApp[v]) : toDApp'[v][i] = toDApp[v][k]
    BY <1>2
<1>4. \A v \in Wallets : \A i \in 1..Len(toDApp'[v]) : IsReply(toDApp'[v][i], v)
    BY <1>3, Zenon DEF IsReply
<1>5. \A v \in Wallets : \A i \in 1..Len(toWallet'[v]) :
          \E k \in 1..Len(toWallet[v]) : toWallet'[v][i] = toWallet[v][k]
    BY <1>1, Zenon
<1> QED BY <1>0, <1>1, <1>4, <1>5, RepliesKept

LEMMA RepliesAreOfTheirType == Spec => []Replies
<1>1. Init => Replies
    BY DEF Init, Replies
<1>2. IInv /\ Replies /\ [Next]_vars => Replies'
    <2> SUFFICES ASSUME IInv, Replies, [Next]_vars PROVE Replies'
        OBVIOUS
    <2>1. CASE UNCHANGED <<open, toWallet, toDApp>>
        BY <2>1 DEF Replies
    <2>2. CASE open' = None
        BY <2>2 DEF Replies
    <2>3. CASE UNCHANGED vars
        BY <2>1, <2>3 DEF vars, dapp
    <2>4. CASE AskStep
        BY <2>4, AskStepsAsk, AskReplies DEF IInv
    <2>5. CASE \E w \in Wallets : GrantPermission(w) \/ Perform(w) \/ Refuse(w)
        BY <2>5, AnswerReplies
    <2>6. CASE \E w \in Wallets : HearDisconnect(w) \/ RemovePeer(w)
        BY <2>6, GoodbyeReplies
    <2>7. CASE \E w \in Wallets : \/ Granted(w) \/ GenericGranted(w) \/ Done(w) \/ Refused(w)
                                  \/ AccountRemoved(w) \/ Departed(w)
        BY <2>2, <2>7 DEF Granted, GenericGranted, Done, Refused, AccountRemoved, Departed
    <2>8. CASE \E w \in Wallets : Ignore(w)
        BY <2>8, IgnoreReplies
    <2>9. CASE \E a \in accounts \cup {None} : SetActiveAccount(a)
        BY <2>1, <2>9 DEF SetActiveAccount
    <2>10. CASE Disconnect
        BY <2>2, <2>10 DEF Disconnect
    <2>11. UNCHANGED vars \/ Step
        BY DEF Next
    <2> QED
        BY <2>3, <2>4, <2>5, <2>6, <2>7, <2>8, <2>9, <2>10, <2>11, Zenon DEF Step, AskStep
<1> QED BY <1>1, <1>2, Invariance, PTL DEF Spec

\* The accounts a dApp takes are those of a permission for all networks.
LEMMA TakesAllNetworks ==
    ASSUME Typed, NEW w \in Wallets, Granted(w), accounts' # accounts,
           IsMultiNetworkVersion(minimum), Cardinality(open.networks) >= 2
    PROVE  open.to = w /\ \A c \in open.networks : \E a \in accounts' : a.id[2] = c /\ a.wallet = w
<1> DEFINE m == Head(toDApp[w])
           version == VersionOf(w, m)
           ids == GetAccountInfos(m, version)
<1>1. toDApp[w] # <<>> /\ m.type = "permission" /\ open # None /\ open.to = w
    BY DEF Granted, Hears, IsAnswer
<1>2. MeetsMinimum(version) /\ Missing(m, version) = {} /\ accounts' = AddAccounts(ids, w)
    BY DEF Granted, Accept
<1>3. m \in Answers
    <2>1. m \in Answers \cup Goodbyes
        BY <1>1 DEF Typed, QueuesTyped
    <2>2. \A g \in Goodbyes : g.type = "disconnect"
        BY DEF Goodbyes
    <2> QED BY <1>1, <2>1, <2>2
<1>4. m.version \in Nat
    BY <1>3 DEF Answers
<1> HIDE DEF m
<1>5. version \in Int /\ version # Absent
    <2>1. CASE Declared[w] = Absent
        BY <1>4, <2>1 DEF VersionOf, Absent
    <2>2. CASE Declared[w] # Absent
        BY <2>2, VersionsAreTyped DEF VersionOf, EffectivePeerVersion, LEGACY_ENVELOPE_VERSION, Absent
    <2> QED BY <2>1, <2>2
<1> HIDE DEF version
<1>6. minimum \in Int /\ minimum >= 4
    BY DEF Typed, DAppTyped, IsMultiNetworkVersion, IsAtLeastVersion, MULTI_NETWORK_FROM_VERSION
<1>7. IsMultiNetworkVersion(version)
    <2>1. version >= minimum
        BY <1>2, <1>5 DEF MeetsMinimum
    <2> QED BY <1>5, <1>6, <2>1 DEF IsMultiNetworkVersion, IsAtLeastVersion, MULTI_NETWORK_FROM_VERSION
<1>8. open.networks \subseteq DOMAIN m.accounts /\ open.networks \subseteq Chains
    <2>1. Missing(m, version) = open.networks \ DOMAIN m.accounts
        BY <1>7 DEF Missing
    <2> QED BY <1>1, <1>2, <2>1 DEF Typed, DAppTyped
<1>9. open.networks # {}
    BY FS_EmptySet
<1>10. ids = ChainAccounts(m.accounts)
    BY <1>7, <1>8, <1>9 DEF GetAccountInfos
<1>11. ASSUME NEW c \in open.networks PROVE \E a \in accounts' : a.id[2] = c /\ a.wallet = w
    <2> DEFINE id == GetAccountIdentifier(m.accounts[c], c)
    <2>1. id \in ids
        BY <1>8, <1>10 DEF ChainAccounts, ValidChains
    <2>2. id[2] = c
        BY DEF GetAccountIdentifier
    <2> HIDE DEF id, ids
    <2>3. [id |-> id, wallet |-> w] \in accounts'
        BY <1>2, <2>1 DEF AddAccounts
    <2> QED BY <2>2, <2>3
<1> QED BY <1>1, <1>11

\* Whoever requires version 4 and asks for several networks gets accounts on all
\* of them or none (requestPermissions), in every step of every behaviour.
THEOREM NetworksAreGrantedTogether == Spec => AllOrNothing
<1> DEFINE Part == /\ IsMultiNetworkVersion(minimum) /\ open # None /\ open.type = "permission"
                   /\ Cardinality(open.networks) >= 2 /\ accounts' \ accounts # {}
                   => \A c \in open.networks : \E a \in accounts' : a.id[2] = c /\ a.wallet = open.to
<1>1. IInv /\ Replies /\ [Next]_vars => [Part]_vars
    <2> SUFFICES ASSUME IInv, Replies, Step, open # None, open.type = "permission",
                        IsMultiNetworkVersion(minimum), Cardinality(open.networks) >= 2,
                        accounts' \ accounts # {}
                 PROVE  \A c \in open.networks : \E a \in accounts' : a.id[2] = c /\ a.wallet = open.to
        BY DEF Next
    <2>0. Typed /\ QueuesTyped
        BY DEF IInv, Typed
    <2>1. ~(accounts' \subseteq accounts)
        OBVIOUS
    <2>2. ~AskStep
        <3>1. SUFFICES ASSUME AskStep PROVE FALSE
            OBVIOUS
        <3>2. PICK w \in Wallets, m \in Requests : Asks(w, m)
            BY <2>0, <3>1, AskStepsAsk
        <3> QED BY <2>1, <3>2 DEF Asks, Prepare
    <2>3. ASSUME NEW w \in Wallets PROVE ~(GrantPermission(w) \/ Perform(w) \/ Refuse(w) \/ HearDisconnect(w))
        BY <2>1 DEF GrantPermission, Perform, Refuse, HearDisconnect, Take, dapp
    <2>4. ASSUME NEW w \in Wallets
          PROVE  ~(RemovePeer(w) \/ Done(w) \/ Refused(w) \/ AccountRemoved(w) \/ Departed(w) \/ Ignore(w))
        BY <2>1 DEF RemovePeer, Done, Refused, AccountRemoved, Departed, Ignore, dapp
    <2>5. ASSUME NEW w \in Wallets PROVE ~GenericGranted(w)
        <3> SUFFICES ASSUME GenericGranted(w) PROVE FALSE
            OBVIOUS
        <3>1. /\ toDApp[w] # <<>> /\ Head(toDApp[w]).type = "generic permission"
              /\ open.to = w /\ open.n = Head(toDApp[w]).n
            BY DEF GenericGranted, Hears, IsAnswer
        <3>2. Head(toDApp[w]) = toDApp[w][1] /\ Len(toDApp[w]) \in Nat \ {0}
            BY <2>0, TakenByDApp DEF GenericGranted, Hears
        <3>3. 1 \in 1..Len(toDApp[w])
            BY <3>2
        <3>4. toDApp[w][1].type = open.type
            BY <3>1, <3>2, <3>3 DEF Replies, PermissionTypes
        <3> QED BY <3>1, <3>2, <3>4
    <2>6. ASSUME NEW a \in accounts \cup {None} PROVE ~SetActiveAccount(a)
        BY <2>1 DEF SetActiveAccount
    <2>7. ~Disconnect
        BY <2>1 DEF Disconnect
    <2>8. \E w \in Wallets : Granted(w)
        BY <2>2, <2>3, <2>4, <2>5, <2>6, <2>7, Zenon DEF Step, AskStep
    <2> QED BY <2>0, <2>1, <2>8, TakesAllNetworks
<1>2. AllOrNothing <=> [][Part]_vars
    BY PTL DEF AllOrNothing
<1> QED BY <1>1, <1>2, Invariance, RepliesAreOfTheirType, PTL DEF Spec
=============================================================================
