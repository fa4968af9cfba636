------------------------------ MODULE Dialects ------------------------------
(***************************************************************************)
(* What is said between a dApp of this SDK and wallets of every            *)
(* generation: the dialect chosen for a wallet, the permission for one or  *)
(* several networks and the accounts that both sides keep of it, and the   *)
(* operations requested for them (octez.connect-core utils and managers,   *)
(* the interceptors of octez.connect-wallet, the Tezos and Substrate       *)
(* handlers, DAppClient).                                                  *)
(*                                                                         *)
(* What a wallet of another SDK does is external: it takes flat messages   *)
(* of version 2 and wrapped ones of version 3, answers in kind, and says   *)
(* goodbye in a flat message with whatever version it was told.  A wallet  *)
(* behind WalletConnect sees no envelope: this SDK answers for it, and no  *)
(* version is declared.  How peers are found and transports made is the    *)
(* business of other modules.                                              *)
(***************************************************************************)
EXTENDS Integers, Sequences, FiniteSets

CONSTANTS
    Wallets,
    Software,        \* of a wallet: "this", "other" or "walletconnect"
    Declared,        \* the version in its pairing response
    Marked,          \* wallets whose pairing response has a protocolVersion
    Required,        \* what dApps require: a version, or None
    Chains,          \* CAIP-2 chain ids
    Mapped,          \* those with a named network (TEZOS_NETWORK_GENESIS_IDS)
    OwnNetwork, OwnChain,    \* the network of the dApp, and its chain id
    OtherNetwork,    \* one of another blockchain, Substrate
    Malformed,       \* no chain id, though a wallet calls it one
    Addresses,
    None,
    MaxRequests, MaxEvents   \* bounds

Absent == -1
Garbled == -2
BEACON_VERSION == 4
MULTI_NETWORK_FROM_VERSION == 4
MESSAGE_WRAPPED_FROM_VERSION == 3
LEGACY_ENVELOPE_VERSION == 2
DEFAULT_REQUIRED_MINIMUM_VERSION == 2

ASSUME WalletsAssumption ==
    /\ Software \in [Wallets -> {"this", "other", "walletconnect"}]
    /\ Declared \in [Wallets -> {Absent, Garbled} \cup Nat]
    /\ Marked \subseteq Wallets
    /\ \A w \in Wallets :
          /\ Software[w] = "this" => w \in Marked /\ Declared[w] >= BEACON_VERSION
          /\ Software[w] = "other" /\ w \in Marked => Declared[w] < BEACON_VERSION
          /\ Software[w] = "walletconnect" => Declared[w] = Absent
    /\ None \notin Wallets
ASSUME RequiredAssumption == Required \subseteq 1..BEACON_VERSION \cup {None}
ASSUME NetworksAssumption ==
    /\ OwnChain \in Mapped /\ Mapped \subseteq Chains
    /\ Cardinality(Chains \cup {OwnNetwork, OtherNetwork, Malformed, None}) = Cardinality(Chains) + 4
ASSUME BoundsAssumption == MaxRequests \in Nat /\ MaxEvents \in Nat

VARIABLES
    minimum,         \* requiredMinimumVersion, an option of the dApp
    peers,           \* wallets the dApp has stored as peers
    activePeer,
    accounts,        \* of the dApp: an address on a network, and the wallet it came from
    active,          \* the active account
    open,            \* the request that waits for its answer
    made,            \* requests made
    toWallet, toDApp,
    paired,          \* wallets that have stored the dApp as a peer
    grants,          \* permissions of each wallet, by account identifier
    events

dapp == <<peers, activePeer, accounts, active, open, made>>
vars == <<minimum, dapp, toWallet, toDApp, paired, grants, events>>

Networks == Chains \cup {OwnNetwork, OtherNetwork}
Identifiers == Addresses \X Networks
Accounts == [id : Identifiers, wallet : Wallets]
Happen == events < MaxEvents /\ events' = events + 1

-----------------------------------------------------------------------------
(* Versions                                                                *)

\* A garbled version is below every threshold.
IsAtLeastVersion(v, threshold) == v >= threshold
UsesWrappedMessages(v) == IsAtLeastVersion(v, MESSAGE_WRAPPED_FROM_VERSION)
IsMultiNetworkVersion(v) == IsAtLeastVersion(v, MULTI_NETWORK_FROM_VERSION)

\* Slip: nothing but what the wallet declares.
DeclaredVersion(w) == Declared[w]

EffectivePeerVersion(w) ==
    IF Declared[w] = Absent \/ w \in Marked THEN Declared[w] ELSE LEGACY_ENVELOPE_VERSION

NegotiateEnvelopeVersion(v) ==
    IF ~UsesWrappedMessages(v) THEN LEGACY_ENVELOPE_VERSION
    ELSE IF IsAtLeastVersion(v, BEACON_VERSION) THEN BEACON_VERSION ELSE v

MeetsMinimum(v) == v = Absent \/ v >= minimum

\* What is no version a dApp can require, the constructor refuses.
ResolveRequiredMinimumVersion(version) ==
    IF version = None THEN DEFAULT_REQUIRED_MINIMUM_VERSION ELSE version

-----------------------------------------------------------------------------
(* Accounts and networks                                                   *)

GetAccountIdentifier(address, network) == <<address, network>>

ValidChains(ids) == ids \cap Chains

\* Over WalletConnect a chain goes by the name of its network.
NamedChains(ids) == ids \cap Mapped

\* Slip: the chain id of the request is taken for the name of a network.
NamedNetwork(m) == IF m.form = "id" THEN OwnNetwork ELSE m.network

\* The network of a request, given as CAIP-2 id or as Network object.
NetworkForId(m) == m.network

\* PermissionValidator.hasPermission, on the permissions of a wallet.
HasPermission(w, m) ==
    CASE m.type = "operation" -> GetAccountIdentifier(m.source, NetworkForId(m)) \in grants[w]
      [] m.type = "sign" -> \E id \in grants[w] : id[1] = m.source
      [] OTHER -> TRUE

\* A permission answered with accounts for chains, or with one account.
ChainAccounts(accs) == {GetAccountIdentifier(accs[c], c) : c \in ValidChains(DOMAIN accs)}

GetAccountInfos(m, version) ==
    IF IsMultiNetworkVersion(version) /\ DOMAIN m.accounts # {} THEN ChainAccounts(m.accounts)
    ELSE {GetAccountIdentifier(m.address, m.network)}

AddAccounts(ids, w) ==
    {a \in accounts : a.id \notin ids} \cup {[id |-> id, wallet |-> w] : id \in ids}

GetSessionChainIds == {a.id[2] : a \in accounts} \cap Chains

-----------------------------------------------------------------------------
(* Messages                                                                *)

Request(type, version, wrapped) ==
    [n |-> made + 1, type |-> type, version |-> version, wrapped |-> wrapped,
     networks |-> {}, form |-> "object", network |-> OwnNetwork, source |-> None]

Answer(m, type) ==
    [n |-> m.n, type |-> type, version |-> m.version, wrapped |-> UsesWrappedMessages(m.version),
     accounts |-> <<>>, network |-> OwnNetwork, address |-> None]

\* The software of the wallet takes a message as what it is.
Understands(w, m) ==
    CASE Software[w] = "this" -> m.wrapped = UsesWrappedMessages(m.version)
                                 /\ m.version >= LEGACY_ENVELOPE_VERSION
      [] Software[w] = "other" -> m.version = IF m.wrapped THEN 3 ELSE 2
      [] Software[w] = "walletconnect" -> m.wrapped => UsesWrappedMessages(m.version)

\* Slip: the version alone says what is wrapped.
RoutedByVersion(m) == m.wrapped = UsesWrappedMessages(m.version)

\* handleResponse: a flat message is taken whatever its version.
Routed(m) == m.wrapped => UsesWrappedMessages(m.version)

Message(queue, w, m) == [queue EXCEPT ![w] = Append(@, m)]
Unsent(queue, w) == [queue EXCEPT ![w] = Tail(@)]

\* A wallet that does not know the dApp does not hear it.
Send(w, m) == toWallet' = IF w \in paired' THEN Message(toWallet, w, m) ELSE toWallet

-----------------------------------------------------------------------------
(* The dApp requests                                                       *)

\* The wallet of the active account; or the active peer; or one that is paired.
Partner(w) == IF active # None THEN w = active.wallet ELSE activePeer \in {None, w}

\* init pairs where there is no active peer.
Prepare(w) ==
    /\ open = None /\ made < MaxRequests
    /\ Partner(w)
    /\ peers' = peers \cup {w}
    /\ paired' = IF active = None /\ activePeer = None THEN paired \cup {w} ELSE paired
    /\ activePeer' = IF active = None THEN w ELSE activePeer
    /\ UNCHANGED <<accounts, active, toDApp, grants, events>>

Leaves(w, m) ==
    /\ IF MeetsMinimum(EffectivePeerVersion(w))
       THEN /\ made' = made + 1
            /\ open' = [n |-> m.n, to |-> w, type |-> m.type, networks |-> m.networks,
                         id |-> GetAccountIdentifier(m.source, m.network)]
            /\ Send(w, m)
       ELSE UNCHANGED <<made, open, toWallet>>

Flat(w) ==
    LET v == NegotiateEnvelopeVersion(EffectivePeerVersion(w))
    IN  Request("permission", v, UsesWrappedMessages(v))

\* wrapTezosRequest leaves the networks out below version 4; a flat message
\* has all there is.
RequestPermissions(w, networks) ==
    /\ Prepare(w)
    /\ LET m == Flat(w)
       IN  Leaves(w, IF m.wrapped /\ ~IsMultiNetworkVersion(m.version) THEN m
                     ELSE [m EXCEPT !.networks = networks])

ToActive(m) == Prepare(active.wallet) /\ Leaves(active.wallet, m)

Operation(form, network) ==
    [Flat(active.wallet) EXCEPT !.type = "operation", !.source = active.id[1],
                                !.form = form, !.network = network]

\* resolveOperationNetwork: what it refuses is not requested.
RequestOperation(chain) ==
    /\ active # None
    /\ \/ /\ chain \in {active.id[2]} \cup GetSessionChainIds
          /\ ToActive(Operation("id", chain))
       \/ /\ chain # active.id[2] /\ GetSessionChainIds = {}
          /\ ToActive(Operation("object", active.id[2]))

RequestOperationAnywhere ==
    /\ active # None /\ Cardinality(GetSessionChainIds) <= 1
    /\ ToActive(Operation("object", active.id[2]))

RequestSignPayload ==
    /\ active # None
    /\ ToActive([Flat(active.wallet) EXCEPT !.type = "sign", !.source = active.id[1]])

\* No permission is needed for these two.
Unchecked(w) == [Flat(w) EXCEPT !.type = "unchecked"]

RequestBroadcast(w) == Prepare(w) /\ Leaves(w, Unchecked(w))

\* The account may be an abstracted one.
RequestProofOfEventChallenge == active # None /\ ToActive(Unchecked(active.wallet))

\* permissionRequest and request of the generic API: always wrapped.
Wrapped(w, type) ==
    LET v == NegotiateEnvelopeVersion(EffectivePeerVersion(w))
    IN  [Request(type, IF UsesWrappedMessages(v) THEN v ELSE MESSAGE_WRAPPED_FROM_VERSION, TRUE)
         EXCEPT !.network = OtherNetwork]

PermissionRequest(w) ==
    /\ Software[w] # "walletconnect"
    /\ Prepare(w) /\ Leaves(w, Wrapped(w, "generic permission"))

BlockchainRequest ==
    /\ active # None /\ Software[active.wallet] # "walletconnect"
    /\ ToActive(Wrapped(active.wallet, "generic"))

-----------------------------------------------------------------------------
(* A wallet answers                                                        *)

Take(w) ==
    /\ toWallet[w] # <<>>
    /\ toWallet' = Unsent(toWallet, w)
    /\ UNCHANGED <<dapp, events>>

Respond(w, m) == toDApp' = Message(toDApp, w, m) /\ UNCHANGED paired

\* The accounts a wallet may answer a permission with, as it thinks of them.
Fanouts(keys) == UNION {[S -> Addresses] : S \in (SUBSET keys) \ {{}}}

ProposalNetworks(networks) == {OwnChain} \cup NamedChains(networks)

PermissionAnswers(w, m) ==
    LET one == {[Answer(m, m.type) EXCEPT !.address = a, !.network = m.network] : a \in Addresses}
    IN  CASE Software[w] = "walletconnect" ->
                 {[Answer(m, m.type) EXCEPT !.version = BEACON_VERSION, !.wrapped = TRUE,
                                            !.accounts = accs] :
                      accs \in Fanouts(ProposalNetworks(m.networks))}
          [] Software[w] = "this" /\ m.networks # {} ->
                 one \cup {[Answer(m, m.type) EXCEPT !.accounts = accs] :
                               accs \in Fanouts(m.networks \cup {Malformed})}
          [] OTHER -> one

\* The answer is kept by the version of the wallet's own SDK.
PersistGrantedPermissions(w, answer) ==
    grants' = [grants EXCEPT ![w] = @ \cup
                  GetAccountInfos(answer, IF Software[w] = "other" THEN 3 ELSE BEACON_VERSION)]

GrantPermission(w) ==
    /\ Take(w)
    /\ LET m == Head(toWallet[w])
       IN  /\ Understands(w, m) /\ m.type \in {"permission", "generic permission"}
           /\ \E answer \in PermissionAnswers(w, m) :
                 Respond(w, answer) /\ PersistGrantedPermissions(w, answer)

\* What it does not permit the wallet refuses.
Perform(w) ==
    /\ Take(w)
    /\ LET m == Head(toWallet[w])
       IN  /\ Understands(w, m) /\ m.type \in {"operation", "sign", "unchecked", "generic"}
           /\ HasPermission(w, m)
           /\ Respond(w, Answer(m, "done"))
    /\ UNCHANGED grants

Refuse(w) ==
    /\ Take(w)
    /\ LET m == Head(toWallet[w])
       IN  /\ Understands(w, m) /\ m.type # "disconnect"
           /\ \E type \in {"error"} \cup IF m.type = "operation" THEN {"no key"} ELSE {} :
                 Respond(w, Answer(m, type))
    /\ UNCHANGED grants

\* With a goodbye the permissions go with the peer (WalletClient.disconnect);
\* what is not understood is dropped.
HearDisconnect(w) ==
    /\ Take(w)
    /\ LET m == Head(toWallet[w])
       IN  /\ Understands(w, m) => m.type = "disconnect"
           /\ IF Understands(w, m)
              THEN paired' = paired \ {w} /\ grants' = [grants EXCEPT ![w] = {}]
              ELSE UNCHANGED <<paired, grants>>
    /\ UNCHANGED toDApp

\* removePeer: the goodbye is wrapped if the dApp's version is, and a wallet of
\* another SDK sends it flat.
RemovePeer(w) ==
    /\ w \in paired /\ Happen
    /\ paired' = paired \ {w}
    /\ grants' = [grants EXCEPT ![w] = {}]
    /\ toWallet' = [toWallet EXCEPT ![w] = <<>>]
    /\ toDApp' = Message(toDApp, w, [n |-> 0, type |-> "disconnect", version |-> BEACON_VERSION,
                                     wrapped |-> Software[w] = "this"])
    /\ UNCHANGED dapp

-----------------------------------------------------------------------------
(* The dApp hears the answer                                               *)

Hears(w, types) ==
    /\ toDApp[w] # <<>>
    /\ w \in peers /\ Routed(Head(toDApp[w])) /\ Head(toDApp[w]).type \in types
    /\ toDApp' = Unsent(toDApp, w)
    /\ UNCHANGED <<made, toWallet, paired, grants, events>>

IsAnswer(w) == open # None /\ open.to = w /\ open.n = Head(toDApp[w]).n

\* Slip: what the wallet does not serve is not missed.
NothingMissing(m, version) == {}

Missing(m, version) ==
    IF IsMultiNetworkVersion(version) /\ IsMultiNetworkVersion(minimum)
          /\ Cardinality(open.networks) >= 2
    THEN open.networks \ DOMAIN m.accounts ELSE {}

VersionOf(w, m) == IF Declared[w] # Absent THEN EffectivePeerVersion(w) ELSE m.version

Accept(w, ids) ==
    /\ accounts' = AddAccounts(ids, w)
    /\ \E id \in ids : active' = [id |-> id, wallet |-> w]
    /\ peers' = peers /\ activePeer' = w

\* requestPermissions goes on: what it cannot take it throws.
Granted(w) ==
    /\ Hears(w, {"permission"}) /\ IsAnswer(w)
    /\ LET m == Head(toDApp[w])
           version == VersionOf(w, m)
           ids == GetAccountInfos(m, version)
       IN  IF MeetsMinimum(version) /\ Missing(m, version) = {} /\ ids # {}
           THEN Accept(w, ids)
           ELSE UNCHANGED <<peers, activePeer, accounts, active>>
    /\ open' = None

GenericGranted(w) ==
    /\ Hears(w, {"generic permission"}) /\ IsAnswer(w)
    /\ Accept(w, GetAccountInfos(Head(toDApp[w]), VersionOf(w, Head(toDApp[w]))))
    /\ open' = None

Done(w) ==
    /\ Hears(w, {"done"}) /\ IsAnswer(w)
    /\ open' = None
    /\ UNCHANGED <<peers, activePeer, accounts, active>>

\* handleRequestError: a wallet that refuses the first permission is forgotten.
Refused(w) ==
    /\ Hears(w, {"error", "no key"}) /\ IsAnswer(w)
    /\ activePeer' = IF active = None /\ open.type = "permission" THEN None ELSE activePeer
    /\ open' = None
    /\ UNCHANGED <<peers, accounts, active>>

\* The wallet has no key, and the user presses "Remove account".
AccountRemoved(w) ==
    /\ Hears(w, {"no key"}) /\ IsAnswer(w)
    /\ accounts' = {a \in accounts : a.id # open.id}
    /\ IF active # None /\ active.id = open.id
       THEN active' = None /\ activePeer' = None
       ELSE UNCHANGED <<active, activePeer>>
    /\ open' = None
    /\ UNCHANGED peers

\* handleDisconnect: whatever was under way has no transport any more.
Departed(w) ==
    /\ Hears(w, {"disconnect"})
    /\ peers' = peers \ {w} /\ activePeer' = None
    /\ accounts' = {a \in accounts : a.wallet # w}
    /\ active' = IF active # None /\ active.wallet = w THEN None ELSE active
    /\ open' = None

Ignore(w) ==
    /\ toDApp[w] # <<>>
    /\ LET m == Head(toDApp[w])
       IN  w \notin peers \/ ~Routed(m) \/ (m.type # "disconnect" /\ ~IsAnswer(w))
    /\ toDApp' = Unsent(toDApp, w)
    /\ UNCHANGED <<dapp, toWallet, paired, grants, events>>

-----------------------------------------------------------------------------
(* The dApp's other calls                                                  *)

\* setActiveAccount, with an account of the store or with none.
SetActiveAccount(a) ==
    /\ Happen
    /\ active # a /\ active' = a
    /\ activePeer' = IF a = None THEN None ELSE a.wallet
    /\ UNCHANGED <<peers, accounts, open, made, toWallet, toDApp, paired, grants>>

\* disconnect: the goodbye is in the wallet's dialect (buildDisconnectMessage).
Disconnect ==
    /\ activePeer # None /\ Happen
    /\ UNCHANGED <<made, toDApp, paired, grants>>
    /\ LET w == activePeer
       IN  /\ peers' = peers \ {w}
           /\ accounts' = {a \in accounts : a.wallet # w}
           /\ Send(w, [Flat(w) EXCEPT !.type = "disconnect", !.n = 0])
    /\ active' = None /\ activePeer' = None /\ open' = None

-----------------------------------------------------------------------------
Init ==
    /\ \E version \in Required : minimum = ResolveRequiredMinimumVersion(version)
    /\ peers = {} /\ activePeer = None
    /\ accounts = {} /\ active = None
    /\ open = None /\ made = 0
    /\ toWallet = [w \in Wallets |-> <<>>] /\ toDApp = toWallet
    /\ paired = {}
    /\ grants = [w \in Wallets |-> {}]
    /\ events = 0

Step ==
    \/ \E w \in Wallets :
          \/ \E networks \in SUBSET Chains : RequestPermissions(w, networks)
          \/ PermissionRequest(w) \/ RequestBroadcast(w)
          \/ GrantPermission(w) \/ Perform(w) \/ Refuse(w) \/ HearDisconnect(w)
          \/ RemovePeer(w)
          \/ Granted(w) \/ GenericGranted(w) \/ Done(w) \/ Refused(w)
          \/ AccountRemoved(w) \/ Departed(w) \/ Ignore(w)
    \/ \E chain \in Chains : RequestOperation(chain)
    \/ RequestOperationAnywhere \/ RequestSignPayload \/ RequestProofOfEventChallenge
    \/ BlockchainRequest
    \/ \E a \in accounts \cup {None} : SetActiveAccount(a)
    \/ Disconnect

Next == Step /\ UNCHANGED minimum

Spec == Init /\ [][Next]_vars

-----------------------------------------------------------------------------
(* Properties                                                              *)

\* Both sides have their types.
TypeOK ==
    /\ minimum \in 1..BEACON_VERSION /\ peers \subseteq Wallets /\ paired \subseteq Wallets
    /\ activePeer \in Wallets \cup {None}
    /\ accounts \subseteq Accounts /\ active \in Accounts \cup {None}
    /\ open # None => open.to \in Wallets /\ open.networks \subseteq Chains
    /\ made \in 0..MaxRequests /\ events \in 0..MaxEvents
    /\ grants \in [Wallets -> SUBSET Identifiers]

\* Whatever wallet it pairs with, the dApp says nothing that the wallet's SDK
\* drops, and drops nothing a wallet says (effectivePeerVersion,
\* makeRequestV3, handleResponse).
NothingIsDropped ==
    \A w \in Wallets :
        /\ \A i \in DOMAIN toWallet[w] : Understands(w, toWallet[w][i])
        /\ \A i \in DOMAIN toDApp[w] : Routed(toDApp[w][i])

\* Wallets that have said goodbye and were not heard yet.
Leaving == {w \in Wallets : \E i \in DOMAIN toDApp[w] : toDApp[w][i].type = "disconnect"}

\* A request for an account the dApp has from the wallet is one the wallet
\* permits, unless its goodbye is on the way: both sides derive the same
\* identifier from what they were told (PermissionValidator, "so the two ids match").
KnownAccountsArePermitted ==
    \A w \in Wallets \ Leaving : \A i \in DOMAIN toWallet[w] :
        LET m == toWallet[w][i]
        IN  /\ m.type \in {"operation", "sign"}
            /\ \E a \in accounts :
                  a.wallet = w /\ a.id[1] = m.source /\ (m.type = "operation" => a.id[2] = m.network)
            => HasPermission(w, m)

\* A dApp that requires version 4 and asks for several networks gets an account
\* on each of them, or none (requestPermissions, "silently-degraded responses").
AllOrNothing ==
    [][ /\ IsMultiNetworkVersion(minimum) /\ open # None /\ open.type = "permission"
        /\ Cardinality(open.networks) >= 2 /\ accounts' \ accounts # {}
        => \A c \in open.networks : \E a \in accounts' : a.id[2] = c /\ a.wallet = open.to ]_vars

\* The dApp knows what wallets granted and have not withdrawn (Access).
GrantedPairs == {p \in Wallets \X Identifiers : p[2] \in grants[p[1]]}
KnownPairs == {<<a.wallet, a.id>> : a \in accounts}

A == INSTANCE Access WITH
        Accounts <- Identifiers, granted <- GrantedPairs, known <- KnownPairs, leaving <- Leaving

ImplementsAccess == A!Spec

=============================================================================
