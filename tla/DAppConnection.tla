--------------------------- MODULE DAppConnection ---------------------------
(***************************************************************************)
(* How the dApp's client comes by a connection and loses it: DAppClient    *)
(* (packages/octez.connect-dapp/src/dapp-client/DAppClient.ts) with its    *)
(* transports, pairing, active account and disconnecting.                  *)
(*                                                                         *)
(* There is one wallet for each kind of transport, and it goes by that     *)
(* kind, as do its peer entry and its account.  Storage is localStorage:   *)
(* an await that only reads it does not let other code in.  What takes     *)
(* time - wallets, users, networks, the making of transports - is a step   *)
(* of a task.  The dApp handles ACTIVE_ACCOUNT_SET, so that no account     *)
(* counts as invalid (isInvalidState); requests go through this tab.       *)
(***************************************************************************)
EXTENDS Naturals, Sequences

CONSTANTS
    Kinds,           \* transports there are: "post" and "p2p", and "wc" if enabled
    MaxOwnRequests,  \* bounds: requests the dApp makes,
    MaxTransports,   \* transports made of each kind,
    MaxInits,        \* init promises,
    MaxOtherEvents   \* and what users, wallets and other tabs do besides

ASSUME KindsAssumption == {"post", "p2p"} \subseteq Kinds /\ Kinds \subseteq {"post", "p2p", "wc"}
ASSUME ConnectionBoundAssumption ==
    {MaxOwnRequests, MaxTransports, MaxInits, MaxOtherEvents} \subseteq Nat /\ MaxInits # 0

VARIABLES
    own,             \* postMessageTransport, p2pTransport, walletConnectTransport: by number,
                     \* 0 for undefined
    made,            \* transports made of each kind
    connecting,      \* transports whose status is CONNECTING,
    connected,       \* and CONNECTED
    newPeerListener, \* the init promise that a transport's next pairing resolves, or 0
    activeTransport, \* _transport, Unsettled while it is not resolved
    initPromise,     \* _initPromise, 0 for undefined
    initReject,      \* the promise that _initPromiseReject rejects, or 0
    inits,           \* what became of the init promises
    isInitPending,
    activeAccount,   \* _activeAccount: "none" or a kind
    activePeer,      \* _activePeer: "loading", "none" or a kind
    accounts, peers, \* in storage
    debounce,        \* debounceSetActiveAccount
    dialog,          \* the pairing dialog: the init it serves, 0 when it is closed,
                     \* and the WalletConnect transport its abort handler holds
    tasks,           \* code that waits for something
    counts,
    lost             \* ghost: transports that went on without the client: init connected them
                     \* after they were dropped, or others were put in their place

fields == <<own, made, connecting, connected, newPeerListener>>
initState == <<initPromise, initReject, inits>>
stores == <<accounts, peers>>
active == <<activeAccount, activePeer>>
connectionVars == <<fields, activeTransport, initState, isInitPending, active, stores, debounce,
                    dialog, tasks, counts, lost>>

Handles == [k : Kinds, g : 0..MaxTransports]
Unsettled == [k |-> "none", g |-> 0]
Handle(k, g) == [k |-> k, g |-> g]
OwnTransport(k) == IF k \in Kinds /\ own[k] # 0 THEN Handle(k, own[k]) ELSE Unsettled
Owned == {OwnTransport(k) : k \in Kinds} \ {Unsettled}
Off(h) == h \notin connecting \cup connected
Paired(k) == k \in peers /\ own[k] # 0

Ops == {"permission", "call", "boot", "init", "pair", "abort", "load", "switch", "clear",
        "disconnect", "departure", "relay"}
Steps == {"start", "interrupted", "init", "begin", "wait", "send", "sent", "refused",
          "connect", "post", "p2p", "wc", "made", "bind", "connecting",
          "clear", "closing", "notify", "shut", "dropped"}
Tasks == [op : Ops, pc : Steps, id : Nat, n : 0..MaxInits,
          k : Kinds \cup {"none"}, h : Handles \cup {Unsettled}]

Task(op, pc) == [op |-> op, pc |-> pc, id |-> 0, n |-> 0, k |-> "none", h |-> Unsettled]
\* What is started by an event goes by its number.
EventTask(op, pc) == [Task(op, pc) EXCEPT !.id = counts["event"]]
At(op, pc) == {t \in tasks : t.op \in op /\ t.pc = pc}
Become(t, new) == tasks' = (tasks \ {t}) \cup new
Finish(t) == Become(t, {})
To(t, pc) == {[t EXCEPT !.pc = pc]}

Count(what, max) == counts[what] < max /\ counts' = [counts EXCEPT ![what] = @ + 1]
Occur == Count("event", MaxOtherEvents)

-----------------------------------------------------------------------------
(* Transports.                                                             *)

\* connect: a transport that is not off is left alone, postMessage needs nobody.
StartConnecting(hs) ==
    LET off == {h \in hs : Off(h)}
        post == {h \in off : h.k = "post"}
    IN  connecting' = connecting \cup (off \ post) /\ connected' = connected \cup post

\* disconnect, of transports that may still be connecting.
Disconnect(hs) == connecting' = connecting \ hs /\ connected' = connected \ hs

\* Slip: the transports are forgotten, and the one over P2P goes on.
DropAllButP2P(more) ==
    /\ Disconnect({h \in Owned : h.k = "post"} \cup more)
    /\ own' = [k \in Kinds |-> 0]
    /\ UNCHANGED <<made, newPeerListener>>

\* dropTransports: the WalletConnect transport is only forgotten.  The caller
\* may disconnect more.
Drop(more) ==
    /\ Disconnect({h \in Owned : h.k # "wc"} \cup more)
    /\ own' = [k \in Kinds |-> 0]
    /\ UNCHANGED <<made, newPeerListener>>

\* setTransport: without one, init starts over.
SetTransport(h) ==
    /\ activeTransport' = h
    /\ initPromise' = IF h = Unsettled THEN 0 ELSE initPromise

SettleInit(n, as) ==
    inits' = IF n # 0 /\ inits[n] = "pending" THEN [inits EXCEPT ![n] = as] ELSE inits

\* A connection that was started is there, unless it was ended meanwhile.
Connected(h) ==
    /\ h \in connecting
    /\ connecting' = connecting \ {h} /\ connected' = connected \cup {h}
    /\ UNCHANGED <<own, made, newPeerListener, activeTransport, initState, isInitPending, active,
                   stores, debounce, dialog, tasks, counts>>

\* initInternalTransports, from where the keys are there: each transport is
\* followed by an await.  A caller that finds one made goes on.
Next1(t) == To(t, IF t.op = "init" THEN "made" ELSE "bind")

MakeTransport(t, k, then) ==
    /\ made[k] < MaxTransports
    /\ made' = [made EXCEPT ![k] = @ + 1]
    /\ own' = [own EXCEPT ![k] = made'[k]]
    /\ lost' = lost \cup ({OwnTransport(k)} \ {Unsettled})
    /\ Become(t, then)

MakePost(t) ==
    IF Owned # {} THEN Become(t, Next1(t)) /\ UNCHANGED <<own, made, lost>>
                  ELSE MakeTransport(t, "post", To(t, "p2p"))

MakeTransports(t) ==
    /\ \/ t \in At(Ops, "post") /\ MakePost(t)
       \/ /\ t \in At(Ops, "p2p")
          /\ MakeTransport(t, "p2p", IF "wc" \in Kinds THEN To(t, "wc") ELSE Next1(t))
       \/ t \in At(Ops, "wc") /\ MakeTransport(t, "wc", Next1(t))
    /\ UNCHANGED <<connecting, connected, newPeerListener, activeTransport, initState,
                   isInitPending, active, stores, debounce, dialog, counts>>

-----------------------------------------------------------------------------
(* setActiveAccount(undefined).                                            *)

SetNoAccount == activeAccount' = "none" /\ activePeer' = "none" /\ SetTransport(Unsettled)

\* The account is cleared for task t, which then goes on as "then", beside the
\* others.  While there is an account this waits for a transport; the first of
\* several calls disconnects a WalletConnect transport before.
Clear(t, then, others) ==
    \/ /\ activeAccount \in Kinds /\ activeTransport = Unsettled
       /\ tasks' = others \cup To(t, "clear")
       /\ UNCHANGED <<fields, activeTransport, initPromise, active, debounce>>
    \/ /\ activeAccount \in Kinds /\ activeTransport.k = "wc" /\ ~debounce
       /\ debounce' = TRUE
       /\ initPromise' = 0
       /\ Drop({})
       /\ tasks' = others \cup {[t EXCEPT !.pc = "closing", !.h = activeTransport]}
       /\ UNCHANGED <<activeTransport, active>>
    \/ /\ activeAccount \in Kinds =>
              activeTransport # Unsettled /\ (activeTransport.k = "wc" => debounce)
       /\ SetNoAccount
       /\ tasks' = others \cup then
       /\ UNCHANGED <<fields, debounce>>

\* disconnect tells the peers before it clears the account once more.
Cleared(t) ==
    CASE t.op = "disconnect" -> To(t, IF t.n = 0 THEN "notify" ELSE "shut")
      [] t.op = "departure" -> To(t, "shut")
      [] OTHER -> {}

\* By the time there is a transport the account may be gone: then nothing is
\* left to clear.
ClearResumed(t) ==
    /\ t \in At(Ops, "clear") /\ activeTransport # Unsettled
    /\ IF activeAccount = "none"
       THEN /\ Become(t, Cleared(t))
            /\ UNCHANGED <<fields, activeTransport, initPromise, active, debounce>>
       ELSE Clear(t, Cleared(t), tasks \ {t})
    /\ UNCHANGED <<initReject, inits, isInitPending, stores, dialog, counts>>

\* The WalletConnect transport is disconnected, and what is left is cleared.
Closing(t) ==
    /\ t \in At(Ops, "closing")
    /\ Disconnect({t.h})
    /\ debounce' = FALSE
    /\ SetNoAccount
    /\ Become(t, Cleared(t))
    /\ UNCHANGED <<own, made, newPeerListener, initReject, inits, isInitPending, stores, dialog,
                   counts>>

-----------------------------------------------------------------------------
(* setActiveAccount(account): the account is set, then the transports are  *)
(* made, the one of the account is taken and connected, and its peer.      *)

\* The transport of the account, P2P where there is none for WalletConnect:
\* it is disabled, or its transport was dropped meanwhile.
TransportOf(k) ==
    OwnTransport(IF k \in Kinds /\ (k = "wc" => own[k] # 0) THEN k ELSE "p2p")

ConnectIfAny(h) ==
    IF h = Unsettled THEN UNCHANGED <<connecting, connected>> ELSE StartConnecting({h})

Bind(t) ==
    /\ t \in At(Ops, "bind")
    /\ LET h == TransportOf(t.k)
       IN  /\ SetTransport(h)
           /\ ConnectIfAny(h)
           /\ Become(t, {[t EXCEPT !.pc = "connecting", !.h = h]})
    /\ UNCHANGED <<own, made, newPeerListener, initReject, inits, isInitPending, active, stores,
                   debounce, dialog, counts>>

\* What the constructor does next if the account is not over P2P: init().
Loaded(t) == IF t.op = "load" /\ t.k # "p2p" THEN {Task("boot", "init")} ELSE {}

FindPeer(t) ==
    /\ t \in At(Ops \ {"pair"}, "connecting") /\ t.h \notin connecting
    /\ IF Paired(t.k)
       THEN /\ activePeer' = t.k
            /\ IF t.k = "wc" THEN UNCHANGED <<activeTransport, initPromise>>
                              ELSE SetTransport(OwnTransport(t.k))
       ELSE activePeer' = "none" /\ UNCHANGED <<activeTransport, initPromise>>
    /\ Become(t, Loaded(t))
    /\ UNCHANGED <<fields, initReject, inits, isInitPending, activeAccount, stores, debounce,
                   dialog, counts>>

-----------------------------------------------------------------------------
(* A request: makeRequest, up to the message that leaves.                  *)

\* It interrupts the pairing that another one waits for.
Interrupt(t) ==
    /\ SettleInit(initReject, "rejected")
    /\ initReject' = 0
    /\ Disconnect({OwnTransport("post"), OwnTransport("wc")})
    /\ tasks' = tasks \cup To(t, "interrupted")
    /\ UNCHANGED <<initPromise, isInitPending, own, made, newPeerListener>>

Request(op) ==
    /\ Count("request", MaxOwnRequests)
    /\ LET t == [Task(op, "init") EXCEPT !.id = counts'["request"]]
       IN  IF initPromise # 0 /\ isInitPending
           THEN Interrupt(t)
           ELSE isInitPending' = TRUE /\ tasks' = tasks \cup {t} /\ UNCHANGED <<initState,
                                                                                fields>>
    /\ UNCHANGED <<activeTransport, active, stores, debounce, dialog>>

Interrupted(t) ==
    /\ t \in At(Ops, "interrupted")
    /\ initPromise' = 0
    /\ isInitPending' = TRUE
    /\ Become(t, To(t, "init"))
    /\ UNCHANGED <<fields, activeTransport, initReject, inits, active, stores, debounce, dialog,
                   counts>>

\* init: the promise there is, or a new one once the account is loaded.
CallInit(t) ==
    /\ t \in At(Ops, "init")
    /\ \/ /\ initPromise # 0
          /\ Become(t, {[t EXCEPT !.pc = "wait", !.n = initPromise]})
       \/ /\ initPromise = 0 /\ \A l \in tasks : l.op # "load"
          /\ Become(t, To(t, "begin"))
    /\ UNCHANGED <<fields, activeTransport, initState, isInitPending, active, stores, debounce,
                   dialog, counts>>

\* The new promise takes the place of any other.  Where there is a transport
\* it is connected, otherwise transports are made.
Begin(t) ==
    /\ t \in At(Ops, "begin") /\ Len(inits) < MaxInits
    /\ LET n == Len(inits) + 1
           body == [Task("init", "post") EXCEPT !.n = n, !.k = activeAccount]
       IN  /\ inits' = Append(inits, "pending")
           /\ initPromise' = n /\ initReject' = n
           /\ Become(t, {[t EXCEPT !.pc = "wait", !.n = n],
                         IF activeTransport = Unsettled THEN body
                         ELSE [body EXCEPT !.pc = "connect", !.h = activeTransport]})
           /\ ConnectIfAny(activeTransport)
           /\ lost' = lost \cup ({activeTransport} \ (Owned \cup {Unsettled}))
    /\ UNCHANGED <<own, made, newPeerListener, activeTransport, isInitPending, active, stores,
                   debounce, dialog, counts>>

\* There was a transport; by now there may be another one.
Reconnected(t) ==
    /\ t \in At({"init"}, "connect") /\ t.h \notin connecting /\ activeTransport # Unsettled
    /\ SettleInit(t.n, "resolved")
    /\ Finish(t)
    /\ UNCHANGED <<fields, activeTransport, initPromise, initReject, isInitPending, active,
                   stores, debounce, dialog, counts>>

Complete == \A k \in Kinds : own[k] # 0

\* The transports are made.  Without an account they listen for a peer, and
\* the pairing dialog opens.  With one missing init returns, and its promise
\* is never settled.
Made(t) ==
    /\ t \in At({"init"}, "made")
    /\ \/ /\ ~Complete
          /\ Finish(t)
          /\ UNCHANGED <<connecting, connected, newPeerListener, activeTransport, inits, dialog>>
       \/ /\ Complete /\ t.k # "none"
          /\ StartConnecting({OwnTransport("post")})
          /\ activeTransport' = IF activeTransport = Unsettled THEN TransportOf(t.k)
                                ELSE activeTransport
          /\ SettleInit(t.n, "resolved")
          /\ Finish(t)
          /\ UNCHANGED <<newPeerListener, dialog>>
       \/ /\ Complete /\ t.k = "none"
          /\ StartConnecting({OwnTransport("post"), OwnTransport("p2p")})
          /\ newPeerListener' = [h \in Handles |-> IF h \in Owned THEN t.n ELSE newPeerListener[h]]
          /\ dialog' = [n |-> t.n, h |-> OwnTransport("wc")]
          /\ Become(t, IF Off(OwnTransport("p2p"))
                       THEN {[t EXCEPT !.op = "pair", !.pc = "connecting",
                                       !.h = OwnTransport("p2p")]}
                       ELSE {})
          /\ UNCHANGED <<activeTransport, inits>>
    /\ UNCHANGED <<own, made, initPromise, initReject, isInitPending, active, stores, debounce,
                   counts>>

\* A wallet answers the pairing request over transport h.
Pair(h) ==
    /\ h \in connected \/ (h.k = "wc" /\ newPeerListener[h] # 0)
    /\ h.k \notin peers \/ newPeerListener[h] # 0
    /\ Occur
    /\ peers' = peers \cup {h.k}
    /\ connected' = connected \cup {h}
    /\ LET n == newPeerListener[h]
       IN  IF n = 0
           THEN UNCHANGED <<newPeerListener, activeTransport, initPromise, inits, activePeer,
                            dialog>>
           ELSE /\ newPeerListener' = [x \in Handles |-> IF x \in Owned \cup {h} THEN 0
                                                         ELSE newPeerListener[x]]
                /\ activePeer' = h.k
                /\ SetTransport(OwnTransport(h.k))
                /\ SettleInit(n, "resolved")
                /\ dialog' = [n |-> 0, h |-> Unsettled]
    /\ UNCHANGED <<own, made, connecting, initReject, isInitPending, activeAccount, accounts,
                   debounce, tasks>>

\* The request is for the peer of the account, or else for the active one.
RequestPeer ==
    IF activeAccount = "none" THEN activePeer
    ELSE IF Paired(activeAccount) THEN activeAccount ELSE "none"

\* init is settled.  Who the active peer is has to be known by then.
Proceed(t) ==
    /\ t \in At(Ops, "wait") /\ inits[t.n] # "pending"
    /\ \/ /\ inits[t.n] = "rejected" \/ t.op = "boot"
          /\ Finish(t)
          /\ UNCHANGED isInitPending
       \/ /\ inits[t.n] = "resolved" /\ t.op # "boot" /\ RequestPeer # "loading"
          /\ isInitPending' = FALSE
          /\ Become(t, IF t.op = "call" /\ activeAccount = "none" THEN {}
                       ELSE {[t EXCEPT !.pc = "send", !.k = RequestPeer]})
    /\ UNCHANGED <<fields, activeTransport, initState, active, stores, debounce, dialog, counts>>

\* It leaves as soon as there is a transport.
SendRequest(t) ==
    /\ t \in At(Ops, "send") /\ activeTransport # Unsettled
    /\ Become(t, IF t.op = "call" THEN {} ELSE {[t EXCEPT !.pc = "sent", !.h = activeTransport]})
    /\ UNCHANGED <<fields, activeTransport, initState, isInitPending, active, stores, debounce,
                   dialog, counts>>

-----------------------------------------------------------------------------
(* What the wallet answers to a permission request.                        *)

HeardFrom(k) == \E h \in connected : h.k = k

\* onNewAccount: the account is the active one from here on.
PermissionGranted(t) ==
    /\ t \in At({"permission"}, "sent") /\ HeardFrom(t.h.k)
    /\ accounts' = accounts \cup {t.h.k}
    /\ activeAccount' = t.h.k
    /\ Become(t, {[t EXCEPT !.pc = "post", !.k = t.h.k]})
    /\ UNCHANGED <<fields, activeTransport, initState, isInitPending, activePeer, peers,
                   debounce, dialog, counts>>

\* handleRequestError: without an account the paired wallet is forgotten.
Refused(t) ==
    /\ t \in At({"permission"}, "sent") /\ HeardFrom(t.h.k)
    /\ IF activeAccount = "none"
       THEN initPromise' = 0 /\ Drop({}) /\ Become(t, To(t, "dropped"))
       ELSE Finish(t) /\ UNCHANGED <<initPromise, fields>>
    /\ UNCHANGED <<activeTransport, initReject, inits, isInitPending, active, stores, debounce,
                   dialog, counts>>

\* Slip: the dropped transport stays the one to send over.
KeepTransport(t) ==
    /\ t \in At({"permission", "departure", "relay"}, "dropped")
    /\ activePeer' = "none"
    /\ Finish(t)
    /\ UNCHANGED <<fields, activeTransport, initState, isInitPending, activeAccount, stores,
                   debounce, dialog, counts>>

\* The end of handleRequestError, handleDisconnect and resetInvalidState.
Forgotten(t) ==
    /\ t \in At({"permission", "departure", "relay"}, "dropped")
    /\ SetTransport(Unsettled)
    /\ activePeer' = "none"
    /\ Finish(t)
    /\ UNCHANGED <<fields, initReject, inits, isInitPending, activeAccount, stores, debounce,
                   dialog, counts>>

-----------------------------------------------------------------------------
(* Aborting, disconnecting, and what other parties do.                     *)

NoDialog == [n |-> 0, h |-> Unsettled]

\* The dialog is closed, or the P2P transport could not connect: abortHandler.
Abort ==
    /\ dialog.n # 0
    /\ Occur
    /\ Drop({dialog.h})
    /\ dialog' = NoDialog
    /\ tasks' = tasks \cup {EventTask("abort", "dropped")}
    /\ UNCHANGED <<activeTransport, initState, isInitPending, active, stores, debounce>>

\* Its transports are disconnected: the init promise there is now is rejected.
Aborted(t) ==
    /\ t \in At({"abort"}, "dropped")
    /\ SettleInit(initReject, "rejected")
    /\ initReject' = 0
    /\ Clear([t EXCEPT !.op = "clear"], {}, tasks \ {t})
    /\ UNCHANGED <<isInitPending, stores, dialog, counts>>

\* The P2P transport of the dialog is connected, or was dropped.
PairReady(t) ==
    /\ t \in At({"pair"}, "connecting") /\ t.h \notin connecting
    /\ Finish(t)
    /\ UNCHANGED <<fields, activeTransport, initState, isInitPending, active, stores, debounce,
                   dialog, counts>>

\* disconnect: the peers of the transport and their accounts go first.
Disconnecting == EventTask("disconnect", "start")

StartDisconnect ==
    /\ activeTransport # Unsettled
    /\ Occur
    /\ tasks' = tasks \cup {Disconnecting}
    /\ UNCHANGED <<fields, activeTransport, initState, isInitPending, active, stores, debounce,
                   dialog>>

RemovePeers(t) ==
    /\ t \in At({"disconnect"}, "start")
    /\ LET k == activeTransport.k
           new == [t EXCEPT !.h = activeTransport]
       IN  IF activeTransport = Unsettled \/ Off(activeTransport)
           THEN /\ Finish(t)
                /\ UNCHANGED <<fields, activeTransport, initPromise, active, stores, debounce>>
           ELSE IF k \in peers
           THEN /\ peers' = peers \ {k} /\ accounts' = accounts \ {k}
                /\ IF activeAccount = k THEN Clear(new, To(new, "notify"), tasks \ {t})
                   ELSE Become(t, To(new, "notify"))
                        /\ UNCHANGED <<fields, activeTransport, initPromise, active, debounce>>
           ELSE /\ UNCHANGED stores
                /\ Clear([new EXCEPT !.n = 1], To(new, "shut"), tasks \ {t})
    /\ UNCHANGED <<initReject, inits, isInitPending, dialog, counts>>

\* They are told, or cannot be told and disconnect throws.
Notified(t) ==
    /\ t \in At({"disconnect"}, "notify")
    /\ \/ Clear([t EXCEPT !.n = 1], To(t, "shut"), tasks \ {t})
       \/ Finish(t) /\ UNCHANGED <<fields, activeTransport, initPromise, active, debounce>>
    /\ UNCHANGED <<initReject, inits, isInitPending, stores, dialog, counts>>

Shut(t) ==
    /\ t \in At({"disconnect", "departure"}, "shut")
    /\ Drop(IF t.h.k = "wc" THEN {} ELSE {t.h})
    /\ Become(t, To(t, "dropped"))
    /\ UNCHANGED <<activeTransport, initState, isInitPending, active, stores, debounce, dialog,
                   counts>>

Disconnected(t) ==
    /\ t \in At({"disconnect"}, "dropped")
    /\ SetTransport(Unsettled)
    /\ initReject' = 0
    /\ isInitPending' = FALSE
    /\ Finish(t)
    /\ UNCHANGED <<fields, inits, active, stores, debounce, dialog, counts>>

\* A wallet says it disconnects: handleDisconnect.
Departure(k) ==
    /\ k # "wc" /\ HeardFrom(k) /\ k \in peers
    /\ Occur
    /\ peers' = IF own[k] # 0 THEN peers \ {k} ELSE peers
    /\ accounts' = accounts \ {k}
    /\ LET t == EventTask("departure", "clear")
       IN  IF activeAccount = k THEN Clear(t, To(t, "shut"), tasks)
           ELSE tasks' = tasks \cup To(t, "shut")
                /\ UNCHANGED <<fields, activeTransport, initPromise, active, debounce>>
    /\ UNCHANGED <<initReject, inits, isInitPending, dialog>>

\* WalletConnect's relay fails: resetInvalidState.
RelayError ==
    /\ OwnTransport("wc") # Unsettled
    /\ Occur
    /\ accounts' = {} /\ activeAccount' = "none"
    /\ Drop({OwnTransport("wc")})
    /\ dialog' = NoDialog
    /\ tasks' = tasks \cup {EventTask("relay", "dropped")}
    /\ UNCHANGED <<activeTransport, initState, isInitPending, activePeer, peers, debounce>>

\* The wallet closed the WalletConnect session: channelClosedHandler.
ChannelClosed ==
    /\ activeTransport.k = "wc"
    /\ Occur
    /\ Clear(EventTask("clear", "clear"), {}, tasks \cup {Disconnecting})
    /\ UNCHANGED <<initReject, inits, isInitPending, stores, dialog>>

\* Slip: only the list of accounts is told.
RemoveAccountsOnly ==
    /\ activeAccount \in Kinds
    /\ Occur
    /\ \E gone \in {{activeAccount}, accounts} : accounts' = accounts \ gone
    /\ UNCHANGED <<fields, activeTransport, initState, isInitPending, active, peers, debounce,
                   dialog, tasks>>

\* The dApp removes the active account or all of them, or another tab did.
RemoveAccounts ==
    /\ activeAccount \in Kinds
    /\ Occur
    /\ \E gone \in {{activeAccount}, accounts} : accounts' = accounts \ gone
    /\ Clear(EventTask("clear", "clear"), {}, tasks)
    /\ UNCHANGED <<initReject, inits, isInitPending, peers, dialog>>

\* Another tab has changed the active account.
Switch(k) ==
    /\ k \in accounts /\ activeAccount # k
    /\ Occur
    /\ activeAccount' = k
    /\ tasks' = tasks \cup {[EventTask("switch", "post") EXCEPT !.k = k]}
    /\ UNCHANGED <<fields, activeTransport, initState, isInitPending, activePeer, stores,
                   debounce, dialog>>

-----------------------------------------------------------------------------
\* The page is loaded: setActiveAccount gets the stored account, or none.
ConnectionInit ==
    /\ own = [k \in Kinds |-> 0] /\ made = own
    /\ connecting = {} /\ connected = {}
    /\ newPeerListener = [h \in Handles |-> 0]
    /\ activeTransport = Unsettled
    /\ initPromise = 0 /\ initReject = 0 /\ inits = <<>>
    /\ isInitPending = FALSE
    /\ peers \in {{}} \cup {{k} : k \in Kinds} /\ accounts = peers
    /\ \E k \in accounts \cup {"none"} :
          /\ activeAccount = k
          /\ activePeer = IF k = "none" THEN "none" ELSE "loading"
          /\ tasks = IF k = "none" THEN {} ELSE {[Task("load", "post") EXCEPT !.k = k]}
    /\ debounce = FALSE
    /\ dialog = NoDialog
    /\ counts = [c \in {"request", "event"} |-> 0]
    /\ lost = {}

Continue(t) ==
    \/ Bind(t) \/ FindPeer(t)
    \/ Interrupted(t) \/ CallInit(t) \/ Reconnected(t) \/ Made(t) \/ Proceed(t) \/ SendRequest(t)
    \/ Forgotten(t) \/ Aborted(t) \/ PairReady(t)
    \/ ClearResumed(t) \/ Closing(t)
    \/ RemovePeers(t) \/ Notified(t) \/ Shut(t) \/ Disconnected(t)

Event ==
    \/ \E h \in Handles : Pair(h)
    \/ Abort \/ StartDisconnect \/ RelayError \/ ChannelClosed \/ RemoveAccounts
    \/ \E k \in Kinds : Departure(k) \/ Switch(k)
    \/ \E h \in connecting : Connected(h)
    \/ \E t \in tasks : PermissionGranted(t) \/ Refused(t)

\* Code that waits for nothing, or for code that waits for nothing.
Ready(t) ==
    \/ t.pc \in {"start", "interrupted", "init", "begin", "post", "p2p", "wc", "made", "bind"}
    \/ t.pc = "wait" /\ inits[t.n] # "pending"
    \/ t.pc \in {"send", "clear"} /\ activeTransport # Unsettled
    \/ t.pc \in {"connect", "connecting"} /\ t.h \notin connecting

Quiet == \A t \in tasks : ~Ready(t)

ConnectionNext ==
    \/ Event /\ Quiet /\ UNCHANGED lost
    \/ \E op \in {"permission", "call"} : Request(op) /\ UNCHANGED lost
    \/ \E t \in tasks : Continue(t) /\ UNCHANGED lost
    \/ \E t \in tasks : MakeTransports(t) \/ Begin(t)

ConnectionSpec == ConnectionInit /\ [][ConnectionNext]_connectionVars

-----------------------------------------------------------------------------
(* Properties                                                              *)

\* The transports, the client and the suspended calls have their types.
ConnectionTypeOK ==
    /\ own \in [Kinds -> 0..MaxTransports] /\ made \in [Kinds -> 0..MaxTransports]
    /\ connecting \subseteq Handles /\ connected \subseteq Handles
    /\ newPeerListener \in [Handles -> 0..MaxInits]
    /\ activeTransport \in Handles \cup {Unsettled}
    /\ initPromise \in 0..MaxInits /\ initReject \in 0..MaxInits
    /\ inits \in Seq({"pending", "resolved", "rejected"}) /\ Len(inits) <= MaxInits
    /\ isInitPending \in BOOLEAN /\ debounce \in BOOLEAN
    /\ activeAccount \in Kinds \cup {"none"} /\ activePeer \in Kinds \cup {"none", "loading"}
    /\ accounts \subseteq Kinds /\ peers \subseteq Kinds
    /\ dialog \in [n : 0..MaxInits, h : Handles \cup {Unsettled}]
    /\ tasks \subseteq Tasks /\ lost \subseteq Handles
    /\ counts \in [{"request", "event"} -> Nat]

\* A transport over postMessage or P2P that runs is one the client holds
\* (dropTransports, "A dropped transport is not garbage"), unless init connected
\* it after it was dropped, or another was made while it was there.
NoTransportLeftBehind ==
    \A h \in connecting \cup connected : h.k = "wc" \/ h \in Owned \cup lost

\* Requests leave over a transport that the client holds (_transport against
\* the three fields), with the same exceptions, unless the code that dropped it
\* is about to reset _transport.
TransportIsHeld ==
    \/ activeTransport \in Owned \cup lost \cup {Unsettled}
    \/ \E t \in tasks : t.pc \in {"dropped", "closing"}

\* The active account is one of the stored accounts, unless it is being cleared.
ActiveAccountIsStored ==
    activeAccount \in Kinds =>
        activeAccount \in accounts \/ \E t \in tasks : t.pc \in {"clear", "closing"}
=============================================================================
