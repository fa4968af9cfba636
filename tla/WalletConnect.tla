---------------------------- MODULE WalletConnect ----------------------------
(***************************************************************************)
(* The WalletConnect transport of the dApp: WalletConnectTransport and     *)
(* WalletConnectCommunicationClient (packages/octez.connect-transport-     *)
(* walletconnect/src), one tab of the browser.                             *)
(*                                                                         *)
(* WalletConnect's own sign client is outside: sign clients are numbered   *)
(* in the order they are made, sessions in the order wallets approve them. *)
(* A session has one account, its controller's.  Every piece of code       *)
(* between two awaits is one step of a task.  Signing and operations take  *)
(* the same steps and are one kind of request, "call".                     *)
(***************************************************************************)
EXTENDS Naturals, Sequences, SequencesExt

CONSTANTS
    Wallets,         \* wallets, by the account they share
    NoWallet,
    MaxRequests,     \* bounds: messages the dApp sends,
    MaxClients,      \* sign clients made,
    MaxSessions,     \* sessions approved,
    MaxProposals,    \* connections proposed to wallets,
    MaxEvents        \* and what the user, wallets and other tabs do besides

ASSUME NameAssumption == NoWallet \notin Wallets
ASSUME BoundAssumption ==
    /\ MaxRequests \in Nat /\ MaxClients \in Nat /\ MaxSessions \in Nat \ {0}
    /\ MaxProposals \in Nat /\ MaxEvents \in Nat

VARIABLES
    tab,         \* whether this tab leads, and whether the device is a mobile
    status,      \* WalletConnectTransport._isConnected
    client,      \* signClient: the number of a sign client, 0 for none
    live,        \* the sign clients that are connected to the relay
    subscribed,  \* and those whose events the code hears
    stored,      \* sessions in WalletConnect's storage
    controller,  \* who controls each session that was approved
    session,     \* session: its number, 0 for none
    account,     \* activeAccountOrPbk, with the network it is on
    messageIds,  \* ids of the active messages, newest first
    listeners,   \* activeListeners: the sessions whose messages the dApp hears
    opening,     \* channelOpeningListeners has the transport's listener
    pinging,     \* pingInterval is set
    tasks,       \* code suspended at an await
    counts,      \* what the bounds count; ghost, "spare": clients made beside
                 \* one there was, proposals beside a proposal, sessions beside one
    open,        \* ghost: requests not answered yet
    orderly,     \* ghost: the wallet answered in order, and nothing was cut off
    strays       \* ghost: answers under an id of another request

clients == <<client, live, subscribed>>
view == <<tab, status, clients, stored, controller, session, account, listeners,
          opening, pinging>>
queue == <<messageIds, open, orderly, strays>>
vars == <<view, queue, tasks, counts>>

Counted == {"request", "client", "spare", "proposal", "event"}
Sessions == 1..MaxSessions

\* Messages are numbered in the order they are sent; the empty id is 0.
Requests == 1..MaxRequests
NoRequest == 0

Ops == {"permission", "call", "connect", "pair", "proposal", "peer",
        "close", "delete", "refresh"}
Steps == {"client", "extend", "sent", "approval", "accounts", "closing", "shutting",
          "validate", "propose", "peers", "add", "leaving", "unpair"}
Tasks == [op : Ops, pc : Steps, id : Requests \cup {NoRequest}, s : 0..MaxSessions,
          cl : 0..MaxClients]

-----------------------------------------------------------------------------
At(op, pc) == {t \in tasks : t.op \in op /\ t.pc = pc}
Become(t, new) == tasks' = (tasks \ {t}) \cup new
Finish(t) == Become(t, {})
Task(op, pc, id) == [op |-> op, pc |-> pc, id |-> id, s |-> 0, cl |-> 0]

Count(what, max) ==
    /\ counts[what] < max
    /\ counts' = [counts EXCEPT ![what] = @ + 1]
Happen == Count("event", MaxEvents)

\* Proposals a wallet may still approve; a session comes up beside them.
Proposed == {t \in At({"proposal"}, "approval") : t.cl \in live}
CountBeside(c) == [c EXCEPT !["spare"] = IF Proposed = {} THEN @ ELSE @ + 1]

HasSession == session # 0
Approved == Len(controller)
Owner(s) == IF s = 0 THEN NoWallet ELSE controller[s]

\* getSignClient returns the client there is, cl, or awaits a new one (cl = 0).
AwaitClient(t) == [t EXCEPT !.pc = "client", !.cl = client]

NewClient(c) ==
    client' = c /\ live' = live \cup {c} /\ subscribed' = subscribed \cup {c}

\* The tasks that await a client and get c.
Obtain(t, c) ==
    IF t.cl # 0
    THEN c = t.cl /\ UNCHANGED <<clients, counts>>
    ELSE /\ counts["client"] < MaxClients
         /\ c = counts["client"] + 1
         /\ counts' = [counts EXCEPT !["client"] = c,
                                     !["spare"] = IF client = 0 THEN @ ELSE @ + 1]
         /\ NewClient(c)

\* Slip: the account is kept.
ClearSession == session' = 0 /\ UNCHANGED account

ClearState == session' = 0 /\ account' = NoWallet

\* Slip: the connection is closed, and the client still raises its events.
CloseConnection == client' = 0 /\ live' = live \ {client} /\ UNCHANGED subscribed

\* closeSignClient, whose last step this is.
CloseSignClient ==
    client' = 0 /\ live' = live \ {client} /\ subscribed' = subscribed \ {client}

\* setDefaultAccountAndNetwork.
SetDefault == account' = controller[session]

-----------------------------------------------------------------------------
(* The queue of message ids.  An answer takes the id at the end.           *)

\* Slip: the answer takes the newest id.
PopNewest == IF messageIds = <<>> THEN NoRequest ELSE Head(messageIds)

Pop == IF messageIds = <<>> THEN NoRequest ELSE Last(messageIds)

Popped == IF messageIds = <<>> THEN <<>> ELSE Front(messageIds)

\* The dApp is told, under the id it takes, what came of request r.
Answer(r) ==
    /\ messageIds' = Popped
    /\ strays' = IF listeners = {} \/ Pop = r THEN strays ELSE strays \cup {[id |-> Pop, for |-> r]}
    /\ open' = open \ {r}
    /\ orderly' = (orderly /\ IF r = NoRequest THEN messageIds = <<>>
                               ELSE r \in open /\ \A x \in open : r <= x)

\* A request that throws before it is sent is logged, and keeps its id.
Abandon(r) ==
    /\ open' = open \ {r}
    /\ orderly' = FALSE
    /\ UNCHANGED <<messageIds, strays>>

\* The ids that are left have lost their requests.
CutOff == orderly' = (orderly /\ open = {})

-----------------------------------------------------------------------------
Init ==
    /\ tab \in [leader : BOOLEAN, mobile : BOOLEAN]
    /\ status = "off"
    /\ client = 0 /\ live = {} /\ subscribed = {}
    /\ controller \in {<<>>} \cup {<<w>> : w \in Wallets}
    /\ stored = DOMAIN controller
    /\ session = 0 /\ account = NoWallet
    /\ messageIds = <<>> /\ listeners = {}
    /\ opening = FALSE /\ pinging = FALSE
    /\ tasks = {}
    /\ counts = [c \in Counted |-> 0]
    /\ open = {} /\ orderly = TRUE /\ strays = {}

-----------------------------------------------------------------------------
(* sendMessage.  Requests are sent by the tab that holds the session.      *)

\* checkWalletReadiness: a ping, and one every 30 seconds until it settles.
CheckReadiness == pinging' = (pinging \/ ~tab.mobile)

\* broadcast and proof of event have no WalletConnect call: the id is taken
\* back, and the dApp told under this id.
NoRoute(r) == UNCHANGED <<queue, tasks, account>>

\* requestPermissions opens another session if there is an account; it throws
\* if there is no session.
RequestPermissions(r) ==
    /\ messageIds' = <<r>> \o messageIds
    /\ UNCHANGED strays
    /\ IF account # NoWallet
       THEN /\ tasks' = tasks \cup {AwaitClient(Task("permission", "client", r))}
            /\ open' = open \cup {r}
            /\ UNCHANGED <<account, orderly>>
       ELSE IF HasSession
       THEN /\ SetDefault
            /\ tasks' = tasks \cup {[Task("permission", "accounts", r) EXCEPT !.s = session]}
            /\ open' = open \cup {r}
            /\ UNCHANGED orderly
       ELSE orderly' = FALSE /\ UNCHANGED <<tasks, open, account>>

\* signPayload and sendOperations.
Call(r) ==
    /\ messageIds' = <<r>> \o messageIds
    /\ open' = open \cup {r}
    /\ tasks' = tasks \cup {AwaitClient(Task("call", "client", r))}
    /\ UNCHANGED <<orderly, strays, account>>

Send ==
    /\ status = "on" \/ (status = "secondary" /\ tab.mobile)
    /\ listeners # {}
    /\ Count("request", MaxRequests)
    /\ LET r == counts'["request"]
       IN  RequestPermissions(r) \/ Call(r) \/ NoRoute(r)
    /\ UNCHANGED <<tab, status, clients, stored, controller, session, listeners, opening,
                   pinging>>

\* A call has its client.  Without one it returns, without a session it throws.
CallClient(t) ==
    /\ t \in At({"call"}, "client")
    /\ \E c \in 1..MaxClients :
          /\ Obtain(t, c)
          /\ IF HasSession
             THEN /\ Become(t, {[t EXCEPT !.pc = "extend", !.s = session, !.cl = c]})
                  /\ UNCHANGED <<messageIds, open, orderly, strays>>
             ELSE Finish(t) /\ Abandon(t.id)
    /\ UNCHANGED <<tab, status, stored, controller, session, account, listeners, opening, pinging>>

\* checkAndExtendSession is done.  The active account must be of the session
\* there is now; the request goes to the one there was before.
SendCall(t) ==
    /\ t \in At({"call"}, "extend")
    /\ IF account # NoWallet /\ account = Owner(session)
       THEN CheckReadiness /\ Become(t, {[t EXCEPT !.pc = "sent"]})
            /\ UNCHANGED <<messageIds, open, orderly, strays>>
       ELSE Finish(t) /\ Abandon(t.id) /\ UNCHANGED pinging
    /\ UNCHANGED <<tab, status, clients, stored, controller, session, account, listeners,
                   opening, counts>>

\* The wallet's result or error.  If ids are left the wallet is pinged again.
CallAnswered(t) ==
    /\ t \in At({"call"}, "sent") /\ t.cl \in live
    /\ Answer(t.id)
    /\ Finish(t)
    /\ IF HasSession /\ messageIds' # <<>> THEN CheckReadiness ELSE UNCHANGED pinging
    /\ UNCHANGED <<tab, status, clients, stored, controller, session, account, listeners,
                   opening, counts>>

-----------------------------------------------------------------------------
(* Pings.                                                                  *)

\* The ping settles; an answer acknowledges the newest request.
Pong ==
    /\ pinging /\ pinging' = FALSE
    /\ UNCHANGED <<queue, tasks, counts, tab, status, clients, stored, controller, session,
                   account, listeners, opening>>

\* The interval pings again: where there is no client, getSignClient makes one.
PingAgain ==
    /\ pinging /\ client = 0
    /\ Count("client", MaxClients)
    /\ NewClient(counts["client"] + 1)
    /\ UNCHANGED <<queue, tasks, tab, status, stored, controller, session, account, listeners,
                   opening, pinging>>

-----------------------------------------------------------------------------
(* A wallet approves a session.                                            *)

Approve(w) ==
    /\ Approved < MaxSessions
    /\ controller' = Append(controller, w)
    /\ LET closed == IF HasSession /\ account = Owner(session) /\ account # w
                     THEN {session} ELSE {}
       IN  stored' = (stored \ closed) \cup {Approved + 1}

\* A session of another controller replaces the one there is, which is closed
\* if its account is active; otherwise the one there is stays.  Namespaces
\* that miss something clear the state.
Adopt(w) == session' = IF Owner(session) = w THEN session ELSE Approved + 1
Reject(w) == Owner(session) # w /\ ClearState

-----------------------------------------------------------------------------
(* requestPermissions with an account: openSession.                        *)

OpenSession(t) ==
    /\ t \in At({"permission"}, "client")
    /\ \E c \in 1..MaxClients :
          /\ Obtain(t, c)
          /\ CheckReadiness
          /\ Become(t, {[t EXCEPT !.pc = "approval", !.cl = c]})
    /\ UNCHANGED <<queue, tab, status, stored, controller, session, account, listeners, opening>>

\* The wallet approves; if the session is rejected the dApp gets an error.
SessionOpened(t) ==
    /\ t \in At({"permission"}, "approval") /\ t.cl \in live
    /\ \E w \in Wallets :
          /\ Approve(w)
          /\ \/ /\ Adopt(w)
                /\ account' = controller'[session']
                /\ Become(t, {[t EXCEPT !.pc = "accounts", !.s = session']})
                /\ counts' = CountBeside(counts)
                /\ UNCHANGED queue
             \/ Reject(w) /\ Answer(t.id) /\ Finish(t) /\ UNCHANGED counts
    /\ UNCHANGED <<tab, status, clients, listeners, opening, pinging>>

\* The proposal expires, or is refused, which the dApp is told.  If there is a
\* session, requestPermissions goes on with it in either case.
SessionNotOpened(t) ==
    /\ t \in At({"permission"}, "approval")
    /\ \/ t.cl \in live /\ listeners # {} /\ Answer(t.id)
          /\ IF HasSession
             THEN Become(t, {[t EXCEPT !.pc = "accounts", !.s = session]}) /\ SetDefault
             ELSE Finish(t) /\ UNCHANGED account
       \/ IF HasSession
          THEN Become(t, {[t EXCEPT !.pc = "accounts", !.s = session]}) /\ SetDefault
               /\ UNCHANGED queue
          ELSE Finish(t) /\ Abandon(t.id) /\ UNCHANGED account
    /\ UNCHANGED <<tab, status, clients, stored, controller, session, listeners, opening,
                   pinging, counts>>

\* notifyListenersWithPermissionResponse, with the accounts of the session; it
\* throws if the wallet shares none.
Permit(t) ==
    /\ t \in At({"permission"}, "accounts")
    /\ Finish(t)
    /\ Answer(t.id) \/ Abandon(t.id)
    /\ UNCHANGED <<view, counts>>

-----------------------------------------------------------------------------
(* init: WalletConnectTransport.connect, and the user's pairing.           *)

\* connect() of a transport that is neither connected nor connecting: a leading
\* tab initialises the client, another only listens.
StartConnecting(leader) ==
    /\ status \in {"off", "secondary"}
    /\ status' = "connecting" /\ opening' = TRUE
    /\ tasks' = tasks \cup {IF leader THEN AwaitClient(Task("connect", "client", NoRequest))
                            ELSE Task("connect", "peers", NoRequest)}

\* The dApp connects.  The transport's constructor registers for channel openings.
Connect ==
    /\ StartConnecting(tab.leader)
    /\ Happen
    /\ UNCHANGED <<queue, tab, clients, stored, controller, session, account, listeners, pinging>>

\* getPairingRequestInfo forces a new connection, closing what there is.
Pair ==
    /\ opening
    /\ tasks' = tasks \cup {IF client = 0 THEN AwaitClient(Task("pair", "client", NoRequest))
                            ELSE Task("pair", "closing", NoRequest)}
    /\ Happen
    /\ UNCHANGED <<view, queue>>

\* No sign client: whoever awaits it gives up.
NoClient(t) ==
    /\ t.pc = "client" /\ t.cl = 0
    /\ Finish(t)
    /\ IF t.op \in {"call", "permission"} THEN Abandon(t.id) ELSE UNCHANGED queue
    /\ UNCHANGED <<view, counts>>

Newest == {s \in stored : \A other \in stored : other <= s}

\* The last session in storage is validated by a ping; without one, a new
\* connection is proposed.
Restore(t) ==
    /\ t \in At({"connect", "pair", "refresh"}, "client")
    /\ \E c \in 1..MaxClients :
          /\ Obtain(t, c)
          /\ IF stored # {}
             THEN /\ \E s \in Newest : Become(t, {[t EXCEPT !.pc = "validate", !.s = s, !.cl = c]})
                  /\ UNCHANGED <<session, account>>
             ELSE IF t.op = "refresh" THEN Finish(t) /\ ClearState
             ELSE /\ Become(t, {[t EXCEPT !.pc = "propose", !.cl = c]})
                  /\ UNCHANGED <<session, account>>
    /\ UNCHANGED <<queue, tab, status, stored, controller, listeners, opening, pinging>>

\* connect() goes on to listen to its peers; a pairing has no URI to show.
Initialised(t) ==
    IF t.op = "connect" THEN {[t EXCEPT !.pc = "peers", !.s = 0]} ELSE {}

\* The wallet answers, which it does only as long as the session lasts.
Restored(t) ==
    /\ t.pc = "validate" /\ t.s \in stored
    /\ session' = t.s /\ account' = controller[t.s]
    /\ counts' = CountBeside(counts)
    /\ Become(t, Initialised(t))
    /\ UNCHANGED <<queue, tab, status, clients, stored, controller, listeners,
                   opening, pinging>>

\* A session whose wallet does not answer is stale: it is removed from storage.
Stale(t) ==
    /\ t.pc = "validate"
    /\ stored' = stored \ {t.s}
    /\ IF t.op = "refresh" THEN Finish(t) /\ ClearState
       ELSE Become(t, {[t EXCEPT !.pc = "propose", !.s = 0]}) /\ UNCHANGED <<session, account>>
    /\ UNCHANGED <<queue, counts, tab, status, clients, controller, listeners, opening,
                   pinging>>

\* The proposal is out, or times out, which makes init() throw.
Propose(t) ==
    /\ t.pc = "propose"
    /\ \/ /\ Become(t, {[t EXCEPT !.op = "proposal", !.pc = "approval"]} \cup Initialised(t))
          /\ counts["proposal"] < MaxProposals
          /\ counts' = [counts EXCEPT !["proposal"] = @ + 1,
                        !["spare"] = IF HasSession \/ Proposed # {}
                                     THEN @ + 1 ELSE @]
       \/ Finish(t) /\ UNCHANGED counts
    /\ UNCHANGED <<view, queue>>

\* After a proposal ends a tab that does not lead, on a desktop, lets go.
Settled(t) ==
    IF tab.leader \/ tab.mobile THEN {} ELSE {[t EXCEPT !.pc = "leaving", !.s = 0, !.cl = 0]}

\* The wallet approves: the transport's listener is told, and then the session
\* is adopted, or rejected.
ProposalApproved(t) ==
    /\ t \in At({"proposal"}, "approval") /\ t.cl \in live
    /\ LET told == IF opening
                   THEN {[Task("peer", "add", NoRequest) EXCEPT !.s = Approved + 1]} ELSE {}
       IN  Become(t, Settled(t) \cup told)
    /\ \E w \in Wallets :
          /\ Approve(w)
          /\ \/ Adopt(w) /\ UNCHANGED <<account, queue>>
             \/ Reject(w) /\ IF listeners = {} THEN UNCHANGED queue ELSE Answer(NoRequest)
    /\ UNCHANGED <<tab, status, clients, listeners, opening, pinging, counts>>

\* The proposal expires, or is refused, which the dApp is told if it listens.
ProposalRefused(t) ==
    /\ t \in At({"proposal"}, "approval") /\ t.cl \in live
    /\ Become(t, Settled(t))
    /\ UNCHANGED queue \/ (listeners # {} /\ Answer(NoRequest))
    /\ UNCHANGED <<view, counts>>

\* The client is closed, and the state cleared.
Leave(t) ==
    /\ t \in At({"proposal"}, "leaving")
    /\ CloseSignClient
    /\ ClearState /\ CutOff
    /\ Finish(t)
    /\ UNCHANGED <<messageIds, open, strays, counts, tab, status, stored, controller, listeners,
                   opening, pinging>>

\* DappWalletConnectTransport's listener stores the peer, and listens to it.
AddPeer(t) ==
    /\ t \in At({"peer"}, "add")
    /\ listeners' = listeners \cup {t.s}
    /\ status' = IF tab.leader \/ tab.mobile THEN "on" ELSE "secondary"
    /\ Finish(t)
    /\ UNCHANGED <<queue, counts, tab, clients, stored, controller, session, account,
                   opening, pinging>>

\* connect() listens to the session's peer, and is connected, if the tab led
\* when it started: then it has had a client.
Connected(t) ==
    /\ t \in At({"connect"}, "peers")
    /\ listeners' = IF HasSession THEN listeners \cup {session} ELSE listeners
    /\ status' = IF t.cl # 0 THEN "on" ELSE "secondary"
    /\ Finish(t)
    /\ UNCHANGED <<queue, counts, tab, clients, stored, controller, session, account,
                   opening, pinging>>

-----------------------------------------------------------------------------
(* Closing.                                                                *)

\* WalletConnectTransport.disconnect, or an error of the relay.
Disconnect ==
    /\ status # "off"
    /\ At({"close"}, "closing") \cup At({"close"}, "shutting") = {}
    /\ tasks' = tasks \cup {Task("close", IF client = 0 THEN "shutting" ELSE "closing", NoRequest)}
    /\ Happen
    /\ UNCHANGED <<view, queue>>

\* closeSessions is done, and the pairings are disconnected.
CloseSessions(t) ==
    /\ t.pc = "closing"
    /\ stored' = {} /\ ClearState
    /\ Become(t, {[t EXCEPT !.pc = "shutting"]})
    /\ UNCHANGED <<queue, counts, tab, status, clients, controller, listeners, opening,
                   pinging>>

Forget == CutOff /\ messageIds' = <<>> /\ open' = {}

\* The client is closed.  A pairing goes on; close() forgets the listeners
\* and the ids.
Shut(t) ==
    /\ t.pc = "shutting"
    /\ CloseSignClient
    /\ IF t.op = "close"
       THEN /\ Forget
            /\ listeners' = {} /\ opening' = FALSE /\ status' = "off"
            /\ Finish(t)
            /\ UNCHANGED account
       ELSE /\ CutOff /\ UNCHANGED <<messageIds, open, listeners, opening, status, account>>
            /\ Become(t, {[t EXCEPT !.pc = "client", !.cl = 0]})
    /\ UNCHANGED <<strays, counts, tab, stored, controller, session, pinging>>

-----------------------------------------------------------------------------
(* Events of the sign client, and of other tabs.                           *)

\* session_delete and session_expire.
SessionEnds(s) ==
    /\ live # {} /\ s \in stored
    /\ stored' = stored \ {s}
    /\ tasks' = IF session = s /\ subscribed # {}
                THEN tasks \cup {[Task("delete", "unpair", NoRequest) EXCEPT !.s = s]} ELSE tasks
    /\ UNCHANGED <<queue, counts, tab, status, clients, controller, session, account, listeners,
                   opening, pinging>>

\* disconnect: the pairing is gone.  The dApp is told that the session there is
\* now has ended, and the state is cleared.
SessionEnded(t) ==
    /\ t \in At({"delete"}, "unpair")
    /\ ClearState
    /\ Finish(t)
    /\ UNCHANGED <<queue, counts, tab, status, clients, stored, controller, listeners,
                   opening, pinging>>

\* updateActiveAccount: the account of the update becomes the active one.
Follow(s) == account' = controller[s]

\* session_update: the session it is about becomes the active one.
SessionUpdated(s) ==
    /\ subscribed # {} /\ s \in stored
    /\ session' = s
    /\ Follow(s)
    /\ counts["event"] < MaxEvents
    /\ counts' = [CountBeside(counts) EXCEPT !["event"] = @ + 1]
    /\ UNCHANGED <<queue, tasks, tab, status, clients, stored, controller, listeners,
                   opening, pinging>>

\* On a mobile another tab has closed everything: this one's client is forgotten
\* and its events are cleared, but it stays connected ...
StorageReset ==
    /\ tab.mobile
    /\ client' = 0 /\ subscribed' = subscribed \ {client}
    /\ stored' = {}
    /\ ClearState /\ Forget
    /\ Happen
    /\ UNCHANGED <<strays, tasks, tab, status, live, controller, listeners, opening, pinging>>

\* ... or opened a session, which this one restores.
StorageInit ==
    /\ tab.mobile
    /\ CloseSignClient
    /\ CutOff
    /\ tasks' = tasks \cup {Task("refresh", "client", NoRequest)}
    /\ Happen
    /\ UNCHANGED <<messageIds, open, strays, tab, status, stored, controller, session, account,
                   listeners, opening, pinging>>

\* The leading tab is gone and this one is elected: onElectedLeaderhandler
\* connects, if this is the transport that the dApp has by now.
Elected ==
    /\ ~tab.leader
    /\ tab' = [tab EXCEPT !.leader = TRUE]
    /\ StartConnecting(TRUE) \/ UNCHANGED <<status, opening, tasks>>
    /\ Happen
    /\ UNCHANGED <<queue, clients, stored, controller, session, account, listeners, pinging>>

-----------------------------------------------------------------------------
Continue(t) ==
    \/ CallClient(t) \/ SendCall(t) \/ CallAnswered(t)
    \/ OpenSession(t) \/ SessionOpened(t) \/ SessionNotOpened(t) \/ Permit(t)
    \/ NoClient(t) \/ Restore(t) \/ Restored(t) \/ Stale(t) \/ Propose(t)
    \/ ProposalApproved(t) \/ ProposalRefused(t) \/ Leave(t) \/ AddPeer(t) \/ Connected(t)
    \/ CloseSessions(t) \/ Shut(t) \/ SessionEnded(t)

Next ==
    \/ Send \/ Connect \/ Pair \/ Disconnect \/ Pong \/ PingAgain
    \/ \E s \in Sessions : SessionEnds(s) \/ SessionUpdated(s)
    \/ StorageReset \/ StorageInit \/ Elected
    \/ \E t \in tasks : Continue(t)

Spec == Init /\ [][Next]_vars

-----------------------------------------------------------------------------
(* Properties                                                              *)

\* The sessions, the topics, the open requests and the calls have their types.
TypeOK ==
    /\ tab \in [leader : BOOLEAN, mobile : BOOLEAN]
    /\ status \in {"off", "connecting", "on", "secondary"}
    /\ client \in 0..MaxClients /\ live \subseteq 1..MaxClients /\ subscribed \subseteq live
    /\ stored \subseteq Sessions /\ controller \in Seq(Wallets)
    /\ session \in 0..MaxSessions /\ account \in Wallets \cup {NoWallet}
    /\ ToSet(messageIds) \subseteq Requests /\ open \subseteq Requests
    /\ listeners \subseteq Sessions
    /\ opening \in BOOLEAN /\ pinging \in BOOLEAN /\ orderly \in BOOLEAN
    /\ tasks \subseteq Tasks
    /\ counts \in [Counted -> Nat]

\* As long as the wallet answers in the order of the requests, and no request
\* was abandoned, cut off or answered twice, an answer goes to its request.
AnswersKeepTheOrder == orderly => strays = {}

Alone == counts["spare"] = 0

\* The code hears the events of one sign client only, the one it holds, whether
\* others were closed or only forgotten (onStorageMessageHandler), unless two
\* calls of getSignClient overlapped while there was none.
OneSignClient == Alone => subscribed \subseteq {client}

\* The active account is one of the session there is, whatever is restored,
\* approved, refused, updated and ended, unless calls of init overlapped, or a
\* session came up while another was proposed: the one that is approved then
\* replaces it and leaves the account (init).
AccountIsOfSession ==
    Alone /\ account # NoWallet => HasSession /\ account = Owner(session)
=============================================================================
