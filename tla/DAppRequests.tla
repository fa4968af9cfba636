---------------------------- MODULE DAppRequests ----------------------------
(***************************************************************************)
(* The requests that a dApp makes in several tabs of one browser: the      *)
(* request methods of DAppClient, makeRequest, handleResponse and          *)
(* MultiTabChannel (packages/octez.connect-core/src/utils/                 *)
(* multi-tab-channel.ts).  Over WalletConnect one tab, the leader, talks   *)
(* to the wallet; the others hand their requests to it.                    *)
(*                                                                         *)
(* The broadcast-channel library elects the leader: there is one at most,  *)
(* awaiting leadership ends when there is none, and a closing page loses   *)
(* it at once.  How transports are made is the business of DAppConnection. *)
(***************************************************************************)
EXTENDS Naturals, Sequences

CONSTANTS
    Tabs, MaxRequests,
    Scopes,          \* what the wallet grants, of "operation_request" and "sign"
    NoTab,
    MaxEvents        \* bound: tabs closed, accounts reset, requests stopped or acknowledged, failed sends

ASSUME ScopesAssumption == Scopes \subseteq {"operation_request", "sign"}
ASSUME TabsAssumption == NoTab \notin Tabs
ASSUME BoundAssumption == MaxRequests \in Nat /\ MaxEvents \in Nat

VARIABLES
    alive,           \* tabs there are
    leader,          \* the elected tab
    listening,       \* tabs whose channel is initialised
    wasLeader,       \* tabs that know they were elected
    standby,         \* tabs that await leadership since the leader died
    transport,       \* of each tab: "none", "other" or "wc"
    link,            \* of its WalletConnect transport: "off", "secondary" or "connected"
    account,         \* the active account: "none" or "granted" the Scopes
    resetting,       \* tabs that disconnect WalletConnect to reset the account
    stored,          \* the stored account: "none", "wc" or "other" for its origin
    from,            \* the tab that made a request
    needs,           \* what it takes
    outcome,         \* what its caller has got so far
    calls,           \* calls of makeRequest and its like under way
    openRequests,
    openRequestsOtherTabs,
    inbox,           \* messages of other tabs
    wallet,          \* requests the wallet has, and the tab that hears its answer
    events,
    given            \* ghost: requests that this code gave up without a word: it let go of
                     \* another tab's, or a send() failed that nobody awaits

tabs == <<alive, leader, listening, wasLeader, standby>>
connections == <<transport, link, account, resetting, stored>>
requests == <<from, needs, outcome, calls, openRequests, openRequestsOtherTabs>>
vars == <<tabs, connections, requests, inbox, wallet, events, given>>

Requests == 1..MaxRequests
Needs == {"nothing", "account", "operation_request", "sign", "permission"}
Calls == [id : Requests, tab : Tabs, pc : {"channel", "leadership", "route", "transport", "init"},
          wc : BOOLEAN]   \* isWCInstance, once it was read
Step(c, pc) == [c EXCEPT !.pc = pc]
Own(c) == from[c.id] = c.tab
Happen == events < MaxEvents /\ events' = events + 1

\* BroadcastChannel: every other tab that listens hears it.
Posted(t, msg) ==
    [u \in Tabs |-> IF u \in (alive \cap listening) \ {t} THEN Append(inbox[u], msg) ELSE inbox[u]]
Message(type, id) == [type |-> type, id |-> id]
Signal(type) == Message(type, 0)

-----------------------------------------------------------------------------
(* The request methods.  What is refused at once is not a request; ids are  *)
(* given in order.                                                          *)

Make(t, r, need) ==
    /\ t \in alive
    /\ \A q \in 1..r : (outcome[q] = "none") = (q = r)
    /\ from' = [from EXCEPT ![r] = t]
    /\ needs' = [needs EXCEPT ![r] = need]
    /\ outcome' = [outcome EXCEPT ![r] = "pending"]
    /\ calls' = calls \cup {[id |-> r, tab |-> t, pc |-> "channel", wc |-> FALSE]}
    /\ UNCHANGED <<tabs, connections, openRequests, openRequestsOtherTabs, inbox, wallet, events,
                   given>>

HasAccount(t) == account[t] # "none"

RequestPermissions(t, r) == Make(t, r, "permission")
RequestOperation(t, r) == HasAccount(t) /\ Make(t, r, "operation_request")
RequestSignPayload(t, r) == HasAccount(t) /\ Make(t, r, "sign")
\* A proof of event is asked of an abstracted account, a generic request of any.
RequestProofOfEvent(t, r) == HasAccount(t) /\ Make(t, r, "nothing")
RequestBroadcast(t, r) == Make(t, r, "account")

-----------------------------------------------------------------------------
(* checkMakeRequest: the channel of the tab comes first.                   *)

\* The caller is told, unless it is in another tab.
Fail(c) ==
    /\ calls' = calls \ {c}
    /\ outcome' = IF Own(c) THEN [outcome EXCEPT ![c.id] = "failed"] ELSE outcome
    /\ given' = IF Own(c) THEN given ELSE given \cup {c.id}

Move(c, pc) == calls' = (calls \ {c}) \cup {Step(c, pc)}

\* The transport is looked at, then comes MultiTabChannel.init: where there is no
\* leader it waits to be it.
Looked(c) == [c EXCEPT !.wc = (transport[c.tab] = "wc")]

InitChannel(c) ==
    /\ c.pc = "channel"
    /\ IF c.tab \in listening \/ leader # NoTab
       THEN listening' = listening \cup {c.tab} /\ calls' = (calls \ {c}) \cup {Step(Looked(c), "route")}
       ELSE calls' = (calls \ {c}) \cup {Step(Looked(c), "leadership")} /\ UNCHANGED listening
    /\ UNCHANGED <<alive, leader, wasLeader, standby, connections, from, needs, outcome,
                   openRequests, openRequestsOtherTabs, inbox, wallet, events, given>>

\* Slip: a tab that leads already goes on waiting.
AwaitNoLeader(c) ==
    /\ c.pc = "leadership" /\ leader = NoTab
    /\ leader' = c.tab
    /\ wasLeader' = wasLeader \cup {c.tab}
    /\ listening' = listening \cup {c.tab}
    /\ Move(c, "route")
    /\ UNCHANGED <<alive, standby, connections, from, needs, outcome, openRequests,
                   openRequestsOtherTabs, inbox, wallet, events, given>>

AwaitLeadership(c) ==
    /\ c.pc = "leadership" /\ leader \in {NoTab, c.tab}
    /\ leader' = c.tab
    /\ wasLeader' = wasLeader \cup {c.tab}
    /\ listening' = listening \cup {c.tab}
    /\ Move(c, "route")
    /\ UNCHANGED <<alive, standby, connections, from, needs, outcome, openRequests,
                   openRequestsOtherTabs, inbox, wallet, events, given>>

MakesItself(c) ==
    \/ ~c.wc \/ leader = c.tab
    \/ needs[c.id] = "permission" /\ account[c.tab] = "none"

RequestMessage(c) == Message("request", c.id)

\* makeRequest here, or makeRequestBC: the request is posted, and it is open.
Route(c) ==
    /\ c.pc = "route"
    /\ IF MakesItself(c)
       THEN Move(c, "init") /\ UNCHANGED <<openRequests, inbox, given>>
       ELSE /\ calls' = calls \ {c}
            /\ inbox' = Posted(c.tab, RequestMessage(c))
            /\ openRequests' = [openRequests EXCEPT ![c.tab] = @ \cup {c.id}]
            /\ given' = IF leader # NoTab /\ leader \in listening THEN given ELSE given \cup {c.id}
    /\ UNCHANGED <<tabs, connections, from, needs, outcome, openRequestsOtherTabs, wallet, events>>

\* The rate limit is reached, init is aborted, the wallet is too old.
Stop(c) ==
    /\ c.pc \in {"route", "init"}
    /\ Happen
    /\ Fail(c)
    /\ UNCHANGED <<tabs, connections, from, needs, openRequests, openRequestsOtherTabs, inbox,
                   wallet>>

-----------------------------------------------------------------------------
(* makeRequest, for this tab or, by its id, for another.                   *)

\* checkPermissions.
Permitted(c) ==
    \/ needs[c.id] \in {"permission", "nothing"}
    \/ account[c.tab] # "none" /\ needs[c.id] \in Scopes \cup {"account"}

\* The request is open, and sent: nobody awaits whether it arrives.
Send(c) ==
    IF Permitted(c)
    THEN /\ openRequests' = [openRequests EXCEPT ![c.tab] = @ \cup {c.id}]
         /\ \/ wallet' = wallet \cup {[id |-> c.id, tab |-> c.tab]} /\ UNCHANGED <<events, given>>
            \/ Happen /\ given' = given \cup {c.id} /\ UNCHANGED wallet
         /\ calls' = calls \ {c}
         /\ UNCHANGED outcome
    ELSE Fail(c) /\ UNCHANGED <<openRequests, wallet, events>>

\* init: there is a transport, or one is paired; over WalletConnect by the
\* leader, or by who becomes it (checkIfBCLeaderExists).
MakeRequest(c) ==
    /\ c.pc = "init"
    /\ \/ /\ transport[c.tab] # "none"
          /\ UNCHANGED <<transport, link, leader>>
       \/ /\ transport[c.tab] = "none"
          /\ \/ transport' = [transport EXCEPT ![c.tab] = "other"] /\ UNCHANGED <<link, leader>>
             \/ /\ leader \in {NoTab, c.tab}
                /\ leader' = c.tab
                /\ transport' = [transport EXCEPT ![c.tab] = "wc"]
                /\ link' = [link EXCEPT ![c.tab] = "connected"]
    /\ Send(c)
    /\ UNCHANGED <<alive, listening, wasLeader, standby, account, resetting, stored, from, needs,
                   openRequestsOtherTabs, inbox>>

\* prepareRequest: only the leader takes it, once its transport is ready.
PrepareRequest(t, r) ==
    IF leader = t THEN calls' = calls \cup {[id |-> r, tab |-> t, pc |-> "transport", wc |-> FALSE]}
                       /\ UNCHANGED given
                  ELSE UNCHANGED <<calls, given>>

Forward(c) ==
    /\ c.pc = "transport" /\ transport[c.tab] # "none" /\ link[c.tab] # "off"
    /\ openRequestsOtherTabs' = [openRequestsOtherTabs EXCEPT ![c.tab] = @ \cup {c.id}]
    /\ Move(c, "init")
    /\ UNCHANGED <<tabs, connections, from, needs, outcome, openRequests, inbox, wallet, events,
                   given>>

-----------------------------------------------------------------------------
(* handleResponse.                                                         *)

\* A permission makes its account the active one.
Granted(t, r, kind) == kind = "answer" /\ needs[r] = "permission" /\ from[r] = t

Settle(t, r, kind) ==
    /\ openRequests' = IF kind = "acknowledge" THEN openRequests
                       ELSE [openRequests EXCEPT ![t] = @ \ {r}]
    /\ outcome' = IF kind = "acknowledge" \/ r \notin openRequests[t] \/ from[r] # t THEN outcome
                  ELSE [outcome EXCEPT ![r] = IF kind = "error" THEN "rejected" ELSE "resolved"]
    /\ IF r \in openRequests[t] /\ Granted(t, r, kind)
       THEN account' = [account EXCEPT ![t] = "granted"] /\ stored' = transport[t]
       ELSE UNCHANGED <<account, stored>>

\* Slip: an acknowledged request is forgotten.
RelayOnce(t, r, kind) ==
    /\ inbox' = Posted(t, Message(kind, r))
    /\ openRequestsOtherTabs' = [openRequestsOtherTabs EXCEPT ![t] = @ \ {r}]

\* The answer to the request of another tab is posted on, and the request
\* forgotten unless the answer is an acknowledgement.
Relay(t, r, kind) ==
    /\ inbox' = Posted(t, Message(kind, r))
    /\ openRequestsOtherTabs' = IF kind = "acknowledge" THEN openRequestsOtherTabs
                                ELSE [openRequestsOtherTabs EXCEPT ![t] = @ \ {r}]

HandleResponse(t, r, kind) ==
    IF r \in openRequestsOtherTabs[t]
    THEN Relay(t, r, kind) /\ UNCHANGED <<openRequests, outcome, account, stored>>
    ELSE Settle(t, r, kind) /\ UNCHANGED <<inbox, openRequestsOtherTabs>>

\* The wallet acknowledges a request, which is an event, or answers it; the tab
\* it heard the request from hears that.
Answer(m, kind) ==
    /\ m.tab \in alive
    /\ \/ kind = "acknowledge" /\ Happen /\ UNCHANGED wallet
       \/ /\ kind \in {"answer", "error"}
          /\ wallet' = wallet \ {m}
          /\ UNCHANGED events
    /\ HandleResponse(m.tab, m.id, kind)
    /\ UNCHANGED <<tabs, transport, link, resetting, from, needs, calls, given>>

-----------------------------------------------------------------------------
(* Tabs: WalletConnectTransport.connect, other tabs' messages, storage.    *)

\* Slip: every tab connects.
LinkAny(t) == "connected"
LinkOf(t) == IF leader \in {NoTab, t} THEN "connected" ELSE "secondary"

\* The first tab leads; a secondary one leaves the wallet to the leader.
Connect(t) ==
    /\ t \in alive /\ transport[t] = "wc" /\ link[t] = "off"
    /\ leader' = IF leader = NoTab THEN t ELSE leader
    /\ link' = [link EXCEPT ![t] = LinkOf(t)]
    /\ UNCHANGED <<alive, listening, wasLeader, standby, transport, account, resetting, stored,
                   requests, inbox, wallet, events, given>>

\* setActiveAccount(undefined) over WalletConnect: the leader ends the session,
\* any other tab asks for it.
StartReset(t) ==
    /\ resetting' = resetting \cup {t}
    /\ inbox' = IF leader = t THEN inbox ELSE Posted(t, Signal("DISCONNECT"))

Mine(t, rs) == {r \in rs : from[r] = t}

\* Then every open request is rejected.
RejectOpen(t) ==
    /\ openRequests' = [openRequests EXCEPT ![t] = {}]
    /\ outcome' = [r \in Requests |-> IF r \in Mine(t, openRequests[t]) THEN "rejected" ELSE outcome[r]]

Reset(t) ==
    /\ t \in resetting \cap alive
    /\ RejectOpen(t)
    /\ openRequestsOtherTabs' = IF leader = t THEN [openRequestsOtherTabs EXCEPT ![t] = {}]
                                ELSE openRequestsOtherTabs
    /\ given' = given \cup (IF leader = t THEN openRequestsOtherTabs[t] ELSE {})
    /\ resetting' = resetting \ {t}
    /\ account' = [account EXCEPT ![t] = "none"]
    /\ transport' = [transport EXCEPT ![t] = "none"]
    /\ link' = [link EXCEPT ![t] = "off"]
    /\ stored' = "none"
    /\ UNCHANGED <<tabs, from, needs, calls, inbox, wallet, events>>

\* clearActiveAccount, or the wallet closed the session.
ClearAccount(t) ==
    /\ t \in alive \ resetting /\ HasAccount(t) /\ transport[t] = "wc"
    /\ Happen
    /\ StartReset(t)
    /\ UNCHANGED <<tabs, transport, link, account, stored, requests, wallet, given>>

\* The active account has changed in storage; cleared it is reset here too.
StorageChanged(t) ==
    /\ t \in alive \ resetting /\ HasAccount(t) # (stored # "none")
    /\ \/ /\ stored # "none"
          /\ account' = [account EXCEPT ![t] = "granted"]
          /\ transport' = [transport EXCEPT ![t] = stored]
          /\ UNCHANGED <<resetting, link, inbox>>
       \/ /\ stored = "none" /\ transport[t] = "wc"
          /\ StartReset(t)
          /\ UNCHANGED <<account, transport, link>>
       \/ /\ stored = "none" /\ transport[t] # "wc"
          /\ account' = [account EXCEPT ![t] = "none"]
          /\ transport' = [transport EXCEPT ![t] = "none"]
          /\ UNCHANGED <<resetting, link, inbox>>
    /\ UNCHANGED <<tabs, stored, requests, wallet, events, given>>

\* MultiTabChannel.onMessageHandler and onBCMessageHandler.
Receive(t) ==
    /\ t \in alive /\ inbox[t] # <<>>
    /\ LET msg == Head(inbox[t])
           rest == [inbox EXCEPT ![t] = Tail(@)]
       IN  \/ /\ msg.type = "request"
              /\ PrepareRequest(t, msg.id)
              /\ inbox' = rest
              /\ UNCHANGED <<standby, connections, outcome, openRequests>>
           \/ /\ msg.type \in {"acknowledge", "answer", "error"}
              /\ Settle(t, msg.id, msg.type)
              /\ inbox' = rest
              /\ UNCHANGED <<standby, transport, link, resetting, calls, given>>
           \/ /\ msg.type = "LEADER_DEAD"
              /\ standby' = standby \cup {t}
              /\ inbox' = rest
              /\ UNCHANGED <<connections, outcome, calls, openRequests, given>>
           \/ /\ msg.type = "DISCONNECT"
              /\ IF HasAccount(t) /\ transport[t] = "wc" /\ t \notin resetting
                 THEN /\ resetting' = resetting \cup {t}
                      /\ inbox' = IF leader = t THEN rest
                                  ELSE [u \in Tabs |-> IF u = t THEN rest[t] ELSE Posted(t, Signal("DISCONNECT"))[u]]
                      /\ UNCHANGED <<transport, link>>
                 ELSE /\ inbox' = rest
                      /\ IF t \in resetting THEN UNCHANGED <<transport, link>>
                         ELSE /\ transport' = [transport EXCEPT ![t] = "none"]
                              /\ link' = [link EXCEPT ![t] = "off"]
                      /\ UNCHANGED resetting
              /\ UNCHANGED <<standby, account, stored, outcome, calls, openRequests, given>>
    /\ UNCHANGED <<alive, leader, listening, wasLeader, from, needs, openRequestsOtherTabs, wallet,
                   events>>

\* After LEADER_DEAD: the elected tab connects (onElectedLeaderhandler).
Elected(t) ==
    /\ t \in standby \cap alive /\ leader = NoTab
    /\ leader' = t
    /\ wasLeader' = wasLeader \cup {t}
    /\ standby' = standby \ {t}
    /\ link' = IF transport[t] = "wc" THEN [link EXCEPT ![t] = "connected"] ELSE link
    /\ UNCHANGED <<alive, listening, transport, account, resetting, stored, requests, inbox, wallet,
                   events, given>>

\* The page is closed: a tab that knows it leads says so, if it still can.
Close(t) ==
    /\ t \in alive
    /\ Happen
    /\ alive' = alive \ {t}
    /\ leader' = IF leader = t THEN NoTab ELSE leader
    /\ \/ t \in wasLeader /\ inbox' = Posted(t, Signal("LEADER_DEAD"))
       \/ UNCHANGED inbox
    /\ calls' = {c \in calls : c.tab # t}
    /\ given' = given \cup openRequestsOtherTabs[t] \cup {c.id : c \in {d \in calls : d.tab = t /\ ~Own(d)}}
                   \cup ({inbox[t][i].id : i \in 1..Len(inbox[t])} \ {0})
    /\ UNCHANGED <<listening, wasLeader, standby, connections, from, needs, outcome, openRequests,
                   openRequestsOtherTabs, wallet>>

-----------------------------------------------------------------------------
\* The pages are loaded, with a WalletConnect account or without any.
Init ==
    /\ alive = Tabs /\ leader = NoTab
    /\ listening = {} /\ wasLeader = {} /\ standby = {}
    /\ stored \in {"none", "wc"}
    /\ transport = [t \in Tabs |-> stored]
    /\ account = [t \in Tabs |-> IF stored = "wc" THEN "granted" ELSE "none"]
    /\ link = [t \in Tabs |-> "off"]
    /\ resetting = {}
    /\ from = [r \in Requests |-> NoTab] /\ needs = [r \in Requests |-> "nothing"]
    /\ outcome = [r \in Requests |-> "none"]
    /\ calls = {}
    /\ openRequests = [t \in Tabs |-> {}] /\ openRequestsOtherTabs = openRequests
    /\ inbox = [t \in Tabs |-> <<>>]
    /\ wallet = {} /\ events = 0
    /\ given = {}

Users ==
    \/ \E t \in Tabs, r \in Requests :
          \/ RequestPermissions(t, r) \/ RequestOperation(t, r) \/ RequestSignPayload(t, r)
          \/ RequestProofOfEvent(t, r) \/ RequestBroadcast(t, r)
    \/ \E t \in Tabs : ClearAccount(t) \/ Close(t)
    \/ \E c \in calls : Stop(c)
    \/ \E m \in wallet, kind \in {"acknowledge", "answer", "error"} : Answer(m, kind)

Code ==
    \/ \E c \in calls :
          InitChannel(c) \/ AwaitLeadership(c) \/ Route(c) \/ MakeRequest(c) \/ Forward(c)
    \/ \E t \in Tabs :
          Connect(t) \/ Reset(t) \/ StorageChanged(t) \/ Receive(t) \/ Elected(t)

Next == Users \/ Code

\* Awaits come to an end, and the browser delivers what tabs post.
Spec == Init /\ [][Next]_vars /\ WF_vars(Code)

-----------------------------------------------------------------------------
(* Properties                                                              *)

\* The client, its open requests and what wallets hold have their types.
TypeOK ==
    /\ alive \subseteq Tabs /\ leader \in Tabs \cup {NoTab}
    /\ listening \subseteq Tabs /\ wasLeader \subseteq Tabs /\ standby \subseteq Tabs
    /\ transport \in [Tabs -> {"none", "other", "wc"}]
    /\ link \in [Tabs -> {"off", "secondary", "connected"}]
    /\ account \in [Tabs -> {"none", "granted"}]
    /\ resetting \subseteq Tabs /\ stored \in {"none", "wc", "other"}
    /\ from \in [Requests -> Tabs \cup {NoTab}] /\ needs \in [Requests -> Needs]
    /\ outcome \in [Requests -> {"none", "pending", "resolved", "rejected", "failed"}]
    /\ calls \subseteq Calls
    /\ openRequests \in [Tabs -> SUBSET Requests]
    /\ openRequestsOtherTabs \in [Tabs -> SUBSET Requests]
    /\ inbox \in [Tabs -> Seq([type : {"request", "acknowledge", "answer", "error",
                                       "DISCONNECT", "LEADER_DEAD"}, id : 0..MaxRequests])]
    /\ wallet \subseteq [id : Requests, tab : Tabs]
    /\ events \in 0..MaxEvents
    /\ given \subseteq Requests

InInbox(r) == \E t \in alive : \E i \in 1..Len(inbox[t]) : inbox[t][i].id = r
AtWallet(r) == \E m \in wallet : m.id = r
UnderWay(r) == \E c \in calls : c.id = r
Pending(r) == outcome[r] = "pending" /\ from[r] \in alive

\* A request whose caller waits is somewhere: under way in a tab, in a message
\* to one, or at the wallet; or this code let go of it: nobody listened to the
\* tab that passed it on, the leader refused it, reset or closed, or send() failed.
NoRequestIsLost == \A r \in Requests : Pending(r) => UnderWay(r) \/ InInbox(r) \/ AtWallet(r) \/ r \in given

\* Two tabs never talk to the wallet at once: they share one session.
OneTabIsConnected == \A t, u \in alive : link[t] = "connected" /\ link[u] = "connected" => t = u

\* Of those that do not move on by themselves: the wallet has not answered, the
\* tab awaits leadership beside a leader, the leader has no transport.
Waits(r) ==
    \/ AtWallet(r)
    \/ \E c \in calls :
          /\ c.id = r
          /\ \/ c.pc = "leadership" /\ leader \notin {NoTab, c.tab}
             \/ c.pc = "transport" /\ (transport[c.tab] = "none" \/ link[c.tab] = "off")

\* Every request comes back to its caller, through whichever tab it went, unless
\* it waits as above.
RequestsComeBack ==
    \A r \in Requests : Pending(r) ~> ~Pending(r) \/ Waits(r) \/ r \in given
=============================================================================
