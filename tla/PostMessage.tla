----------------------------- MODULE PostMessage -----------------------------
(***************************************************************************)
(* The page's side of a wallet that is a browser extension:                *)
(* PostMessageTransport and PostMessageClient (packages/octez.connect-     *)
(* transport-postmessage/src) with the dApp's DappPostMessageTransport,    *)
(* one in each page.                                                       *)
(*                                                                         *)
(* Storage may take its time, as that of an extension does; what is posted *)
(* to the window reaches the content script, which is loaded first, at     *)
(* once.                                                                   *)
(***************************************************************************)
EXTENDS Naturals, FiniteSets

CONSTANTS
    Pages,          \* pages with a dApp
    MaxCalls        \* bound: what pages, the user and the browser do

ASSUME CallsAssumption == MaxCalls \in Nat

VARIABLES
    status,         \* _isConnected
    armed, opening, \* messageHandler and channelOpeningHandler are on the window
    hears,          \* activeListeners has the extension
    peer,           \* the extension is a stored peer
    connects,       \* connect() calls under way
    connected,      \* pages that were connected before
    calls,
    replies,        \* pairing responses on their way to a page
    storing,        \* pages whose addPeer of the extension is under way
    cut             \* ghost: pages that disconnected meanwhile

handlers == <<armed, opening, hears>>
transports == <<status, handlers, peer, connects, connected, replies, storing, cut>>
pageVars == <<transports, calls>>

NoPage == [p \in Pages |-> FALSE]
Call == calls < MaxCalls /\ calls' = calls + 1

Arm(v, p, b) == [v EXCEPT ![p] = b]

-----------------------------------------------------------------------------
(* PostMessageClient.start and stop, PostMessageTransport.connect and      *)
(* disconnect.                                                             *)

StopClient(p) == armed' = Arm(armed, p, FALSE) /\ opening' = Arm(opening, p, FALSE)
                 /\ hears' = Arm(hears, p, FALSE)

\* A disconnect takes longer than arming the listener does, which awaits
\* nothing: it is over before the next connect.
Connect(p) ==
    /\ status[p] = "off" /\ Call
    /\ ~\E c \in connects : c.page = p /\ c.pc = "open"
    /\ status' = [status EXCEPT ![p] = "connecting"]
    /\ armed' = Arm(armed, p, TRUE)
    /\ connects' = connects \cup {[page |-> p, n |-> calls, pc |-> "peers"]}
    /\ connected' = connected \cup {p}
    /\ UNCHANGED <<opening, hears, peer, replies, storing, cut>>

\* Slip: the status is not looked at again.
NotAsked(p) == TRUE

StillConnecting(p) == status[p] = "connecting"

\* A disconnect came first: its stop is done again, unless a later connect has
\* made the transport live.
Overtaken(p) == IF status[p] = "off" THEN StopClient(p) ELSE UNCHANGED handlers

\* The peers are read; they are listened to, and so are pairing responses.
ConnectPeers(c) ==
    /\ c.pc = "peers"
    /\ IF StillConnecting(c.page)
       THEN /\ hears' = Arm(hears, c.page, hears[c.page] \/ peer[c.page])
            /\ opening' = Arm(opening, c.page, TRUE)
            /\ connects' = (connects \ {c}) \cup {[c EXCEPT !.pc = "open"]}
            /\ UNCHANGED armed
       ELSE Overtaken(c.page) /\ connects' = connects \ {c}
    /\ UNCHANGED <<status, peer, connected, calls, replies, storing, cut>>

ConnectEnds(c) ==
    /\ c.pc = "open"
    /\ connects' = connects \ {c}
    /\ IF StillConnecting(c.page)
       THEN status' = [status EXCEPT ![c.page] = "on"] /\ UNCHANGED handlers
       ELSE Overtaken(c.page) /\ UNCHANGED status
    /\ UNCHANGED <<peer, connected, calls, replies, storing, cut>>

Disconnect(p) ==
    /\ status[p] # "off" /\ Call
    /\ StopClient(p)
    /\ status' = [status EXCEPT ![p] = "off"]
    /\ cut' = IF p \in storing THEN cut \cup {p} ELSE cut
    /\ UNCHANGED <<peer, connects, connected, replies, storing>>

-----------------------------------------------------------------------------
(* Pairing: the callback of listenForChannelOpening.                       *)

HearReply(p) ==
    /\ p \in replies
    /\ replies' = replies \ {p}
    /\ storing' = IF opening[p] THEN storing \cup {p} ELSE storing
    /\ UNCHANGED <<status, handlers, peer, connects, connected, calls, cut>>

\* addPeer, then the transport says that it is connected, whatever happened.
StorePeer(p) ==
    /\ p \in storing
    /\ storing' = storing \ {p}
    /\ peer' = Arm(peer, p, TRUE)
    /\ hears' = Arm(hears, p, TRUE)
    /\ status' = [status EXCEPT ![p] = "on"]
    /\ UNCHANGED <<armed, opening, connects, connected, calls, replies, cut>>

\* removePeer
RemovePeer(p) ==
    /\ peer[p] /\ status[p] = "on" /\ Call
    /\ peer' = Arm(peer, p, FALSE)
    /\ hears' = Arm(hears, p, FALSE)
    /\ UNCHANGED <<status, armed, opening, connects, connected, replies, storing, cut>>

PagesInit ==
    /\ status = [p \in Pages |-> "off"]
    /\ armed = [p \in Pages |-> TRUE] /\ opening = NoPage /\ hears = NoPage
    /\ peer = NoPage
    /\ connects = {} /\ connected = {} /\ calls = 0
    /\ replies = {} /\ storing = {} /\ cut = {}

PagesCode ==
    \/ \E c \in connects : ConnectPeers(c) \/ ConnectEnds(c)
    \/ \E p \in Pages : HearReply(p) \/ StorePeer(p)

PagesCalls == \E p \in Pages : Connect(p) \/ Disconnect(p) \/ RemovePeer(p)

-----------------------------------------------------------------------------
\* The pages and what lies between them have their types.
PagesTypeOK ==
    /\ replies \subseteq Pages /\ storing \subseteq Pages /\ cut \subseteq Pages
    /\ status \in [Pages -> {"off", "connecting", "on"}]
    /\ {armed, opening, hears, peer} \subseteq [Pages -> BOOLEAN]
    /\ connects \subseteq [page : Pages, n : 0..MaxCalls, pc : {"peers", "open"}]
    /\ connected \subseteq Pages /\ calls \in 0..MaxCalls

Deaf(p) == ~armed[p] \/ (peer[p] /\ ~hears[p])
Silent(p) == ~armed[p] /\ ~opening[p] /\ ~hears[p]
Busy(p) == p \in storing \/ \E c \in connects : c.page = p

\* A transport that says it is connected listens, and one that was disconnected
\* has left nothing on the window, however connects, disconnects and pairings
\* overlap; but for a disconnect while the extension is being stored (cut).
HandlersFollowTheStatus ==
    \A p \in Pages \ cut :
        /\ status[p] = "on" => ~Deaf(p)
        /\ status[p] = "off" /\ p \in connected /\ ~Busy(p) => Silent(p)

=============================================================================
