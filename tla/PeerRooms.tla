------------------------------ MODULE PeerRooms ------------------------------
(***************************************************************************)
(* The rooms in which a dApp or a wallet talks to its peers, the listeners *)
(* for their messages, sendMessage and sendPairingResponse:                *)
(* P2PCommunicationClient (packages/octez.connect-transport-matrix/src/    *)
(* communication-client) over MatrixClient.                                *)
(*                                                                         *)
(* Storage is local storage: what waits for storage alone is one step.     *)
(* The handlers of one sync do run side by side, and one's write of the    *)
(* rooms may undo another's (Routed).                                      *)
(***************************************************************************)
EXTENDS MatrixClient

CONSTANTS
    MaxSends,    \* bound: messages and pairing responses sent
    JoinTries    \* a join is tried so often (11)

ASSUME SendsAssumption == MaxSends \in Nat /\ JoinTries \in Nat \ {0}
\* The listener for pairing responses has a name that no public key is.
ASSUME ListenersAssumption == "channel" \notin Peers \cup {Me}

VARIABLES
    isWallet,           \* a wallet sends pairing responses, a dApp awaits them
    known, adding,      \* stored peers; of each peer, calls of addPeer under way
    roomOf,             \* MATRIX_PEER_ROOM_IDS
    ignored,            \* ignoredRooms; NoRoom stands for a string that is no room
    activeListeners,
    callbacks,          \* of each peer, its listeners at the present Matrix client
    subscribed,         \* the other listeners there
    initialEvent,       \* number of the event kept for the first listener
    calls,              \* sends under way
    joins,              \* tryJoinRooms under way
    heard, repeated,    \* ghosts: messages handled since syncing began anew, and again;
    overlapped,         \* peers for whom two calls of addPeer began to listen at once
    delivered           \* of each send, what the relay took

roomVars == <<known, adding, roomOf, ignored>>
listeners == <<activeListeners, callbacks, subscribed, initialEvent>>
ghosts == <<heard, repeated, overlapped, delivered>>
vars == <<matrixVars, isWallet, roomVars, listeners, calls, joins, ghosts>>

NoRoom == 0
Routes == [Peers -> Rooms \cup {NoRoom}]
NoRoutes == [p \in Peers |-> NoRoom]
None == [p \in Peers |-> 0]
Ready == phase \in {"invites", "on"}

Steps == {"route", "create", "wait", "put", "pair", "find", "start", "join"}
Calls == [n : 1..MaxSends, op : {"send", "pair"}, peer : Peers, pc : Steps,
          room : Rooms \cup {NoRoom}, snapshot : Routes, restarted : BOOLEAN,
          resent : BOOLEAN]

Finish(c) == calls' = calls \ {c}
Become(c, d) == calls' = (calls \ {c}) \cup {d}
GoTo(c, pc) == [c EXCEPT !.pc = pc]

-----------------------------------------------------------------------------
(* updatePeerRoom and deleteRoomIdFromRooms.                               *)

\* What is stored when the handlers of <<peer, room>> pairs have run: each
\* writes the rooms it read, with its own.
Routed(updates) ==
    {f \in Routes :
        /\ \A p \in Peers : f[p] = roomOf[p] \/ <<p, f[p]>> \in updates
        /\ updates = {} \/ \E u \in updates : f[u[1]] = u[2]}

\* Of a room that is replaced not its id is ignored but a letter of it.
ReplacedRooms(updates) == {roomOf[u[1]] : u \in updates} \ {NoRoom}
IgnoredAfter(updates) == ignored \cup (IF ReplacedRooms(updates) = {} THEN {} ELSE {NoRoom})

UpdateRooms(updates) == roomOf' \in Routed(updates) /\ ignored' = IgnoredAfter(updates)

Without(r) == [p \in Peers |-> IF roomOf[p] = r THEN NoRoom ELSE roomOf[p]]
DeleteRoom(r) == roomOf' = Without(r) /\ ignored' = ignored \cup {r}

-----------------------------------------------------------------------------
(* Listeners.                                                              *)

\* A message is handled by every listener for its sender.
Hear(is) ==
    /\ heard' = heard \cup is
    /\ repeated' = repeated \cup (heard \cap is) \cup {i \in is : callbacks'[timeline[i].from] > 1}
Messages(is, from) == {i \in is : timeline[i].type = "message" /\ timeline[i].from \in from}

\* n calls of listenForEncryptedMessage for each of several peers: all look for
\* an active listener before the first sets one.  The newest text so far is
\* handled too, unless it is old; then it is dropped.
Listen(ps, n, also) ==
    LET new == ps \ activeListeners
    IN  /\ activeListeners' = activeListeners \cup new
        /\ callbacks' = [p \in Peers |-> callbacks[p] + IF p \in new THEN n ELSE 0]
        /\ overlapped' = overlapped \cup {p \in new : n > 1}
        /\ subscribed' = also \cup (IF new = {} THEN subscribed ELSE subscribed \ {Me})
        /\ initialEvent' = IF new = {} THEN initialEvent ELSE 0
        /\ \E is \in {{}, {initialEvent} \ {0}} :
              LET mine == {i \in is : timeline[i].from \in new}
              IN  /\ Hear(Messages(mine, new))
                  /\ UpdateRooms({<<timeline[i].from, timeline[i].room>> : i \in mine})

\* addPeer: the peer is stored, and listened to.  Calls that began together are
\* side by side.
AddPeer(p) ==
    /\ Ready
    /\ \E n \in 1..adding[p] :
          /\ adding' = [adding EXCEPT ![p] = @ - n]
          /\ Listen({p}, n, {})
    /\ known' = known \cup {p}
    /\ UNCHANGED <<matrixVars, isWallet, calls, joins, delivered>>

\* removePeer: the wallet or the dApp drops a peer.
RemovePeer(p) ==
    /\ p \in known /\ phase = "on"
    /\ Happen
    /\ known' = known \ {p}
    /\ activeListeners' = activeListeners \ {p}
    /\ callbacks' = [callbacks EXCEPT ![p] = IF p \in activeListeners /\ @ > 0 THEN @ - 1 ELSE @]
    /\ UNCHANGED <<server, phase, store, preserved, failures, isWallet, adding, roomOf, ignored,
                   subscribed, initialEvent, calls, joins, ghosts>>

\* removeAllPeers ends every listener for messages, that for pairings as well.
RemoveAllPeers ==
    /\ known # {} /\ phase = "on"
    /\ Happen
    /\ known' = {} /\ activeListeners' = {} /\ callbacks' = None /\ subscribed' = {}
    /\ UNCHANGED <<server, phase, store, preserved, failures, isWallet, adding, roomOf, ignored,
                   initialEvent, calls, joins, ghosts>>

-----------------------------------------------------------------------------
(* P2PTransport.connect, disconnect and P2PCommunicationClient.start.      *)

\* Me among the subscribed is the listener for the initial event; "channel"
\* the one for pairing responses.
Begin ==
    /\ StartClient
    /\ subscribed' = {Me}
    /\ heard' = IF preserved = {} THEN {} ELSE heard
    /\ UNCHANGED <<isWallet, roomVars, activeListeners, callbacks, initialEvent, joins, repeated,
                   overlapped, delivered>>

Connect == Begin /\ (~\E c \in calls : c.pc = "start") /\ UNCHANGED calls

\* The pairing responses that listenForChannelOpening takes.
Openings(is) ==
    {i \in is : timeline[i].type = "opening" /\ timeline[i].from # Me /\ "channel" \in subscribed}

\* A sync: texts and invitations go to who listens.
Invited(es, starting) ==
    {[room |-> e.room, member |-> e.from, tries |-> 1, starting |-> FALSE] :
        e \in {d \in es : d.type = "invite" /\ d.room \in Invitations(es)}}
    \cup {[room |-> r, member |-> CHOOSE m \in rooms'[r].members : m # Me, tries |-> 1,
           starting |-> TRUE] :
        r \in {q \in Rooms : starting /\ rooms'[q].status = "invited"}}

Sync ==
    /\ PollSync
    /\ LET is == {i \in (token + 1)..Len(timeline) : timeline[i].type \in Texts}
           toPeers == {i \in is : timeline[i].from \in {p \in Peers : callbacks[p] > 0}}
           openings == Openings(is)
       IN  /\ UNCHANGED callbacks
           /\ Hear(Messages(toPeers, Peers))
           /\ UpdateRooms({<<timeline[i].from, timeline[i].room>> : i \in toPeers \cup openings})
           /\ adding' = [p \in Peers |->
                            adding[p] + Cardinality({i \in openings : timeline[i].from = p})]
           /\ initialEvent' = IF Me \in subscribed /\ is # {}
                              THEN CHOOSE i \in is : \A j \in is : j <= i ELSE initialEvent
    /\ phase' = IF phase = "first" THEN "invites" ELSE phase
    /\ joins' = joins \cup Invited(In(Chunk), phase = "first")
    /\ UNCHANGED <<isWallet, known, activeListeners, subscribed, calls, overlapped, delivered>>

\* A sync that is not answered changes nothing: the loop goes on.
PollFails ==
    /\ Ready
    /\ UNCHANGED <<server, phase, store, preserved, failures, events, isWallet, roomVars, listeners,
                   calls, joins, ghosts>>

\* Slip: the next try is not counted.
RetryUncounted(j) == [room |-> j.room, member |-> NoRoom, tries |-> j.tries, starting |-> FALSE]

\* The next try, by a timer.
Retry(j) == [room |-> j.room, member |-> NoRoom, tries |-> j.tries + 1, starting |-> FALSE]

\* tryJoinRooms: the account enters the room, or is in it already.  It may be
\* refused, by accident or for good, and then tries again; after any other
\* error it gives up.  The inviter's room is noted either way.
Join(j) ==
    /\ j \in joins /\ Ready
    /\ \/ EnterRoom(j.room, Me) /\ joins' = joins \ {j} /\ UNCHANGED failures
       \/ Me \in members[j.room] /\ joins' = joins \ {j} /\ UNCHANGED <<server, failures>>
       \/ /\ FailOnce \/ (Me \notin members[j.room] \cup invited[j.room] /\ UNCHANGED failures)
          /\ joins' = (joins \ {j}) \cup (IF j.tries < JoinTries THEN {Retry(j)} ELSE {})
          /\ UNCHANGED server
       \/ FailOnce /\ joins' = joins \ {j} /\ UNCHANGED server
    /\ UpdateRooms(IF j.member = NoRoom THEN {} ELSE {<<j.member, j.room>>})
    /\ UNCHANGED <<phase, store, preserved, events, isWallet, known, adding, listeners, calls, ghosts>>

\* The transport goes on when the joins of the start are done.
ListenKnown ==
    /\ phase = "invites" /\ ~\E j \in joins : j.starting
    /\ ~\E c \in calls : c.pc = "start"
    /\ phase' = "on"
    /\ Listen(known, 1, IF isWallet THEN {} ELSE {"channel"})
    /\ UNCHANGED <<server, store, preserved, failures, events, isWallet, known, adding, calls,
                   joins, delivered>>

\* stop and reset: requests under way are cancelled; the rooms are forgotten,
\* but neither the ignored ones nor the active listeners.  The handler of a
\* join that is cancelled still notes its room, before or after; joins by timer
\* and those of a start that waits for the next client are left.
Noted == {<<j.member, j.room>> : j \in {k \in joins : k.member # NoRoom}}
Cancelled == {c \in calls : c.pc \in {"create", "put", "pair"}}
Stopped ==
    /\ StopClient
    /\ callbacks' = None /\ subscribed' = {} /\ initialEvent' = 0
    /\ roomOf' \in {f \in Routes : \A p \in Peers : f[p] = NoRoom \/ <<p, f[p]>> \in Noted}
    /\ ignored' \in {ignored, IgnoredAfter(Noted)}
    /\ \E left \in SUBSET {j \in joins : j.tries > 1 \/ j.starting} :
          joins' = {[j EXCEPT !.starting = FALSE] : j \in left}
    /\ UNCHANGED <<isWallet, known, adding, activeListeners, ghosts>>

Disconnect ==
    /\ phase = "on" /\ ~\E c \in calls : c.pc = "start"
    /\ Happen
    /\ Stopped
    /\ calls' = calls \ Cancelled
    /\ UNCHANGED failures

\* The page is loaded anew: what is stored is kept.
Reload ==
    /\ phase = "on"
    /\ Happen
    /\ phase' = "stopped"
    /\ rooms' = NoRooms /\ token' = 0
    /\ ignored' = {} /\ activeListeners' = {} /\ callbacks' = None
    /\ subscribed' = {} /\ initialEvent' = 0
    /\ calls' = {} /\ joins' = {} /\ adding' = None
    /\ UNCHANGED <<server, preserved, failures, isWallet, known, roomOf, ghosts>>

-----------------------------------------------------------------------------
(* getRelevantRoom and getRelevantJoinedRoom.                              *)

Start(op, p, pc) ==
    /\ phase = "on" /\ Len(delivered) < MaxSends
    /\ calls' = calls \cup {[n |-> Len(delivered) + 1, op |-> op, peer |-> p, pc |-> pc,
                             room |-> NoRoom, snapshot |-> NoRoutes, restarted |-> FALSE,
                             resent |-> FALSE]}
    /\ delivered' = Append(delivered, 0)
    /\ UNCHANGED <<matrixVars, isWallet, known, roomOf, ignored, listeners, joins, heard, repeated, overlapped>>

SendMessage(p) == p \in known /\ Start("send", p, "route") /\ UNCHANGED adding

\* WalletClient.addPeer: the dApp is added, and answered in a new room.
SendPairingResponse(p) == isWallet /\ Start("pair", p, "pair") /\ adding' = [adding EXCEPT ![p] = @ + 1]

\* Slip: any room that is joined.
AnyJoined(p) == JoinedRooms \ ignored

Relevant(p) == {r \in JoinedRooms \ ignored : p \in rooms[r].members}

\* None is left but some are ignored: everything about rooms is forgotten, in
\* storage.
ForgetState ==
    IF ignored = {} THEN UNCHANGED <<preserved, roomOf, ignored>>
    ELSE preserved' = {} /\ roomOf' = NoRoutes /\ ignored' = {}

\* The room noted for the peer, else one that both are in, else a new one.
Route(c) ==
    /\ c.pc = "route"
    /\ \/ /\ roomOf[c.peer] # NoRoom
          /\ Become(c, [GoTo(c, "put") EXCEPT !.room = roomOf[c.peer]])
          /\ UNCHANGED <<preserved, roomOf, ignored>>
       \/ /\ roomOf[c.peer] = NoRoom /\ Ready
          /\ \E r \in Relevant(c.peer) :
                /\ roomOf' = [roomOf EXCEPT ![c.peer] = r]
                /\ Become(c, [GoTo(c, "put") EXCEPT !.room = r])
          /\ UNCHANGED <<preserved, ignored>>
       \/ /\ roomOf[c.peer] = NoRoom /\ Ready /\ Relevant(c.peer) = {}
          /\ ForgetState
          /\ Become(c, [GoTo(c, "create") EXCEPT !.snapshot = roomOf])
    /\ UNCHANGED <<server, phase, store, failures, events, isWallet, known, adding, listeners, joins,
                   ghosts>>

NoRoomLeft == \A r \in Rooms : members[r] # {}

\* The new room; or the relay knows one already, and what is preserved goes;
\* then a pairing, which was refused so before (Pair), starts the client anew, once.
Create(c) ==
    /\ c.pc = "create" /\ Ready
    /\ \/ /\ \E r \in Rooms :
                MakeRoom(r, Me, c.peer) /\ Become(c, [GoTo(c, "wait") EXCEPT !.room = r])
          /\ UNCHANGED <<phase, store, preserved, failures, roomOf, ignored, callbacks, subscribed,
                         initialEvent, joins>>
       \/ /\ NoRoomLeft \/ failures < MaxFailures
          /\ failures' = IF NoRoomLeft THEN failures ELSE failures + 1
          /\ preserved' \in {preserved, {}}
          /\ Finish(c)
          /\ UNCHANGED <<server, phase, store, roomOf, ignored, callbacks, subscribed, initialEvent,
                         joins>>
       \/ /\ c.op = "pair" /\ ~c.restarted /\ ~c.resent
          /\ Stopped /\ UNCHANGED failures
          /\ calls' = (calls \ Cancelled) \cup {[GoTo(c, "start") EXCEPT !.restarted = TRUE]}
    /\ UNCHANGED <<events, isWallet, known, adding, activeListeners, ghosts>>

\* waitForJoin sees two members; the room goes into the rooms as they were
\* read before.
Wait(c) ==
    /\ c.pc \in {"wait", "join"} /\ Ready
    /\ Cardinality(rooms[c.room].members) >= 2
    /\ CASE c.pc = "join" -> UNCHANGED <<roomOf, ignored>>
         [] c.op = "pair" /\ ~c.resent -> UpdateRooms({<<c.peer, c.room>>})
         [] OTHER -> roomOf' = [c.snapshot EXCEPT ![c.peer] = c.room] /\ UNCHANGED ignored
    /\ Become(c, GoTo(c, "put"))
    /\ UNCHANGED <<matrixVars, isWallet, known, adding, listeners, joins, ghosts>>

\* Slip: only a pairing counts the tries.
WaitsLong(c) == c.pc = "join" /\ Cardinality(rooms[c.room].members) < 2

Alone(c) == c.pc \in {"wait", "join"} /\ Cardinality(rooms[c.room].members) < 2

\* Nobody has joined after ten tries: the call throws.
GiveUp(c) ==
    /\ Alone(c) /\ Ready
    /\ Finish(c)
    /\ UNCHANGED <<matrixVars, isWallet, roomVars, listeners, joins, ghosts>>

-----------------------------------------------------------------------------
(* sendPairingResponse, and the text itself.                               *)

\* A room is made for every pairing; where the relay refuses, knowing one, that
\* room is looked for.
Pair(c) ==
    /\ c.pc = "pair" /\ Ready /\ adding[c.peer] = 0
    /\ \/ /\ \E r \in Rooms :
                /\ MakeRoom(r, Me, c.peer)
                /\ UpdateRooms({<<c.peer, r>>})
                /\ Become(c, [GoTo(c, "join") EXCEPT !.room = r])
          /\ UNCHANGED failures
       \/ /\ FailOnce
          /\ \/ Finish(c) /\ UNCHANGED <<roomOf, ignored>>
             \/ /\ Become(c, GoTo(c, "find"))
                /\ IF roomOf[c.peer] = NoRoom THEN UNCHANGED <<roomOf, ignored>>
                   ELSE DeleteRoom(roomOf[c.peer])
          /\ UNCHANGED server
       \/ /\ NoRoomLeft /\ Finish(c)
          /\ UNCHANGED <<server, failures, roomOf, ignored>>
    /\ UNCHANGED <<phase, store, preserved, events, isWallet, known, adding, listeners, joins, ghosts>>

Find(c) ==
    /\ c.pc = "find" /\ Ready
    /\ \/ /\ \E r \in Relevant(c.peer) :
                /\ UpdateRooms({<<c.peer, r>>})
                /\ Become(c, [GoTo(c, "join") EXCEPT !.room = r])
          /\ UNCHANGED preserved
       \/ /\ Relevant(c.peer) = {}
          /\ ForgetState
          /\ Become(c, GoTo(c, "create"))
    /\ UNCHANGED <<server, phase, store, failures, events, isWallet, known, adding, listeners, joins,
                   ghosts>>

\* start after stop; the peers are not listened to again.  It throws when no
\* server of the region that was kept can be found.
Restart(c) ==
    /\ c.pc = "start"
    /\ \/ Begin /\ UNCHANGED calls
       \/ /\ phase = "stopped" /\ Finish(c)
          /\ UNCHANGED <<matrixVars, isWallet, roomVars, listeners, joins, ghosts>>
       \/ /\ phase = "invites" /\ ~\E j \in joins : j.starting
          /\ phase' = "on"
          /\ Become(c, GoTo(c, "find"))
          /\ UNCHANGED <<server, store, preserved, failures, events, isWallet, roomVars, listeners,
                         joins, ghosts>>

\* Slip: whatever fails is sent again.
AlwaysResent(outcome) == outcome # "taken"

Resent(outcome) == outcome = "refused"

\* sendTextMessage: the relay takes the text, refuses it, or fails, before it
\* took it or after.  A text that is refused is sent once more.
Put(c) ==
    /\ c.pc = "put" /\ Ready
    /\ \E outcome \in {"taken", "refused", "failed", "unanswered"} :
          /\ (Me \in members[c.room]) = (outcome # "refused")
          /\ IF outcome \in {"failed", "unanswered"} THEN FailOnce ELSE UNCHANGED failures
          /\ IF outcome \in {"taken", "unanswered"}
             THEN /\ Tell(Event(IF c.op = "pair" THEN "opening" ELSE "message", c.room, Me, {}))
                  /\ delivered' = [delivered EXCEPT ![c.n] = @ + 1]
             ELSE UNCHANGED <<timeline, delivered>>
          /\ IF Resent(outcome) /\ ~c.resent
             THEN /\ DeleteRoom(c.room)
                  /\ Become(c, [GoTo(c, "route") EXCEPT !.resent = TRUE, !.room = NoRoom])
             ELSE Finish(c) /\ UNCHANGED <<roomOf, ignored>>
    /\ UNCHANGED <<members, invited, phase, store, preserved, events, isWallet, known, adding,
                   listeners, joins, heard, repeated, overlapped>>

-----------------------------------------------------------------------------
Init ==
    /\ MatrixInit
    /\ isWallet \in BOOLEAN
    /\ known \in {{}, EarlierPeers} /\ adding = None
    /\ roomOf = NoRoutes /\ ignored = {}
    /\ activeListeners = {} /\ callbacks = None /\ subscribed = {} /\ initialEvent = 0
    /\ calls = {} /\ joins = {}
    /\ heard = {} /\ repeated = {} /\ overlapped = {} /\ delivered = <<>>

Environment ==
    \/ Relay /\ UNCHANGED <<isWallet, roomVars, listeners, calls, joins, ghosts>>
    \/ \E p \in Peers : SendMessage(p) \/ SendPairingResponse(p) \/ RemovePeer(p)
    \/ RemoveAllPeers \/ Connect \/ Disconnect \/ Reload \/ PollFails

Code ==
    \/ \E c \in calls : Route(c) \/ Create(c) \/ Wait(c) \/ GiveUp(c) \/ Pair(c) \/ Find(c)
                        \/ Restart(c) \/ Put(c)
    \/ \E p \in Peers : AddPeer(p)
    \/ \E j \in joins : Join(j)
    \/ Sync \/ ListenKnown

Next == Environment \/ Code

\* Requests are answered in the end, and the loop goes on polling.
Spec == Init /\ [][Next]_vars /\ WF_vars(Code)

-----------------------------------------------------------------------------
(* Properties                                                              *)

\* Rooms, stored rooms, handlers and sends have their types.
TypeOK ==
    /\ MatrixTypeOK
    /\ isWallet \in BOOLEAN
    /\ known \subseteq Peers /\ adding \in [Peers -> Nat]
    /\ roomOf \in Routes /\ ignored \subseteq Rooms \cup {NoRoom}
    /\ activeListeners \subseteq Peers /\ callbacks \in [Peers -> Nat]
    /\ subscribed \subseteq {Me, "channel"} /\ initialEvent \in 0..Len(timeline)
    /\ calls \subseteq Calls
    /\ joins \subseteq [room : Rooms, member : Peers \cup {NoRoom}, tries : 1..JoinTries,
                   starting : BOOLEAN]
    /\ heard \subseteq 1..Len(timeline) /\ repeated \subseteq 1..Len(timeline)
    /\ overlapped \subseteq Peers
    /\ delivered \in Seq(0..2)

With(p, r) == r = NoRoom \/ p \in members[r] \cup invited[r]

\* What is meant for one peer never goes into another's room: the room noted for
\* a peer, and that of a send, is one it is in or invited to, after any overlap
\* of sends, pairings and invitations and any loss of the rooms.
RoomsLeadToTheirPeer ==
    /\ \A p \in Peers : With(p, roomOf[p])
    /\ \A c \in calls : With(c.peer, c.room) /\ \A p \in Peers : With(p, c.snapshot[p])

\* A message is handled once, whether it came before its listener or after, over
\* reloads and failed polls, unless syncing began anew in between, or two calls
\* of addPeer for its sender overlapped.
MessagesAreHandledOnce == \A i \in repeated : timeline[i].from \in overlapped

\* The relay takes a message or a pairing response once, though it is sent again
\* when a room is refused.
TakenOnce == \A n \in 1..Len(delivered) : delivered[n] <= 1

\* Every send comes to an end, unless the client is stopped first.
SendsEnd == \A n \in 1..MaxSends : (\E c \in calls : c.n = n) ~> (phase = "stopped" \/ ~\E c \in calls : c.n = n)

\* Every invitation that a sync brings is taken up or given up, however often the
\* relay refuses, unless the client is stopped first.
InvitationsAreTakenUp == joins # {} ~> (phase = "stopped" \/ joins = {})
=============================================================================
