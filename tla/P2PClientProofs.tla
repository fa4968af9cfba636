--------------------------- MODULE P2PClientProofs ---------------------------
(***************************************************************************)
(* Proofs about the two halves of P2PCommunicationClient: PeerRooms, for   *)
(* any peers and any number of rooms, sends, failures and events, and      *)
(* RelayServer, for any number of calls, servers and resets.               *)
(*                                                                         *)
(* PeerRooms: everything has its type, what is meant for a peer goes into  *)
(* a room of that peer, a message is handled once and a send is taken      *)
(* once.  A peer that is in a room or invited stays so, and whatever tells *)
(* of a room - an event, the store, an invitation, a send - tells of those *)
(* who are.  So the argument is about what each action does to the relay,  *)
(* to the store, to the rooms, to the sends and to what was heard, one     *)
(* after the other.                                                        *)
(*                                                                         *)
(* RelayServer, at the end: a promise is tied to the call that made it.    *)
(* It is pending exactly while that call discovers, and it is the shared   *)
(* one unless a reset took it away.                                        *)
(***************************************************************************)
EXTENDS PeerRooms, RelayServer, Integers, FiniteSetTheorems, WellFoundedInduction, TLAPS

Indices == 1..Len(timeline)
Told == [type : {"invite", "join", "leave"} \cup Texts, room : Rooms, from : Users,
         shows : SUBSET Users]
RoomStates == [Rooms -> [status : Statuses, members : SUBSET Users]]

-----------------------------------------------------------------------------
(* The inductive invariant.                                                *)

ServerTyped ==
    /\ members \in [Rooms -> SUBSET Users] /\ invited \in [Rooms -> SUBSET Users]
    /\ timeline \in Seq(Told)

\* An event is from a peer in its room, and shows peers that are in it; and
\* whoever is invited was told so by a peer.
Seen(e) ==
    /\ e.from \in Peers => With(e.from, e.room)
    /\ \A p \in e.shows \cap Peers : With(p, e.room)
    /\ e.type = "invite" => e.from \in Peers
Shown(r) == \E i \in Indices : timeline[i].room = r /\ timeline[i].shows \cap Peers # {}
ServerInv ==
    /\ ServerTyped
    /\ \A r \in Rooms : members[r] = {} => invited[r] = {}
    /\ \A i \in Indices : Seen(timeline[i])
    /\ \A r \in Rooms : Me \in invited[r] => Shown(r)

\* Rooms that are stored have the members that the events so far have shown, and
\* no peers but those.
Faithful(rs, tk) ==
    /\ \A i \in 1..tk : timeline[i].shows \subseteq rs[timeline[i].room].members
    /\ \A r \in Rooms : /\ \A p \in rs[r].members \cap Peers : With(p, r)
                        /\ rs[r].status = "invited" => rs[r].members \cap Peers # {}
Kept(rs, tk) == rs \in RoomStates /\ tk \in 0..Len(timeline) /\ Faithful(rs, tk)
StoreInv ==
    /\ phase \in {"stopped", "first", "invites", "on"}
    /\ Kept(rooms, token)
    /\ preserved \subseteq [rooms : RoomStates, token : Nat]
    /\ \A s, t \in preserved : s = t
    /\ \A s \in preserved : Kept(s.rooms, s.token)

RestTyped ==
    /\ failures \in 0..MaxFailures /\ events \in 0..MaxEvents
    /\ isWallet \in BOOLEAN
    /\ known \subseteq Peers /\ adding \in [Peers -> Nat]
    /\ subscribed \subseteq {Me, "channel"}

\* A peer has one listener, which is the active one, unless calls overlapped.
ListenersInv ==
    /\ activeListeners \subseteq Peers /\ callbacks \in [Peers -> Nat] /\ overlapped \subseteq Peers
    /\ \A p \in Peers \ overlapped :
          callbacks[p] <= 1 /\ (callbacks[p] = 1 => p \in activeListeners)

Tries == [room : Rooms, member : Peers \cup {NoRoom}, tries : 1..JoinTries, starting : BOOLEAN]
JoinsInv == joins \subseteq Tries /\ \A j \in joins : j.member # NoRoom => With(j.member, j.room)

Led(f) == f \in Routes /\ \A p \in Peers : With(p, f[p])
RoutesInv == Led(roomOf) /\ ignored \subseteq Rooms \cup {NoRoom}

\* A send that is under way is not taken yet, and no other is the same.
CallOK(c) ==
    /\ c \in Calls
    /\ With(c.peer, c.room) /\ Led(c.snapshot)
    /\ c.pc \in {"wait", "join", "put"} => c.room # NoRoom
CallsInv ==
    /\ delivered \in Seq({0, 1})
    /\ \A c \in calls : CallOK(c) /\ c.n <= Len(delivered) /\ delivered[c.n] = 0
    /\ \A c, d \in calls : c.n = d.n => c = d

\* What was heard is behind the token with which syncing goes on; the event kept
\* for the first listener was not heard.
HeardTyped ==
    /\ heard \subseteq 1..Len(timeline)
    /\ \A i \in repeated : i \in 1..Len(timeline) /\ timeline[i].from \in overlapped
    /\ initialEvent \in 0..Len(timeline)
Deaf == \A p \in Peers : callbacks[p] = 0
Resumable ==
    IF phase = "stopped" THEN
        /\ Deaf /\ subscribed = {} /\ initialEvent = 0
        /\ \A s \in preserved : heard \subseteq 1..s.token
    ELSE
        /\ heard \subseteq 1..token /\ initialEvent <= token
        /\ \A s \in preserved : s.token = token
        /\ initialEvent # 0 => initialEvent \notin heard /\ Deaf
        /\ Me \in subscribed => Deaf
HeardInv == HeardTyped /\ Resumable

IInv ==
    /\ ServerInv /\ StoreInv /\ RestTyped /\ ListenersInv /\ JoinsInv /\ RoutesInv /\ CallsInv
    /\ HeardInv

-----------------------------------------------------------------------------
(* The relay.                                                              *)

\* What the relay does to rooms and timeline in a step.
MadeRoom == \E r \in Rooms, from, to \in Users :
                Me \in {from, to} /\ from # to /\ MakeRoom(r, from, to)
Entered == \E r \in Rooms, user \in Users : EnterRoom(r, user)
Spoke == \E r \in Rooms, type \in Texts : \E user \in members[r] :
             Tell(Event(type, r, user, {})) /\ UNCHANGED <<members, invited>>
WentOut == \E r \in Rooms :
               /\ members[r] # {Me}
               /\ members' = [members EXCEPT ![r] = @ \ {Me}]
               /\ Tell(Event("leave", r, Me, {}))
               /\ UNCHANGED invited
ServerStep == UNCHANGED server \/ MadeRoom \/ Entered \/ Spoke \/ WentOut

\* A peer that is in a room, or invited, still is; and what is told stays told.
Stays == \A p \in Peers, r \in Rooms \cup {NoRoom} : With(p, r) => With(p, r)'
Grows == Len(timeline') >= Len(timeline) /\ \A i \in Indices : timeline'[i] = timeline[i]

LEMMA Telling ==
    ASSUME ServerTyped, NEW e, Tell(e),
           e \in Told
    PROVE  /\ Len(timeline) \in Nat /\ Len(timeline') = Len(timeline) + 1
           /\ timeline'[Len(timeline')] = e
           /\ Grows
           /\ timeline' \in Seq(Told)
BY DEF ServerTyped, Tell, Grows, Indices

\* The relay's part of every step.
LEMMA ServerSteps ==
    ASSUME ServerTyped, RestTyped, JoinsInv, CallsInv, [Next]_vars
    PROVE  ServerStep
<1> USE UsersAssumption DEF ServerStep
<1>0. /\ members \in [Rooms -> SUBSET Users]
      /\ \A c \in calls : c.peer \in Peers /\ c.op \in {"send", "pair"}
      /\ \A c \in calls : c.pc = "put" => c.room \in Rooms
  BY DEF ServerTyped, CallsInv, CallOK, Calls
<1>1. ASSUME NEW p \in Peers, PeerInvites(p) \/ PeerJoins(p) \/ PeerSends(p) PROVE ServerStep
  <2>1. CASE PeerInvites(p)
    BY <2>1 DEF PeerInvites, MadeRoom, Users
  <2>2. CASE PeerJoins(p)
    BY <2>2 DEF PeerJoins, Entered, Users
  <2>3. CASE PeerSends(p)
    BY <2>3 DEF PeerSends, Spoke
  <2> QED
    BY <1>1, <2>1, <2>2, <2>3
<1>2. CASE PutOut
  BY <1>2 DEF PutOut, WentOut
<1>3. CASE Relay
  BY <1>1, <1>2, <1>3 DEF Relay
<1>4. ASSUME NEW p \in Peers, SendMessage(p) \/ SendPairingResponse(p) \/ RemovePeer(p) \/ AddPeer(p)
      PROVE  ServerStep
  BY <1>4 DEF SendMessage, SendPairingResponse, RemovePeer, AddPeer, Start, matrixVars
<1>5. CASE RemoveAllPeers \/ Connect \/ Disconnect \/ Reload \/ PollFails
  BY <1>5 DEF RemoveAllPeers, Connect, Begin, StartClient, Disconnect, Stopped, StopClient,
              Reload, PollFails
<1>6. ASSUME NEW c \in calls, Route(c) \/ Wait(c) \/ GiveUp(c) \/ Find(c) \/ Restart(c)
      PROVE  ServerStep
  BY <1>6 DEF Route, Wait, GiveUp, Find, Restart, Begin, StartClient, matrixVars
<1>7. ASSUME NEW c \in calls, Create(c) PROVE ServerStep
  <2>1. CASE \E r \in Rooms : MakeRoom(r, Me, c.peer)
    BY <1>0, <2>1 DEF MadeRoom, Users
  <2>2. CASE UNCHANGED server
    BY <2>2
  <2> QED
    BY <1>7, <2>1, <2>2 DEF Create, Stopped, StopClient
<1>8. ASSUME NEW c \in calls, Pair(c) PROVE ServerStep
  <2>1. CASE \E r \in Rooms : MakeRoom(r, Me, c.peer)
    BY <1>0, <2>1 DEF MadeRoom, Users
  <2>2. CASE UNCHANGED server
    BY <2>2
  <2> QED
    BY <1>8, <2>1, <2>2 DEF Pair
<1>9. ASSUME NEW c \in calls, Put(c) PROVE ServerStep
  <2> PICK outcome \in {"taken", "refused", "failed", "unanswered"} :
         /\ (Me \in members[c.room]) = (outcome # "refused")
         /\ IF outcome \in {"taken", "unanswered"}
            THEN Tell(Event(IF c.op = "pair" THEN "opening" ELSE "message", c.room, Me, {}))
            ELSE UNCHANGED timeline
    BY <1>9 DEF Put
  <2>1. UNCHANGED <<members, invited>>
    BY <1>9 DEF Put
  <2>2. CASE outcome \in {"taken", "unanswered"}
    <3>1. Me \in members[c.room] /\ c.room \in Rooms
      BY <1>0, <1>9, <2>2 DEF Put
    <3> QED
      BY <2>1, <2>2, <3>1 DEF Spoke, Texts
  <2>3. CASE outcome \notin {"taken", "unanswered"}
    BY <2>1, <2>3 DEF server
  <2> QED
    BY <2>2, <2>3
<1>10. ASSUME NEW j \in joins, Join(j) PROVE ServerStep
  <2>1. j.room \in Rooms
    BY DEF JoinsInv, Tries
  <2> QED
    BY <1>10, <2>1 DEF Join, Entered, Users
<1>11. CASE Sync \/ ListenKnown
  BY <1>11 DEF Sync, PollSync, ListenKnown
<1>12. CASE UNCHANGED vars
  BY <1>12 DEF vars, matrixVars
<1> QED
  BY <1>3, <1>4, <1>5, <1>6, <1>7, <1>8, <1>9, <1>10, <1>11, <1>12 DEF Next, Environment, Code


\* Every step of the relay keeps what it tells true.
LEMMA ServerKept ==
    ASSUME ServerInv, ServerStep
    PROVE  ServerInv' /\ Stays /\ Grows
<1> USE UsersAssumption
<1> USE DEF ServerInv, ServerTyped
<1>0. Len(timeline) \in Nat /\ Me \in Users /\ Peers \subseteq Users /\ Me \notin Peers
  BY DEF Users
<1>1. CASE UNCHANGED server
  <2>1. Stays /\ Grows
    BY <1>0, <1>1 DEF server, Stays, Grows, With, Indices
  <2>2. ServerInv'
    BY <1>0, <1>1 DEF server, With, Seen, Shown, Indices
  <2> QED
    BY <2>1, <2>2
\* A step that tells of e, and keeps the rooms in order.
<1>2. ASSUME NEW e \in Told, Tell(e), Stays,
             members' \in [Rooms -> SUBSET Users], invited' \in [Rooms -> SUBSET Users],
             \A r \in Rooms : members'[r] = {} => invited'[r] = {},
             Seen(e)',
             \A r \in Rooms : Me \in invited'[r] =>
                Me \in invited[r] \/ (r = e.room /\ e.shows \cap Peers # {})
      PROVE  ServerInv' /\ Stays /\ Grows
  <2>1. /\ Len(timeline') = Len(timeline) + 1
        /\ timeline'[Len(timeline')] = e
        /\ Grows
        /\ timeline' \in Seq(Told)
    BY <1>2, Telling DEF ServerTyped
  <2>2. \A i \in 1..Len(timeline') : i = Len(timeline') \/ (i \in Indices /\ timeline'[i] = timeline[i])
    BY <1>0, <2>1 DEF Grows, Indices
  <2>3. ASSUME NEW i \in Indices PROVE Seen(timeline[i])'
    <3>1. timeline[i] \in Told /\ Seen(timeline[i])
      BY DEF Indices
    <3>2. timeline'[i] = timeline[i]
      BY <2>1 DEF Grows
    <3> QED
      BY <1>2, <3>1, <3>2 DEF Seen, Told, Stays
  <2>4. \A i \in 1..Len(timeline') : Seen(timeline[i])'
    BY <1>2, <2>1, <2>2, <2>3 DEF Seen
  <2>5. ASSUME NEW r \in Rooms, Me \in invited'[r] PROVE Shown(r)'
    <3>1. CASE Me \in invited[r]
      <4>1. PICK i \in Indices : timeline[i].room = r /\ timeline[i].shows \cap Peers # {}
        BY <3>1 DEF Shown
      <4>2. i \in 1..Len(timeline') /\ timeline'[i] = timeline[i]
        BY <1>0, <2>1, <4>1 DEF Grows, Indices
      <4> QED
        BY <4>1, <4>2 DEF Shown, Indices
    <3>2. CASE r = e.room /\ e.shows \cap Peers # {}
      <4>1. Len(timeline') \in 1..Len(timeline')
        BY <1>0, <2>1
      <4> QED
        BY <2>1, <3>2, <4>1 DEF Shown, Indices
    <3> QED
      BY <1>2, <2>5, <3>1, <3>2
  <2> QED
    BY <1>2, <2>1, <2>4, <2>5 DEF Indices
<1>3. CASE MadeRoom
  <2>1. PICK r \in Rooms, from \in Users, to \in Users :
           Me \in {from, to} /\ from # to /\ MakeRoom(r, from, to)
    BY <1>3 DEF MadeRoom
  <2> DEFINE e == IF from = Me THEN Event("join", r, Me, {Me}) ELSE Event("invite", r, from, {from})
  <2>2. /\ members' = [members EXCEPT ![r] = {from}] /\ invited' = [invited EXCEPT ![r] = {to}]
        /\ Tell(e) /\ members[r] = {} /\ invited[r] = {}
    BY <2>1 DEF MakeRoom, Unborn
  <2>3. e \in Told /\ e.room = r
    BY <1>0, <2>1 DEF Event, Told
  <2>4. Stays
    BY <1>0, <2>2 DEF Stays, With, Rooms
  <2>5. Seen(e)'
    <3>1. e.shows = {e.from} /\ e.from = from /\ from \in members'[r]
      BY <2>1, <2>2 DEF Event
    <3>2. e.type = "invite" => e.from \in Peers
      BY <2>1 DEF Event, Users
    <3> HIDE DEF e
    <3> QED
      BY <2>3, <3>1, <3>2 DEF Seen, With
  <2>6. \A q \in Rooms : Me \in invited'[q] =>
           Me \in invited[q] \/ (q = r /\ e.shows \cap Peers # {})
    <3>1. ASSUME Me = to PROVE e.shows \cap Peers # {}
      <4>1. from \in Peers /\ from # Me
        BY <2>1, <3>1 DEF Users
      <4> QED
        BY <4>1 DEF Event
    <3> QED
      BY <2>2, <3>1
  <2> HIDE DEF e
  <2> QED
    BY <1>2, <2>2, <2>3, <2>4, <2>5, <2>6
<1>4. CASE Entered
  <2>1. PICK r \in Rooms, user \in Users : EnterRoom(r, user)
    BY <1>4 DEF Entered
  <2>2. PICK e : e = Event("join", r, user, IF user = Me THEN members[r] \cup {Me} ELSE {user})
    OBVIOUS
  <2>3. /\ user \in invited[r] /\ Tell(e)
        /\ members' = [members EXCEPT ![r] = @ \cup {user}]
        /\ invited' = [invited EXCEPT ![r] = @ \ {user}]
    BY <2>1, <2>2 DEF EnterRoom
  <2>4. e \in Told /\ e.from = user /\ e.room = r /\ e.type = "join"
    BY <1>0, <2>2 DEF Event, Told
  <2>5. Stays
    BY <1>0, <2>3 DEF Stays, With, Rooms
  <2>6. user \in members'[r] /\ members[r] \subseteq members'[r]
    BY <2>3
  <2>7. e.shows \cap Peers \subseteq members'[r]
    BY <1>0, <2>2, <2>6 DEF Event
  <2>8. Seen(e)'
    BY <2>4, <2>6, <2>7 DEF Seen, With
  <2>9. \A q \in Rooms : /\ members'[q] = {} => invited'[q] = {}
                        /\ Me \in invited'[q] => Me \in invited[q]
    BY <2>3
  <2>10. /\ members' \in [Rooms -> SUBSET Users] /\ invited' \in [Rooms -> SUBSET Users]
    BY <2>3
  <2> QED
    BY <1>2, <2>3, <2>4, <2>5, <2>8, <2>9, <2>10
<1>5. CASE Spoke
  <2>1. PICK r \in Rooms, type \in Texts : \E user \in members[r] :
             Tell(Event(type, r, user, {})) /\ UNCHANGED <<members, invited>>
    BY <1>5 DEF Spoke
  <2>2. PICK user \in members[r] :
             Tell(Event(type, r, user, {})) /\ UNCHANGED <<members, invited>>
    BY <2>1
  <2> DEFINE e == Event(type, r, user, {})
  <2>3. e \in Told
    BY DEF Event, Told
  <2>4. Stays
    BY <2>2 DEF Stays, With
  <2>5. Seen(e)'
    BY <2>2 DEF Seen, Event, With, Texts
  <2> HIDE DEF e
  <2>6. Tell(e)
    BY <2>2 DEF e
  <2> QED
    BY <1>2, <2>2, <2>3, <2>4, <2>5, <2>6
<1>6. CASE WentOut
  <2>1. PICK r \in Rooms : /\ members[r] # {Me}
                           /\ members' = [members EXCEPT ![r] = @ \ {Me}]
                           /\ Tell(Event("leave", r, Me, {}))
                           /\ UNCHANGED invited
    BY <1>6 DEF WentOut
  <2> DEFINE e == Event("leave", r, Me, {})
  <2>2. e \in Told
    BY <1>0 DEF Event, Told
  <2>3. Stays
    BY <1>0, <2>1 DEF Stays, With, Rooms
  <2>4. Seen(e)'
    BY <1>0 DEF Seen, Event
  <2>5. \A q \in Rooms : members'[q] = {} => invited'[q] = {}
    <3>1. ASSUME NEW q \in Rooms, members'[q] = {} PROVE members[q] = {}
      BY <2>1, <3>1
    <3> QED
      BY <2>1, <3>1
  <2> HIDE DEF e
  <2>6. Tell(e)
    BY <2>1 DEF e
  <2> QED
    BY <1>2, <2>1, <2>2, <2>3, <2>4, <2>5, <2>6
<1> QED
  BY <1>1, <1>3, <1>4, <1>5, <1>6 DEF ServerStep


-----------------------------------------------------------------------------
(* The store.                                                              *)

Merged == /\ UNCHANGED server
          /\ rooms' = MergeRooms(rooms, In(Chunk)) /\ token' = Len(timeline)
StoreStep ==
    /\ phase' \in {"stopped", "first", "invites", "on"}
    /\ \/ UNCHANGED store
       \/ rooms' = NoRooms /\ token' = 0
       \/ \E s \in preserved : rooms' = s.rooms /\ token' = s.token
       \/ Merged
    /\ preserved' \subseteq preserved \/ preserved' = {[rooms |-> rooms', token |-> token']}

LEMMA StoreSteps ==
    ASSUME StoreInv, [Next]_vars
    PROVE  StoreStep
<1> USE DEF StoreStep
<1>0. phase \in {"stopped", "first", "invites", "on"}
  BY DEF StoreInv
<1>1. CASE UNCHANGED <<phase, store, preserved>>
  BY <1>0, <1>1
<1>2. CASE UNCHANGED <<phase, store>> /\ preserved' \in {preserved, {}}
  BY <1>0, <1>2
<1>3. CASE StopClient
  BY <1>3 DEF StopClient
<1>4. CASE StartClient
  <2>1. CASE preserved = {}
    BY <1>4, <2>1 DEF StartClient
  <2>2. CASE preserved # {}
    BY <1>4, <2>2 DEF StartClient
  <2> QED
    BY <2>1, <2>2
<1>5. CASE Relay \/ Connect
  BY <1>1, <1>4, <1>5 DEF Relay, Connect, Begin
<1>6. ASSUME NEW p \in Peers, SendMessage(p) \/ SendPairingResponse(p) \/ RemovePeer(p) \/ AddPeer(p)
      PROVE  StoreStep
  BY <1>1, <1>6 DEF SendMessage, SendPairingResponse, RemovePeer, AddPeer, Start, matrixVars
<1>7. CASE RemoveAllPeers \/ PollFails
  BY <1>1, <1>7 DEF RemoveAllPeers, PollFails
<1>8. CASE Disconnect
  BY <1>3, <1>8 DEF Disconnect, Stopped
<1>9. CASE Reload
  BY <1>9 DEF Reload
<1>10. ASSUME NEW c \in calls, Wait(c) \/ GiveUp(c) \/ Pair(c) \/ Put(c) PROVE StoreStep
  <2>1. CASE Wait(c) \/ GiveUp(c)
    BY <1>1, <2>1 DEF Wait, GiveUp, matrixVars
  <2>2. CASE Pair(c)
    BY <1>1, <2>2 DEF Pair
  <2>3. CASE Put(c)
    BY <1>1, <2>3 DEF Put
  <2> QED
    BY <1>10, <2>1, <2>2, <2>3
<1>11. ASSUME NEW c \in calls, Route(c) \/ Find(c) PROVE StoreStep
  <2>1. CASE Route(c)
    BY <1>2, <2>1 DEF Route, ForgetState
  <2>2. CASE Find(c)
    BY <1>2, <2>2 DEF Find, ForgetState
  <2> QED
    BY <1>11, <2>1, <2>2
<1>12. ASSUME NEW c \in calls, Create(c) PROVE StoreStep
  <2>1. CASE Stopped
    BY <1>3, <2>1 DEF Stopped
  <2>2. CASE UNCHANGED <<phase, store>> /\ preserved' \in {preserved, {}}
    BY <1>2, <2>2
  <2> QED
    BY <1>12, <2>1, <2>2 DEF Create
<1>13. ASSUME NEW c \in calls, Restart(c) PROVE StoreStep
  <2>1. CASE Begin
    BY <1>4, <2>1 DEF Begin
  <2>2. CASE phase' = "on" /\ UNCHANGED <<store, preserved>>
    BY <2>2
  <2> QED
    BY <1>1, <1>13, <2>1, <2>2 DEF Restart, matrixVars
<1>14. ASSUME NEW j \in joins, Join(j) PROVE StoreStep
  BY <1>1, <1>14 DEF Join
<1>15. CASE ListenKnown
  BY <1>15 DEF ListenKnown
<1>16. CASE Sync
  BY <1>0, <1>16 DEF Sync, PollSync, NextBatch, Merged
<1>17. CASE UNCHANGED vars
  BY <1>1, <1>17 DEF vars, matrixVars
<1> QED
  BY <1>5, <1>6, <1>7, <1>8, <1>9, <1>10, <1>11, <1>12, <1>13, <1>14, <1>15, <1>16, <1>17
     DEF Next, Environment, Code

\* What a chunk holds.
LEMMA ChunkIs ==
    ASSUME ServerTyped, token \in 0..Len(timeline)
    PROVE  In(Chunk) = {timeline[i] : i \in (token + 1)..Len(timeline)}
<1> DEFINE n == Len(timeline) - token
<1>1. /\ Len(timeline) \in Nat /\ n \in Nat
      /\ Len(Chunk) = n /\ \A i \in 1..n : Chunk[i] = timeline[token + i]
  BY DEF ServerTyped, Chunk
<1>2. ASSUME NEW i \in 1..n PROVE Chunk[i] \in {timeline[k] : k \in (token + 1)..Len(timeline)}
  <2>1. token + i \in (token + 1)..Len(timeline)
    BY <1>1
  <2> QED
    BY <1>1, <2>1
<1>3. ASSUME NEW i \in (token + 1)..Len(timeline) PROVE timeline[i] \in {Chunk[k] : k \in 1..n}
  <2>1. i - token \in 1..n /\ token + (i - token) = i
    BY <1>1
  <2> QED
    BY <1>1, <2>1
<1> QED
  BY <1>1, <1>2, <1>3 DEF In

\* A sync makes the rooms what the events up to its token show.
LEMMA MergeIsKept ==
    ASSUME ServerInv, Kept(rooms, token)
    PROVE  Kept(MergeRooms(rooms, In(Chunk)), Len(timeline))
<1> DEFINE es == In(Chunk)
           rs == MergeRooms(rooms, es)
           Of(r) == {e \in es : e.room = r}
<1>1. /\ Len(timeline) \in Nat
      /\ es = {timeline[i] : i \in (token + 1)..Len(timeline)}
      /\ \A i \in Indices : timeline[i] \in Told /\ Seen(timeline[i])
  BY ChunkIs DEF ServerInv, ServerTyped, Kept, Indices
<1>2. \A e \in es : e \in Told /\ Seen(e)
  BY <1>1 DEF Indices, Kept
<1> HIDE DEF es
<1>3. /\ rs = [r \in Rooms |-> rs[r]]
      /\ \A r \in Rooms : rs[r] = IF Of(r) = {} THEN rooms[r]
           ELSE [status |-> Membership(r),
                 members |-> rooms[r].members \cup UNION {e.shows : e \in Of(r)}]
  BY DEF MergeRooms
<1> HIDE DEF rs
<1>4. /\ rooms \in RoomStates
      /\ \A r \in Rooms : rooms[r] \in [status : Statuses, members : SUBSET Users]
  BY DEF Kept, RoomStates
<1>5. ASSUME NEW r \in Rooms
      PROVE  /\ rs[r].members = rooms[r].members \cup UNION {e.shows : e \in Of(r)}
             /\ rs[r].status = IF Of(r) = {} THEN rooms[r].status ELSE Membership(r)
             /\ rs[r] = [status |-> rs[r].status, members |-> rs[r].members]
  <2>1. rooms[r] = [status |-> rooms[r].status, members |-> rooms[r].members]
    BY <1>4
  <2>2. CASE Of(r) = {}
    BY <1>3, <2>1, <2>2
  <2>3. CASE Of(r) # {}
    <3>1. rs[r] = [status |-> Membership(r),
                   members |-> rooms[r].members \cup UNION {e.shows : e \in Of(r)}]
      BY <1>3, <2>3
    <3> HIDE DEF Of
    <3> QED
      BY <2>3, <3>1
  <2> QED
    BY <2>2, <2>3
<1>6. rs \in RoomStates
  <2>1. ASSUME NEW r \in Rooms PROVE rs[r] \in [status : Statuses, members : SUBSET Users]
    <3>1. \A e \in Of(r) : e.shows \subseteq Users
      BY <1>2 DEF Told
    <3>2. rooms[r].members \subseteq Users
      BY <1>4
    <3>3. rs[r].members \subseteq Users
      <4>1. rs[r].members = rooms[r].members \cup UNION {e.shows : e \in Of(r)}
        BY <1>5
      <4> HIDE DEF Of
      <4>2. UNION {e.shows : e \in Of(r)} \subseteq Users
        BY <3>1
      <4> QED
        BY <4>1, <4>2, <3>2
    <3>4. rs[r].status \in Statuses
      BY <1>4, <1>5 DEF Membership, Statuses
    <3>5. rs[r] = [status |-> rs[r].status, members |-> rs[r].members]
      BY <1>5
    <3> QED
      BY <3>3, <3>4, <3>5
  <2> QED
    BY <1>3, <2>1 DEF RoomStates
<1>7. ASSUME NEW i \in 1..Len(timeline) PROVE timeline[i].shows \subseteq rs[timeline[i].room].members
  <2>1. timeline[i].room \in Rooms
    BY <1>1 DEF Indices, Told
  <2>2. CASE i <= token
    <3>1. i \in 1..token
      BY <1>1, <2>2 DEF Kept
    <3> QED
      BY <1>5, <2>1, <3>1 DEF Kept, Faithful
  <2>3. CASE i > token
    <3>1. timeline[i] \in Of(timeline[i].room)
      BY <1>1, <2>3 DEF Kept
    <3>2. rs[timeline[i].room].members
             = rooms[timeline[i].room].members \cup UNION {e.shows : e \in Of(timeline[i].room)}
      BY <1>5, <2>1
    <3> HIDE DEF Of
    <3> QED
      BY <3>1, <3>2
  <2> QED
    BY <1>1, <2>2, <2>3 DEF Kept
<1>8. ASSUME NEW r \in Rooms, NEW p \in rs[r].members \cap Peers PROVE With(p, r)
  <2>1. CASE p \in rooms[r].members
    BY <2>1 DEF Kept, Faithful
  <2>2. CASE \E e \in Of(r) : p \in e.shows
    BY <1>2, <2>2 DEF Seen
  <2>3. p \in rooms[r].members \cup UNION {e.shows : e \in Of(r)}
    BY <1>5, <1>8
  <2>4. p \in rooms[r].members \/ \E e \in Of(r) : p \in e.shows
    <3> HIDE DEF Of
    <3> QED
      BY <2>3
  <2> QED
    BY <1>8, <2>1, <2>2, <2>4
<1>9. ASSUME NEW r \in Rooms, rs[r].status = "invited" PROVE rs[r].members \cap Peers # {}
  <2>1. CASE Of(r) = {}
    BY <1>5, <1>9, <2>1 DEF Kept, Faithful
  <2>2. CASE Of(r) # {}
    <3>1. Me \in invited[r]
      BY <1>5, <1>9, <2>2 DEF Membership
    <3>2. PICK i \in Indices : timeline[i].room = r /\ timeline[i].shows \cap Peers # {}
      BY <3>1 DEF ServerInv, Shown
    <3> QED
      BY <1>7, <3>2 DEF Indices
  <2> QED
    BY <2>1, <2>2
<1>10. Kept(rs, Len(timeline))
  BY <1>1, <1>6, <1>7, <1>8, <1>9 DEF Kept, Faithful
<1> QED
  BY <1>10 DEF rs, es

LEMMA KeptStays ==
    ASSUME ServerInv, ServerInv', Stays, Grows, NEW rs, NEW tk, Kept(rs, tk)
    PROVE  Kept(rs, tk)'
<1>1. Len(timeline) \in Nat /\ Len(timeline') \in Nat
  BY DEF ServerInv, ServerTyped
<1>2. tk \in 0..Len(timeline')
  BY <1>1 DEF Kept, Grows
<1>3. \A i \in 1..tk : timeline'[i] = timeline[i]
  BY <1>1 DEF Kept, Grows, Indices
<1>4. \A r \in Rooms : \A p \in rs[r].members \cap Peers : With(p, r)'
  BY DEF Kept, Faithful, Stays
<1>5. \A i \in 1..tk : timeline'[i].shows \subseteq rs[timeline'[i].room].members
  BY <1>3 DEF Kept, Faithful
<1> QED
  BY <1>2, <1>4, <1>5 DEF Kept, Faithful

LEMMA StoreKept ==
    ASSUME ServerInv, ServerInv', Stays, Grows, StoreInv, StoreStep
    PROVE  StoreInv'
<1>1. Kept(rooms, token)'
  <2>1. PICK rs, tk : rs = rooms' /\ tk = token'
    OBVIOUS
  <2>2. CASE UNCHANGED store
    <3>1. Kept(rs, tk)
      BY <2>1, <2>2 DEF StoreInv, store
    <3> QED
      BY <2>1, <3>1, KeptStays DEF Kept, Faithful
  <2>3. CASE rooms' = NoRooms /\ token' = 0
    <3>1. Kept(rs, tk)
      BY <2>1, <2>3 DEF Kept, Faithful, NoRooms, RoomStates, Statuses, ServerInv, ServerTyped
    <3> QED
      BY <2>1, <3>1, KeptStays DEF Kept, Faithful
  <2>4. CASE \E s \in preserved : rooms' = s.rooms /\ token' = s.token
    <3>1. Kept(rs, tk)
      BY <2>1, <2>4 DEF StoreInv
    <3> QED
      BY <2>1, <3>1, KeptStays DEF Kept, Faithful
  <2>5. CASE Merged
    <3>1. Kept(rs, tk)
      BY <2>1, <2>5, MergeIsKept DEF StoreInv, Merged
    <3> QED
      BY <2>1, <3>1, KeptStays DEF Kept, Faithful
  <2> QED
    BY <2>2, <2>3, <2>4, <2>5 DEF StoreStep
<1>2. ASSUME NEW s \in preserved' PROVE s \in [rooms : RoomStates, token : Nat] /\ Kept(s.rooms, s.token)'
  <2>1. CASE s \in preserved
    <3>1. PICK rs, tk : rs = s.rooms /\ tk = s.token
      OBVIOUS
    <3>2. Kept(rs, tk)
      BY <2>1, <3>1 DEF StoreInv
    <3>3. Kept(rs, tk)'
      BY <3>2, KeptStays
    <3> QED
      BY <2>1, <3>1, <3>3 DEF StoreInv
  <2>2. CASE s = [rooms |-> rooms', token |-> token']
    <3>1. rooms' \in RoomStates /\ token' \in Nat
      BY <1>1 DEF Kept
    <3> QED
      BY <1>1, <2>2, <3>1
  <2> QED
    BY <1>2, <2>1, <2>2 DEF StoreStep
<1>3. \A s, t \in preserved' : s = t
  BY DEF StoreInv, StoreStep
<1> QED
  BY <1>1, <1>2, <1>3 DEF StoreInv, StoreStep

-----------------------------------------------------------------------------
(* The rooms noted for the peers.                                          *)

\* What UpdateRooms leaves is right where the updates are.
LEMMA Rerouted ==
    ASSUME RoutesInv, Stays, NEW updates, UpdateRooms(updates),
           \A p \in Peers, r \in Rooms \cup {NoRoom} : <<p, r>> \in updates => With(p, r)'
    PROVE  RoutesInv'
<1>1. roomOf' \in Routed(updates) /\ ignored' \subseteq ignored \cup {NoRoom}
  BY DEF UpdateRooms, IgnoredAfter
<1>2. /\ roomOf' \in Routes
      /\ \A p \in Peers : roomOf'[p] = roomOf[p] \/ <<p, roomOf'[p]>> \in updates
  BY <1>1 DEF Routed
<1>3. ASSUME NEW p \in Peers PROVE With(p, roomOf[p])'
  <2>1. roomOf[p] \in Rooms \cup {NoRoom} /\ roomOf'[p] \in Rooms \cup {NoRoom}
    BY <1>2 DEF RoutesInv, Led, Routes
  <2>2. PICK r \in Rooms \cup {NoRoom} : r = roomOf'[p]
    BY <2>1
  <2>3. With(p, r)'
    BY <1>2, <2>1, <2>2 DEF RoutesInv, Led, Stays
  <2> QED
    BY <2>2, <2>3 DEF With
<1> QED
  BY <1>1, <1>2, <1>3 DEF RoutesInv, Led

\* Whoever sent a text is in its room.
LEMMA HeardFrom ==
    ASSUME ServerInv, RoutesInv, Stays, NEW S \in SUBSET Indices,
           UpdateRooms({<<timeline[i].from, timeline[i].room>> : i \in S})
    PROVE  RoutesInv'
<1> DEFINE updates == {<<timeline[i].from, timeline[i].room>> : i \in S}
<1>1. ASSUME NEW p \in Peers, NEW r \in Rooms \cup {NoRoom}, <<p, r>> \in updates
      PROVE  With(p, r)'
  <2>1. PICK i \in S : timeline[i].from = p /\ timeline[i].room = r
    BY <1>1
  <2>2. With(p, r)
    BY <2>1 DEF ServerInv, Seen
  <2> QED
    BY <2>2 DEF Stays
<1> HIDE DEF updates
<1>2. UpdateRooms(updates)
  BY DEF updates
<1> QED
  BY <1>1, <1>2, Rerouted

LEMMA NewRoom ==
    ASSUME ServerTyped, NEW r \in Rooms, NEW p, MakeRoom(r, Me, p)
    PROVE  With(p, r)'
BY DEF MakeRoom, With, ServerTyped

LEMMA RelevantRooms ==
    ASSUME StoreInv, NEW p \in Peers, NEW r \in Relevant(p)
    PROVE  r \in Rooms /\ With(p, r)
BY DEF Relevant, JoinedRooms, StoreInv, Kept, Faithful

\* Listening handles the event that was kept, and no other.
LEMMA Listening ==
    ASSUME HeardTyped, NEW ps, NEW n, NEW also, Listen(ps, n, also)
    PROVE  \E S \in SUBSET Indices :
              /\ S \subseteq {initialEvent} \ {0}
              /\ \A i \in S : timeline[i].from \in ps \ activeListeners
              /\ Hear(Messages(S, ps \ activeListeners))
              /\ UpdateRooms({<<timeline[i].from, timeline[i].room>> : i \in S})
<1> DEFINE new == ps \ activeListeners
<1>1. PICK is \in {{}, {initialEvent} \ {0}} :
         LET mine == {i \in is : timeline[i].from \in new}
         IN  /\ Hear(Messages(mine, new))
             /\ UpdateRooms({<<timeline[i].from, timeline[i].room>> : i \in mine})
  BY DEF Listen
<1> DEFINE mine == {i \in is : timeline[i].from \in new}
<1>2. mine \subseteq {initialEvent} \ {0} /\ mine \subseteq Indices
  BY DEF HeardTyped, Indices
<1>3. \A i \in mine : timeline[i].from \in new
  OBVIOUS
<1>4. /\ Hear(Messages(mine, new))
      /\ UpdateRooms({<<timeline[i].from, timeline[i].room>> : i \in mine})
  BY <1>1
<1> HIDE DEF mine
<1> QED
  BY <1>2, <1>3, <1>4

LEMMA RoutesNext ==
    ASSUME IInv, Stays, [Next]_vars
    PROVE  RoutesInv'
<1> USE DEF IInv
<1>1. CASE UNCHANGED <<roomOf, ignored>>
  <2>1. \A p \in Peers : roomOf[p] \in Rooms \cup {NoRoom}
    BY DEF RoutesInv, Led, Routes
  <2> QED
    BY <1>1, <2>1 DEF RoutesInv, Led, Stays
<1>2. CASE roomOf' = NoRoutes /\ ignored' \subseteq ignored
  BY <1>2 DEF RoutesInv, Led, NoRoutes, Routes, With
<1>3. ASSUME NEW r \in Rooms \cup {NoRoom}, DeleteRoom(r) PROVE RoutesInv'
  <2>1. \A p \in Peers : roomOf[p] \in Rooms \cup {NoRoom} /\ With(p, roomOf[p])
    BY DEF RoutesInv, Led, Routes
  <2>2. /\ roomOf' \in Routes
        /\ \A p \in Peers : roomOf'[p] = NoRoom \/ roomOf'[p] = roomOf[p]
    BY <1>3, <2>1 DEF DeleteRoom, Without, Routes
  <2>3. ASSUME NEW p \in Peers PROVE With(p, roomOf[p])'
    BY <2>1, <2>2 DEF Stays, With
  <2>4. ignored' \subseteq Rooms \cup {NoRoom}
    BY <1>3 DEF DeleteRoom, RoutesInv
  <2> QED
    BY <2>2, <2>3, <2>4 DEF RoutesInv, Led
<1>4. ASSUME NEW p \in Peers, NEW r \in Rooms \cup {NoRoom}, UpdateRooms({<<p, r>>}), With(p, r)'
      PROVE  RoutesInv'
  <2>1. \A q \in Peers, s \in Rooms \cup {NoRoom} : <<q, s>> \in {<<p, r>>} => With(q, s)'
    BY <1>4
  <2> QED
    BY <1>4, <2>1, Rerouted
<1>5. ASSUME NEW f, Led(f), NEW p \in Peers, NEW r \in Rooms \cup {NoRoom}, With(p, r),
             roomOf' = [f EXCEPT ![p] = r], UNCHANGED ignored
      PROVE  RoutesInv'
  <2>1. /\ f \in Routes /\ roomOf' \in Routes
        /\ \A q \in Peers : roomOf'[q] = IF q = p THEN r ELSE f[q]
    BY <1>5 DEF Routes, Led
  <2>2. ASSUME NEW q \in Peers PROVE With(q, roomOf[q])'
    <3>1. PICK s \in Rooms \cup {NoRoom} : s = roomOf'[q] /\ With(q, s)
      BY <1>5, <2>1 DEF Led, Routes
    <3> QED
      BY <3>1 DEF Stays, With
  <2> QED
    BY <1>5, <2>1, <2>2 DEF RoutesInv, Led
<1>6. CASE Relay /\ UNCHANGED roomVars
  BY <1>1, <1>6 DEF roomVars
<1>7. ASSUME NEW p \in Peers, SendMessage(p) \/ SendPairingResponse(p) \/ RemovePeer(p) \/ AddPeer(p)
      PROVE  RoutesInv'
  <2>1. CASE AddPeer(p)
    <3>1. PICK n : Listen({p}, n, {})
      BY <2>1 DEF AddPeer
    <3>2. PICK S \in SUBSET Indices : UpdateRooms({<<timeline[i].from, timeline[i].room>> : i \in S})
      BY <3>1, Listening DEF HeardInv
    <3> QED
      BY <3>2, HeardFrom
  <2> QED
    BY <1>1, <1>7, <2>1 DEF SendMessage, SendPairingResponse, RemovePeer, Start
<1>8. CASE RemoveAllPeers \/ Connect \/ PollFails
  BY <1>1, <1>8 DEF RemoveAllPeers, Connect, Begin, PollFails, roomVars
\* The handlers of joins that a stop cancels note rooms of their inviters.
<1>24. CASE Stopped
  <2>1. /\ roomOf' \in Routes
        /\ \A p \in Peers : roomOf'[p] = NoRoom \/ <<p, roomOf'[p]>> \in Noted
    BY <1>24 DEF Stopped
  <2>2. ASSUME NEW p \in Peers PROVE With(p, roomOf[p])'
    <3>1. CASE roomOf'[p] = NoRoom
      BY <3>1 DEF With
    <3>2. CASE <<p, roomOf'[p]>> \in Noted
      <4>1. PICK j \in joins : j.member = p /\ j.room = roomOf'[p] /\ j.member # NoRoom
        BY <3>2 DEF Noted
      <4>2. PICK r \in Rooms : r = j.room /\ With(p, r)
        BY <4>1 DEF JoinsInv, Tries
      <4>3. With(p, r)'
        BY <4>2 DEF Stays
      <4> QED
        BY <4>1, <4>2, <4>3 DEF With
    <3> QED
      BY <2>1, <3>1, <3>2
  <2>3. ignored' \subseteq ignored \cup {NoRoom}
    BY <1>24 DEF Stopped, IgnoredAfter
  <2> QED
    BY <2>1, <2>2, <2>3 DEF RoutesInv, Led
<1>9. CASE Disconnect
  BY <1>9, <1>24 DEF Disconnect
<1>10. CASE Reload
  <2>1. UNCHANGED roomOf /\ ignored' = {} /\ UNCHANGED server
    BY <1>10 DEF Reload
  <2> QED
    BY <2>1 DEF RoutesInv, Led, With, server
<1>11. ASSUME NEW c \in calls PROVE CallOK(c) /\ c.peer \in Peers /\ c.room \in Rooms \cup {NoRoom}
  BY DEF CallsInv, CallOK, Calls
<1>12. CASE ForgetState
  BY <1>1, <1>2, <1>12 DEF ForgetState
<1>13. ASSUME NEW c \in calls, Route(c) PROVE RoutesInv'
  <2>1. CASE UNCHANGED <<roomOf, ignored>>
    BY <1>1, <2>1
  <2>2. ASSUME NEW r \in Relevant(c.peer), roomOf' = [roomOf EXCEPT ![c.peer] = r], UNCHANGED ignored
        PROVE  RoutesInv'
    <3>1. r \in Rooms /\ With(c.peer, r)
      BY <1>11, RelevantRooms
    <3> QED
      BY <1>5, <1>11, <2>2, <3>1 DEF RoutesInv
  <2> QED
    BY <1>12, <1>13, <2>1, <2>2 DEF Route
<1>14. ASSUME NEW c \in calls, Create(c) PROVE RoutesInv'
  <2>1. CASE Stopped
    BY <1>24, <2>1
  <2>2. CASE UNCHANGED <<roomOf, ignored>>
    BY <1>1, <2>2
  <2> QED
    BY <1>14, <2>1, <2>2 DEF Create
<1>15. ASSUME NEW c \in calls, Wait(c) PROVE RoutesInv'
  <2>1. CASE UNCHANGED <<roomOf, ignored>>
    BY <1>1, <2>1
  <2>2. CASE UpdateRooms({<<c.peer, c.room>>})
    <3>1. With(c.peer, c.room)'
      BY <1>11 DEF CallOK, Stays
    <3> QED
      BY <1>4, <1>11, <2>2, <3>1
  <2>3. CASE roomOf' = [c.snapshot EXCEPT ![c.peer] = c.room] /\ UNCHANGED ignored
    BY <1>5, <1>11, <2>3 DEF CallOK
  <2> QED
    BY <1>15, <2>1, <2>2, <2>3 DEF Wait
<1>16. ASSUME NEW c \in calls, GiveUp(c) \/ Restart(c) PROVE RoutesInv'
  BY <1>1, <1>16 DEF GiveUp, Restart, Begin, roomVars
<1>17. ASSUME NEW c \in calls, Pair(c) PROVE RoutesInv'
  <2>1. CASE UNCHANGED <<roomOf, ignored>>
    BY <1>1, <2>1
  <2>2. ASSUME NEW r \in Rooms, MakeRoom(r, Me, c.peer), UpdateRooms({<<c.peer, r>>}) PROVE RoutesInv'
    BY <1>4, <1>11, <2>2, NewRoom DEF ServerInv
  <2>3. CASE DeleteRoom(roomOf[c.peer])
    <3>1. roomOf[c.peer] \in Rooms \cup {NoRoom}
      BY <1>11 DEF RoutesInv, Led, Routes
    <3> QED
      BY <1>3, <2>3, <3>1
  <2> QED
    BY <1>17, <2>1, <2>2, <2>3 DEF Pair
<1>18. ASSUME NEW c \in calls, Find(c) PROVE RoutesInv'
  <2>1. ASSUME NEW r \in Relevant(c.peer), UpdateRooms({<<c.peer, r>>}) PROVE RoutesInv'
    <3>1. r \in Rooms /\ With(c.peer, r)
      BY <1>11, RelevantRooms
    <3>2. With(c.peer, r)'
      BY <1>11, <3>1 DEF Stays
    <3> QED
      BY <1>4, <1>11, <2>1, <3>1, <3>2
  <2> QED
    BY <1>12, <1>18, <2>1 DEF Find
<1>19. ASSUME NEW c \in calls, Put(c) PROVE RoutesInv'
  <2>1. CASE UNCHANGED <<roomOf, ignored>>
    BY <1>1, <2>1
  <2>2. CASE DeleteRoom(c.room)
    BY <1>3, <1>11, <2>2
  <2> QED
    BY <1>19, <2>1, <2>2 DEF Put
<1>20. ASSUME NEW j \in joins, Join(j) PROVE RoutesInv'
  <2>1. j.room \in Rooms /\ j.member \in Peers \cup {NoRoom} /\ (j.member # NoRoom => With(j.member, j.room))
    BY DEF JoinsInv, Tries
  <2>2. UpdateRooms(IF j.member = NoRoom THEN {} ELSE {<<j.member, j.room>>})
    BY <1>20 DEF Join
  <2>3. CASE j.member = NoRoom
    <3>1. UpdateRooms({})
      BY <2>2, <2>3
    <3> QED
      BY <3>1, Rerouted
  <2>4. CASE j.member # NoRoom
    <3>1. UpdateRooms({<<j.member, j.room>>})
      BY <2>2, <2>4
    <3>2. With(j.member, j.room)'
      BY <2>1, <2>4 DEF Stays
    <3> QED
      BY <1>4, <2>1, <2>4, <3>1, <3>2
  <2> QED
    BY <2>3, <2>4
<1>21. CASE ListenKnown
  <2>1. PICK S \in SUBSET Indices : UpdateRooms({<<timeline[i].from, timeline[i].room>> : i \in S})
    BY <1>21, Listening DEF ListenKnown, HeardInv
  <2> QED
    BY <2>1, HeardFrom
<1>22. CASE Sync
  <2> DEFINE is == {i \in (token + 1)..Len(timeline) : timeline[i].type \in Texts}
             S == {i \in is : timeline[i].from \in {p \in Peers : callbacks[p] > 0}} \cup Openings(is)
  <2>1. UpdateRooms({<<timeline[i].from, timeline[i].room>> : i \in S})
    BY <1>22 DEF Sync
  <2>2. S \in SUBSET Indices
    BY DEF Openings, Indices, StoreInv, Kept, ServerInv, ServerTyped
  <2> HIDE DEF S
  <2> QED
    BY <2>1, <2>2, HeardFrom
<1>23. CASE UNCHANGED vars
  BY <1>1, <1>23 DEF vars, roomVars
<1> QED
  BY <1>6, <1>7, <1>8, <1>9, <1>10, <1>13, <1>14, <1>15, <1>16, <1>17, <1>18, <1>19, <1>20,
     <1>21, <1>22, <1>23 DEF Next, Environment, Code

-----------------------------------------------------------------------------
(* Invitations that are taken up.                                          *)

\* Whoever invites, or is found in a room that was joined as the client started,
\* is in that room.
LEMMA InvitedInRooms ==
    ASSUME ServerInv, ServerInv', StoreInv', UNCHANGED server, NEW start \in BOOLEAN,
           NEW es, \A e \in es : e \in Told /\ Seen(e)
    PROVE  /\ Invited(es, start) \subseteq Tries
           /\ \A j \in Invited(es, start) : j.member # NoRoom => With(j.member, j.room)
<1> DEFINE ByEvent == {[room |-> e.room, member |-> e.from, tries |-> 1, starting |-> FALSE] :
                          e \in {d \in es : d.type = "invite" /\ d.room \in Invitations(es)}}
           Other(r) == CHOOSE m \in rooms'[r].members : m # Me
           ByRoom == {[room |-> r, member |-> Other(r), tries |-> 1, starting |-> TRUE] :
                          r \in {q \in Rooms : start /\ rooms'[q].status = "invited"}}
<1>1. ASSUME NEW j \in ByEvent PROVE j \in Tries /\ With(j.member, j.room)
  <2>1. PICK e \in es : /\ j = [room |-> e.room, member |-> e.from, tries |-> 1, starting |-> FALSE]
                        /\ e.type = "invite"
    BY <1>1
  <2>2. e \in Told /\ e.from \in Peers /\ With(e.from, e.room)
    BY <2>1 DEF Seen
  <2> QED
    BY <2>1, <2>2, SendsAssumption DEF Told, Tries
<1>2. ASSUME NEW j \in ByRoom PROVE j \in Tries /\ With(j.member, j.room)
  <2>1. PICK r \in Rooms : /\ j = [room |-> r, member |-> Other(r), tries |-> 1, starting |-> TRUE]
                           /\ rooms'[r].status = "invited"
    BY <1>2
  <2>2. /\ rooms'[r].members \cap Peers # {}
        /\ \A p \in rooms'[r].members \cap Peers : With(p, r)'
        /\ rooms'[r].members \subseteq Users
    BY <2>1 DEF StoreInv, Kept, Faithful, RoomStates
  <2>3. \E m \in rooms'[r].members : m # Me
    BY <2>2, UsersAssumption
  <2>4. Other(r) \in rooms'[r].members /\ Other(r) # Me
    BY <2>3
  <2>5. Other(r) \in Peers
    BY <2>2, <2>4 DEF Users
  <2>6. With(Other(r), r)
    BY <2>2, <2>4, <2>5 DEF With, server
  <2> HIDE DEF Other
  <2> QED
    BY <2>1, <2>5, <2>6, SendsAssumption DEF Tries
<1>3. Invited(es, start) = ByEvent \cup ByRoom
  BY DEF Invited
<1> HIDE DEF ByEvent, ByRoom
<1> QED
  BY <1>1, <1>2, <1>3

\* What is joined after a step was joined before, or is tried again, or invited.
Rejoins == \E j \in joins : j.tries < JoinTries /\ joins' = (joins \ {j}) \cup {Retry(j)}
Survive == \E left \in SUBSET joins : joins' = {[j EXCEPT !.starting = FALSE] : j \in left}
JoinsGrow == joins' = joins \cup Invited(In(Chunk), phase = "first") /\ UNCHANGED server

LEMMA JoinSteps ==
    ASSUME [Next]_vars
    PROVE  joins' \subseteq joins \/ Rejoins \/ Survive \/ JoinsGrow
<1> USE DEF JoinsGrow
<1>0. ASSUME Stopped PROVE Survive
  BY <1>0 DEF Stopped, Survive
<1>1. CASE Relay /\ UNCHANGED joins
  BY <1>1
<1>2. ASSUME NEW p \in Peers, SendMessage(p) \/ SendPairingResponse(p) \/ RemovePeer(p) \/ AddPeer(p)
      PROVE  UNCHANGED joins
  BY <1>2 DEF SendMessage, SendPairingResponse, RemovePeer, AddPeer, Start
<1>3. CASE RemoveAllPeers \/ Connect \/ Disconnect \/ Reload \/ PollFails \/ ListenKnown
  BY <1>0, <1>3 DEF RemoveAllPeers, Connect, Begin, Disconnect, Reload, PollFails, ListenKnown
<1>4. ASSUME NEW c \in calls, Route(c) \/ Wait(c) \/ GiveUp(c) \/ Pair(c) \/ Find(c)
      PROVE  UNCHANGED joins
  BY <1>4 DEF Route, Wait, GiveUp, Pair, Find
<1>5. ASSUME NEW c \in calls, Create(c) \/ Restart(c) \/ Put(c) PROVE joins' \subseteq joins \/ Survive
  BY <1>0, <1>5 DEF Create, Restart, Begin, Put
<1>6. ASSUME NEW j \in joins, Join(j) PROVE joins' \subseteq joins \/ Rejoins
  BY <1>6 DEF Join, Rejoins
<1>7. CASE Sync
  BY <1>7 DEF Sync, PollSync
<1>8. CASE UNCHANGED vars
  BY <1>8 DEF vars
<1> QED
  BY <1>1, <1>2, <1>3, <1>4, <1>5, <1>6, <1>7, <1>8 DEF Next, Environment, Code

LEMMA JoinsNext ==
    ASSUME IInv, ServerInv', StoreInv', Stays, [Next]_vars
    PROVE  JoinsInv'
<1> USE DEF IInv
<1>1. ASSUME NEW j \in joins PROVE j \in Tries /\ (j.member # NoRoom => With(j.member, j.room)')
  BY DEF JoinsInv, Tries, Stays
<1>2. CASE joins' \subseteq joins
  BY <1>1, <1>2 DEF JoinsInv
<1>3. CASE Rejoins
  <2>1. PICK j \in joins : j.tries < JoinTries /\ joins' = (joins \ {j}) \cup {Retry(j)}
    BY <1>3 DEF Rejoins
  <2>2. Retry(j) \in Tries
    BY <2>1, SendsAssumption DEF JoinsInv, Tries, Retry
  <2>3. Retry(j).member = NoRoom
    BY DEF Retry
  <2> QED
    BY <1>1, <2>1, <2>2, <2>3 DEF JoinsInv
<1>5. CASE Survive
  <2>1. PICK left \in SUBSET joins : joins' = {[j EXCEPT !.starting = FALSE] : j \in left}
    BY <1>5 DEF Survive
  <2>2. ASSUME NEW k \in joins' PROVE k \in Tries /\ (k.member # NoRoom => With(k.member, k.room)')
    <3>1. PICK j \in joins : k = [j EXCEPT !.starting = FALSE]
      BY <2>1
    <3>2. k \in Tries /\ k.member = j.member /\ k.room = j.room
      BY <1>1, <3>1 DEF Tries
    <3> QED
      BY <1>1, <3>2
  <2> QED
    BY <2>2 DEF JoinsInv
<1>4. CASE JoinsGrow
  <2>1. \A e \in In(Chunk) : e \in Told /\ Seen(e)
    <3>1. In(Chunk) \subseteq {timeline[i] : i \in Indices}
      BY ChunkIs DEF ServerInv, ServerTyped, StoreInv, Kept, Indices
    <3> QED
      BY <3>1 DEF ServerInv, ServerTyped, Indices
  <2>2. \A j \in Invited(In(Chunk), phase = "first") :
           j \in Tries /\ (j.member # NoRoom => With(j.member, j.room))
    BY <1>4, <2>1, InvitedInRooms DEF JoinsGrow
  <2>3. \A j \in Invited(In(Chunk), phase = "first") : j.member # NoRoom => With(j.member, j.room)'
    BY <2>2 DEF Tries, Stays
  <2> QED
    BY <1>1, <1>4, <2>2, <2>3 DEF JoinsInv, JoinsGrow
<1> QED
  BY <1>2, <1>3, <1>4, <1>5, JoinSteps

-----------------------------------------------------------------------------
(* The sends.                                                              *)

\* What a step does to the sends: some end; one goes on, as d; one starts; the
\* text of one is taken, and it ends.
GoesOn(c, d) ==
    /\ d \in Calls /\ d.n = c.n
    /\ With(d.peer, d.room)' /\ d.snapshot \in Routes
    /\ \A p \in Peers : With(p, d.snapshot[p])'
    /\ d.pc \in {"wait", "join", "put"} => d.room # NoRoom
    /\ calls' \subseteq (calls \ {c}) \cup {d}
Ends == calls' \subseteq calls /\ UNCHANGED delivered
Follows == (\E c \in calls, d \in Calls : GoesOn(c, d)) /\ UNCHANGED delivered
Starts == \E d \in Calls : /\ d.n = Len(delivered) + 1
                           /\ d.room = NoRoom /\ d.snapshot = NoRoutes
                           /\ d.pc \notin {"wait", "join", "put"}
                           /\ calls' = calls \cup {d}
                           /\ delivered' = Append(delivered, 0)
Taken == \E c \in calls : calls' = calls \ {c} /\ delivered' = [delivered EXCEPT ![c.n] = @ + 1]
CallStep == Ends \/ Follows \/ Starts \/ Taken

LEMMA CallsKept ==
    ASSUME CallsInv, Stays, CallStep
    PROVE  CallsInv'
<1>0. /\ delivered \in Seq({0, 1}) /\ Len(delivered) \in Nat
      /\ \A c \in calls : c.n \in 1..Len(delivered)
  BY DEF CallsInv, CallOK, Calls
<1>1. ASSUME NEW c \in calls PROVE CallOK(c)'
  <2>1. CallOK(c) /\ c \in Calls
    BY DEF CallsInv, CallOK
  <2>2. With(c.peer, c.room)'
    BY <2>1 DEF CallOK, Calls, Stays
  <2>3. \A p \in Peers : With(p, c.snapshot[p])'
    BY <2>1 DEF CallOK, Led, Calls, Routes, Stays
  <2> QED
    BY <2>1, <2>2, <2>3 DEF CallOK, Led
<1>2. CASE Ends
  BY <1>1, <1>2 DEF Ends, CallsInv
<1>3. CASE Follows
  <2>1. PICK c \in calls, d \in Calls : GoesOn(c, d)
    BY <1>3 DEF Follows
  <2>2. CallOK(d)'
    BY <2>1 DEF GoesOn, CallOK, Led
  <2>3. d.n <= Len(delivered) /\ delivered[d.n] = 0 /\ \A b \in calls : b.n = d.n => b = c
    BY <2>1 DEF GoesOn, CallsInv
  <2> QED
    BY <1>1, <1>3, <2>1, <2>2, <2>3 DEF GoesOn, Follows, CallsInv
<1>4. CASE Starts
  <2>1. PICK d \in Calls : /\ d.n = Len(delivered) + 1
                           /\ d.room = NoRoom /\ d.snapshot = NoRoutes
                           /\ d.pc \notin {"wait", "join", "put"}
                           /\ calls' = calls \cup {d}
                           /\ delivered' = Append(delivered, 0)
    BY <1>4 DEF Starts
  <2>2. CallOK(d)'
    BY <2>1 DEF CallOK, Led, With, NoRoutes, Routes
  <2>3. /\ delivered' \in Seq({0, 1}) /\ Len(delivered') = Len(delivered) + 1
        /\ delivered'[Len(delivered) + 1] = 0
        /\ \A n \in 1..Len(delivered) : delivered'[n] = delivered[n]
    BY <1>0, <2>1
  <2>4. \A c \in calls : c.n <= Len(delivered') /\ delivered'[c.n] = 0 /\ c.n # d.n
    BY <1>0, <2>1, <2>3 DEF CallsInv
  <2> QED
    BY <1>0, <1>1, <2>1, <2>2, <2>3, <2>4 DEF CallsInv
<1>5. CASE Taken
  <2>1. PICK c \in calls : calls' = calls \ {c} /\ delivered' = [delivered EXCEPT ![c.n] = @ + 1]
    BY <1>5 DEF Taken
  <2>2. c.n \in 1..Len(delivered) /\ delivered[c.n] = 0
    BY <1>0 DEF CallsInv
  <2>3. /\ delivered' \in Seq({0, 1}) /\ Len(delivered') = Len(delivered)
        /\ \A n \in 1..Len(delivered) : n # c.n => delivered'[n] = delivered[n]
    BY <1>0, <2>1, <2>2
  <2>4. \A b \in calls \ {c} : b.n # c.n
    BY DEF CallsInv
  <2>5. \A b \in calls \ {c} : b.n <= Len(delivered') /\ delivered'[b.n] = 0
    BY <1>0, <2>3, <2>4 DEF CallsInv
  <2> QED
    BY <1>1, <2>1, <2>3, <2>5 DEF CallsInv
<1> QED
  BY <1>2, <1>3, <1>4, <1>5 DEF CallStep

LEMMA CallSteps ==
    ASSUME IInv, Stays, [Next]_vars
    PROVE  CallStep
<1> USE DEF CallStep
<1>0. ASSUME NEW c \in calls
      PROVE  /\ c \in Calls /\ c.peer \in Peers /\ c.room \in Rooms \cup {NoRoom}
             /\ With(c.peer, c.room)'
             /\ c.snapshot \in Routes /\ \A p \in Peers : With(p, c.snapshot[p])'
             /\ c.pc \in {"wait", "join", "put"} => c.room # NoRoom
  <2>1. CallOK(c) /\ c \in Calls
    BY DEF IInv, CallsInv, CallOK
  <2> QED
    BY <2>1 DEF CallOK, Led, Calls, Routes, Stays
\* The same send, at another step and in another room.
<1>1. ASSUME NEW c \in calls, NEW d \in Calls, d.n = c.n, d.peer = c.peer, With(c.peer, d.room)',
             d.snapshot = c.snapshot, d.pc \in {"wait", "join", "put"} => d.room # NoRoom,
             calls' \subseteq (calls \ {c}) \cup {d}, UNCHANGED delivered
      PROVE  CallStep
  BY <1>0, <1>1 DEF Follows, GoesOn
<1>2. ASSUME NEW c \in calls, NEW step \in Steps, Become(c, GoTo(c, step)), UNCHANGED delivered,
             step \in {"wait", "join", "put"} => c.room # NoRoom
      PROVE  CallStep
  <2> DEFINE d == GoTo(c, step)
  <2>1. /\ d \in Calls /\ d.n = c.n /\ d.peer = c.peer /\ d.room = c.room
        /\ d.snapshot = c.snapshot /\ d.pc = step
    BY <1>0 DEF GoTo, Calls
  <2>2. calls' \subseteq (calls \ {c}) \cup {d}
    BY <1>2 DEF Become
  <2> HIDE DEF d
  <2> QED
    BY <1>0, <1>1, <1>2, <2>1, <2>2
<1>3. ASSUME NEW c \in calls, NEW step \in Steps, NEW r \in Rooms, With(c.peer, r)',
             Become(c, [GoTo(c, step) EXCEPT !.room = r]), UNCHANGED delivered
      PROVE  CallStep
  <2> DEFINE d == [GoTo(c, step) EXCEPT !.room = r]
  <2>1. /\ d \in Calls /\ d.n = c.n /\ d.peer = c.peer /\ d.room = r
        /\ d.snapshot = c.snapshot /\ d.pc = step
    BY <1>0 DEF GoTo, Calls
  <2>2. calls' \subseteq (calls \ {c}) \cup {d}
    BY <1>3 DEF Become
  <2>3. d.room # NoRoom
    BY <2>1 DEF Rooms, NoRoom
  <2> HIDE DEF d
  <2> QED
    BY <1>0, <1>1, <1>3, <2>1, <2>2, <2>3
<1>4. CASE calls' \subseteq calls /\ UNCHANGED delivered
  BY <1>4 DEF Ends
<1>5. ASSUME NEW op \in {"send", "pair"}, NEW p \in Peers, NEW step \in {"route", "pair"}, Start(op, p, step)
      PROVE  CallStep
  <2> DEFINE d == [n |-> Len(delivered) + 1, op |-> op, peer |-> p, pc |-> step,
                   room |-> NoRoom, snapshot |-> NoRoutes, restarted |-> FALSE, resent |-> FALSE]
  <2>1. Len(delivered) \in Nat /\ Len(delivered) < MaxSends
    BY <1>5 DEF Start, IInv, CallsInv
  <2>2. Len(delivered) + 1 \in 1..MaxSends
    BY <2>1, SendsAssumption
  <2>3. d \in Calls
    BY <2>2 DEF Calls, Steps, NoRoutes, Routes
  <2> QED
    BY <1>5, <2>3 DEF Start, Starts
<1>6. CASE Relay /\ UNCHANGED <<calls, ghosts>>
  BY <1>4, <1>6 DEF ghosts
<1>7. ASSUME NEW p \in Peers, SendMessage(p) \/ SendPairingResponse(p) \/ RemovePeer(p) \/ AddPeer(p)
      PROVE  CallStep
  BY <1>4, <1>5, <1>7 DEF SendMessage, SendPairingResponse, RemovePeer, AddPeer, ghosts
<1>8. CASE RemoveAllPeers \/ Connect \/ Disconnect \/ Reload \/ PollFails
  BY <1>4, <1>8 DEF RemoveAllPeers, Connect, Begin, Disconnect, Stopped, Reload, PollFails, ghosts
<1>9. ASSUME NEW c \in calls, Route(c) PROVE CallStep
  <2>1. CASE /\ roomOf[c.peer] # NoRoom
             /\ Become(c, [GoTo(c, "put") EXCEPT !.room = roomOf[c.peer]])
    <3>1. roomOf[c.peer] \in Rooms /\ With(c.peer, roomOf[c.peer])
      BY <1>0, <2>1 DEF IInv, RoutesInv, Led, Routes
    <3>2. PICK r \in Rooms : r = roomOf[c.peer] /\ With(c.peer, r)'
      BY <1>0, <3>1 DEF Stays
    <3> QED
      BY <1>3, <1>9, <2>1, <3>2 DEF Route, ghosts, Steps
  <2>2. ASSUME NEW r \in Relevant(c.peer), Become(c, [GoTo(c, "put") EXCEPT !.room = r])
        PROVE  CallStep
    <3>1. r \in Rooms /\ With(c.peer, r)'
      BY <1>0, RelevantRooms DEF Stays, IInv
    <3> QED
      BY <1>3, <1>9, <2>2, <3>1 DEF Route, ghosts, Steps
  <2>3. CASE Become(c, [GoTo(c, "create") EXCEPT !.snapshot = roomOf])
    <3>1. PICK f : f = roomOf
      OBVIOUS
    <3> DEFINE d == [GoTo(c, "create") EXCEPT !.snapshot = f]
    <3>2. f \in Routes /\ \A p \in Peers : With(p, f[p])'
      BY <3>1 DEF IInv, RoutesInv, Led, Routes, Stays
    <3>3. /\ d \in Calls /\ d.n = c.n /\ d.peer = c.peer /\ d.room = c.room
          /\ d.snapshot = f /\ d.pc = "create"
      BY <1>0, <3>2 DEF GoTo, Calls, Steps
    <3>4. calls' \subseteq (calls \ {c}) \cup {d} /\ UNCHANGED delivered
      BY <1>9, <2>3, <3>1 DEF Become, Route, ghosts
    <3> HIDE DEF d
    <3> QED
      BY <1>0, <3>2, <3>3, <3>4 DEF Follows, GoesOn
  <2> QED
    BY <1>9, <2>1, <2>2, <2>3 DEF Route
<1>10. ASSUME NEW c \in calls, Create(c) PROVE CallStep
  <2>0. UNCHANGED delivered
    BY <1>10 DEF Create, ghosts
  <2>1. ASSUME NEW r \in Rooms, MakeRoom(r, Me, c.peer), Become(c, [GoTo(c, "wait") EXCEPT !.room = r])
        PROVE  CallStep
    BY <1>3, <2>0, <2>1, NewRoom DEF Steps, IInv, ServerInv
  <2>2. CASE Finish(c)
    BY <1>4, <2>0, <2>2 DEF Finish
  <2>3. CASE /\ c.pc = "create"
             /\ calls' = (calls \ Cancelled) \cup {[GoTo(c, "start") EXCEPT !.restarted = TRUE]}
    <3> DEFINE d == [GoTo(c, "start") EXCEPT !.restarted = TRUE]
    <3>1. /\ d \in Calls /\ d.n = c.n /\ d.peer = c.peer /\ d.room = c.room
          /\ d.snapshot = c.snapshot /\ d.pc = "start"
      BY <1>0 DEF GoTo, Calls, Steps
    <3>2. calls' \subseteq (calls \ {c}) \cup {d}
      BY <2>3 DEF Cancelled
    <3> HIDE DEF d
    <3> QED
      BY <1>0, <1>1, <2>0, <3>1, <3>2
  <2> QED
    BY <1>10, <2>1, <2>2, <2>3 DEF Create
<1>11. ASSUME NEW c \in calls, Wait(c) PROVE CallStep
  BY <1>0, <1>2, <1>11 DEF Wait, ghosts, Steps
<1>12. ASSUME NEW c \in calls, GiveUp(c) PROVE CallStep
  BY <1>4, <1>12 DEF GiveUp, Finish, ghosts
<1>13. ASSUME NEW c \in calls, Pair(c) PROVE CallStep
  <2>0. UNCHANGED delivered
    BY <1>13 DEF Pair, ghosts
  <2>1. ASSUME NEW r \in Rooms, MakeRoom(r, Me, c.peer), Become(c, [GoTo(c, "join") EXCEPT !.room = r])
        PROVE  CallStep
    BY <1>3, <2>0, <2>1, NewRoom DEF Steps, IInv, ServerInv
  <2>2. CASE Finish(c)
    BY <1>4, <2>0, <2>2 DEF Finish
  <2>3. CASE Become(c, GoTo(c, "find"))
    BY <1>2, <2>0, <2>3 DEF Steps
  <2> QED
    BY <1>13, <2>1, <2>2, <2>3 DEF Pair
<1>14. ASSUME NEW c \in calls, Find(c) PROVE CallStep
  <2>0. UNCHANGED delivered
    BY <1>14 DEF Find, ghosts
  <2>1. ASSUME NEW r \in Relevant(c.peer), Become(c, [GoTo(c, "join") EXCEPT !.room = r])
        PROVE  CallStep
    <3>1. r \in Rooms /\ With(c.peer, r)'
      BY <1>0, RelevantRooms DEF Stays, IInv
    <3> QED
      BY <1>3, <2>0, <2>1, <3>1 DEF Steps
  <2>2. CASE Become(c, GoTo(c, "create"))
    BY <1>2, <2>0, <2>2 DEF Steps
  <2> QED
    BY <1>14, <2>1, <2>2 DEF Find
<1>15. ASSUME NEW c \in calls, Restart(c) PROVE CallStep
  <2>1. CASE Begin /\ UNCHANGED calls
    BY <1>4, <2>1 DEF Begin
  <2>2. CASE Become(c, GoTo(c, "find")) /\ UNCHANGED ghosts
    BY <1>2, <2>2 DEF Steps, ghosts
  <2>3. CASE Finish(c) /\ UNCHANGED ghosts
    BY <1>4, <2>3 DEF Finish, ghosts
  <2> QED
    BY <1>15, <2>1, <2>2, <2>3 DEF Restart
<1>16. ASSUME NEW c \in calls, Put(c) PROVE CallStep
  <2> DEFINE d == [GoTo(c, "route") EXCEPT !.resent = TRUE, !.room = NoRoom]
  <2>1. PICK outcome \in {"taken", "refused", "failed", "unanswered"} :
          /\ IF outcome \in {"taken", "unanswered"}
             THEN delivered' = [delivered EXCEPT ![c.n] = @ + 1] ELSE UNCHANGED delivered
          /\ IF Resent(outcome) /\ ~c.resent THEN Become(c, d) ELSE Finish(c)
    BY <1>16 DEF Put
  <2>2. CASE outcome \in {"taken", "unanswered"}
    BY <2>1, <2>2 DEF Resent, Finish, Taken
  <2>3. CASE outcome \notin {"taken", "unanswered"} /\ Finish(c)
    BY <1>4, <2>1, <2>3 DEF Finish
  <2>4. CASE outcome \notin {"taken", "unanswered"} /\ Become(c, d)
    <3>1. /\ d \in Calls /\ d.n = c.n /\ d.peer = c.peer /\ d.room = NoRoom
          /\ d.snapshot = c.snapshot /\ d.pc = "route"
      BY <1>0 DEF GoTo, Calls, Steps
    <3>2. calls' \subseteq (calls \ {c}) \cup {d} /\ UNCHANGED delivered
      BY <2>1, <2>4 DEF Become
    <3>3. With(c.peer, NoRoom)'
      BY DEF With
    <3> HIDE DEF d
    <3> QED
      BY <1>1, <3>1, <3>2, <3>3
  <2> HIDE DEF d
  <2> QED
    BY <2>1, <2>2, <2>3, <2>4
<1>17. ASSUME NEW j \in joins, Join(j) PROVE CallStep
  BY <1>4, <1>17 DEF Join, ghosts
<1>18. CASE Sync \/ ListenKnown
  BY <1>4, <1>18 DEF Sync, ListenKnown
<1>19. CASE UNCHANGED vars
  BY <1>4, <1>19 DEF vars, ghosts
<1> QED
  BY <1>6, <1>7, <1>8, <1>9, <1>10, <1>11, <1>12, <1>13, <1>14, <1>15, <1>16, <1>17, <1>18,
     <1>19 DEF Next, Environment, Code

-----------------------------------------------------------------------------
(* What is heard.                                                          *)

LEMMA RestNext ==
    ASSUME IInv, [Next]_vars
    PROVE  RestTyped'
<1> USE MatrixBounds DEF IInv, RestTyped, Happen, FailOnce
<1>0. Me \in Users /\ Peers \subseteq Users /\ \A c \in calls : c.peer \in Peers
  BY DEF Users, CallsInv, CallOK, Calls
<1>1. CASE Relay /\ UNCHANGED <<isWallet, roomVars, listeners>>
  <2>1. events' \in 0..MaxEvents
    BY <1>1 DEF Relay, PeerInvites, PeerJoins, PeerSends, PutOut
  <2> QED
    BY <1>1, <2>1 DEF Relay, roomVars, listeners
<1>2. ASSUME NEW p \in Peers, SendMessage(p) \/ SendPairingResponse(p) \/ RemovePeer(p)
      PROVE  RestTyped'
  BY <1>2 DEF SendMessage, SendPairingResponse, RemovePeer, Start, matrixVars, listeners
<1>3. ASSUME NEW p \in Peers, AddPeer(p) PROVE RestTyped'
  <2>1. PICK n \in 1..adding[p] : adding' = [adding EXCEPT ![p] = @ - n] /\ Listen({p}, n, {})
    BY <1>3 DEF AddPeer
  <2>2. adding' \in [Peers -> Nat]
    <3>1. adding[p] \in Nat /\ n \in Nat /\ adding[p] - n \in Nat
      BY <2>1
    <3> QED
      BY <2>1, <3>1
  <2>3. subscribed' \subseteq {Me, "channel"}
    BY <2>1 DEF Listen
  <2> QED
    BY <1>3, <2>2, <2>3 DEF AddPeer, matrixVars
<1>4. CASE RemoveAllPeers
  BY <1>4 DEF RemoveAllPeers
<1>5. CASE Connect
  BY <1>0, <1>5 DEF Connect, Begin, StartClient, roomVars
<1>6. CASE Disconnect
  BY <1>6 DEF Disconnect, Stopped
<1>7. CASE Reload
  BY <1>7 DEF Reload, None
<1>8. CASE PollFails
  BY <1>8 DEF PollFails, roomVars, listeners
<1>9. ASSUME NEW c \in calls, Route(c) \/ Wait(c) \/ GiveUp(c) \/ Find(c) PROVE RestTyped'
  BY <1>9 DEF Route, Wait, GiveUp, Find, matrixVars, roomVars, listeners
<1>10. ASSUME NEW c \in calls, Create(c) PROVE RestTyped'
  <2>1. failures' \in 0..MaxFailures
    BY <1>10 DEF Create, Stopped
  <2>2. subscribed' \in {subscribed, {}}
    BY <1>10 DEF Create, Stopped
  <2> QED
    BY <1>10, <2>1, <2>2 DEF Create
<1>11. ASSUME NEW c \in calls, Pair(c) PROVE RestTyped'
  <2>1. failures' \in 0..MaxFailures
    BY <1>11 DEF Pair
  <2> QED
    BY <1>11, <2>1 DEF Pair, listeners
<1>12. ASSUME NEW c \in calls, Restart(c) PROVE RestTyped'
  BY <1>0, <1>12 DEF Restart, Begin, StartClient, matrixVars, roomVars, listeners
<1>13. ASSUME NEW c \in calls, Put(c) PROVE RestTyped'
  <2>1. failures' \in 0..MaxFailures
    BY <1>13 DEF Put
  <2> QED
    BY <1>13, <2>1 DEF Put, listeners
<1>14. ASSUME NEW j \in joins, Join(j) PROVE RestTyped'
  <2>1. failures' \in 0..MaxFailures
    BY <1>14 DEF Join
  <2> QED
    BY <1>14, <2>1 DEF Join, listeners
<1>15. CASE ListenKnown
  BY <1>0, <1>15 DEF ListenKnown, Listen
<1>16. CASE Sync
  <2> DEFINE is == {i \in (token + 1)..Len(timeline) : timeline[i].type \in Texts}
             Of(p) == {i \in Openings(is) : timeline[i].from = p}
  <2>1. ASSUME NEW p \in Peers PROVE Cardinality(Of(p)) \in Nat
    <3>1. token \in Nat /\ Len(timeline) \in Nat
      BY DEF ServerInv, ServerTyped, StoreInv, Kept
    <3>2. IsFiniteSet((token + 1)..Len(timeline))
      BY <3>1, FS_Interval
    <3>3. Of(p) \subseteq (token + 1)..Len(timeline)
      BY DEF Openings
    <3> HIDE DEF Of
    <3> QED
      BY <3>2, <3>3, FS_Subset, FS_CardinalityType
  <2>2. adding' = [p \in Peers |-> adding[p] + Cardinality(Of(p))]
    BY <1>16 DEF Sync
  <2> HIDE DEF Of
  <2>3. adding' \in [Peers -> Nat]
    BY <2>1, <2>2
  <2> QED
    BY <1>16, <2>3 DEF Sync, PollSync
<1>17. CASE UNCHANGED vars
  BY <1>17 DEF vars, matrixVars, roomVars, listeners
<1> QED
  BY <1>1, <1>2, <1>3, <1>4, <1>5, <1>6, <1>7, <1>8, <1>9, <1>10, <1>11, <1>12, <1>13, <1>14,
     <1>15, <1>16, <1>17 DEF Next, Environment, Code

\* A peer is listened to twice only where calls overlap.
LEMMA ListenersByListening ==
    ASSUME ListenersInv, NEW ps \in SUBSET Peers, NEW n \in Nat \ {0}, NEW also, Listen(ps, n, also)
    PROVE  ListenersInv'
<1> DEFINE new == ps \ activeListeners
<1>1. /\ activeListeners' = activeListeners \cup new
      /\ callbacks' = [p \in Peers |-> callbacks[p] + IF p \in new THEN n ELSE 0]
      /\ overlapped' = overlapped \cup {p \in new : n > 1}
  BY DEF Listen
<1>2. callbacks' \in [Peers -> Nat]
  BY <1>1 DEF ListenersInv
<1>3. ASSUME NEW p \in Peers \ overlapped'
      PROVE  callbacks'[p] <= 1 /\ (callbacks'[p] = 1 => p \in activeListeners')
  <2>1. p \notin overlapped /\ callbacks[p] \in Nat /\ callbacks[p] <= 1
    BY <1>1 DEF ListenersInv
  <2>2. CASE p \in new
    <3>1. n = 1 /\ callbacks[p] = 0
      <4>1. ~(n > 1) /\ p \notin activeListeners
        BY <1>1, <2>2
      <4>2. callbacks[p] # 1
        BY <2>1, <4>1 DEF ListenersInv
      <4> QED
        BY <2>1, <4>1, <4>2
    <3> QED
      BY <1>1, <2>2, <3>1
  <2>3. CASE p \notin new
    <3>1. callbacks'[p] = callbacks[p]
      BY <1>1, <2>1, <2>3
    <3> QED
      BY <1>1, <2>1, <3>1 DEF ListenersInv
  <2> QED
    BY <2>2, <2>3
<1> QED
  BY <1>1, <1>2, <1>3 DEF ListenersInv

LEMMA ListenersNext ==
    ASSUME IInv, [Next]_vars
    PROVE  ListenersInv'
<1>0. ListenersInv
  BY DEF IInv
<1>1. CASE UNCHANGED <<activeListeners, callbacks, overlapped>>
  BY <1>0, <1>1 DEF ListenersInv
<1>2. CASE callbacks' = None /\ activeListeners' \subseteq activeListeners /\ UNCHANGED overlapped
  BY <1>0, <1>2 DEF ListenersInv, None
<1>3. CASE Relay /\ UNCHANGED <<listeners, ghosts>>
  BY <1>1, <1>3 DEF listeners, ghosts
<1>4. ASSUME NEW p \in Peers, SendMessage(p) \/ SendPairingResponse(p) PROVE ListenersInv'
  BY <1>1, <1>4 DEF SendMessage, SendPairingResponse, Start, listeners
<1>5. ASSUME NEW p \in Peers, AddPeer(p) PROVE ListenersInv'
  <2>1. adding[p] \in Nat
    BY DEF IInv, RestTyped
  <2>2. PICK n \in 1..adding[p] : Listen({p}, n, {})
    BY <1>5 DEF AddPeer
  <2>3. n \in Nat \ {0}
    BY <2>1
  <2> QED
    BY <1>0, <2>2, <2>3, ListenersByListening
<1>6. ASSUME NEW p \in Peers, RemovePeer(p) PROVE ListenersInv'
  <2>1. /\ activeListeners' = activeListeners \ {p} /\ UNCHANGED overlapped
        /\ callbacks' = [callbacks EXCEPT ![p] = IF p \in activeListeners /\ @ > 0 THEN @ - 1 ELSE @]
    BY <1>6 DEF RemovePeer, ghosts
  <2>2. /\ callbacks' \in [Peers -> Nat]
        /\ \A q \in Peers : q # p => callbacks'[q] = callbacks[q]
        /\ callbacks'[p] = IF p \in activeListeners /\ callbacks[p] > 0 THEN callbacks[p] - 1 ELSE callbacks[p]
    BY <1>0, <2>1 DEF ListenersInv
  <2>3. p \notin overlapped => callbacks'[p] = 0
    BY <1>0, <2>2 DEF ListenersInv
  <2> QED
    BY <1>0, <2>1, <2>2, <2>3 DEF ListenersInv
<1>7. CASE RemoveAllPeers
  BY <1>2, <1>7 DEF RemoveAllPeers, ghosts
<1>8. CASE Connect \/ PollFails
  BY <1>1, <1>8 DEF Connect, Begin, PollFails, listeners, ghosts
<1>9. CASE Stopped
  BY <1>2, <1>9 DEF Stopped, ghosts
<1>10. CASE Disconnect \/ Reload
  BY <1>2, <1>9, <1>10 DEF Disconnect, Reload, ghosts
<1>11. ASSUME NEW c \in calls, Route(c) \/ Wait(c) \/ GiveUp(c) \/ Pair(c) \/ Find(c) PROVE ListenersInv'
  BY <1>1, <1>11 DEF Route, Wait, GiveUp, Pair, Find, listeners, ghosts
<1>12. ASSUME NEW c \in calls, Create(c) PROVE ListenersInv'
  <2>1. CASE Stopped
    BY <1>9, <2>1
  <2>2. CASE UNCHANGED <<callbacks, activeListeners, ghosts>>
    BY <1>1, <2>2 DEF ghosts
  <2> QED
    BY <1>12, <2>1, <2>2 DEF Create
<1>13. ASSUME NEW c \in calls, Restart(c) PROVE ListenersInv'
  BY <1>1, <1>13 DEF Restart, Begin, listeners, ghosts
<1>14. ASSUME NEW c \in calls, Put(c) PROVE ListenersInv'
  BY <1>1, <1>14 DEF Put, listeners
<1>15. ASSUME NEW j \in joins, Join(j) PROVE ListenersInv'
  BY <1>1, <1>15 DEF Join, listeners, ghosts
<1>16. CASE ListenKnown
  <2>1. Listen(known, 1, IF isWallet THEN {} ELSE {"channel"}) /\ known \in SUBSET Peers
    BY <1>16 DEF ListenKnown, IInv, RestTyped
  <2> QED
    BY <1>0, <2>1, ListenersByListening
<1>17. CASE Sync
  BY <1>1, <1>17 DEF Sync
<1>18. CASE UNCHANGED vars
  BY <1>1, <1>18 DEF vars, listeners, ghosts
<1> QED
  BY <1>3, <1>4, <1>5, <1>6, <1>7, <1>8, <1>10, <1>11, <1>12, <1>13, <1>14, <1>15, <1>16, <1>17,
     <1>18 DEF Next, Environment, Code

\* The steps in which nothing is heard: what is heard and who listens stay, or
\* listeners only go.
Quiet == /\ UNCHANGED <<store, heard, repeated, overlapped, initialEvent>>
         /\ phase' = phase \/ (phase # "stopped" /\ phase' # "stopped")
         /\ preserved' \subseteq preserved
         /\ subscribed' \subseteq subscribed
         /\ Deaf => Deaf'

LEMMA HeardWhenQuiet ==
    ASSUME HeardInv, ServerTyped, ServerTyped', Grows, Quiet
    PROVE  HeardInv'
<1>1. Len(timeline) \in Nat /\ Len(timeline') \in Nat /\ Len(timeline) <= Len(timeline')
  BY DEF ServerTyped, Grows
<1>2. HeardTyped'
  <2>1. \A i \in repeated : timeline'[i] = timeline[i]
    BY DEF HeardInv, HeardTyped, Grows, Indices
  <2> QED
    BY <1>1, <2>1 DEF HeardInv, HeardTyped, Quiet
<1>3. Resumable'
  BY DEF HeardInv, Resumable, Quiet, store
<1> QED
  BY <1>2, <1>3 DEF HeardInv

LEMMA HeardFromStart ==
    ASSUME IInv, StoreInv', Begin
    PROVE  HeardInv'
<1>1. /\ phase = "stopped" /\ phase' = "first"
      /\ UNCHANGED <<server, preserved, initialEvent, repeated, overlapped, callbacks>>
  BY DEF Begin, StartClient
<1>2. /\ HeardTyped /\ initialEvent = 0 /\ Deaf
      /\ \A s \in preserved : heard \subseteq 1..s.token
  BY <1>1 DEF IInv, HeardInv, Resumable
<1>3. Deaf'
  BY <1>1, <1>2 DEF Deaf
<1>4. token' \in Nat /\ token' <= Len(timeline')
  BY DEF StoreInv, Kept
<1>5. CASE preserved = {}
  <2>1. heard' = {}
    BY <1>5 DEF Begin
  <2> QED
    BY <1>1, <1>2, <1>3, <1>4, <1>5, <2>1 DEF HeardInv, HeardTyped, Resumable, server
<1>6. CASE preserved # {}
  <2>1. heard' = heard
    BY <1>6 DEF Begin
  <2>2. PICK s \in preserved : token' = s.token
    BY <1>6 DEF Begin, StartClient
  <2>3. heard' \subseteq 1..token'
    BY <1>2, <2>1, <2>2
  <2>4. \A q \in preserved : q.token = token'
    BY <2>2 DEF IInv, StoreInv
  <2> QED
    BY <1>1, <1>2, <1>3, <1>4, <2>1, <2>3, <2>4 DEF HeardInv, HeardTyped, Resumable, server
<1> QED
  BY <1>5, <1>6

\* The event that was kept was not heard before, and is not kept when it is heard.
LEMMA HeardWhenListening ==
    ASSUME IInv, ListenersInv', Ready, Ready', UNCHANGED <<server, store, preserved>>,
           NEW ps \in SUBSET Peers, NEW n \in Nat, NEW also \in SUBSET {"channel"}, Listen(ps, n, also)
    PROVE  HeardInv'
<1> DEFINE new == ps \ activeListeners
<1>1. PICK S \in SUBSET Indices :
              /\ S \subseteq {initialEvent} \ {0}
              /\ \A i \in S : timeline[i].from \in new
              /\ Hear(Messages(S, new))
  BY Listening DEF IInv, HeardInv
<1>2. /\ phase # "stopped" /\ phase' # "stopped"
      /\ Len(timeline) \in Nat /\ token \in Nat /\ token <= Len(timeline)
  BY DEF Ready, IInv, ServerInv, ServerTyped, StoreInv, Kept
<1>3. /\ heard \subseteq 1..token /\ HeardTyped
      /\ initialEvent \in Nat /\ initialEvent <= token
      /\ \A s \in preserved : s.token = token
      /\ initialEvent # 0 => initialEvent \notin heard /\ Deaf
      /\ Me \in subscribed => Deaf
  BY <1>2 DEF IInv, HeardInv, HeardTyped, Resumable
<1>4. heard' \subseteq heard \cup S /\ HeardTyped'
  <2>1. UNCHANGED timeline /\ overlapped \subseteq overlapped'
    BY DEF server, Listen
  <2>2. ASSUME NEW i \in Messages(S, new) PROVE timeline[i].from \in Peers \ overlapped' => callbacks'[timeline[i].from] <= 1
    BY DEF ListenersInv
  <2>3. \A i \in Messages(S, new) : i \in S /\ timeline[i].from \in Peers /\ i \notin heard
    BY <1>1, <1>3 DEF Messages
  <2>4. /\ heard' = heard \cup Messages(S, new)
        /\ \A i \in repeated' : i \in repeated \/ (i \in Messages(S, new) /\ callbacks'[timeline[i].from] > 1)
    BY <1>1, <2>3 DEF Hear
  <2>5. ASSUME NEW i \in repeated' PROVE i \in 1..Len(timeline) /\ timeline[i].from \in overlapped'
    <3>1. CASE i \in repeated
      BY <1>3, <2>1, <3>1 DEF HeardTyped
    <3>2. CASE i \in Messages(S, new) /\ callbacks'[timeline[i].from] > 1
      <4>1. PICK p \in Peers : p = timeline[i].from
        BY <2>3, <3>2
      <4>2. callbacks'[p] \in Nat /\ callbacks'[p] > 1
        BY <3>2, <4>1 DEF ListenersInv
      <4>3. p \in overlapped'
        BY <4>2 DEF ListenersInv
      <4> QED
        BY <2>3, <3>2, <4>1, <4>3 DEF Indices
    <3> QED
      BY <2>4, <3>1, <3>2
  <2>6. initialEvent' \in {0, initialEvent}
    BY DEF Listen
  <2>7. heard' \subseteq 1..Len(timeline)
    BY <1>3, <2>3, <2>4 DEF HeardTyped, Indices
  <2>8. initialEvent' \in 0..Len(timeline)
    BY <1>2, <1>3, <2>6 DEF HeardTyped
  <2>9. heard' \subseteq heard \cup S
    BY <2>3, <2>4
  <2> QED
    BY <2>1, <2>5, <2>7, <2>8, <2>9 DEF HeardTyped
<1>5. heard' \subseteq 1..token
  BY <1>1, <1>2, <1>3, <1>4
<1>6. Me \notin also
  BY ListenersAssumption
<1>7. /\ subscribed' = also \cup (IF new = {} THEN subscribed ELSE subscribed \ {Me})
      /\ initialEvent' = IF new = {} THEN initialEvent ELSE 0
      /\ callbacks' = [p \in Peers |-> callbacks[p] + IF p \in new THEN n ELSE 0]
  BY DEF Listen
<1> HIDE DEF new
<1>8. CASE new = {}
  <2>1. S = {}
    BY <1>1, <1>8
  <2>2. heard' \subseteq heard
    BY <1>4, <2>1
  <2>3. (Deaf => Deaf') /\ (Me \in subscribed' => Me \in subscribed)
    BY <1>6, <1>7, <1>8 DEF Deaf
  <2> QED
    BY <1>2, <1>3, <1>4, <1>5, <1>7, <1>8, <2>2, <2>3
       DEF HeardInv, HeardTyped, Resumable, server, store
<1>9. CASE new # {}
  <2>1. initialEvent' = 0 /\ Me \notin subscribed'
    BY <1>6, <1>7, <1>9
  <2> QED
    BY <1>2, <1>3, <1>4, <1>5, <2>1 DEF HeardInv, HeardTyped, Resumable, server, store
<1> QED
  BY <1>8, <1>9

\* Of some numbers one is the last: so no number has after it, strictly, fewer
\* and fewer of them for ever.
LEMMA LastOfSome ==
    ASSUME NEW n \in Nat, NEW S \in SUBSET (1..n), S # {}
    PROVE  \E i \in S : \A j \in S : j <= i
<1> DEFINE After(i) == {j \in S : i < j}
           R == StrictSubsetOrdering(S)
           T == {After(i) : i \in S}
<1>1. IsFiniteSet(S)
  <2>1. IsFiniteSet(1..n)
    BY FS_Interval
  <2> QED
    BY <2>1, FS_Subset
<1>2. IsWellFoundedOn(R, SUBSET S)
  BY <1>1, FS_FiniteSubsetsOfFinite, FS_StrictSubsetOrderingWellFounded
<1>3. T \subseteq SUBSET S /\ T # {}
  OBVIOUS
<1>4. \E x \in T : \A y \in T : <<y, x>> \notin R
  <2> HIDE DEF R, T
  <2> QED
    BY <1>2, <1>3, WFMin
<1>5. PICK i \in S : \A j \in S : <<After(j), After(i)>> \notin R
  BY <1>4
<1>6. ASSUME NEW j \in S, i < j PROVE FALSE
  <2>1. After(j) \subseteq After(i) /\ j \in After(i) /\ j \notin After(j)
    <3>1. j \in Nat /\ i \in Nat /\ \A k \in S : k \in Nat
      OBVIOUS
    <3>2. \A k \in S : j < k => i < k
      BY <1>6, <3>1
    <3>3. ~(j < j)
      BY <3>1
    <3> QED
      BY <1>6, <3>2, <3>3
  <2>2. After(j) # After(i)
    BY <2>1
  <2>3. After(j) \in SUBSET S /\ After(i) \in SUBSET S
    OBVIOUS
  <2> HIDE DEF After
  <2>4. <<After(j), After(i)>> \in R
    BY <2>1, <2>2, <2>3 DEF StrictSubsetOrdering
  <2> QED
    BY <1>5, <2>4
<1> QED
  BY <1>6

\* A sync brings what is behind the token, to listeners for peers or to the one
\* that keeps an event, never to both.
LEMMA HeardBySync ==
    ASSUME IInv, Sync
    PROVE  HeardInv'
<1> DEFINE is == {i \in (token + 1)..Len(timeline) : timeline[i].type \in Texts}
           M == Messages({i \in is : timeline[i].from \in {p \in Peers : callbacks[p] > 0}}, Peers)
<1>1. /\ phase # "stopped" /\ phase' # "stopped" /\ token' = Len(timeline)
      /\ UNCHANGED <<server, subscribed, callbacks, overlapped>> /\ preserved' = {[rooms |-> rooms', token |-> token']}
      /\ Hear(M)
      /\ initialEvent' = IF Me \in subscribed /\ is # {}
                         THEN CHOOSE i \in is : \A j \in is : j <= i ELSE initialEvent
  BY DEF Sync, PollSync, NextBatch
<1>2. Len(timeline) \in Nat /\ token \in Nat /\ token <= Len(timeline)
  BY DEF IInv, ServerInv, ServerTyped, StoreInv, Kept
<1>3. /\ heard \subseteq 1..token /\ HeardTyped
      /\ initialEvent \in Nat /\ initialEvent <= token
      /\ initialEvent # 0 => initialEvent \notin heard /\ Deaf
      /\ Me \in subscribed => Deaf
  BY <1>1 DEF IInv, HeardInv, HeardTyped, Resumable
<1>4. is \subseteq (token + 1)..Len(timeline)
  OBVIOUS
<1>5. /\ M \subseteq is /\ \A i \in M : timeline[i].from \in Peers
      /\ Deaf => M = {}
  BY DEF Messages, Deaf
<1>6. Me \in subscribed /\ is # {} => initialEvent' \in is
  <2>1. ASSUME is # {} PROVE \E i \in is : \A j \in is : j <= i
    <3>1. is \in SUBSET (1..Len(timeline))
      BY <1>2, <1>4
    <3> HIDE DEF is
    <3> QED
      BY <1>2, <2>1, <3>1, LastOfSome
  <2> QED
    BY <1>1, <2>1
<1> HIDE DEF is, M
<1>7. heard' = heard \cup M /\ \A i \in repeated' : timeline[i].from \in overlapped /\ i \in 1..Len(timeline)
  <2>1. heard' = heard \cup M /\ heard \cap M = {}
    BY <1>1, <1>2, <1>3, <1>4, <1>5 DEF Hear
  <2>2. ASSUME NEW i \in M, callbacks[timeline[i].from] > 1
        PROVE  timeline[i].from \in overlapped /\ i \in 1..Len(timeline)
    <3>1. PICK p \in Peers : p = timeline[i].from
      BY <1>5
    <3>2. callbacks[p] \in Nat /\ callbacks[p] > 1
      BY <2>2, <3>1 DEF IInv, ListenersInv
    <3>3. p \in overlapped
      BY <3>2 DEF IInv, ListenersInv
    <3> QED
      BY <1>2, <1>4, <1>5, <3>1, <3>3
  <2> QED
    BY <1>1, <1>3, <2>1, <2>2 DEF Hear, HeardTyped
<1>8. heard' \subseteq 1..Len(timeline)
  BY <1>2, <1>3, <1>4, <1>5, <1>7
<1>9. /\ initialEvent' \in 0..Len(timeline)
      /\ initialEvent' # 0 => initialEvent' \notin heard' /\ Deaf
  <2>1. CASE Me \in subscribed /\ is # {}
    <3>1. initialEvent' \in (token + 1)..Len(timeline)
      BY <1>4, <1>6, <2>1
    <3>2. heard' = heard
      BY <1>3, <1>5, <1>7, <2>1
    <3> QED
      BY <1>2, <1>3, <2>1, <3>1, <3>2
  <2>2. CASE ~(Me \in subscribed /\ is # {})
    <3>1. initialEvent' = initialEvent
      BY <1>1, <2>2
    <3> QED
      BY <1>2, <1>3, <1>5, <1>7, <3>1
  <2> QED
    BY <2>1, <2>2
<1>10. \A s \in preserved' : s.token = token'
  BY <1>1
<1> QED
  BY <1>1, <1>3, <1>7, <1>8, <1>9, <1>10 DEF HeardInv, HeardTyped, Resumable, Deaf, server

LEMMA HeardNext ==
    ASSUME IInv, ServerInv', StoreInv', ListenersInv', Grows, [Next]_vars
    PROVE  HeardInv'
<1>0. /\ HeardInv /\ ServerTyped /\ ServerTyped' /\ Len(timeline) \in Nat
  BY DEF IInv, ServerInv, ServerTyped
<1>1. CASE Quiet
  BY <1>0, <1>1, HeardWhenQuiet
<1>2. CASE UNCHANGED <<store, preserved, phase, callbacks, subscribed, initialEvent, heard, repeated,
                       overlapped>>
  BY <1>1, <1>2 DEF Quiet, Deaf
\* The client stops, and what was heard is behind the token that is preserved.
<1>3. ASSUME UNCHANGED <<heard, repeated, overlapped>>, phase' = "stopped", callbacks' = None,
             subscribed' = {}, initialEvent' = 0,
             UNCHANGED timeline, \A s \in preserved' : heard \subseteq 1..s.token
      PROVE  HeardInv'
  BY <1>0, <1>3 DEF HeardInv, HeardTyped, Resumable, Deaf, None
<1>4. CASE Stopped
  BY <1>3, <1>4 DEF Stopped, StopClient, ghosts, server
<1>5. CASE Relay /\ UNCHANGED <<listeners, ghosts>>
  BY <1>2, <1>5 DEF Relay, listeners, ghosts
<1>6. ASSUME NEW p \in Peers, SendMessage(p) \/ SendPairingResponse(p) PROVE HeardInv'
  BY <1>2, <1>6 DEF SendMessage, SendPairingResponse, Start, matrixVars, listeners
<1>7. ASSUME NEW p \in Peers, RemovePeer(p) PROVE HeardInv'
  <2>1. Deaf => Deaf'
    BY <1>7 DEF RemovePeer, Deaf, IInv, ListenersInv
  <2> QED
    BY <1>1, <1>7, <2>1 DEF Quiet, RemovePeer, ghosts
<1>8. ASSUME NEW p \in Peers, AddPeer(p) PROVE HeardInv'
  <2>1. adding[p] \in Nat
    BY DEF IInv, RestTyped
  <2>2. PICK n \in 1..adding[p] : Listen({p}, n, {})
    BY <1>8 DEF AddPeer
  <2>3. Ready /\ phase' = phase /\ UNCHANGED <<server, store, preserved>>
    BY <1>8 DEF AddPeer, matrixVars
  <2>4. Ready' /\ n \in Nat
    BY <2>1, <2>3 DEF Ready
  <2> QED
    BY <2>2, <2>3, <2>4, HeardWhenListening
<1>9. CASE RemoveAllPeers
  BY <1>1, <1>9 DEF Quiet, RemoveAllPeers, Deaf, None, ghosts
<1>10. CASE Connect
  BY <1>10, HeardFromStart DEF Connect
<1>11. CASE Disconnect
  BY <1>4, <1>11 DEF Disconnect
<1>12. CASE Reload
  <2>1. /\ phase = "on" /\ phase' = "stopped" /\ UNCHANGED <<timeline, preserved, heard, repeated, overlapped>>
        /\ callbacks' = None /\ subscribed' = {} /\ initialEvent' = 0
    BY <1>12 DEF Reload, server, ghosts
  <2>2. \A s \in preserved : heard \subseteq 1..s.token
    BY <1>0, <2>1 DEF HeardInv, Resumable
  <2> QED
    BY <1>3, <2>1, <2>2
<1>13. CASE PollFails
  BY <1>2, <1>13 DEF PollFails, listeners, ghosts
<1>14. ASSUME NEW c \in calls, Wait(c) \/ GiveUp(c) \/ Pair(c) PROVE HeardInv'
  <2>1. CASE Wait(c) \/ GiveUp(c)
    BY <1>2, <2>1 DEF Wait, GiveUp, matrixVars, listeners, ghosts
  <2>2. CASE Pair(c)
    BY <1>2, <2>2 DEF Pair, listeners, ghosts
  <2> QED
    BY <1>14, <2>1, <2>2
<1>15. ASSUME NEW c \in calls, Route(c) \/ Find(c) PROVE HeardInv'
  <2>1. preserved' \subseteq preserved
    BY <1>15 DEF Route, Find, ForgetState
  <2> QED
    BY <1>1, <1>15, <2>1 DEF Quiet, Deaf, Route, Find, listeners, ghosts
<1>16. ASSUME NEW c \in calls, Create(c) PROVE HeardInv'
  <2>1. CASE Stopped
    BY <1>4, <2>1
  <2>2. CASE UNCHANGED <<phase, store, callbacks, subscribed, initialEvent>> /\ preserved' \in {preserved, {}}
    BY <1>1, <1>16, <2>2 DEF Quiet, Deaf, Create, ghosts
  <2> QED
    BY <1>16, <2>1, <2>2 DEF Create
<1>17. ASSUME NEW c \in calls, Restart(c) PROVE HeardInv'
  <2>1. CASE Begin
    BY <2>1, HeardFromStart
  <2>2. CASE /\ phase = "invites" /\ phase' = "on"
             /\ UNCHANGED <<store, preserved, listeners, ghosts>>
    BY <1>1, <2>2 DEF Quiet, Deaf, listeners, ghosts
  <2>3. CASE UNCHANGED <<matrixVars, listeners, ghosts>>
    BY <1>2, <2>3 DEF matrixVars, listeners, ghosts
  <2> QED
    BY <1>17, <2>1, <2>2, <2>3 DEF Restart
<1>18. ASSUME NEW c \in calls, Put(c) PROVE HeardInv'
  BY <1>2, <1>18 DEF Put, listeners
<1>19. ASSUME NEW j \in joins, Join(j) PROVE HeardInv'
  BY <1>2, <1>19 DEF Join, listeners, ghosts
<1>20. CASE ListenKnown
  <2>1. /\ phase = "invites" /\ phase' = "on" /\ UNCHANGED <<server, store, preserved>>
        /\ Listen(known, 1, IF isWallet THEN {} ELSE {"channel"})
    BY <1>20 DEF ListenKnown
  <2>2. Ready /\ Ready'
    BY <2>1 DEF Ready
  <2>3. known \in SUBSET Peers /\ (IF isWallet THEN {} ELSE {"channel"}) \in SUBSET {"channel"}
    BY DEF IInv, RestTyped
  <2> QED
    BY <2>1, <2>2, <2>3, HeardWhenListening
<1>21. CASE Sync
  BY <1>21, HeardBySync
<1>22. CASE UNCHANGED vars
  BY <1>2, <1>22 DEF vars, matrixVars, listeners, ghosts
<1> QED
  BY <1>5, <1>6, <1>7, <1>8, <1>9, <1>10, <1>11, <1>12, <1>13, <1>14, <1>15, <1>16, <1>17,
     <1>18, <1>19, <1>20, <1>21, <1>22 DEF Next, Environment, Code

-----------------------------------------------------------------------------
(* The theorems.                                                           *)

LEMMA InitIInv == Init => IInv
<1> SUFFICES ASSUME Init PROVE IInv
  OBVIOUS
<1> USE UsersAssumption, MatrixBounds DEF Init, MatrixInit
<1>1. ServerInv
  <2> DEFINE Joined(p) == Event("join", 1, p, {Me, p})
  <2>1. \/ members = [r \in Rooms |-> {}] /\ timeline = <<>>
        \/ \E p \in EarlierPeers :
              /\ members = [r \in Rooms |-> IF r = 1 THEN {Me, p} ELSE {}]
              /\ timeline = <<Joined(p)>> /\ 1 \in Rooms
    <3>1. (MaxRooms = 0 => timeline = <<>>) /\ (MaxRooms # 0 => 1 \in Rooms)
      BY DEF Rooms
    <3>2. ASSUME NEW p, timeline = <<Joined(p)>> PROVE Len(timeline) = 1 /\ timeline # <<>>
      BY <3>2
    <3> QED
      BY <3>1, <3>2
  <2>2. CASE members = [r \in Rooms |-> {}] /\ timeline = <<>>
    BY <2>2 DEF ServerInv, ServerTyped, Indices
  <2>3. ASSUME NEW p \in Peers, members = [r \in Rooms |-> IF r = 1 THEN {Me, p} ELSE {}],
               timeline = <<Joined(p)>>, 1 \in Rooms
        PROVE  ServerInv
    <3>1. Joined(p) \in Told /\ p \in members[1]
      BY <2>3 DEF Event, Told, Users
    <3>2. timeline \in Seq(Told) /\ Indices = {1} /\ timeline[1] = Joined(p)
      BY <2>3, <3>1 DEF Indices
    <3>3. Seen(Joined(p))
      BY <2>3, <3>1 DEF Seen, Event, With
    <3>4. members \in [Rooms -> SUBSET Users] /\ invited = [r \in Rooms |-> {}]
      BY <2>3 DEF Users
    <3> QED
      BY <3>2, <3>3, <3>4 DEF ServerInv, ServerTyped
  <2> QED
    BY <2>1, <2>2, <2>3
<1>2. StoreInv
  BY <1>1 DEF ServerInv, ServerTyped, StoreInv, Kept, Faithful, NoRooms, RoomStates, Statuses
<1>3. RestTyped /\ ListenersInv /\ JoinsInv
  BY DEF RestTyped, ListenersInv, None, JoinsInv
<1>4. RoutesInv /\ CallsInv
  BY DEF RoutesInv, Led, CallsInv, NoRoutes, Routes, With
<1>5. HeardInv
  BY <1>1 DEF ServerInv, ServerTyped, HeardInv, HeardTyped, Resumable, Deaf, None
<1> QED
  BY <1>1, <1>2, <1>3, <1>4, <1>5 DEF IInv

LEMMA NextIInv == IInv /\ [Next]_vars => IInv'
<1> SUFFICES ASSUME IInv, [Next]_vars PROVE IInv'
  OBVIOUS
<1>1. ServerStep
  BY ServerSteps DEF IInv, ServerInv
<1>2. ServerInv' /\ Stays /\ Grows
  BY <1>1, ServerKept DEF IInv
<1>3. StoreInv'
  BY <1>2, StoreSteps, StoreKept DEF IInv
<1>4. RestTyped' /\ RoutesInv' /\ JoinsInv' /\ CallStep
  BY <1>2, <1>3, RestNext, RoutesNext, JoinsNext, CallSteps
<1>5. CallsInv'
  BY <1>2, <1>4, CallsKept DEF IInv
<1>6. ListenersInv' /\ HeardInv'
  BY <1>2, <1>3, ListenersNext, HeardNext
<1> QED
  BY <1>2, <1>3, <1>4, <1>5, <1>6 DEF IInv

\* The invariant holds of every behaviour.
THEOREM Invariance == Spec => []IInv
BY InitIInv, NextIInv, PTL DEF Spec

\* Rooms, stored rooms, handlers and sends have their types.
THEOREM TypeCorrect == Spec => []TypeOK
<1>1. IInv => TypeOK
  <2> SUFFICES ASSUME IInv PROVE TypeOK
    OBVIOUS
  <2>1. MatrixTypeOK
    <3>1. preserved \subseteq [rooms : RoomStates, token : 0..Len(timeline)]
      BY DEF IInv, StoreInv, Kept
    <3> QED
      BY <3>1 DEF IInv, ServerInv, ServerTyped, StoreInv, Kept, RestTyped, MatrixTypeOK, RoomStates, Told
  <2>2. calls \subseteq Calls /\ delivered \in Seq(0..2)
    BY DEF IInv, CallsInv, CallOK
  <2> QED
    BY <2>1, <2>2 DEF IInv, RestTyped, ListenersInv, JoinsInv, Tries, RoutesInv, Led, HeardInv, HeardTyped, TypeOK
<1> QED
  BY <1>1, Invariance, PTL

\* What is meant for one peer goes into a room of that peer.
THEOREM RightRooms == Spec => []RoomsLeadToTheirPeer
<1>1. IInv => RoomsLeadToTheirPeer
  BY DEF IInv, RoutesInv, CallsInv, CallOK, Led, RoomsLeadToTheirPeer
<1> QED
  BY <1>1, Invariance, PTL

\* No message is handled again, unless syncing began anew or its sender was added
\* twice at once.
THEOREM HandledOnce == Spec => []MessagesAreHandledOnce
<1>1. IInv => MessagesAreHandledOnce
  BY DEF IInv, HeardInv, HeardTyped, MessagesAreHandledOnce
<1> QED
  BY <1>1, Invariance, PTL

\* The relay takes what is sent once.
THEOREM OnceTaken == Spec => []TakenOnce
<1>1. IInv => TakenOnce
  BY DEF IInv, CallsInv, TakenOnce
<1> QED
  BY <1>1, Invariance, PTL

-----------------------------------------------------------------------------
(* RelayServer.                                                            *)

\* A call and the promise it made.
MadeInv(c) ==
    /\ status[c] = "pending" <=> Discovering(c)
    /\ status[c] # "none" => pc[c] \in Discovery \cup {"done", "failed"}
    /\ pc[c] = "probeNode" => candidate[c] \in Servers
    /\ Discovering(c) /\ c \notin orphaned => relay = c

\* A call and the promise it awaits.
AwaitInv(c) ==
    /\ pc[c] \in {"cached", "latest"} =>
          awaits[c] \in RelayCalls /\ status[awaits[c]] # "none"
    /\ pc[c] \in {"refresh", "drop", "check"} =>
          awaits[c] \in RelayCalls /\ status[awaits[c]] = "resolved"

RelayInv == relay # NoCall => status[relay] \in {"pending", "resolved"}

SelectionInv ==
    /\ RelayTypeOK
    /\ \A c \in RelayCalls : MadeInv(c)
    /\ \A c \in RelayCalls : AwaitInv(c)
    /\ RelayInv

LEMMA InitSelection == RelayInit => SelectionInv
<1> SUFFICES ASSUME RelayInit PROVE SelectionInv
  OBVIOUS
<1>1. RelayTypeOK
  BY DEF RelayInit, RelayTypeOK, RelaySteps
<1>2. ASSUME NEW c \in RelayCalls PROVE MadeInv(c) /\ AwaitInv(c)
  <2>1. pc[c] = "idle" /\ status[c] = "none"
    BY DEF RelayInit
  <2> QED
    BY <2>1 DEF MadeInv, AwaitInv, Discovering, Discovery
<1>3. RelayInv
  BY DEF RelayInit, RelayInv
<1> QED
  BY <1>1, <1>2, <1>3 DEF SelectionInv

LEMMA SelectionTypeStep == SelectionInv /\ [RelayNext]_relayVars => RelayTypeOK'
<1> SUFFICES ASSUME SelectionInv, [RelayNext]_relayVars PROVE RelayTypeOK'
  OBVIOUS
<1> USE DEF RelayTypeOK, RelaySteps, Discovery, ResumeAt, Resolve, Reject, Discover, resetVars
<1>1. ASSUME NEW c \in RelayCalls, Call(c) \/ Check(c) PROVE RelayTypeOK'
  <2>1. CASE Call(c)
    BY <2>1 DEF SelectionInv, Call
  <2>2. CASE Check(c)
    <3>1. region' \in BOOLEAN
      BY <2>2, Zenon DEF SelectionInv, Check
    <3>2. CASE relay \in {awaits[c], NoCall}
      BY <2>2, <3>1, <3>2 DEF SelectionInv, Check
    <3>3. CASE relay \notin {awaits[c], NoCall}
      BY <2>2, <3>1, <3>3 DEF SelectionInv, Check
    <3> QED
      BY <3>2, <3>3
  <2> QED
    BY <1>1, <2>1, <2>2
<1>2. ASSUME NEW c \in RelayCalls, RefreshOK(c) PROVE RelayTypeOK'
  BY <1>2 DEF SelectionInv, AwaitInv, RefreshOK
<1>3. ASSUME NEW c \in RelayCalls, Cached(c) \/ RefreshFails(c) \/ Drop(c) \/ Latest(c)
                             \/ ReadNode(c) \/ NodeFailsOnline(c) \/ DropStored(c)
      PROVE  RelayTypeOK'
  BY <1>3 DEF SelectionInv, Cached, RefreshFails, Drop, Latest, ReadNode, NodeFailsOnline, DropStored
<1>4. ASSUME NEW c \in RelayCalls, NodeAnswers(c) PROVE RelayTypeOK'
  BY <1>4 DEF SelectionInv, MadeInv, NodeAnswers
<1>5. ASSUME NEW c \in RelayCalls, NodeFailsOffline(c) PROVE RelayTypeOK'
  BY <1>5 DEF SelectionInv, NodeFailsOffline
<1>6. ASSUME NEW c \in RelayCalls, FindServer(c) PROVE RelayTypeOK'
  <2>1. CASE ~region
    BY <1>6, <2>1 DEF SelectionInv, FindServer
  <2>2. CASE region /\ relay # NoCall /\ status[relay] = "resolved"
    BY <1>6, <2>2 DEF SelectionInv, FindServer
  <2>3. CASE region /\ ~(relay # NoCall /\ status[relay] = "resolved")
    BY <1>6, <2>3 DEF SelectionInv, FindServer
  <2> QED
    BY <2>1, <2>2, <2>3
<1>7. ASSUME NEW c \in RelayCalls, ServerAnswers(c) \/ NoServerAnswers(c) PROVE RelayTypeOK'
  <2>1. CASE ServerAnswers(c)
    <3>1. PICK s \in Servers : Resolve(c, s) /\ node' = s
      BY <2>1 DEF ServerAnswers
    <3>2. region' \in BOOLEAN /\ UNCHANGED <<relay, awaits, candidate, resetVars>>
      BY <2>1 DEF ServerAnswers
    <3> QED
      BY <3>1, <3>2 DEF SelectionInv
  <2>2. CASE NoServerAnswers(c)
    BY <2>2 DEF SelectionInv, NoServerAnswers
  <2> QED
    BY <1>7, <2>1, <2>2
<1>8. ASSUME NEW c \in RelayCalls, Age(c) PROVE RelayTypeOK'
  BY <1>8 DEF SelectionInv, Age
<1>9. CASE ClearStorage \/ ClearFields
  BY <1>9 DEF SelectionInv, ClearStorage, ClearFields
<1>10. CASE UNCHANGED relayVars
  BY <1>10 DEF SelectionInv, relayVars
<1> QED
  BY <1>1, <1>2, <1>3, <1>4, <1>5, <1>6, <1>7, <1>8, <1>9, <1>10 DEF RelayNext, Proceed

\* Every step keeps the three parts about promises.
LEMMA PromiseStep ==
    ASSUME SelectionInv, RelayTypeOK', [RelayNext]_relayVars
    PROVE  (\A c \in RelayCalls : MadeInv(c) /\ AwaitInv(c))' /\ RelayInv'
<1> DEFINE Good == (\A c \in RelayCalls : MadeInv(c) /\ AwaitInv(c))' /\ RelayInv'
<1> USE NullAssumption
<1> USE DEF SelectionInv, RelayTypeOK, MadeInv, AwaitInv, RelayInv, Discovering, Discovery, ResumeAt, resetVars
<1>1. ASSUME NEW c \in RelayCalls, Call(c) PROVE Good
  BY <1>1 DEF Call, Discover
<1>2. ASSUME NEW c \in RelayCalls, Cached(c) PROVE Good
  BY <1>2 DEF Cached, Settled
<1>3. ASSUME NEW c \in RelayCalls, RefreshOK(c) PROVE Good
  BY <1>3 DEF RefreshOK, Resolve
<1>4. ASSUME NEW c \in RelayCalls, RefreshFails(c) \/ Drop(c) PROVE Good
  BY <1>4 DEF RefreshFails, Drop
<1>5. ASSUME NEW c \in RelayCalls, Check(c) PROVE Good
  BY <1>5 DEF Check, Discover
<1>6. ASSUME NEW c \in RelayCalls, Latest(c) PROVE Good
  BY <1>6 DEF Latest, Settled
<1>7. ASSUME NEW c \in RelayCalls, ReadNode(c) \/ NodeFailsOnline(c) \/ DropStored(c) PROVE Good
  BY <1>7 DEF ReadNode, NodeFailsOnline, DropStored
<1>8. ASSUME NEW c \in RelayCalls, NodeAnswers(c) PROVE Good
  BY <1>8 DEF NodeAnswers, Resolve
<1>9. ASSUME NEW c \in RelayCalls, NodeFailsOffline(c) \/ NoServerAnswers(c) PROVE Good
  BY <1>9 DEF NodeFailsOffline, NoServerAnswers, Reject
<1>10. ASSUME NEW c \in RelayCalls, FindServer(c) PROVE Good
  BY <1>10 DEF FindServer, Resolve, Reject
<1>11. ASSUME NEW c \in RelayCalls, ServerAnswers(c) PROVE Good
  BY <1>11 DEF ServerAnswers, Resolve
<1>12. ASSUME NEW c \in RelayCalls, Age(c) PROVE Good
  BY <1>12 DEF Age
<1>13. CASE ClearStorage
  BY <1>13 DEF ClearStorage
<1>14. CASE ClearFields
  BY <1>14 DEF ClearFields
<1>15. CASE UNCHANGED relayVars
  BY <1>15 DEF relayVars
<1> QED
  BY <1>1, <1>2, <1>3, <1>4, <1>5, <1>6, <1>7, <1>8, <1>9, <1>10, <1>11, <1>12, <1>13,
     <1>14, <1>15 DEF RelayNext, Proceed

LEMMA NextSelection == SelectionInv /\ [RelayNext]_relayVars => SelectionInv'
<1> SUFFICES ASSUME SelectionInv, [RelayNext]_relayVars PROVE SelectionInv'
  OBVIOUS
<1>1. RelayTypeOK'
  BY SelectionTypeStep
<1>2. (\A c \in RelayCalls : MadeInv(c) /\ AwaitInv(c))' /\ RelayInv'
  BY <1>1, PromiseStep
<1> QED
  BY <1>1, <1>2 DEF SelectionInv

\* The invariant holds of every behaviour.
THEOREM SelectionInvariance == RelaySpec => []SelectionInv
BY InitSelection, NextSelection, PTL DEF RelaySpec

\* Every variable has its type, and promises resolve to servers only.
THEOREM SelectionTyped == RelaySpec => []RelayTypeOK
BY SelectionInvariance, PTL DEF SelectionInv

\* No call of getRelayServer awaits a promise that nobody will settle ("always
\* settle the ExposedPromise so concurrent callers don't hang forever").
THEOREM NobodyHangs == RelaySpec => []AwaitedPromisesAreSettled
<1>1. SelectionInv => AwaitedPromisesAreSettled
  BY DEF SelectionInv, RelayTypeOK, MadeInv, AwaitInv, AwaitedPromisesAreSettled, Settled, Discovering
<1> QED
  BY <1>1, SelectionInvariance, PTL

\* A rejected promise never stays in relayServer.
THEOREM FailuresForgotten == RelaySpec => []FailuresAreForgotten
<1>1. SelectionInv => FailuresAreForgotten
  BY DEF SelectionInv, RelayInv, FailuresAreForgotten
<1> QED
  BY <1>1, SelectionInvariance, PTL

\* Two discoveries are at work only where a reset intervened.
THEOREM SharedDiscovery == RelaySpec => []DiscoveriesAreShared
<1>1. SelectionInv => DiscoveriesAreShared
  BY DEF SelectionInv, MadeInv, DiscoveriesAreShared
<1> QED
  BY <1>1, SelectionInvariance, PTL

=============================================================================
