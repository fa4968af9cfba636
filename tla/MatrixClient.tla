---------------------------- MODULE MatrixClient ----------------------------
(***************************************************************************)
(* One account at a relay: MatrixClient with its store, its event emitter  *)
(* and its services (packages/octez.connect-transport-matrix/src/          *)
(* matrix-client), and what the relay keeps for the account.               *)
(*                                                                         *)
(* The relay numbers what it has to tell the account; a sync token is the  *)
(* number of the last event told.  A request takes effect when it is       *)
(* answered, or is answered with an error.  Logins that fail are the       *)
(* business of MatrixConnection.                                           *)
(***************************************************************************)
EXTENDS Naturals, Sequences, FiniteSets

CONSTANTS
    Me, Peers,       \* the account, and those it talks to
    EarlierPeers,    \* those it may know from an earlier session
    MaxRooms,        \* bounds: rooms made,
    MaxEvents,       \* things that peers and the relay do,
    MaxFailures      \* and requests that fail

ASSUME UsersAssumption == Me \notin Peers /\ EarlierPeers \subseteq Peers
ASSUME MatrixBounds == MaxRooms \in Nat /\ MaxEvents \in Nat /\ MaxFailures \in Nat

VARIABLES
    members, invited,   \* of each room, at the relay
    timeline,           \* the events the relay has for the account
    phase,              \* of the client: stopped, in its first sync, in its start's joins, on
    rooms,              \* store: each room's status and members,
    token,              \* and sync token
    preserved,          \* the store in storage: none or one
    failures,           \* requests failed
    events              \* things that peers and the relay did

server == <<members, invited, timeline>>
store == <<rooms, token>>
matrixVars == <<server, phase, store, preserved, failures, events>>

Users == Peers \cup {Me}
Rooms == 1..MaxRooms
Statuses == {"unknown", "joined", "invited", "left"}
NoRooms == [r \in Rooms |-> [status |-> "unknown", members |-> {}]]

\* An event shows the members that its room is then known to have.
Event(type, r, from, shows) == [type |-> type, room |-> r, from |-> from, shows |-> shows]
Texts == {"message", "opening"}

Tell(e) == timeline' = Append(timeline, e)
Happen == events < MaxEvents /\ events' = events + 1
FailOnce == failures < MaxFailures /\ failures' = failures + 1

Unborn(r) == members[r] = {} /\ \A q \in 1..(r - 1) : members[q] # {}

\* The account has no room, or one from an earlier session that a peer joined.
MatrixInit ==
    /\ \/ members = [r \in Rooms |-> {}] /\ timeline = <<>>
       \/ \E p \in EarlierPeers :
             /\ members = [r \in Rooms |-> IF r = 1 THEN {Me, p} ELSE {}]
             /\ timeline = <<Event("join", 1, p, {Me, p})>>
    /\ MaxRooms = 0 => timeline = <<>>
    /\ invited = [r \in Rooms |-> {}]
    /\ phase = "stopped"
    /\ rooms = NoRooms /\ token = 0
    /\ preserved = {}
    /\ failures = 0 /\ events = 0

-----------------------------------------------------------------------------
(* The relay and the peers.                                                *)

\* createRoom: its maker is in it, the peer is invited.
MakeRoom(r, from, to) ==
    /\ Unborn(r)
    /\ members' = [members EXCEPT ![r] = {from}]
    /\ invited' = [invited EXCEPT ![r] = {to}]
    /\ Tell(IF from = Me THEN Event("join", r, Me, {Me}) ELSE Event("invite", r, from, {from}))

EnterRoom(r, user) ==
    /\ user \in invited[r]
    /\ members' = [members EXCEPT ![r] = @ \cup {user}]
    /\ invited' = [invited EXCEPT ![r] = @ \ {user}]
    /\ Tell(Event("join", r, user, IF user = Me THEN members[r] \cup {Me} ELSE {user}))

\* A pairing response has just come, and may at once come a second time.
SaidOnce(e) ==
    LET n == Len(timeline)
    IN  e.type = "opening" /\ n > 0 /\ timeline[n] = e /\ (n > 1 => timeline[n - 1] # e)

\* A peer invites the account, or joins its room; it sends a text; the account
\* is put out of a room.
PeerInvites(p) == Happen /\ \E r \in Rooms : MakeRoom(r, p, Me)
PeerJoins(p) == (\E r \in Rooms : Me \in members[r] /\ EnterRoom(r, p)) /\ UNCHANGED events
PeerSends(p) ==
    /\ \E r \in Rooms, type \in Texts :
          /\ {Me, p} \subseteq members[r]
          /\ Happen \/ (SaidOnce(Event(type, r, p, {})) /\ UNCHANGED events)
          /\ Tell(Event(type, r, p, {}))
    /\ UNCHANGED <<members, invited>>
PutOut ==
    /\ Happen
    /\ \E r \in Rooms :
          /\ Me \in members[r] /\ members[r] # {Me}
          /\ members' = [members EXCEPT ![r] = @ \ {Me}]
          /\ Tell(Event("leave", r, Me, {}))
    /\ UNCHANGED invited

Relay ==
    /\ \/ \E p \in Peers : PeerInvites(p) \/ PeerJoins(p) \/ PeerSends(p)
       \/ PutOut
    /\ UNCHANGED <<phase, store, preserved, failures>>

-----------------------------------------------------------------------------
(* MatrixClientStore and MatrixRoom: what a sync makes of the rooms.       *)

Chunk == SubSeq(timeline, token + 1, Len(timeline))
In(chunk) == {chunk[i] : i \in 1..Len(chunk)}

Membership(r) ==
    IF Me \in members[r] THEN "joined" ELSE IF Me \in invited[r] THEN "invited" ELSE "left"

\* MatrixRoom.fromSync and merge: members are added, and none is ever removed.
MergeRooms(old, es) ==
    [r \in Rooms |->
        LET of == {e \in es : e.room = r}
        IN  IF of = {} THEN old[r]
            ELSE [status |-> Membership(r), members |-> old[r].members \cup UNION {e.shows : e \in of}]]

\* What the emitter tells those who listen: invitations, and texts.
Invitations(es) == {e.room : e \in {d \in es : Membership(d.room) = "invited"}}

JoinedRooms == {r \in Rooms : rooms[r].status = "joined"}

-----------------------------------------------------------------------------
(* MatrixClient: start, poll, stop.                                        *)

\* The store begins with what is preserved.
StartClient ==
    /\ phase = "stopped"
    /\ phase' = "first"
    /\ IF preserved = {} THEN rooms' = NoRooms /\ token' = 0
       ELSE \E s \in preserved : rooms' = s.rooms /\ token' = s.token
    /\ UNCHANGED <<server, preserved, failures, events>>

\* Slip: a sync token is not replaced by the next.
KeepToken == IF token = 0 THEN Len(timeline) ELSE token

NextBatch == Len(timeline)

\* A sync that is answered: the first makes the client ready.
PollSync ==
    /\ phase # "stopped"
    /\ Chunk # <<>> \/ phase = "first"
    /\ rooms' = MergeRooms(rooms, In(Chunk))
    /\ token' = NextBatch
    /\ preserved' = {[rooms |-> rooms', token |-> token']}
    /\ UNCHANGED <<server, failures, events>>

\* stop: requests are cancelled, and reset forgets what is preserved.
StopClient ==
    /\ phase # "stopped"
    /\ phase' = "stopped"
    /\ rooms' = NoRooms /\ token' = 0
    /\ preserved' = {}
    /\ UNCHANGED server

\* The account at the relay and the client's store have their types.
MatrixTypeOK ==
    /\ members \in [Rooms -> SUBSET Users] /\ invited \in [Rooms -> SUBSET Users]
    /\ timeline \in Seq([type : {"invite", "join", "leave"} \cup Texts, room : Rooms,
                         from : Users, shows : SUBSET Users])
    /\ phase \in {"stopped", "first", "invites", "on"}
    /\ rooms \in [Rooms -> [status : Statuses, members : SUBSET Users]]
    /\ token \in 0..Len(timeline)
    /\ preserved \subseteq [rooms : [Rooms -> [status : Statuses, members : SUBSET Users]],
                            token : 0..Len(timeline)]
    /\ failures \in 0..MaxFailures /\ events \in 0..MaxEvents
=============================================================================
