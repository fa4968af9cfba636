-------------------------- MODULE MatrixConnection --------------------------
(***************************************************************************)
(* Connecting and disconnecting the Matrix transport: P2PTransport and the *)
(* start, stop and reset of P2PCommunicationClient (packages/octez.connect-*)
(* transport-matrix/src), with as much of MatrixClient as they drive.      *)
(*                                                                         *)
(* P2PCommunicationClient holds a promise for its Matrix client; reset()   *)
(* replaces it.  The promises are numbered here, and `era` is the number   *)
(* of the present one.  A call that awaits is a task, as in WalletClient.  *)
(* Relay selection, the subject of RelayServer, is one step here.          *)
(***************************************************************************)
EXTENDS Naturals, FiniteSets

CONSTANTS
    Prompt,          \* storage answers before the network does (LocalStorage)
    Servers,         \* relay servers of the selected region
    MaxConnects,     \* bounds on the calls in a behaviour,
    MaxDisconnects,
    MaxRestarts,
    MaxPairings,     \* the pairing responses that arrive,
    MaxInvites,      \* the rooms that a start joins,
    MaxFailures      \* and the network requests that fail

ASSUME ProfileAssumption == Prompt \in BOOLEAN
ASSUME BoundAssumption ==
    /\ Servers \in Nat /\ MaxFailures \in Nat
    /\ MaxConnects \in Nat /\ MaxDisconnects \in Nat
    /\ MaxRestarts \in Nat /\ MaxPairings \in Nat /\ MaxInvites \in Nat

VARIABLES
    opensChannel, \* the dApp's transport, which awaits the client to listen for wallets
    status,      \* P2PTransport._isConnected
    era,         \* number of the promise in P2PCommunicationClient.client
    resolved,    \* the promises that are resolved, with their Matrix clients
    polling,     \* Matrix clients whose sync loop runs
    listening,   \* Matrix clients with a listener for channel openings
    relay,       \* what relay selection has: a cached server, a stored node, a region
    logins,      \* loginCounter
    tasks,       \* calls suspended at an await
    counts       \* calls begun, responses arrived, requests failed, clients made,
                 \* starts that found no server to ask, and whether a stop ever
                 \* cut a start off while it joined rooms

vars == <<opensChannel, status, era, resolved, polling, listening, relay, logins, tasks, counts>>

Counted == {"connect", "disconnect", "restart", "pair", "failure", "client", "serverless", "cut"}

Statuses == {"off", "connecting", "on"}
Relays == {"cached", "node", "region"}

\* What a task is waiting for ...
Steps == {"relay", "login", "sync", "invite", "join", "delete", "fields", "peers", "channel"}

\* ... and what it does after the reset it is in.
Afters == {"none", "off", "start", "retry", "throw"}

Tasks == [op : {"connect", "disconnect", "restart", "retry", "pair"}, pc : Steps,
          n : Nat, era : Nat, client : Nat, invites : Nat, after : Afters]

-----------------------------------------------------------------------------
Task(op, pc, n, promise) ==
    [op |-> op, pc |-> pc, n |-> n, era |-> promise, client |-> 0, invites |-> 0, after |-> "none"]

At(pc) == {t \in tasks : t.pc = pc}
Become(t, new) == tasks' = (tasks \ {t}) \cup new
Finish(t) == Become(t, {})

Count(what) == counts' = [counts EXCEPT ![what] = @ + 1]

IsResolved(e) == \E p \in resolved : p.era = e
Adopted == {p.client : p \in {q \in resolved : q.era = era}}

\* A stopped client keeps for ever whoever asks it for anything.
CanJoin(t) == \E p \in resolved : p.era = t.era /\ p.client \in polling

\* The event loop goes on with what is ready before it takes a network event
\* or a call of the app; with LocalStorage every storage operation is ready.
Ready(t) == \/ t.pc \in {"delete", "fields", "peers"}
            \/ t.pc = "channel" /\ IsResolved(t.era)
            \/ t.pc = "invite" /\ CanJoin(t)
            \/ t.pc = "join" /\ t.client \notin polling
Busy == Prompt /\ \E t \in tasks : Ready(t)

\* getRelayServer's part in the failures: a request that gets no answer.
Fail ==
    /\ counts["failure"] < MaxFailures
    /\ Count("failure")

Init ==
    /\ opensChannel \in BOOLEAN
    /\ status = "off" /\ era = 0 /\ resolved = {}
    /\ polling = {} /\ listening = {}
    /\ relay \in SUBSET {"node"}
    /\ logins = 0 /\ tasks = {}
    /\ counts = [c \in Counted |-> 0]

-----------------------------------------------------------------------------
(* P2PTransport.connect and P2PCommunicationClient.start.                  *)

Call(op, max) ==
    /\ ~Busy
    /\ counts[op] < max
    /\ Count(op)

\* Only a transport that is off connects; start() notes the present promise.
Connect ==
    /\ status = "off"
    /\ Call("connect", MaxConnects)
    /\ status' = "connecting"
    /\ tasks' = tasks \cup {Task("connect", "relay", counts["connect"], era)}
    /\ UNCHANGED <<era, resolved, polling, listening, relay, logins>>

\* getRelayServer uses the cached server or the stored node; the search for
\* another is in vain once a region is selected.
FindRelay(t) ==
    /\ t \in At("relay")
    /\ \/ "cached" \in relay /\ UNCHANGED relay
       \/ "node" \in relay /\ relay' = relay \cup {"cached"}
       \/ /\ "cached" \in relay \/ "region" \notin relay
          /\ relay' = Relays
    /\ Become(t, {[t EXCEPT !.pc = "login", !.client = counts["client"] + 1]})
    /\ Count("client")
    /\ UNCHANGED <<status, era, resolved, polling, listening, logins>>

\* A relay that does not answer makes start() throw, and leaves the transport
\* connecting.  Without a server to ask there is no request to fail.
NoRelay(t) ==
    /\ t \in At("relay")
    /\ \E lost \in SUBSET {"node", "region"} :
          /\ "region" \in lost => "cached" \in relay
          /\ relay' = relay \ (lost \cup {"cached"})
    /\ Finish(t)
    /\ IF relay = {"region"} THEN Count("serverless") ELSE Fail
    /\ UNCHANGED <<status, era, resolved, polling, listening, logins>>

\* The login succeeds: MatrixClient starts to poll.
Login(t) ==
    /\ t \in At("login")
    /\ polling' = polling \cup {t.client}
    /\ Become(t, {[t EXCEPT !.pc = "sync"]})
    /\ UNCHANGED <<status, era, resolved, listening, relay, logins, counts>>

\* The login or the first sync fails: start() resets the client.  After a
\* failed sync the loop goes on polling.
StartFails(t) ==
    /\ t \in At("login") \cup At("sync")
    /\ \E after \in {"retry", "throw"} :
          Become(t, {[t EXCEPT !.pc = "delete", !.after = after]})
    /\ Fail
    /\ UNCHANGED <<status, era, resolved, polling, listening, relay, logins>>

\* Slip: connect() does not look whether a disconnect() overtook it.
StartedUnchecked(t) == IF t.op = "connect" THEN {[t EXCEPT !.pc = "peers"]} ELSE {}

\* What follows when start() returns: connect() goes on if it is not overtaken.
Started(t) ==
    IF t.op = "connect" /\ status = "connecting"
    THEN {[t EXCEPT !.pc = "peers"]} ELSE {}

\* start() joins the rooms it was invited to, one after the other, with the
\* client of the promise that it finds each time.
NextInvite(t, left) ==
    IF left = 0 THEN Started(t)
    ELSE {[t EXCEPT !.pc = "invite", !.era = era, !.invites = left]}

\* Slip: the client is taken whatever happened meanwhile.
FirstSyncUnchecked(t) ==
    /\ t \in At("sync")
    /\ resolved' = IF IsResolved(era) THEN resolved
                   ELSE resolved \cup {[era |-> era, client |-> t.client]}
    /\ \E invites \in 0..MaxInvites : Become(t, NextInvite(t, invites))
    /\ UNCHANGED <<status, era, polling, listening, relay, logins, counts>>

\* The first sync succeeds: the promise start() began with is resolved, unless
\* a reset replaced it: then the client is shut down.
FirstSync(t) ==
    /\ t \in At("sync")
    /\ IF t.era = era
       THEN /\ resolved' = IF IsResolved(era) THEN resolved
                           ELSE resolved \cup {[era |-> era, client |-> t.client]}
            /\ \E invites \in 0..MaxInvites : Become(t, NextInvite(t, invites))
            /\ UNCHANGED polling
       ELSE /\ polling' = polling \ {t.client}
            /\ Become(t, Started(t))
            /\ UNCHANGED resolved
    /\ UNCHANGED <<status, era, listening, relay, logins, counts>>

Join(t) ==
    /\ t \in At("invite")
    /\ \E p \in resolved :
          /\ p.era = t.era /\ p.client \in polling
          /\ Become(t, {[t EXCEPT !.pc = "join", !.client = p.client]})
    /\ UNCHANGED <<status, era, resolved, polling, listening, relay, logins, counts>>

\* The relay answers, or fails, or a stop cancels the request: all are the same.
Joined(t) ==
    /\ t \in At("join")
    /\ Become(t, NextInvite(t, t.invites - 1))
    /\ UNCHANGED <<status, era, resolved, polling, listening, relay, logins, counts>>

\* Slip: the wallet's transport awaits the client too.
ReadPeersAwaiting(t) ==
    /\ t \in At("peers")
    /\ Become(t, {[t EXCEPT !.pc = "channel", !.era = era]})
    /\ UNCHANGED <<status, era, resolved, polling, listening, relay, logins, counts>>

\* The known peers are listened to.  The dApp's transport awaits the client, to
\* listen for wallets, or to listen to a new one that it does not hear yet.
ReadPeers(t) ==
    /\ t \in At("peers")
    /\ \/ /\ opensChannel
          /\ Become(t, {[t EXCEPT !.pc = "channel", !.era = era]})
          /\ UNCHANGED status
       \/ /\ opensChannel => t.op = "pair"
          /\ Finish(t)
          /\ status' = "on"
    /\ UNCHANGED <<era, resolved, polling, listening, relay, logins, counts>>

OpenChannel(t) ==
    /\ t \in At("channel") /\ IsResolved(t.era)
    /\ status' = "on"
    /\ listening' = IF t.op = "pair" THEN listening
                    ELSE listening \cup {p.client : p \in {q \in resolved : q.era = t.era}}
    /\ Finish(t)
    /\ UNCHANGED <<era, resolved, polling, relay, logins, counts>>

\* A wallet's pairing response arrives: the dApp's transport stores the peer,
\* listens to it, and then calls itself connected.
Pair ==
    /\ polling \cap listening # {}
    /\ Call("pair", MaxPairings)
    /\ tasks' = tasks \cup {Task("pair", "peers", counts["pair"], era)}
    /\ UNCHANGED <<status, era, resolved, polling, listening, relay, logins>>

-----------------------------------------------------------------------------
(* P2PTransport.disconnect, P2PCommunicationClient.stop and reset.         *)

\* A start that joins rooms with the client that is stopped is cut off.
Cut == \E t \in At("join") : t.client \in Adopted

Stop(op, max, after) ==
    /\ ~Busy /\ counts[op] < max
    /\ counts' = [counts EXCEPT ![op] = @ + 1, !["cut"] = IF Cut THEN 1 ELSE @]
    /\ polling' = polling \ Adopted
    /\ tasks' = tasks \cup {[Task(op, "delete", counts[op], era) EXCEPT !.after = after]}
    /\ UNCHANGED <<status, era, resolved, listening, relay, logins>>

Disconnect == Stop("disconnect", MaxDisconnects, "off")

\* sendPairingResponse restarts the client to get out of a room it cannot use.
Restart ==
    /\ ~opensChannel /\ IsResolved(era)
    /\ Stop("restart", MaxRestarts, "start")

\* reset() deletes what is stored ...
Delete(t) ==
    /\ t \in At("delete")
    /\ relay' = relay \ {"node"}
    /\ Become(t, {[t EXCEPT !.pc = "fields"]})
    /\ UNCHANGED <<status, era, resolved, polling, listening, logins, counts>>

\* A failed start tries again, without awaiting it, and returns; or it throws.
Retried(t) ==
    IF "region" \in relay /\ logins <= Servers
    THEN {Task("retry", "relay", logins, era + 1)} \cup Started(t) ELSE {}

\* ... and replaces the promise.
Fields(t) ==
    /\ t \in At("fields")
    /\ era' = era + 1
    /\ relay' = relay \ {"cached"}
    /\ status' = IF t.after = "off" THEN "off" ELSE status
    /\ logins' = IF t.after = "retry" /\ Retried(t) # {} THEN logins + 1 ELSE logins
    /\ Become(t, CASE t.after = "start" -> {[t EXCEPT !.pc = "relay", !.era = era + 1,
                                                     !.after = "none"]}
                   [] t.after = "retry" -> Retried(t)
                   [] OTHER             -> {})
    /\ UNCHANGED <<resolved, polling, listening, counts>>

-----------------------------------------------------------------------------
Continue(t) ==
    /\ Busy => Ready(t)
    /\ \/ FindRelay(t) \/ NoRelay(t) \/ Login(t) \/ StartFails(t) \/ FirstSync(t)
       \/ Join(t) \/ Joined(t) \/ ReadPeers(t) \/ OpenChannel(t) \/ Delete(t) \/ Fields(t)

Step ==
    \/ Connect \/ Disconnect \/ Restart \/ Pair
    \/ \E t \in tasks : Continue(t)

Next == Step /\ UNCHANGED opensChannel

Spec == Init /\ [][Next]_vars

\* Requests are answered or fail, and storage answers: no task is left where
\* it is for ever while it could go on.
FairSpec == Spec /\ WF_vars((\E t \in tasks : Continue(t)) /\ UNCHANGED opensChannel)

-----------------------------------------------------------------------------
(* Properties                                                              *)

\* Every variable has its type, and only clients that were made poll.
TypeOK ==
    /\ opensChannel \in BOOLEAN
    /\ status \in Statuses /\ era \in Nat /\ logins \in Nat
    /\ resolved \subseteq [era : Nat, client : Nat]
    /\ polling \cup listening \subseteq 1..counts["client"]
    /\ relay \subseteq Relays
    /\ tasks \subseteq Tasks
    /\ counts \in [Counted -> Nat]

\* A client is in reach when stop() would stop it, or its start() will.
InReach(c) ==
    \/ c \in Adopted
    \/ \E t \in At("sync") : t.client = c

Ghosts == {c \in polling : ~InReach(c)}

\* start() shuts down the client that a stop() could not reach, whatever
\* connects, disconnects and restarts overlap, if storage is prompt and no
\* request failed: a client that syncs is one that a stop will reach.
NoGhosts == Prompt /\ counts["failure"] = 0 => Ghosts = {}

\* A task that waits for a promise which has been replaced waits for ever.
Stranded(t) == t.pc = "channel" /\ t.era # era /\ ~IsResolved(t.era)
Idle == \A t \in tasks : Stranded(t)

\* When every call has returned, the transport is connected if and only if a
\* client runs for it, under the same conditions, and if no stop cut off a start
\* that joined rooms.
StatusTellsTheTruth ==
    Prompt /\ counts["failure"] + counts["serverless"] + counts["cut"] = 0 /\ Idle
        => (status = "on" <=> polling # {})

\* A connect that a disconnect has overtaken calls the transport connected.
OvertakenConnects ==
    /\ status = "off" /\ status' = "on"
    /\ \E t \in tasks \ tasks' : t.op = "connect"

\* With prompt storage none does, whatever fails: connect() looks at the status
\* when start() returns, and a disconnect later than that strands it.  Only a
\* start that joined rooms may return in the midst of a disconnect.
NoOvertakenConnect == [][Prompt /\ counts["cut"] = 0 => ~OvertakenConnects]_vars

\* connect() does not go on to await a promise that a disconnect left behind: it
\* is stranded only if another connect made it believe it was not overtaken, a
\* request failed, or a disconnect cut it off while it joined rooms.
OneConnectIsNotStranded ==
    Prompt /\ counts["failure"] + counts["cut"] = 0 /\ counts["connect"] = 1
        => \A t \in tasks : t.op = "connect" => ~Stranded(t)

\* Those of a dApp may await a client promise that no call is left to resolve; a
\* start that had rooms to join may, or may be held by a client that was stopped,
\* when a stop or another start that failed came upon it.
Hangs(t) ==
    \/ opensChannel /\ t.pc = "channel" /\ ~IsResolved(t.era)
    \/ counts["cut"] + counts["failure"] > 0 /\ t.pc = "invite" /\ ~CanJoin(t)

\* But for these, the calls of either transport return, whatever overlaps and
\* fails.
CallsReturn == tasks # {} ~> \A t \in tasks : Hangs(t)

=============================================================================
