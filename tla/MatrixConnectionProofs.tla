----------------------- MODULE MatrixConnectionProofs -----------------------
(***************************************************************************)
(* Proofs about MatrixConnection, for any number of calls, restarts and    *)
(* failures.  With prompt storage a reset runs alone; that keeps the       *)
(* promise of the present era for at most one start(), and keeps whoever   *)
(* waits for a replaced promise from ever going on, unless a stop() cut    *)
(* off a start() that joined rooms.  While the network answers too, the    *)
(* status then follows the client: a transport that is on has one, or      *)
(* somebody is about to make or to take it.                                *)
(***************************************************************************)
EXTENDS MatrixConnection, TLAPS

Starting(t) == t.pc \in {"relay", "login", "sync"}
Resetting(t) == t.pc \in {"delete", "fields"}
Joining(t) == t.pc \in {"invite", "join"}

Made == 1..counts["client"]

TypeInv ==
    /\ TypeOK
    /\ \A t \in At("login") \cup At("sync") : t.client \in Made
    /\ \A p \in resolved : p.client \in Made
    /\ \A t \in tasks : Joining(t) => t.invites \in Nat \ {0}

\* Nothing is ahead of the present era.
EraInv ==
    /\ \A t \in tasks : t.era <= era
    /\ \A p \in resolved : p.era <= era

\* Resets follow one another ...
SoleInv == \A t, u \in tasks : Resetting(t) /\ Resetting(u) => u = t

\* ... and a reset is the only task that is ready.
AloneInv == \A t, u \in tasks : Resetting(t) /\ Ready(u) => u = t

\* A connect whose start() has returned is not overtaken, or waits in vain.
WaitingInv ==
    \A t \in tasks : t.op = "connect" =>
        /\ t.pc = "peers" => status # "off"
        /\ t.pc = "channel" => \/ t.era = era /\ status # "off"
                               \/ t.era < era /\ ~IsResolved(t.era)

Contends(t) == Starting(t) /\ t.era = era

\* At most one start() contends for the present promise, which is open then,
\* and none does while the transport is off.
ContenderInv ==
    /\ \A t, u \in tasks : Contends(t) /\ Contends(u) => t = u
    /\ \A t \in tasks : Contends(t) => ~IsResolved(era) /\ status # "off"
    /\ IsResolved(era) => status # "off"

\* A reset has stopped the client it takes away.
ResetInv ==
    \A t \in tasks : Resetting(t) =>
        /\ t.after \in {"off", "start"}
        /\ t.after = "start" => status # "off"
        /\ Adopted \cap polling = {}

Clients == {p.client : p \in resolved}

\* The start() that still has its client to itself.
Owners == At("login") \cup At("sync")

\* A client belongs to one start() until it is adopted, syncs until its start()
\* returns, and is listened to only once it is adopted.
ClientInv ==
    /\ listening \subseteq Clients
    /\ \A t \in Owners : t.client \notin Clients
    /\ \A t, u \in Owners : t.client = u.client => t = u
    /\ \A t \in At("sync") : t.client \in polling
    /\ \A t \in At("join") : t.client \in Clients

Uncut == counts["cut"] = 0

\* A room is joined by a client that runs, until a stop() cuts that off.
JoinInv == \A t \in At("join") : t.client \in polling

\* The rooms are joined with a client of the present promise, beside no reset.
HasClient(t) == \E p \in resolved : /\ p.era = era /\ p.client \in polling
                                    /\ t.pc = "join" => p.client = t.client

RoomsInv ==
    \A t \in tasks : Joining(t) =>
        t.era = era /\ HasClient(t) /\ \A u \in tasks : ~Resetting(u)

\* Whoever waits for a replaced promise waits in vain.
ChannelInv == \A t \in At("channel") : t.era = era \/ ~IsResolved(t.era)

\* The client of the present promise runs.
Held == Adopted \cap polling # {}

\* Only a connect starts before the transport is on; a restart comes later.
RestartInv ==
    /\ \A t \in tasks : Contends(t) /\ t.op # "connect" => status = "on"
    /\ \A t \in tasks : Resetting(t) /\ t.after = "start" => status = "on"

\* A pairing response that is taken in came over the present client.
PairInv == \A t \in At("peers") : t.op # "connect" => Held

Returned(t) ==
    /\ t.op = "connect"
    /\ t.pc = "peers" \/ (t.pc = "channel" /\ t.era = era) \/ Joining(t)

\* A promise that is resolved while the transport connects has a connect to go on.
ConnectingInv ==
    status = "connecting" /\ IsResolved(era) => \E t \in tasks : Returned(t)

\* A transport that is not off has a client, a start() that contends for the
\* promise, or a reset under way, unless a start() found no server.
LiveInv ==
    status # "off" /\ counts["serverless"] = 0 =>
        Held \/ \E t \in tasks : Contends(t) \/ Resetting(t)

\* The only connect of a behaviour goes on for the promise it began with.
NoConnectYet == counts["connect"] = 0 => \A t \in tasks : t.op # "connect"

FirstConnectInv ==
    counts["connect"] = 1 => \A t \in tasks : t.op = "connect" =>
        /\ Starting(t) /\ status = "connecting" => t.era = era
        /\ t.pc = "peers" => IsResolved(era)
        /\ t.pc = "channel" => t.era = era /\ IsResolved(era)

Calm == counts["failure"] = 0

StartInv == ContenderInv /\ ResetInv /\ Ghosts = {}

CalmInv ==
    /\ RoomsInv /\ RestartInv /\ PairInv /\ ConnectingInv /\ LiveInv
    /\ FirstConnectInv

IInv ==
    /\ TypeInv
    /\ EraInv
    /\ ClientInv
    /\ NoConnectYet
    /\ Uncut => JoinInv
    /\ Prompt => SoleInv
    /\ Prompt /\ Uncut => AloneInv /\ WaitingInv /\ ChannelInv
    /\ Prompt /\ Calm => StartInv
    /\ Prompt /\ Calm /\ Uncut => CalmInv

LEMMA InitIInv == Init => IInv
<1> SUFFICES ASSUME Init PROVE IInv
  OBVIOUS
<1>1. TypeInv
  BY DEF Init, TypeInv, TypeOK, Statuses, Relays, Counted, At
<1>2. EraInv /\ AloneInv /\ WaitingInv /\ ContenderInv /\ ResetInv
  BY DEF Init, EraInv, AloneInv, WaitingInv, ContenderInv, ResetInv, IsResolved
<1>3. SoleInv /\ JoinInv /\ RoomsInv
  BY DEF Init, SoleInv, JoinInv, RoomsInv, At
<1>4. Ghosts = {}
  BY DEF Init, Ghosts
<1>5. ClientInv /\ ChannelInv
  BY DEF Init, ClientInv, ChannelInv, Clients, Owners, At
<1>6. RestartInv /\ PairInv /\ ConnectingInv /\ LiveInv /\ NoConnectYet /\ FirstConnectInv
  BY DEF Init, RestartInv, PairInv, ConnectingInv, LiveInv, NoConnectYet, FirstConnectInv, At
<1> QED
  BY <1>1, <1>2, <1>3, <1>4, <1>5, <1>6 DEF IInv, StartInv, CalmInv

-----------------------------------------------------------------------------
\* Counting keeps the counts' type, and never unmakes a client.
LEMMA Counting ==
    ASSUME counts \in [Counted -> Nat], NEW what \in Counted, Count(what)
    PROVE  /\ counts' \in [Counted -> Nat]
           /\ counts'["client"] = IF what = "client" THEN counts["client"] + 1
                                  ELSE counts["client"]
           /\ Made \subseteq Made'
BY DEF Count, Counted, Made

\* The tasks that relay selection and a restart's reset make have their type.
LEMMA Advancing ==
    ASSUME TypeOK, NEW t \in tasks
    PROVE  /\ [t EXCEPT !.pc = "login", !.client = counts["client"] + 1] \in Tasks
           /\ [t EXCEPT !.pc = "relay", !.era = era + 1, !.after = "none"] \in Tasks
<1>1. t \in Tasks /\ counts["client"] + 1 \in Nat /\ era + 1 \in Nat
  BY DEF TypeOK, Counted
<1>2. {"login", "relay"} \subseteq Steps /\ "none" \in Afters
  BY DEF Steps, Afters
<1> QED
  BY <1>1, <1>2 DEF Tasks

\* So have those that join rooms.
LEMMA Inviting ==
    ASSUME TypeOK, NEW t \in tasks, NEW left \in Nat
    PROVE  \A u \in NextInvite(t, left) :
              /\ u \in Tasks
              /\ \/ u \in Started(t) /\ u.pc = "peers"
                 \/ u.pc = "invite" /\ u.era = era /\ u.op = t.op /\ u.invites = left /\ left # 0
<1>1. t \in Tasks /\ era \in Nat /\ {"peers", "invite"} \subseteq Steps
  BY DEF TypeOK, Steps
<1>2. \A u \in Started(t) : u \in Tasks /\ u.pc = "peers"
  BY <1>1 DEF Started, Tasks
<1>3. PICK next : next = [t EXCEPT !.pc = "invite", !.era = era, !.invites = left]
  OBVIOUS
<1>4. /\ next \in Tasks /\ next.pc = "invite" /\ next.era = era /\ next.op = t.op
      /\ next.invites = left
  BY <1>1, <1>3 DEF Tasks
<1>5. CASE left = 0
  BY <1>2, <1>5 DEF NextInvite
<1>6. CASE left # 0
  BY <1>3, <1>4, <1>6 DEF NextInvite
<1> QED
  BY <1>5, <1>6

\* Every step keeps the types.
LEMMA TypeStep == TypeInv /\ [Next]_vars => TypeInv'
<1> SUFFICES ASSUME TypeInv, [Next]_vars PROVE TypeInv'
  OBVIOUS
<1>0. opensChannel' = opensChannel
  BY DEF Next, vars
<1> USE <1>0
<1> USE BoundAssumption DEF TypeInv, TypeOK, At, Made, Become, Finish, Count, Call
<1> USE DEF Tasks, Task, Steps, Afters, Statuses, Counted, Joining
<1>1. CASE Connect
  BY <1>1 DEF Connect
<1>2. CASE Disconnect \/ Restart
  BY <1>2 DEF Disconnect, Restart, Stop
<1>3. CASE Pair
  BY <1>3 DEF Pair
<1>4. ASSUME NEW t \in tasks, FindRelay(t) PROVE TypeInv'
  <2>1. /\ counts' \in [Counted -> Nat] /\ counts'["client"] = counts["client"] + 1
        /\ Made \subseteq Made'
    BY <1>4, Counting DEF FindRelay
  <2>2. relay' \subseteq Relays
    BY <1>4 DEF FindRelay, Relays
  <2>3. [t EXCEPT !.pc = "login", !.client = counts["client"] + 1] \in Tasks
    BY Advancing
  <2> QED
    <3>1. /\ tasks' = (tasks \ {t})
                 \cup {[t EXCEPT !.pc = "login", !.client = counts["client"] + 1]}
          /\ UNCHANGED <<status, era, resolved, polling, listening, logins>>
      BY <1>4 DEF FindRelay
    <3>2. counts'["client"] \in Made'
      BY <2>1
    <3> QED
      BY <2>1, <2>2, <2>3, <3>1, <3>2
<1>5. ASSUME NEW t \in tasks, NoRelay(t) PROVE TypeInv'
  <2>1. counts' \in [Counted -> Nat] /\ Made \subseteq Made'
    BY <1>5, Counting DEF NoRelay, Fail
  <2>2. relay' \subseteq Relays
    BY <1>5 DEF NoRelay
  <2> QED
    BY <1>5, <2>1, <2>2 DEF NoRelay
<1>6. ASSUME NEW t \in tasks, Login(t) PROVE TypeInv'
  BY <1>6 DEF Login
<1>7. ASSUME NEW t \in tasks, StartFails(t) PROVE TypeInv'
  <2>1. counts' \in [Counted -> Nat] /\ Made \subseteq Made'
    BY <1>7, Counting DEF StartFails, Fail
  <2>2. \A after \in {"retry", "throw"} :
          [t EXCEPT !.pc = "delete", !.after = after] \in Tasks
    BY <1>7
  <2> QED
    BY <1>7, <2>1, <2>2 DEF StartFails
<1>8. ASSUME NEW t \in tasks, FirstSync(t) PROVE TypeInv'
  <2>1. /\ UNCHANGED <<status, era, listening, relay, logins, counts>>
        /\ t.client \in Made /\ polling' \subseteq polling
        /\ resolved' \subseteq resolved \cup {[era |-> era, client |-> t.client]}
    BY <1>8 DEF FirstSync
  <2>2. \A u \in Started(t) : u \in Tasks /\ u.pc = "peers"
    BY DEF Started
  <2>3. \A left \in 0..MaxInvites : \A u \in NextInvite(t, left) :
           u \in Tasks /\ (u.pc = "peers" \/ (u.pc = "invite" /\ u.invites \in Nat \ {0}))
    BY Inviting
  <2>4. \A u \in tasks' : \/ u \in tasks
                          \/ u \in Tasks /\ u.pc = "peers"
                          \/ u \in Tasks /\ u.pc = "invite" /\ u.invites \in Nat \ {0}
    BY <1>8, <2>2, <2>3 DEF FirstSync
  <2>5. [era |-> era, client |-> t.client] \in [era : Nat, client : Nat]
    BY <2>1
  <2>6. /\ [era |-> era, client |-> t.client].client = t.client
        /\ \A p \in resolved' : p \in resolved \/ p.client = t.client
    BY <2>1
  <2>7. resolved' \subseteq [era : Nat, client : Nat]
    BY <2>1, <2>5
  <2>8. /\ opensChannel' \in BOOLEAN /\ status' \in Statuses /\ era' \in Nat /\ logins' \in Nat
        /\ polling' \cup listening' \subseteq 1..counts'["client"]
        /\ relay' \subseteq Relays /\ counts' \in [Counted -> Nat] /\ tasks' \subseteq Tasks
    BY <2>1, <2>4
  <2>9. \A u \in tasks' : u.pc \in {"login", "sync"} => u \in tasks
    BY <2>4
  <2>10. Made' = Made
    BY <2>1
  <2> HIDE DEF Made, Tasks
  <2>11. (\A u \in At("login") \cup At("sync") : u.client \in Made)'
    BY <2>9, <2>10
  <2>12. (\A p \in resolved : p.client \in Made)'
    BY <2>1, <2>6, <2>10
  <2>13. (\A u \in tasks : Joining(u) => u.invites \in Nat \ {0})'
    BY <2>4
  <2> QED
    BY <2>7, <2>8, <2>11, <2>12, <2>13
<1>9. ASSUME NEW t \in tasks, Join(t) PROVE TypeInv'
  <2>1. PICK p \in resolved :
           tasks' = (tasks \ {t}) \cup {[t EXCEPT !.pc = "join", !.client = p.client]}
    BY <1>9 DEF Join
  <2>2. PICK next : next = [t EXCEPT !.pc = "join", !.client = p.client]
    OBVIOUS
  <2>3. next \in Tasks /\ next.pc = "join" /\ next.invites = t.invites
    BY <2>2
  <2>4. UNCHANGED <<status, era, resolved, polling, listening, relay, logins, counts>>
    BY <1>9 DEF Join
  <2>5. t.invites \in Nat \ {0}
    BY <1>9 DEF Join
  <2> HIDE DEF Tasks
  <2> QED
    BY <2>1, <2>2, <2>3, <2>4, <2>5
<1>10. ASSUME NEW t \in tasks, Joined(t) PROVE TypeInv'
  <2>1. UNCHANGED <<status, era, resolved, polling, listening, relay, logins, counts>>
    BY <1>10 DEF Joined
  <2>2. t.invites - 1 \in Nat
    BY <1>10 DEF Joined
  <2>3. \A u \in NextInvite(t, t.invites - 1) :
           u \in Tasks /\ (u.pc = "peers" \/ (u.pc = "invite" /\ u.invites \in Nat \ {0}))
    BY <2>2, Inviting
  <2>4. \A u \in tasks' : \/ u \in tasks
                          \/ u \in Tasks /\ u.pc = "peers"
                          \/ u \in Tasks /\ u.pc = "invite" /\ u.invites \in Nat \ {0}
    BY <1>10, <2>3 DEF Joined
  <2> HIDE DEF Tasks
  <2> QED
    BY <2>1, <2>4
<1>11. ASSUME NEW t \in tasks, ReadPeers(t) PROVE TypeInv'
  BY <1>11 DEF ReadPeers
<1>12. ASSUME NEW t \in tasks, OpenChannel(t) PROVE TypeInv'
  BY <1>12 DEF OpenChannel
<1>13. ASSUME NEW t \in tasks, Delete(t) PROVE TypeInv'
  BY <1>13 DEF Delete
<1>14. ASSUME NEW t \in tasks, Fields(t) PROVE TypeInv'
  <2>1. Started(t) \subseteq Tasks /\ \A u \in Started(t) : u.pc = "peers"
    BY DEF Started
  <2>2. Retried(t) \subseteq Tasks /\ \A u \in Retried(t) : u.pc \in {"relay", "peers"}
    BY <2>1 DEF Retried
  <2>3. [t EXCEPT !.pc = "relay", !.era = era + 1, !.after = "none"] \in Tasks
    BY Advancing
  <2>4. \A u \in tasks' \ tasks : u \in Tasks /\ u.pc \in {"relay", "peers"}
    BY <1>14, <2>2, <2>3 DEF Fields
  <2>5. relay' \subseteq Relays
    BY <1>14 DEF Fields
  <2>6. /\ status' \in Statuses /\ era' \in Nat /\ logins' \in Nat
        /\ UNCHANGED <<resolved, polling, listening, counts>>
    BY <1>14 DEF Fields
  <2> QED
    BY <2>4, <2>5, <2>6
<1>15. CASE UNCHANGED vars
  BY <1>15 DEF vars
<1> QED
  BY <1>1, <1>2, <1>3, <1>4, <1>5, <1>6, <1>7, <1>8, <1>9, <1>10, <1>11, <1>12, <1>13,
     <1>14, <1>15 DEF Next, Step, Continue

-----------------------------------------------------------------------------
\* A start() that returns leaves its connect, if that is not overtaken, ...
LEMMA AfterStart ==
    ASSUME TypeInv, NEW t \in tasks
    PROVE  \A u \in Started(t) :
              /\ u.pc = "peers" /\ u.op = "connect" /\ u.era = t.era
              /\ t.op = "connect" /\ status = "connecting"
<1>1. t \in Tasks
  BY DEF TypeInv, TypeOK
<1> QED
  BY <1>1 DEF Started, Tasks

\* ... or goes on to join rooms, ...
LEMMA AfterFirstSync ==
    ASSUME TypeInv, NEW t \in tasks, FirstSync(t)
    PROVE  \A u \in tasks' : \/ u \in tasks \ {t}
                             \/ u \in Started(t)
                             \/ t.era = era /\ u.pc = "invite" /\ u.era = era /\ u.op = t.op
<1>1. \A left \in 0..MaxInvites : \A u \in NextInvite(t, left) :
         u \in Started(t) \/ (u.pc = "invite" /\ u.era = era /\ u.op = t.op)
  BY BoundAssumption, Inviting DEF TypeInv
<1>2. \/ t.era = era /\ \E left \in 0..MaxInvites : tasks' = (tasks \ {t}) \cup NextInvite(t, left)
      \/ tasks' = (tasks \ {t}) \cup Started(t)
  BY DEF FirstSync, Become
<1> QED
  BY <1>1, <1>2

LEMMA AfterJoin ==
    ASSUME TypeInv, NEW t \in tasks, Join(t)
    PROVE  /\ UNCHANGED <<status, era, resolved, polling, listening, relay, logins, counts>>
           /\ t.pc = "invite" /\ CanJoin(t) /\ tasks \ {t} \subseteq tasks'
           /\ \A u \in tasks' : \/ u \in tasks \ {t}
                                \/ /\ u.pc = "join" /\ u.era = t.era /\ u.op = t.op
                                   /\ \E p \in resolved : /\ p.era = t.era /\ p.client \in polling
                                                          /\ p.client = u.client
           /\ \E u \in tasks' : u.pc = "join" /\ u.op = t.op
<1>1. /\ UNCHANGED <<status, era, resolved, polling, listening, relay, logins, counts>>
      /\ t.pc = "invite" /\ t \in Tasks
  BY DEF Join, At, TypeInv, TypeOK
<1>2. PICK p \in resolved :
         /\ p.era = t.era /\ p.client \in polling
         /\ tasks' = (tasks \ {t}) \cup {[t EXCEPT !.pc = "join", !.client = p.client]}
  BY DEF Join, Become
<1>3. PICK next : next = [t EXCEPT !.pc = "join", !.client = p.client]
  OBVIOUS
<1>4. next.pc = "join" /\ next.era = t.era /\ next.op = t.op /\ next.client = p.client
  BY <1>1, <1>3 DEF Tasks
<1> QED
  BY <1>1, <1>2, <1>3, <1>4 DEF CanJoin

LEMMA AfterJoined ==
    ASSUME TypeInv, NEW t \in tasks, Joined(t)
    PROVE  /\ UNCHANGED <<status, era, resolved, polling, listening, relay, logins, counts>>
           /\ t.pc = "join" /\ tasks \ {t} \subseteq tasks'
           /\ \A u \in tasks' : \/ u \in tasks \ {t}
                                \/ u \in Started(t)
                                \/ u.pc = "invite" /\ u.era = era /\ u.op = t.op
           /\ Started(t) \subseteq tasks' \/ \E u \in tasks' : u.pc = "invite" /\ u.op = t.op
<1>1. /\ UNCHANGED <<status, era, resolved, polling, listening, relay, logins, counts>>
      /\ t.pc = "join" /\ tasks' = (tasks \ {t}) \cup NextInvite(t, t.invites - 1)
  BY DEF Joined, At, Become
<1>2. t.invites - 1 \in Nat
  BY <1>1 DEF TypeInv, Joining
<1>3. \A u \in NextInvite(t, t.invites - 1) :
         u \in Started(t) \/ (u.pc = "invite" /\ u.era = era /\ u.op = t.op)
  BY <1>2, Inviting DEF TypeInv
<1>4. Started(t) \subseteq tasks' \/ \E u \in tasks' : u.pc = "invite" /\ u.op = t.op
  <2>1. CASE t.invites - 1 = 0
    BY <1>1, <2>1 DEF NextInvite
  <2>2. CASE t.invites - 1 # 0
    <3>1. PICK u : u = [t EXCEPT !.pc = "invite", !.era = era, !.invites = t.invites - 1]
      OBVIOUS
    <3>2. u \in tasks'
      BY <1>1, <2>2, <3>1 DEF NextInvite
    <3>3. u.pc = "invite" /\ u.op = t.op
      BY <3>1 DEF TypeInv, TypeOK, Tasks
    <3> QED
      BY <3>2, <3>3
  <2> QED
    BY <2>1, <2>2
<1> QED
  BY <1>1, <1>3, <1>4

\* ... and the other steps of t leave, of t, what they say they do.
LEMMA AfterFindRelay ==
    ASSUME TypeInv, NEW t \in tasks, FindRelay(t)
    PROVE  \A u \in tasks' : \/ u \in tasks \ {t}
                             \/ /\ u.pc = "login" /\ u.era = t.era /\ u.op = t.op
                                /\ u.client = counts["client"] + 1
<1> DEFINE found == [t EXCEPT !.pc = "login", !.client = counts["client"] + 1]
<1>1. t \in Tasks
  BY DEF TypeInv, TypeOK
<1>2. /\ found.pc = "login" /\ found.era = t.era /\ found.op = t.op
      /\ found.client = counts["client"] + 1
  BY <1>1 DEF Tasks
<1>3. tasks' = (tasks \ {t}) \cup {found}
  BY DEF FindRelay, Become
<1> HIDE DEF found
<1> QED
  BY <1>2, <1>3

LEMMA AfterLogin ==
    ASSUME TypeInv, NEW t \in tasks, Login(t)
    PROVE  /\ \A u \in tasks' : \/ u \in tasks \ {t}
                                \/ /\ u.pc = "sync" /\ u.era = t.era /\ u.op = t.op
                                   /\ u.client = t.client
           /\ \E u \in tasks' : u.pc = "sync" /\ u.client = t.client
<1> DEFINE next == [t EXCEPT !.pc = "sync"]
<1>1. t \in Tasks
  BY DEF TypeInv, TypeOK
<1>2. next.pc = "sync" /\ next.era = t.era /\ next.op = t.op /\ next.client = t.client
  BY <1>1 DEF Tasks
<1>3. tasks' = (tasks \ {t}) \cup {next}
  BY DEF Login, Become
<1> HIDE DEF next
<1> QED
  BY <1>2, <1>3

LEMMA AfterStartFails ==
    ASSUME TypeInv, NEW t \in tasks, StartFails(t)
    PROVE  \A u \in tasks' : u \in tasks \ {t} \/ u.pc = "delete"
<1>1. PICK after : tasks' = (tasks \ {t}) \cup {[t EXCEPT !.pc = "delete", !.after = after]}
  BY DEF StartFails, Become
<1> DEFINE gone == [t EXCEPT !.pc = "delete", !.after = after]
<1>2. t \in Tasks
  BY DEF TypeInv, TypeOK
<1>3. gone.pc = "delete"
  BY <1>2 DEF Tasks
<1>4. tasks' = (tasks \ {t}) \cup {gone}
  BY <1>1
<1> HIDE DEF gone
<1> QED
  BY <1>3, <1>4

LEMMA AfterDelete ==
    ASSUME TypeInv, NEW t \in tasks, Delete(t)
    PROVE  \A u \in tasks' : \/ u \in tasks \ {t}
                             \/ u.pc = "fields" /\ u.after = t.after
<1> DEFINE next == [t EXCEPT !.pc = "fields"]
<1>1. t \in Tasks
  BY DEF TypeInv, TypeOK
<1>2. next.pc = "fields" /\ next.after = t.after
  BY <1>1 DEF Tasks
<1>3. tasks' = (tasks \ {t}) \cup {next}
  BY DEF Delete, Become
<1> HIDE DEF next
<1> QED
  BY <1>2, <1>3

LEMMA AfterReadPeers ==
    ASSUME TypeInv, NEW t \in tasks, ReadPeers(t)
    PROVE  \A u \in tasks' : \/ u \in tasks \ {t}
                             \/ /\ u.pc = "channel" /\ u.era = era /\ u.op = t.op
                                /\ status' = status
<1> DEFINE waiting == [t EXCEPT !.pc = "channel", !.era = era]
<1>1. t \in Tasks
  BY DEF TypeInv, TypeOK
<1>2. waiting.pc = "channel" /\ waiting.era = era /\ waiting.op = t.op
  BY <1>1 DEF Tasks
<1>3. \/ tasks' = (tasks \ {t}) \cup {waiting} /\ status' = status
      \/ tasks' = tasks \ {t}
  BY DEF ReadPeers, Become, Finish
<1> HIDE DEF waiting
<1> QED
  BY <1>2, <1>3

LEMMA AfterFields ==
    ASSUME TypeInv, NEW t \in tasks, Fields(t)
    PROVE  \A u \in tasks' : \/ u \in tasks \ {t}
                             \/ u \in Started(t) /\ t.after = "retry"
                             \/ /\ u.pc = "relay" /\ u.era = era + 1
                                /\ t.after \in {"start", "retry"}
<1> DEFINE again == [t EXCEPT !.pc = "relay", !.era = era + 1, !.after = "none"]
           retry == Task("retry", "relay", logins, era + 1)
<1>1. t \in Tasks
  BY DEF TypeInv, TypeOK
<1>2. again.pc = "relay" /\ again.era = era + 1
  BY <1>1 DEF Tasks
<1>3. retry.pc = "relay" /\ retry.era = era + 1
  BY DEF Task
<1>4. Retried(t) \subseteq {retry} \cup Started(t)
  BY DEF Retried
<1>5. \/ t.after = "start" /\ tasks' = (tasks \ {t}) \cup {again}
      \/ t.after = "retry" /\ tasks' = (tasks \ {t}) \cup Retried(t)
      \/ tasks' = tasks \ {t}
  <2>1. t.after \notin {"start", "retry"} => tasks' = tasks \ {t}
    BY DEF Fields, Become
  <2>2. t.after = "start" => tasks' = (tasks \ {t}) \cup {again}
    BY DEF Fields, Become
  <2>3. t.after = "retry" => tasks' = (tasks \ {t}) \cup Retried(t)
    BY DEF Fields, Become
  <2> QED
    BY <2>1, <2>2, <2>3
<1> HIDE DEF again, retry
<1> QED
  BY <1>2, <1>3, <1>4, <1>5

-----------------------------------------------------------------------------
\* Every step keeps eras in order.
LEMMA EraStep == TypeInv /\ EraInv /\ [Next]_vars => EraInv'
<1> SUFFICES ASSUME TypeInv, EraInv, [Next]_vars PROVE EraInv'
  OBVIOUS
<1>1. era \in Nat /\ tasks \subseteq Tasks /\ \A p \in resolved : p.era \in Nat
  BY DEF TypeInv, TypeOK
<1> USE <1>1 DEF EraInv, Become, Finish, Tasks, Task
<1>2. CASE Connect
  BY <1>2 DEF Connect
<1>3. CASE Disconnect \/ Restart
  BY <1>3 DEF Disconnect, Restart, Stop
<1>4. CASE Pair
  BY <1>4 DEF Pair
<1>5. ASSUME NEW t \in tasks, FindRelay(t) PROVE EraInv'
  BY <1>5 DEF FindRelay
<1>6. ASSUME NEW t \in tasks, NoRelay(t) \/ Login(t) \/ OpenChannel(t) \/ Delete(t) PROVE EraInv'
  BY <1>6 DEF NoRelay, Login, OpenChannel, Delete
<1>7. ASSUME NEW t \in tasks, StartFails(t) PROVE EraInv'
  BY <1>7 DEF StartFails
<1>8. ASSUME NEW t \in tasks, FirstSync(t) PROVE EraInv'
  <2>1. \A u \in tasks' : u \in tasks \/ u.era \in {t.era, era}
    BY <1>8, AfterFirstSync, AfterStart
  <2>2. UNCHANGED era /\ \A p \in resolved' : p \in resolved \/ p.era = era
    BY <1>8 DEF FirstSync
  <2> QED
    BY <1>1, <2>1, <2>2
<1>9. ASSUME NEW t \in tasks, Join(t) \/ Joined(t) PROVE EraInv'
  <2>1. \A u \in tasks' : u \in tasks \/ u.era \in {t.era, era}
    BY <1>9, AfterJoin, AfterJoined, AfterStart
  <2>2. UNCHANGED <<era, resolved>>
    BY <1>9, AfterJoin, AfterJoined
  <2> QED
    BY <1>1, <2>1, <2>2
<1>10. ASSUME NEW t \in tasks, ReadPeers(t) PROVE EraInv'
  <2>1. UNCHANGED <<era, resolved>>
    BY <1>10 DEF ReadPeers
  <2>2. \A u \in tasks' : u \in tasks \/ u.era = era
    BY <1>10, AfterReadPeers
  <2> QED
    BY <1>1, <2>1, <2>2
<1>11. ASSUME NEW t \in tasks, Fields(t) PROVE EraInv'
  <2>1. \A u \in tasks' : u \in tasks \/ u.era \in {t.era, era + 1}
    BY <1>11, AfterFields, AfterStart
  <2> QED
    BY <1>11, <2>1 DEF Fields
<1>12. CASE UNCHANGED vars
  BY <1>12 DEF vars
<1> QED
  BY <1>2, <1>3, <1>4, <1>5, <1>6, <1>7, <1>8, <1>9, <1>10, <1>11, <1>12
     DEF Next, Step, Continue

\* No task that is ready is there when the app calls, or a request is answered.
LEMMA NotBusy ==
    ASSUME Prompt, NEW t \in tasks, Continue(t), ~Ready(t)
    PROVE  \A u \in tasks : ~Ready(u)
BY DEF Continue, Busy

LEMMA NotBusyCall ==
    ASSUME Prompt, Connect \/ Disconnect \/ Restart \/ Pair
    PROVE  \A u \in tasks : ~Ready(u)
BY DEF Connect, Disconnect, Restart, Pair, Stop, Call, Busy

\* A stop() that cuts off a start() does so for good, and other steps cut nothing.
LEMMA CutStays ==
    ASSUME TypeInv, [Next]_vars, Uncut'
    PROVE  Uncut /\ (Disconnect \/ Restart => ~Cut)
<1>1. counts \in [Counted -> Nat] /\ "cut" \in Counted
  BY DEF TypeInv, TypeOK, Counted
<1>2. CASE Disconnect \/ Restart
  BY <1>1, <1>2 DEF Disconnect, Restart, Stop, Uncut, Counted
<1>3. CASE ~(Disconnect \/ Restart)
  <2>1. counts' = counts \/ \E w \in Counted \ {"cut"} : Count(w)
    BY <1>3 DEF Next, Step, Continue, Connect, Pair, Call, Counted, Fail, FindRelay, NoRelay, Login,
         StartFails, FirstSync, Join, Joined, ReadPeers, OpenChannel, Delete, Fields, vars
  <2> QED
    BY <1>1, <1>3, <2>1 DEF Uncut, Count
<1> QED
  BY <1>2, <1>3

\* The client that joins a room runs, unless a stop() cuts that off.
LEMMA JoinStep ==
    ASSUME TypeInv, ClientInv, JoinInv, Uncut', [Next]_vars
    PROVE  JoinInv'
<1> USE DEF JoinInv, At
<1>1. CASE Connect \/ Pair
  <2>1. UNCHANGED polling /\ \A u \in tasks' : u \in tasks \/ u.pc # "join"
    BY <1>1 DEF Connect, Pair, Task
  <2> QED
    BY <2>1
<1>2. CASE Disconnect \/ Restart
  <2>1. polling' = polling \ Adopted /\ ~Cut
    BY <1>2, CutStays DEF Disconnect, Restart, Stop
  <2>2. \A u \in tasks' : u \in tasks \/ u.pc # "join"
    BY <1>2 DEF Disconnect, Restart, Stop, Task
  <2> QED
    BY <2>1, <2>2 DEF Cut
<1>3. ASSUME NEW t \in tasks,
             \/ FindRelay(t) \/ NoRelay(t) \/ Login(t) \/ StartFails(t) \/ ReadPeers(t)
             \/ OpenChannel(t) \/ Delete(t) \/ Fields(t)
      PROVE  JoinInv'
  <2>1. polling \subseteq polling'
    BY <1>3 DEF FindRelay, NoRelay, Login, StartFails, ReadPeers, OpenChannel, Delete, Fields
  <2>2. \A u \in tasks' : u \in tasks \/ u.pc # "join"
    BY <1>3, AfterFindRelay, AfterLogin, AfterStartFails, AfterReadPeers, AfterDelete,
       AfterFields, AfterStart DEF NoRelay, OpenChannel, Finish, Become
  <2> QED
    BY <2>1, <2>2
<1>4. ASSUME NEW t \in tasks, FirstSync(t) PROVE JoinInv'
  <2>1. polling \ {t.client} \subseteq polling' /\ t \in Owners
    BY <1>4 DEF FirstSync, Owners
  <2>2. \A u \in tasks' : u \in tasks \/ u.pc # "join"
    BY <1>4, AfterFirstSync, AfterStart
  <2> QED
    BY <2>1, <2>2 DEF ClientInv
<1>5. ASSUME NEW t \in tasks, Join(t) \/ Joined(t) PROVE JoinInv'
  <2>1. UNCHANGED polling
    BY <1>5, AfterJoin, AfterJoined
  <2>2. \A u \in tasks' : u \in tasks \/ u.pc # "join" \/ u.client \in polling
    BY <1>5, AfterJoin, AfterJoined, AfterStart
  <2> QED
    BY <2>1, <2>2
<1>6. CASE UNCHANGED vars
  BY <1>6 DEF vars
<1> QED
  BY <1>1, <1>2, <1>3, <1>4, <1>5, <1>6 DEF Next, Step, Continue

\* A reset begins only when no other is under way.
LEMMA SoleStep ==
    ASSUME Prompt, TypeInv, SoleInv, [Next]_vars
    PROVE  SoleInv'
<1> USE DEF SoleInv, Resetting
<1>1. CASE Connect \/ Disconnect \/ Restart \/ Pair
  <2>1. \A u \in tasks : ~Resetting(u)
    BY <1>1, NotBusyCall DEF Ready
  <2>2. \E u : tasks' = tasks \cup {u}
    BY <1>1 DEF Connect, Disconnect, Restart, Pair, Stop
  <2> QED
    BY <2>1, <2>2
<1>2. ASSUME NEW t \in tasks, Continue(t), StartFails(t) PROVE SoleInv'
  <2>1. \A u \in tasks : ~Resetting(u)
    BY <1>2, NotBusy DEF At, StartFails, Ready
  <2>2. \E u : tasks' = (tasks \ {t}) \cup {u}
    BY <1>2 DEF StartFails, Become
  <2> QED
    BY <2>1, <2>2
<1>3. ASSUME NEW t \in tasks, Delete(t) PROVE SoleInv'
  BY <1>3 DEF Delete, At, Become
<1>4. ASSUME NEW t \in tasks,
             \/ FindRelay(t) \/ NoRelay(t) \/ Login(t) \/ FirstSync(t) \/ Join(t) \/ Joined(t)
             \/ ReadPeers(t) \/ OpenChannel(t) \/ Fields(t)
      PROVE  SoleInv'
  <2>1. \A u \in tasks' : u \in tasks \/ ~Resetting(u)
    BY <1>4, AfterFindRelay, AfterLogin, AfterFirstSync, AfterJoin, AfterJoined, AfterReadPeers,
       AfterFields, AfterStart DEF NoRelay, OpenChannel, Finish, Become
  <2> QED
    BY <2>1
<1>5. CASE UNCHANGED vars
  BY <1>5 DEF vars
<1> QED
  BY <1>1, <1>2, <1>3, <1>4, <1>5 DEF Next, Step, Continue

\* What a step may do to the tasks of a reset and to those that are ready.
LEMMA AloneStep ==
    ASSUME Prompt, Uncut', TypeInv, EraInv, ClientInv, JoinInv, AloneInv, [Next]_vars
    PROVE  AloneInv'
<1> USE DEF AloneInv, Resetting, Ready, CanJoin, IsResolved, Become, Finish, Task
<1>1. CASE Connect \/ Disconnect \/ Restart \/ Pair
  <2>1. \A u \in tasks : ~Ready(u)
    BY <1>1, NotBusyCall
  <2>2. \E u : tasks' = tasks \cup {u}
    BY <1>1 DEF Connect, Disconnect, Restart, Pair, Stop
  <2>3. UNCHANGED resolved /\ polling' \subseteq polling
    BY <1>1 DEF Connect, Disconnect, Restart, Pair, Stop
  <2>4. \A u \in tasks' : u.pc = "join" => u.client \in polling'
    BY JoinStep DEF JoinInv, At
  <2> QED
    BY <2>1, <2>2, <2>3, <2>4
<1>2. ASSUME NEW t \in tasks, Continue(t), FindRelay(t) \/ NoRelay(t) \/ Login(t)
      PROVE  AloneInv'
  <2>1. \A u \in tasks : ~Ready(u)
    BY <1>2, NotBusy DEF At, FindRelay, NoRelay, Login
  <2>2. \A u \in tasks' : ~Resetting(u)
    BY <1>2, <2>1, AfterFindRelay, AfterLogin DEF NoRelay
  <2> QED
    BY <2>2
<1>3. ASSUME NEW t \in tasks, Continue(t), StartFails(t) PROVE AloneInv'
  <2>1. \A u \in tasks : ~Ready(u)
    BY <1>3, NotBusy DEF At, StartFails
  <2>2. UNCHANGED <<resolved, polling>> /\ \E u : tasks' = (tasks \ {t}) \cup {u}
    BY <1>3 DEF StartFails
  <2>3. \A u \in tasks' : u \in tasks \/ u.pc = "delete"
    BY <1>3, AfterStartFails
  <2> QED
    BY <2>1, <2>2, <2>3
<1>4. ASSUME NEW t \in tasks, Continue(t), FirstSync(t) PROVE AloneInv'
  <2>1. \A u \in tasks : ~Ready(u)
    BY <1>4, NotBusy DEF At, FirstSync
  <2>2. \A u \in tasks' : ~Resetting(u)
    BY <1>4, <2>1, AfterFirstSync, AfterStart
  <2> QED
    BY <2>2
<1>5. ASSUME NEW t \in tasks, ReadPeers(t) PROVE AloneInv'
  <2>1. \A u \in tasks : ~Resetting(u)
    BY <1>5 DEF ReadPeers, At
  <2>2. \A u \in tasks' : u \in tasks \/ u.pc = "channel"
    BY <1>5, AfterReadPeers
  <2>3. \A u \in tasks' : ~Resetting(u)
    BY <2>1, <2>2
  <2> QED
    BY <2>3
<1>6. ASSUME NEW t \in tasks, OpenChannel(t) PROVE AloneInv'
  BY <1>6 DEF OpenChannel
<1>7. ASSUME NEW t \in tasks, Delete(t) PROVE AloneInv'
  BY <1>7 DEF Delete, At
<1>8. ASSUME NEW t \in tasks, Fields(t) PROVE AloneInv'
  <2>1. \A u \in tasks \ {t} : ~Ready(u)
    BY <1>8 DEF Fields, At
  <2>2. \A u \in tasks' : u \in tasks \ {t} \/ u.pc \in {"relay", "peers"}
    BY <1>8, AfterFields, AfterStart
  <2> QED
    BY <1>8, <2>1, <2>2 DEF Fields
<1>9. ASSUME NEW t \in tasks, Continue(t), Join(t) \/ Joined(t) PROVE AloneInv'
  <2>1. t.pc = "join" => t.client \in polling
    BY DEF JoinInv, At
  <2>2. \A u \in tasks : ~Resetting(u)
    <3>1. CASE Join(t)
      BY <3>1, AfterJoin
    <3>2. CASE Joined(t)
      BY <1>9, <2>1, <3>2, AfterJoined, NotBusy
    <3> QED
      BY <1>9, <3>1, <3>2
  <2>3. \A u \in tasks' : ~Resetting(u)
    BY <1>9, <2>2, AfterJoin, AfterJoined, AfterStart
  <2> QED
    BY <2>3
<1>10. CASE UNCHANGED vars
  BY <1>10 DEF vars
<1> QED
  BY <1>1, <1>2, <1>3, <1>4, <1>5, <1>6, <1>7, <1>8, <1>9, <1>10 DEF Next, Step, Continue

\* A connect that goes on is not overtaken, or it waits for a promise that a
\* reset has replaced, and that nobody resolves.
LEMMA WaitingStep ==
    ASSUME Prompt, TypeInv, EraInv, AloneInv, WaitingInv, [Next]_vars
    PROVE  WaitingInv'
<1>1. era \in Nat /\ \A u \in tasks : u.era \in Nat
  BY DEF TypeInv, TypeOK, Tasks
<1> USE DEF WaitingInv, IsResolved, Become, Finish
<1>2. CASE Connect
  BY <1>2 DEF Connect, Task
<1>3. CASE Disconnect \/ Restart \/ Pair
  BY <1>3 DEF Disconnect, Restart, Pair, Stop, Task
<1>4. ASSUME NEW t \in tasks,
             FindRelay(t) \/ NoRelay(t) \/ Login(t) \/ StartFails(t) \/ Delete(t)
      PROVE  WaitingInv'
  <2>1. \A u \in tasks' : u \in tasks \/ u.pc \notin {"peers", "channel"}
    BY <1>4, AfterFindRelay, AfterLogin, AfterStartFails, AfterDelete DEF NoRelay, Finish, Become
  <2>2. UNCHANGED <<status, era, resolved>>
    BY <1>4 DEF FindRelay, NoRelay, Login, StartFails, Delete
  <2> QED
    BY <2>1, <2>2
<1>5. ASSUME NEW t \in tasks, FirstSync(t) PROVE WaitingInv'
  <2>1. \A u \in tasks' : \/ u \in tasks \/ u.pc = "invite"
                          \/ u.pc = "peers" /\ status = "connecting"
    BY <1>5, AfterFirstSync, AfterStart
  <2>2. \A p \in resolved' : p \in resolved \/ p.era = era
    BY <1>5 DEF FirstSync
  <2> QED
    BY <1>1, <1>5, <2>1, <2>2 DEF FirstSync
<1>6. ASSUME NEW t \in tasks, ReadPeers(t) PROVE WaitingInv'
  <2>1. \A u \in tasks' : \/ u \in tasks
                          \/ /\ u.pc = "channel" /\ u.era = era /\ u.op = t.op
                             /\ status' = status
    BY <1>6, AfterReadPeers
  <2> QED
    BY <1>6, <2>1 DEF ReadPeers, At
<1>7. ASSUME NEW t \in tasks, OpenChannel(t) PROVE WaitingInv'
  BY <1>7 DEF OpenChannel
<1>8. ASSUME NEW t \in tasks, Join(t) \/ Joined(t) PROVE WaitingInv'
  <2>1. \A u \in tasks' : \/ u \in tasks \/ u.pc \in {"invite", "join"}
                          \/ u.pc = "peers" /\ status = "connecting"
    BY <1>8, AfterJoin, AfterJoined, AfterStart
  <2>2. UNCHANGED <<status, era, resolved>>
    BY <1>8, AfterJoin, AfterJoined
  <2> QED
    BY <2>1, <2>2
<1>9. ASSUME NEW t \in tasks, Fields(t) PROVE WaitingInv'
  <2>1. \A u \in tasks \ {t} : ~Ready(u)
    BY <1>9 DEF AloneInv, Fields, At, Resetting
  <2>2. \A u \in tasks' : \/ u \in tasks \ {t}
                          \/ u.pc = "relay"
                          \/ u.pc = "peers" /\ status' # "off"
    BY <1>9, AfterFields, AfterStart DEF Fields
  <2> QED
    BY <1>1, <1>9, <2>1, <2>2 DEF Fields, Ready
<1>10. CASE UNCHANGED vars
  BY <1>10 DEF vars
<1> QED
  BY <1>2, <1>3, <1>4, <1>5, <1>6, <1>7, <1>8, <1>9, <1>10 DEF Next, Step, Continue

\* The steps that a failure takes part in end the calm.
LEMMA NotCalm == TypeInv /\ Fail => ~Calm'
BY DEF TypeInv, TypeOK, Fail, Count, Calm, Counted

\* No count ever goes down: ...
LEMMA CountsGrow ==
    ASSUME TypeInv, [Next]_vars, NEW what \in Counted \ {"cut"}
    PROVE  counts'[what] >= counts[what] /\ counts[what] \in Nat
<1>1. counts \in [Counted -> Nat]
  BY DEF TypeInv, TypeOK
<1>2. \A w \in Counted : Count(w) => counts'[what] >= counts[what]
  BY <1>1 DEF Count, Counted
<1>3. CASE Disconnect \/ Restart
  BY <1>1, <1>3 DEF Disconnect, Restart, Stop, Counted
<1>4. CASE ~(Disconnect \/ Restart)
  <2>1. \/ counts' = counts
        \/ \E w \in Counted : Count(w)
    BY <1>4 DEF Next, Step, Continue, Connect, Pair, Call, Counted, Fail,
         FindRelay, NoRelay, Login, StartFails, FirstSync, Join, Joined, ReadPeers, OpenChannel,
         Delete, Fields, vars
  <2> QED
    BY <1>1, <1>2, <2>1
<1> QED
  BY <1>3, <1>4

\* ... what has failed has failed for good.
LEMMA FailuresStay ==
    ASSUME TypeInv, [Next]_vars, Calm'
    PROVE  Calm
<1>1. counts'["failure"] >= counts["failure"] /\ counts["failure"] \in Nat
  BY CountsGrow DEF Counted
<1> QED
  BY <1>1 DEF Calm

\* While the network answers, at most one start() contends for the promise.
LEMMA ContenderStep ==
    ASSUME Prompt, Calm', TypeInv, EraInv, ContenderInv, ResetInv, [Next]_vars
    PROVE  ContenderInv'
<1>1. era \in Nat /\ \A u \in tasks \cup resolved : u.era \in Nat
  BY DEF TypeInv, TypeOK, Tasks
<1> USE DEF ContenderInv, Contends, Starting, IsResolved
<1>2. CASE Connect
  <2>1. UNCHANGED <<era, resolved>> /\ status' = "connecting" /\ status = "off"
    BY <1>2 DEF Connect
  <2>2. PICK new : tasks' = tasks \cup {new}
    BY <1>2 DEF Connect
  <2> QED
    BY <2>1, <2>2
<1>3. CASE Disconnect \/ Restart \/ Pair
  <2>1. UNCHANGED <<era, resolved, status>>
    BY <1>3 DEF Disconnect, Restart, Pair, Stop
  <2>2. \A u \in tasks' : u \in tasks \/ u.pc \in {"delete", "peers"}
    BY <1>3 DEF Disconnect, Restart, Pair, Stop, Task
  <2> QED
    BY <2>1, <2>2
<1>4. ASSUME NEW t \in tasks, FindRelay(t) \/ Login(t) PROVE ContenderInv'
  <2>1. UNCHANGED <<era, resolved, status>> /\ Starting(t)
    BY <1>4 DEF FindRelay, Login, At
  <2>2. PICK new : tasks' = (tasks \ {t}) \cup {new}
    BY <1>4 DEF FindRelay, Login, Become
  <2>3. new \in tasks \ {t} \/ new.era = t.era
    BY <1>4, <2>2, AfterFindRelay, AfterLogin
  <2> QED
    BY <2>1, <2>2, <2>3
<1>5. ASSUME NEW t \in tasks, NoRelay(t) \/ Delete(t) \/ ReadPeers(t) PROVE ContenderInv'
  <2>1. UNCHANGED <<era, resolved>> /\ status' \in {status, "on"}
    BY <1>5 DEF NoRelay, Delete, ReadPeers
  <2>2. \A u \in tasks' : u \in tasks \/ u.pc \in {"fields", "channel"}
    BY <1>5, AfterDelete, AfterReadPeers DEF NoRelay, Finish, Become
  <2> QED
    BY <2>1, <2>2
<1>6. ASSUME NEW t \in tasks, StartFails(t) PROVE ContenderInv'
  BY <1>6, NotCalm DEF StartFails
<1>7. ASSUME NEW t \in tasks, FirstSync(t) PROVE ContenderInv'
  <2>1. UNCHANGED <<era, status>> /\ t.pc = "sync"
    BY <1>7 DEF FirstSync, At
  <2>2. \A u \in tasks' : u \in tasks \ {t} \/ u.pc \in {"invite", "peers"}
    BY <1>7, AfterFirstSync, AfterStart
  <2>3. CASE t.era = era
    BY <1>7, <2>1, <2>2, <2>3
  <2>4. CASE t.era # era
    <3>1. UNCHANGED resolved
      BY <1>7, <2>4 DEF FirstSync
    <3> QED
      BY <2>1, <2>2, <3>1
  <2> QED
    BY <2>3, <2>4
<1>8. ASSUME NEW t \in tasks, Join(t) \/ Joined(t) PROVE ContenderInv'
  <2>1. UNCHANGED <<era, resolved, status>>
    BY <1>8, AfterJoin, AfterJoined
  <2>2. \A u \in tasks' : u \in tasks \/ u.pc \in {"invite", "join", "peers"}
    BY <1>8, AfterJoin, AfterJoined, AfterStart
  <2> QED
    BY <2>1, <2>2
<1>9. ASSUME NEW t \in tasks, OpenChannel(t) PROVE ContenderInv'
  BY <1>9 DEF OpenChannel, Finish, Become
<1>10. ASSUME NEW t \in tasks, Fields(t) PROVE ContenderInv'
  <2>1. t.after \in {"off", "start"} /\ (t.after = "start" => status # "off")
    BY <1>10 DEF ResetInv, Resetting, Fields, At
  <2>2. era' = era + 1 /\ UNCHANGED resolved /\ (t.after # "off" => status' = status)
    BY <1>10 DEF Fields
  <2>3. \A u \in tasks \cup resolved' : u.era # era'
    BY <1>1, <2>2 DEF EraInv
  <2>4. CASE t.after = "off"
    <3>1. tasks' = tasks \ {t}
      BY <1>10, <2>4 DEF Fields, Become
    <3> QED
      BY <2>2, <2>3, <3>1
  <2>5. CASE t.after = "start"
    <3>1. PICK new : tasks' = (tasks \ {t}) \cup {new}
      BY <1>10, <2>5 DEF Fields, Become
    <3> QED
      BY <2>1, <2>2, <2>3, <2>5, <3>1
  <2> QED
    BY <2>1, <2>4, <2>5
<1>11. CASE UNCHANGED vars
  BY <1>11 DEF vars
<1> QED
  BY <1>2, <1>3, <1>4, <1>5, <1>6, <1>7, <1>8, <1>9, <1>10, <1>11 DEF Next, Step, Continue

\* While the network answers, a reset is one of a stop() that found whoever
\* polled for the present promise.
LEMMA ResetStep ==
    ASSUME Prompt, Calm', TypeInv, SoleInv, ContenderInv, ResetInv, [Next]_vars
    PROVE  ResetInv'
<1> USE DEF Resetting
<1>1. \A t, u \in tasks : Resetting(t) /\ Resetting(u) => u = t
  BY DEF SoleInv
<1>2. CASE Connect \/ Pair
  <2>1. \A u \in tasks : ~Resetting(u)
    BY <1>2, NotBusyCall DEF Ready
  <2>2. \A u \in tasks' : u \in tasks \/ u.pc \in {"relay", "peers"}
    BY <1>2 DEF Connect, Pair, Task
  <2> QED
    BY <2>1, <2>2 DEF ResetInv
<1>3. CASE Disconnect \/ Restart
  <2>1. \A u \in tasks : ~Resetting(u)
    BY <1>3, NotBusyCall DEF Ready
  <2>2. PICK op \in {"disconnect", "restart"}, after \in {"off", "start"} :
           /\ tasks' = tasks \cup {[Task(op, "delete", counts[op], era) EXCEPT !.after = after]}
           /\ after = "start" => IsResolved(era)
    BY <1>3 DEF Disconnect, Restart, Stop
  <2>3. \A u \in tasks' : u \in tasks \/ u.after = after
    BY <2>2 DEF Task
  <2>4. Adopted' = Adopted /\ polling' = polling \ Adopted /\ UNCHANGED status
    BY <1>3 DEF Disconnect, Restart, Stop, Adopted
  <2> QED
    BY <2>1, <2>2, <2>3, <2>4 DEF ResetInv, ContenderInv
<1>4. ASSUME NEW t \in tasks, Continue(t), FindRelay(t) \/ NoRelay(t) \/ Login(t) \/ FirstSync(t)
      PROVE  ResetInv'
  <2>1. \A u \in tasks : ~Resetting(u)
    BY <1>4, NotBusy DEF Ready, FindRelay, NoRelay, Login, FirstSync, At
  <2>2. \A u \in tasks' : u \in tasks \/ u.pc \in {"login", "sync", "invite", "peers"}
    BY <1>4, AfterFindRelay, AfterLogin, AfterFirstSync, AfterStart DEF NoRelay, Finish, Become
  <2> QED
    BY <2>1, <2>2 DEF ResetInv
<1>5. ASSUME NEW t \in tasks, StartFails(t) PROVE ResetInv'
  BY <1>5, NotCalm DEF StartFails
<1>6. ASSUME NEW t \in tasks, ReadPeers(t) \/ OpenChannel(t) \/ Join(t) \/ Joined(t)
      PROVE  ResetInv'
  <2>1. UNCHANGED polling /\ Adopted' = Adopted /\ status' \in {status, "on"}
    BY <1>6, AfterJoin, AfterJoined DEF ReadPeers, OpenChannel, Adopted
  <2>2. \A u \in tasks' : u \in tasks \/ u.pc \in {"channel", "invite", "join", "peers"}
    BY <1>6, AfterReadPeers, AfterJoin, AfterJoined, AfterStart DEF OpenChannel, Finish, Become
  <2> QED
    BY <2>1, <2>2 DEF ResetInv
<1>7. ASSUME NEW t \in tasks, Delete(t) PROVE ResetInv'
  <2>1. \A u \in tasks \ {t} : ~Resetting(u)
    BY <1>1, <1>7 DEF Delete, At
  <2>2. \A u \in tasks' : u \in tasks \ {t} \/ u.after = t.after
    BY <1>7, AfterDelete
  <2>3. Adopted' = Adopted /\ UNCHANGED <<status, polling>>
    BY <1>7 DEF Delete, Adopted
  <2>4. Resetting(t)
    BY <1>7 DEF Delete, At
  <2> QED
    BY <2>1, <2>2, <2>3, <2>4 DEF ResetInv
<1>8. ASSUME NEW t \in tasks, Fields(t) PROVE ResetInv'
  <2>1. \A u \in tasks \ {t} : ~Resetting(u)
    BY <1>1, <1>8 DEF Fields, At
  <2>2. \A u \in tasks' : u \in tasks \ {t} \/ u.pc \in {"relay", "peers"}
    BY <1>8, AfterFields, AfterStart
  <2> QED
    BY <2>1, <2>2 DEF ResetInv
<1>9. CASE UNCHANGED vars
  BY <1>9 DEF vars, ResetInv, Adopted
<1> QED
  BY <1>2, <1>3, <1>4, <1>5, <1>6, <1>7, <1>8, <1>9 DEF Next, Step, Continue

\* While the network answers, a stop() reaches every client that polls, or the
\* start() that made it will.
LEMMA GhostStep ==
    ASSUME Prompt, Calm', TypeInv, EraInv, ContenderInv, ResetInv, Ghosts = {}, [Next]_vars
    PROVE  (Ghosts = {})'
<1>1. era \in Nat /\ \A p \in resolved : p.era \in Nat
  BY DEF TypeInv, TypeOK
<1> USE DEF Ghosts, InReach
<1>2. CASE Connect \/ Pair
  <2>1. UNCHANGED polling /\ Adopted' = Adopted /\ tasks \subseteq tasks'
    BY <1>2 DEF Connect, Pair, Adopted
  <2> QED
    BY <2>1 DEF At
<1>3. CASE Disconnect \/ Restart
  <2>1. polling' \subseteq polling /\ Adopted' = Adopted /\ tasks \subseteq tasks'
    BY <1>3 DEF Disconnect, Restart, Stop, Adopted
  <2> QED
    BY <2>1 DEF At
<1>4. ASSUME NEW t \in tasks,
             \/ FindRelay(t) \/ NoRelay(t) \/ Join(t) \/ Joined(t) \/ ReadPeers(t)
             \/ OpenChannel(t) \/ Delete(t)
      PROVE  (Ghosts = {})'
  <2>1. UNCHANGED polling /\ Adopted' = Adopted
    BY <1>4 DEF FindRelay, NoRelay, Join, Joined, ReadPeers, OpenChannel, Delete, Adopted
  <2>2. At("sync") \subseteq At("sync")'
    BY <1>4 DEF FindRelay, NoRelay, Join, Joined, ReadPeers, OpenChannel, Delete, At, Finish, Become
  <2> QED
    BY <2>1, <2>2
<1>5. ASSUME NEW t \in tasks, Login(t) PROVE (Ghosts = {})'
  <2>1. polling' = polling \cup {t.client} /\ Adopted' = Adopted
    BY <1>5 DEF Login, Adopted
  <2>2. At("sync") \subseteq At("sync")'
    BY <1>5 DEF Login, At, Become
  <2>3. \E u \in At("sync")' : u.client = t.client
    BY <1>5, AfterLogin DEF At
  <2> QED
    BY <2>1, <2>2, <2>3
<1>6. ASSUME NEW t \in tasks, StartFails(t) PROVE (Ghosts = {})'
  BY <1>6, NotCalm DEF StartFails
<1>7. ASSUME NEW t \in tasks, FirstSync(t) PROVE (Ghosts = {})'
  <2>1. At("sync") \ {t} \subseteq At("sync")'
    BY <1>7 DEF FirstSync, At, Become
  <2>2. CASE t.era = era
    <3>1. ~IsResolved(era)
      BY <1>7, <2>2 DEF ContenderInv, Contends, Starting, FirstSync, At
    <3>2. /\ resolved' = resolved \cup {[era |-> era, client |-> t.client]}
          /\ UNCHANGED <<era, polling>>
      BY <1>7, <2>2, <3>1 DEF FirstSync
    <3>3. Adopted \cup {t.client} \subseteq Adopted'
      <4>1. [era |-> era, client |-> t.client] \in {p \in resolved' : p.era = era'}
        BY <3>2
      <4>2. {p \in resolved : p.era = era} \subseteq {p \in resolved' : p.era = era'}
        BY <3>2
      <4> QED
        BY <4>1, <4>2 DEF Adopted
    <3> QED
      BY <2>1, <3>2, <3>3
  <2>3. CASE t.era # era
    <3>1. polling' = polling \ {t.client} /\ Adopted' = Adopted
      BY <1>7, <2>3 DEF FirstSync, Adopted
    <3> QED
      BY <2>1, <3>1
  <2> QED
    BY <2>2, <2>3
<1>8. ASSUME NEW t \in tasks, Fields(t) PROVE (Ghosts = {})'
  <2>1. At("sync") \subseteq At("sync")'
    BY <1>8 DEF Fields, At, Become
  <2>2. Adopted \cap polling = {} /\ UNCHANGED polling
    BY <1>8 DEF ResetInv, Resetting, Fields, At
  <2> QED
    BY <2>1, <2>2
<1>9. CASE UNCHANGED vars
  BY <1>9 DEF vars, Adopted, At
<1> QED
  BY <1>2, <1>3, <1>4, <1>5, <1>6, <1>7, <1>8, <1>9 DEF Next, Step, Continue

-----------------------------------------------------------------------------
\* Every step leaves each client to the start() that made it until it is adopted.
LEMMA ClientStep ==
    ASSUME TypeInv, ClientInv, [Next]_vars
    PROVE  ClientInv'
<1>1. /\ counts["client"] \in Nat /\ Clients \subseteq Made
      /\ \A t \in Owners : t.client \in Made
  BY DEF TypeInv, TypeOK, Counted, Clients, Owners
<1> USE DEF ClientInv
<1>2. CASE Connect \/ Disconnect \/ Restart \/ Pair
  <2>1. At("sync")' = At("sync") /\ At("login")' = At("login")
    BY <1>2 DEF Connect, Disconnect, Restart, Pair, Stop, At, Task
  <2>2. UNCHANGED <<resolved, listening>> /\ polling \ Adopted \subseteq polling'
    BY <1>2 DEF Connect, Disconnect, Restart, Pair, Stop
  <2>3. Adopted \subseteq Clients
    BY DEF Adopted, Clients
  <2>4. At("join")' = At("join")
    BY <1>2 DEF Connect, Disconnect, Restart, Pair, Stop, At, Task
  <2> QED
    BY <2>1, <2>2, <2>3, <2>4 DEF Owners, Clients
<1>3. ASSUME NEW t \in tasks, FindRelay(t) PROVE ClientInv'
  <2>1. UNCHANGED <<resolved, listening, polling>>
    BY <1>3 DEF FindRelay
  <2>2. At("sync")' \subseteq At("sync")
    BY <1>3, AfterFindRelay DEF At
  <2>3. \A u \in At("login")' : u \in At("login") \/ u.client = counts["client"] + 1
    BY <1>3, AfterFindRelay DEF At
  <2>4. PICK new : tasks' = (tasks \ {t}) \cup {new}
    BY <1>3 DEF FindRelay, Become
  <2>5. \A u \in Owners' : u \in Owners \/ (u = new /\ u.client = counts["client"] + 1)
    BY <2>2, <2>3, <2>4 DEF Owners, At
  <2>6. counts["client"] + 1 \notin Made
    BY <1>1 DEF Made
  <2>7. At("join")' \subseteq At("join")
    BY <1>3, AfterFindRelay DEF At
  <2> QED
    BY <1>1, <2>1, <2>2, <2>5, <2>6, <2>7 DEF Clients
<1>4. ASSUME NEW t \in tasks,
             \/ NoRelay(t) \/ StartFails(t) \/ Join(t) \/ Joined(t) \/ ReadPeers(t)
             \/ Delete(t) \/ Fields(t)
      PROVE  ClientInv'
  <2>1. UNCHANGED <<resolved, listening, polling>>
    BY <1>4 DEF NoRelay, StartFails, Join, Joined, ReadPeers, Delete, Fields
  <2>2. \A u \in tasks' : \/ u \in tasks
                          \/ /\ u.pc \notin {"login", "sync"}
                             /\ u.pc = "join" => u.client \in Clients
    BY <1>4, AfterStartFails, AfterJoin, AfterJoined, AfterReadPeers, AfterDelete, AfterFields,
       AfterStart DEF NoRelay, Finish, Become, Clients
  <2>3. At("login")' \subseteq At("login") /\ At("sync")' \subseteq At("sync")
    BY <2>2 DEF At
  <2>4. \A u \in At("join")' : u.client \in Clients
    BY <2>2 DEF At
  <2> QED
    BY <2>1, <2>3, <2>4 DEF Owners, Clients
<1>5. ASSUME NEW t \in tasks, Login(t) PROVE ClientInv'
  <2>1. UNCHANGED <<resolved, listening>> /\ polling' = polling \cup {t.client} /\ t \in Owners
    BY <1>5 DEF Login, Owners
  <2>2. PICK new : tasks' = (tasks \ {t}) \cup {new}
    BY <1>5 DEF Login, Become
  <2>3. \A u \in tasks' : u \in tasks \ {t} \/ (u = new /\ u.client = t.client)
    BY <1>5, <2>2, AfterLogin
  <2>4. \A u \in Owners' : u \in Owners \ {t} \/ (u = new /\ u.client = t.client)
    BY <2>3 DEF Owners, At
  <2>5. \A u \in At("sync")' : u \in At("sync") \/ u.client = t.client
    BY <2>3 DEF At
  <2>6. At("join")' \subseteq At("join")
    BY <1>5, AfterLogin DEF At
  <2> QED
    BY <2>1, <2>4, <2>5, <2>6 DEF Clients
<1>6. ASSUME NEW t \in tasks, FirstSync(t) PROVE ClientInv'
  <2>1. UNCHANGED listening /\ polling \ {t.client} \subseteq polling' /\ t \in Owners
    BY <1>6 DEF FirstSync, Owners
  <2>2. \A u \in tasks' : u \in tasks \ {t} \/ u.pc \in {"invite", "peers"}
    BY <1>6, AfterFirstSync, AfterStart
  <2>3. At("join")' \subseteq At("join")
    BY <2>2 DEF At
  <2>4. Owners' \subseteq Owners \ {t} /\ At("sync")' \subseteq At("sync") \ {t}
    BY <2>2 DEF Owners, At
  <2>5. \A p \in resolved' : p \in resolved \/ p.client = t.client
    BY <1>6 DEF FirstSync
  <2>6. resolved \subseteq resolved'
    BY <1>6 DEF FirstSync
  <2>7. Clients \subseteq Clients' /\ Clients' \subseteq Clients \cup {t.client}
    BY <2>5, <2>6 DEF Clients
  <2>8. \A u \in At("sync")' : u \in Owners \ {t}
    BY <2>4 DEF Owners
  <2> QED
    BY <2>1, <2>3, <2>4, <2>7, <2>8
<1>7. ASSUME NEW t \in tasks, OpenChannel(t) PROVE ClientInv'
  <2>1. UNCHANGED <<resolved, polling>> /\ tasks' \subseteq tasks
    BY <1>7 DEF OpenChannel, Finish, Become
  <2>2. /\ At("login")' \subseteq At("login") /\ At("sync")' \subseteq At("sync")
        /\ At("join")' \subseteq At("join")
    BY <2>1 DEF At
  <2>3. listening' \subseteq listening \cup Clients /\ Clients' = Clients
    BY <1>7, <2>1 DEF OpenChannel, Clients
  <2> QED
    BY <2>1, <2>2, <2>3 DEF Owners
<1>8. CASE UNCHANGED vars
  BY <1>8 DEF vars, Owners, At, Clients
<1> QED
  BY <1>2, <1>3, <1>4, <1>5, <1>6, <1>7, <1>8 DEF Next, Step, Continue

\* Whoever waits for a replaced promise goes on waiting in vain.
LEMMA ChannelStep ==
    ASSUME Prompt, TypeInv, EraInv, AloneInv, ChannelInv, [Next]_vars
    PROVE  ChannelInv'
<1>1. era \in Nat /\ \A u \in tasks : u.era \in Nat
  BY DEF TypeInv, TypeOK, Tasks
<1> USE DEF ChannelInv, IsResolved, At
<1>2. CASE Connect \/ Disconnect \/ Restart \/ Pair
  <2>1. \A u \in tasks' : u \in tasks \/ u.pc # "channel"
    BY <1>2 DEF Connect, Disconnect, Restart, Pair, Stop, Task
  <2>2. UNCHANGED <<era, resolved>>
    BY <1>2 DEF Connect, Disconnect, Restart, Pair, Stop
  <2> QED
    BY <2>1, <2>2
<1>3. ASSUME NEW t \in tasks,
             \/ FindRelay(t) \/ NoRelay(t) \/ Login(t) \/ StartFails(t) \/ Join(t) \/ Joined(t)
             \/ ReadPeers(t) \/ OpenChannel(t) \/ Delete(t)
      PROVE  ChannelInv'
  <2>1. \A u \in tasks' : u \in tasks \/ u.pc # "channel" \/ u.era = era
    BY <1>3, AfterFindRelay, AfterLogin, AfterStartFails, AfterJoin, AfterJoined, AfterStart,
       AfterReadPeers, AfterDelete DEF NoRelay, OpenChannel, Finish, Become
  <2>2. UNCHANGED <<era, resolved>>
    BY <1>3 DEF FindRelay, NoRelay, Login, StartFails, Join, Joined, ReadPeers, OpenChannel, Delete
  <2> QED
    BY <2>1, <2>2
<1>4. ASSUME NEW t \in tasks, FirstSync(t) PROVE ChannelInv'
  <2>1. \A u \in tasks' : u \in tasks \/ u.pc \in {"invite", "peers"}
    BY <1>4, AfterFirstSync, AfterStart
  <2>2. \A p \in resolved' : p \in resolved \/ p.era = era
    BY <1>4 DEF FirstSync
  <2> QED
    BY <1>4, <2>1, <2>2 DEF FirstSync
<1>5. ASSUME NEW t \in tasks, Fields(t) PROVE ChannelInv'
  <2>1. \A u \in tasks \ {t} : ~Ready(u)
    BY <1>5 DEF AloneInv, Fields, Resetting
  <2>2. \A u \in tasks' : u \in tasks \ {t} \/ u.pc \in {"relay", "peers"}
    BY <1>5, AfterFields, AfterStart
  <2> QED
    BY <1>1, <1>5, <2>1, <2>2 DEF Fields, Ready
<1>6. CASE UNCHANGED vars
  BY <1>6 DEF vars
<1> QED
  BY <1>2, <1>3, <1>4, <1>5, <1>6 DEF Next, Step, Continue

\* While the network answers, a reset that ends starts anew after a restart.
LEMMA CalmFields ==
    ASSUME TypeInv, ResetInv, NEW t \in tasks, Fields(t)
    PROVE  /\ era' = era + 1 /\ UNCHANGED <<resolved, polling, listening, counts>>
           /\ \/ t.after = "off" /\ status' = "off" /\ tasks' = tasks \ {t}
              \/ /\ t.after = "start" /\ status' = status
                 /\ \E new : /\ tasks' = (tasks \ {t}) \cup {new}
                             /\ new.pc = "relay" /\ new.era = era + 1 /\ new.op = t.op
<1>1. t.after \in {"off", "start"}
  BY DEF ResetInv, Resetting, Fields, At
<1>2. t \in Tasks
  BY DEF TypeInv, TypeOK
<1> DEFINE again == [t EXCEPT !.pc = "relay", !.era = era + 1, !.after = "none"]
<1>3. again.pc = "relay" /\ again.era = era + 1 /\ again.op = t.op
  BY <1>2 DEF Tasks
<1>4. t.after = "start" => tasks' = (tasks \ {t}) \cup {again} /\ status' = status
  BY DEF Fields, Become
<1>5. t.after = "off" => tasks' = tasks \ {t} /\ status' = "off"
  BY DEF Fields, Become
<1>6. era' = era + 1 /\ UNCHANGED <<resolved, polling, listening, counts>>
  BY DEF Fields
<1> HIDE DEF again
<1> QED
  BY <1>1, <1>3, <1>4, <1>5, <1>6

\* While the network answers, a stop() that comes upon rooms that are joined
\* cuts that off.
LEMMA NoRooms ==
    ASSUME Prompt, TypeInv, RoomsInv, ~Cut, Disconnect \/ Restart
    PROVE  \A u \in tasks : ~Joining(u)
<1>1. \A u \in tasks : ~Ready(u)
  BY NotBusyCall
<1>2. ASSUME NEW u \in tasks, u.pc = "invite" PROVE FALSE
  <2>1. u.era = era /\ HasClient(u)
    BY <1>2 DEF RoomsInv, Joining
  <2>2. CanJoin(u)
    BY <2>1 DEF CanJoin, HasClient
  <2> QED
    BY <1>1, <1>2, <2>2 DEF Ready
<1>3. ASSUME NEW u \in tasks, u.pc = "join" PROVE u.client \in Adopted
  <2>1. HasClient(u)
    BY <1>3 DEF RoomsInv, Joining
  <2> QED
    BY <1>3, <2>1 DEF HasClient, Adopted
<1> QED
  BY <1>2, <1>3 DEF Cut, At, Joining

\* While the network answers, rooms are joined with the client of the promise.
LEMMA RoomsStep ==
    ASSUME Prompt, Calm', Uncut', TypeInv, ClientInv, AloneInv, JoinInv, ContenderInv, ResetInv,
           RoomsInv, [Next]_vars
    PROVE  RoomsInv'
<1> USE DEF RoomsInv, Joining, Resetting
<1>1. CASE Connect \/ Pair
  <2>1. UNCHANGED <<era, resolved, polling>>
    BY <1>1 DEF Connect, Pair
  <2>2. \A u \in tasks' : u \in tasks \/ u.pc \in {"relay", "peers"}
    BY <1>1 DEF Connect, Pair, Task
  <2>3. \A u : HasClient(u) => HasClient(u)'
    BY <2>1 DEF HasClient
  <2>4. \A u \in tasks' : Joining(u) \/ Resetting(u) => u \in tasks
    BY <2>2
  <2> HIDE DEF Joining, Resetting
  <2> QED
    BY <2>1, <2>3, <2>4
<1>2. CASE Disconnect \/ Restart
  <2>1. \A u \in tasks : ~Joining(u)
    BY <1>2, NoRooms, CutStays
  <2>2. \A u \in tasks' : u \in tasks \/ u.pc = "delete"
    BY <1>2 DEF Disconnect, Restart, Stop, Task
  <2> QED
    BY <2>1, <2>2
<1>3. ASSUME NEW t \in tasks,
             \/ FindRelay(t) \/ NoRelay(t) \/ Login(t) \/ ReadPeers(t) \/ OpenChannel(t)
      PROVE  RoomsInv'
  <2>1. UNCHANGED <<era, resolved>> /\ polling \subseteq polling'
    BY <1>3 DEF FindRelay, NoRelay, Login, ReadPeers, OpenChannel
  <2>2. \A u \in tasks' : u \in tasks \/ u.pc \in {"login", "sync", "channel"}
    BY <1>3, AfterFindRelay, AfterLogin, AfterReadPeers DEF NoRelay, OpenChannel, Finish, Become
  <2>3. \A u : HasClient(u) => HasClient(u)'
    BY <2>1 DEF HasClient
  <2>4. \A u \in tasks' : Joining(u) \/ Resetting(u) => u \in tasks
    BY <2>2
  <2> HIDE DEF Joining, Resetting
  <2> QED
    BY <2>1, <2>3, <2>4
<1>4. ASSUME NEW t \in tasks, StartFails(t) PROVE RoomsInv'
  BY <1>4, NotCalm DEF StartFails
<1>5. ASSUME NEW t \in tasks, Continue(t), FirstSync(t) PROVE RoomsInv'
  <2>1. t.pc = "sync" /\ t \in Owners /\ UNCHANGED era
    BY <1>5 DEF FirstSync, Owners, At
  <2>2. \A u \in tasks : ~Resetting(u)
    BY <1>5, <2>1, NotBusy DEF Ready
  <2>3. \A u \in tasks' : ~Resetting(u)
    BY <1>5, <2>2, AfterFirstSync, AfterStart
  <2>4. /\ resolved \subseteq resolved'
        /\ \A p \in resolved : p.client \in polling => p.client \in polling'
    <3>1. \A p \in resolved : p.client # t.client
      BY <2>1 DEF ClientInv, Clients
    <3> QED
      BY <1>5, <3>1 DEF FirstSync
  <2>5. ASSUME t.era = era
        PROVE  \E p \in resolved' : p.era = era' /\ p.client \in polling'
    <3>1. ~IsResolved(era)
      BY <2>1, <2>5 DEF ContenderInv, Contends, Starting
    <3>2. /\ resolved' = resolved \cup {[era |-> era, client |-> t.client]}
          /\ polling' = polling /\ t.client \in polling
      BY <1>5, <2>1, <2>5, <3>1 DEF FirstSync, ClientInv, At
    <3>3. PICK p : p = [era |-> era, client |-> t.client]
      OBVIOUS
    <3>4. p \in resolved' /\ p.era = era' /\ p.client \in polling'
      BY <2>1, <3>2, <3>3
    <3> QED
      BY <3>4
  <2>6. \A u \in tasks' : \/ u \in tasks \/ u.pc = "peers"
                          \/ t.era = era /\ u.pc = "invite" /\ u.era = era
    BY <1>5, AfterFirstSync, AfterStart
  <2>7. ASSUME NEW u, HasClient(u) PROVE HasClient(u)'
    BY <2>1, <2>4, <2>7 DEF HasClient
  <2>8. \A u : t.era = era /\ u.pc = "invite" => HasClient(u)'
    BY <2>5 DEF HasClient
  <2>9. \A u \in tasks' :
           Joining(u) => u \in tasks \/ (t.era = era /\ u.pc = "invite" /\ u.era = era)
    BY <2>6
  <2> HIDE DEF Joining, Resetting
  <2> QED
    BY <2>1, <2>3, <2>7, <2>8, <2>9
<1>6. ASSUME NEW t \in tasks, Join(t) PROVE RoomsInv'
  <2>1. UNCHANGED <<era, resolved, polling>> /\ t.pc = "invite"
    BY <1>6, AfterJoin
  <2>2. \A u \in tasks' : \/ u \in tasks
                          \/ /\ u.pc = "join" /\ u.era = t.era
                             /\ \E p \in resolved : /\ p.era = t.era /\ p.client \in polling
                                                    /\ p.client = u.client
    BY <1>6, AfterJoin
  <2>3. /\ t.era = era /\ \A w \in tasks : ~Resetting(w)
        /\ \A u \in tasks : Joining(u) => u.era = era /\ HasClient(u)
    BY <2>1
  <2>4. \A u : HasClient(u) => HasClient(u)'
    BY <2>1 DEF HasClient
  <2>5. \A u \in tasks' : u \in tasks \/ (u.era = era /\ HasClient(u) /\ ~Resetting(u))
    BY <2>2, <2>3 DEF HasClient
  <2> HIDE DEF Joining, Resetting
  <2> QED
    BY <2>1, <2>3, <2>4, <2>5
<1>7. ASSUME NEW t \in tasks, Joined(t) PROVE RoomsInv'
  <2>1. UNCHANGED <<era, resolved, polling>> /\ t.pc = "join"
    BY <1>7, AfterJoined
  <2>2. \A u \in tasks' : \/ u \in tasks \/ u.pc = "peers"
                          \/ u.pc = "invite" /\ u.era = era
    BY <1>7, AfterJoined, AfterStart
  <2>3. /\ HasClient(t) /\ \A w \in tasks : ~Resetting(w)
        /\ \A u \in tasks : Joining(u) => u.era = era /\ HasClient(u)
    BY <2>1
  <2>4. \A u : HasClient(u) => HasClient(u)'
    BY <2>1 DEF HasClient
  <2>5. \A u \in tasks' : u \in tasks \/ (~Joining(u) /\ ~Resetting(u))
                          \/ (u.era = era /\ HasClient(u) /\ ~Resetting(u))
    BY <2>2, <2>3 DEF HasClient
  <2> HIDE DEF Joining, Resetting
  <2> QED
    BY <2>1, <2>3, <2>4, <2>5
<1>8. ASSUME NEW t \in tasks, Delete(t) \/ Fields(t) PROVE RoomsInv'
  <2>1. \A u \in tasks : ~Joining(u)
    BY <1>8 DEF Delete, Fields, At
  <2>2. \A u \in tasks' : u \in tasks \/ u.pc \in {"fields", "relay"}
    BY <1>8, AfterDelete, AfterFields DEF ResetInv, Fields, At
  <2> QED
    BY <2>1, <2>2
<1>9. CASE UNCHANGED vars
  BY <1>9 DEF vars, HasClient
<1> QED
  BY <1>1, <1>2, <1>3, <1>4, <1>5, <1>6, <1>7, <1>8, <1>9 DEF Next, Step, Continue

\* A restart finds the transport on: connect() has taken its client by then.
LEMMA RestartFinds ==
    ASSUME Prompt, TypeInv, ContenderInv, ConnectingInv, RoomsInv, ~Cut, Restart
    PROVE  status = "on"
<1>1. IsResolved(era) /\ \A u \in tasks : ~Ready(u)
  BY NotBusyCall DEF Restart
<1>2. \A u \in tasks : ~Returned(u)
  BY <1>1, NoRooms DEF Returned, Ready
<1>3. status # "connecting" /\ status # "off"
  BY <1>1, <1>2 DEF ConnectingInv, ContenderInv
<1> QED
  BY <1>3 DEF TypeInv, TypeOK, Statuses

\* While the network answers, whatever starts beside a connect is a restart.
LEMMA RestartStep ==
    ASSUME Prompt, Calm', Uncut', TypeInv, EraInv, AloneInv, ContenderInv, ResetInv, RoomsInv,
           RestartInv, ConnectingInv, [Next]_vars
    PROVE  RestartInv'
<1>1. era \in Nat /\ \A u \in tasks : u.era \in Nat /\ u.era <= era
  BY DEF TypeInv, TypeOK, Tasks, EraInv
<1> USE DEF RestartInv, Contends, Starting, Resetting
<1>2. CASE Connect
  <2>1. \A u \in tasks : ~Contends(u) /\ ~Resetting(u)
    BY <1>2, NotBusyCall DEF Connect, ContenderInv, Ready
  <2>2. \A u \in tasks' : u \in tasks \/ (u.op = "connect" /\ u.pc = "relay")
    BY <1>2 DEF Connect, Task
  <2>3. UNCHANGED era
    BY <1>2 DEF Connect
  <2> QED
    BY <2>1, <2>2, <2>3
<1>3. CASE Disconnect
  <2>1. UNCHANGED <<era, status>>
    BY <1>3 DEF Disconnect, Stop
  <2>2. \A u \in tasks' : u \in tasks \/ (u.pc = "delete" /\ u.after = "off")
    BY <1>3 DEF Disconnect, Stop, Task
  <2> QED
    BY <2>1, <2>2
<1>4. CASE Restart
  <2>1. UNCHANGED <<era, status>> /\ status = "on"
    BY <1>4, RestartFinds, CutStays DEF Restart, Stop
  <2> QED
    BY <2>1
<1>5. CASE Pair
  <2>1. UNCHANGED <<era, status>>
    BY <1>5 DEF Pair
  <2>2. \A u \in tasks' : u \in tasks \/ u.pc = "peers"
    BY <1>5 DEF Pair, Task
  <2> QED
    BY <2>1, <2>2
<1>6. ASSUME NEW t \in tasks, FindRelay(t) \/ Login(t) PROVE RestartInv'
  <2>1. UNCHANGED <<era, status>> /\ Starting(t)
    BY <1>6 DEF FindRelay, Login, At
  <2>2. \A u \in tasks' : \/ u \in tasks
                          \/ u.pc \in {"login", "sync"} /\ u.era = t.era /\ u.op = t.op
    BY <1>6, AfterFindRelay, AfterLogin
  <2> QED
    BY <2>1, <2>2
<1>7. ASSUME NEW t \in tasks,
             \/ NoRelay(t) \/ ReadPeers(t) \/ OpenChannel(t) \/ FirstSync(t)
             \/ Join(t) \/ Joined(t)
      PROVE  RestartInv'
  <2>1. UNCHANGED era /\ status' \in {status, "on"}
    BY <1>7 DEF NoRelay, ReadPeers, OpenChannel, FirstSync, Join, Joined
  <2>2. \A u \in tasks' : u \in tasks \/ u.pc \in {"invite", "join", "peers", "channel"}
    BY <1>7, AfterReadPeers, AfterFirstSync, AfterJoin, AfterJoined, AfterStart
       DEF NoRelay, OpenChannel, Finish, Become
  <2> QED
    BY <2>1, <2>2
<1>8. ASSUME NEW t \in tasks, StartFails(t) PROVE RestartInv'
  BY <1>8, NotCalm DEF StartFails
<1>9. ASSUME NEW t \in tasks, Delete(t) PROVE RestartInv'
  <2>1. UNCHANGED <<era, status>> /\ Resetting(t)
    BY <1>9 DEF Delete, At
  <2>2. \A u \in tasks' : u \in tasks \/ (u.pc = "fields" /\ u.after = t.after)
    BY <1>9, AfterDelete
  <2> QED
    BY <2>1, <2>2
<1>10. ASSUME NEW t \in tasks, Fields(t) PROVE RestartInv'
  <2>1. \A u \in tasks \ {t} : ~Resetting(u)
    BY <1>10 DEF AloneInv, Ready, Fields, At
  <2>2. \A u \in tasks : u.era # era'
    BY <1>1, <1>10, CalmFields
  <2>3. Resetting(t)
    BY <1>10 DEF Fields, At
  <2>4. CASE t.after = "off"
    <3>1. tasks' = tasks \ {t}
      BY <1>10, <2>4, CalmFields
    <3> QED
      BY <2>1, <2>2, <3>1
  <2>5. CASE t.after # "off"
    <3>1. t.after = "start" /\ status' = status
      BY <1>10, <2>5, CalmFields
    <3>2. status' = "on"
      BY <2>3, <3>1
    <3> QED
      BY <3>2
  <2> QED
    BY <2>4, <2>5
<1>11. CASE UNCHANGED vars
  BY <1>11 DEF vars
<1> QED
  BY <1>2, <1>3, <1>4, <1>5, <1>6, <1>7, <1>8, <1>9, <1>10, <1>11 DEF Next, Step, Continue

\* While the network answers, what takes in a pairing response has a client.
LEMMA PairStep ==
    ASSUME Prompt, Calm', TypeInv, AloneInv, ResetInv, Ghosts = {}, ClientInv, PairInv,
           [Next]_vars
    PROVE  PairInv'
<1> USE DEF PairInv, At
<1>1. CASE Connect \/ Disconnect \/ Restart
  <2>1. \A u \in tasks : u.pc # "peers"
    BY <1>1, NotBusyCall DEF Ready
  <2>2. \A u \in tasks' : u \in tasks \/ u.pc \in {"relay", "delete"}
    BY <1>1 DEF Connect, Disconnect, Restart, Stop, Task
  <2> QED
    BY <2>1, <2>2
<1>2. CASE Pair
  <2>1. PICK c \in polling : c \in listening
    BY <1>2 DEF Pair
  <2>2. c \in Clients /\ \A u \in At("sync") : u.client # c
    BY <2>1 DEF ClientInv, Owners
  <2>3. c \in Adopted
    BY <2>1, <2>2 DEF Ghosts, InReach
  <2>4. Held
    BY <2>1, <2>3 DEF Held
  <2>5. Held' = Held
    BY <1>2 DEF Pair, Held, Adopted
  <2> QED
    BY <2>4, <2>5
<1>3. ASSUME NEW t \in tasks, Continue(t), FindRelay(t) \/ NoRelay(t) \/ Login(t) \/ FirstSync(t)
      PROVE  PairInv'
  <2>1. \A u \in tasks : u.pc # "peers"
    BY <1>3, NotBusy DEF Ready, FindRelay, NoRelay, Login, FirstSync
  <2>2. \A u \in tasks' : \/ u \in tasks
                          \/ u.pc \in {"login", "sync", "invite"}
                          \/ u.op = "connect"
    BY <1>3, AfterFindRelay, AfterLogin, AfterFirstSync, AfterStart DEF NoRelay, Finish, Become
  <2> QED
    BY <2>1, <2>2
<1>4. ASSUME NEW t \in tasks, StartFails(t) PROVE PairInv'
  BY <1>4, NotCalm DEF StartFails
<1>5. ASSUME NEW t \in tasks,
             \/ Join(t) \/ Joined(t) \/ ReadPeers(t) \/ OpenChannel(t) \/ Delete(t)
      PROVE  PairInv'
  <2>1. Held' = Held
    BY <1>5 DEF Join, Joined, ReadPeers, OpenChannel, Delete, Held, Adopted
  <2>2. \A u \in tasks' : u \in tasks \/ u.pc \in {"invite", "join", "channel", "fields"}
                          \/ u.op = "connect"
    BY <1>5, AfterJoin, AfterJoined, AfterStart, AfterReadPeers, AfterDelete
       DEF OpenChannel, Finish, Become
  <2> QED
    BY <2>1, <2>2
<1>6. ASSUME NEW t \in tasks, Fields(t) PROVE PairInv'
  <2>1. \A u \in tasks \ {t} : u.pc # "peers"
    BY <1>6 DEF AloneInv, Ready, Resetting, Fields
  <2>2. \A u \in tasks' : u \in tasks \ {t} \/ u.pc = "relay"
    BY <1>6, CalmFields
  <2> QED
    BY <2>1, <2>2
<1>7. CASE UNCHANGED vars
  BY <1>7 DEF vars, Held, Adopted
<1> QED
  BY <1>1, <1>2, <1>3, <1>4, <1>5, <1>6, <1>7 DEF Next, Step, Continue

\* A connect whose start() goes on or returns while the transport connects is there.
LEMMA Returning ==
    ASSUME TypeInv, NEW t \in tasks, t.op = "connect", status = "connecting", NEW left
    PROVE  \E u \in NextInvite(t, left) : u.op = "connect" /\ u.pc \in {"peers", "invite"}
<1>1. t \in Tasks
  BY DEF TypeInv, TypeOK
<1>2. CASE left = 0
  <2>1. PICK u : u = [t EXCEPT !.pc = "peers"]
    OBVIOUS
  <2>2. u \in NextInvite(t, left)
    BY <1>2, <2>1 DEF NextInvite, Started
  <2> QED
    BY <1>1, <2>1, <2>2 DEF Tasks
<1>3. CASE left # 0
  <2>1. PICK u : u = [t EXCEPT !.pc = "invite", !.era = era, !.invites = left]
    OBVIOUS
  <2>2. u \in NextInvite(t, left)
    BY <1>3, <2>1 DEF NextInvite
  <2> QED
    BY <1>1, <2>1, <2>2 DEF Tasks
<1> QED
  BY <1>2, <1>3

\* While the network answers, a promise that is resolved before the transport
\* is on is awaited by a connect that will turn it on.
LEMMA ConnectingStep ==
    ASSUME Prompt, Calm', TypeInv, EraInv, ContenderInv, ResetInv, RestartInv, ConnectingInv,
           [Next]_vars
    PROVE  ConnectingInv'
<1>1. era \in Nat /\ \A p \in resolved : p.era \in Nat /\ p.era <= era
  BY DEF TypeInv, TypeOK, EraInv
<1> USE DEF ConnectingInv, IsResolved, Returned, Joining
<1>2. CASE Connect
  BY <1>2 DEF Connect, ContenderInv
<1>3. CASE Disconnect \/ Restart \/ Pair
  <2>1. UNCHANGED <<era, resolved, status>> /\ tasks \subseteq tasks'
    BY <1>3 DEF Disconnect, Restart, Pair, Stop
  <2> QED
    BY <2>1
<1>4. ASSUME NEW t \in tasks, FindRelay(t) \/ NoRelay(t) \/ Login(t) \/ StartFails(t) \/ Delete(t)
      PROVE  ConnectingInv'
  <2>1. UNCHANGED <<era, resolved, status>> /\ ~Returned(t)
    BY <1>4 DEF FindRelay, NoRelay, Login, StartFails, Delete, At
  <2>2. tasks \ {t} \subseteq tasks'
    BY <1>4 DEF FindRelay, NoRelay, Login, StartFails, Delete, Finish, Become
  <2> QED
    BY <2>1, <2>2
<1>5. ASSUME NEW t \in tasks, FirstSync(t) PROVE ConnectingInv'
  <2>1. UNCHANGED <<era, status>> /\ tasks \ {t} \subseteq tasks' /\ t.pc = "sync"
    BY <1>5 DEF FirstSync, Become, At
  <2>2. CASE t.era = era /\ status = "connecting"
    <3>1. t.op = "connect"
      BY <2>1, <2>2 DEF RestartInv, Contends, Starting
    <3>2. PICK left \in 0..MaxInvites : tasks' = (tasks \ {t}) \cup NextInvite(t, left)
      BY <1>5, <2>2 DEF FirstSync, Become
    <3>3. \E u \in NextInvite(t, left) : u.op = "connect" /\ u.pc \in {"peers", "invite"}
      BY <2>2, <3>1, Returning
    <3> QED
      BY <3>2, <3>3
  <2>3. CASE t.era # era
    <3>1. UNCHANGED resolved
      BY <1>5, <2>3 DEF FirstSync
    <3> QED
      BY <2>1, <3>1
  <2> QED
    BY <2>1, <2>2, <2>3
<1>6. ASSUME NEW t \in tasks, ReadPeers(t) PROVE ConnectingInv'
  <2>1. CASE status' = "on"
    BY <2>1
  <2>2. CASE status' # "on"
    <3>1. /\ UNCHANGED <<era, resolved, status>>
          /\ tasks' = (tasks \ {t}) \cup {[t EXCEPT !.pc = "channel", !.era = era]}
      BY <1>6, <2>2 DEF ReadPeers, Become
    <3>2. \A u : u = [t EXCEPT !.pc = "channel", !.era = era] =>
            u.pc = "channel" /\ u.era = era /\ u.op = t.op
      <4>1. t \in Tasks
        BY DEF TypeInv, TypeOK
      <4> QED
        BY <4>1 DEF Tasks
    <3> QED
      BY <3>1, <3>2
  <2> QED
    BY <2>1, <2>2
<1>7. ASSUME NEW t \in tasks, Join(t) PROVE ConnectingInv'
  <2>1. /\ UNCHANGED <<era, resolved, status>> /\ tasks \ {t} \subseteq tasks'
        /\ \E u \in tasks' : u.pc = "join" /\ u.op = t.op
    BY <1>7, AfterJoin
  <2> QED
    BY <2>1
<1>8. ASSUME NEW t \in tasks, Joined(t) PROVE ConnectingInv'
  <2>1. /\ UNCHANGED <<era, resolved, status>>
        /\ tasks' = (tasks \ {t}) \cup NextInvite(t, t.invites - 1)
    BY <1>8 DEF Joined, Become
  <2>2. t.op = "connect" /\ status = "connecting" =>
          \E u \in NextInvite(t, t.invites - 1) : u.op = "connect" /\ u.pc \in {"peers", "invite"}
    BY Returning
  <2> QED
    BY <2>1, <2>2
<1>9. ASSUME NEW t \in tasks, OpenChannel(t) PROVE ConnectingInv'
  BY <1>9 DEF OpenChannel
<1>10. ASSUME NEW t \in tasks, Fields(t) PROVE ConnectingInv'
  <2>1. era' = era + 1 /\ UNCHANGED resolved
    BY <1>10, CalmFields
  <2> QED
    BY <1>1, <2>1
<1>11. CASE UNCHANGED vars
  BY <1>11 DEF vars
<1> QED
  BY <1>2, <1>3, <1>4, <1>5, <1>6, <1>7, <1>8, <1>9, <1>10, <1>11 DEF Next, Step, Continue

\* While the network answers and has a server, a transport that is not off has
\* a client, or a start() or a reset that will see to it.
LEMMA LiveStep ==
    ASSUME Prompt, Calm', TypeInv, EraInv, ClientInv, WaitingInv, ChannelInv, ContenderInv,
           ResetInv, PairInv, LiveInv, [Next]_vars
    PROVE  LiveInv'
<1> SUFFICES ASSUME status' # "off", counts'["serverless"] = 0
             PROVE  (Held \/ \E t \in tasks : Contends(t) \/ Resetting(t))'
  BY DEF LiveInv
<1>1. counts["serverless"] = 0
  BY CountsGrow DEF Counted
<1>2. status # "off" => Held \/ \E t \in tasks : Contends(t) \/ Resetting(t)
  BY <1>1 DEF LiveInv
<1> USE DEF Contends, Starting, Resetting
<1>3. CASE Connect
  <2>1. era' = era /\ Task("connect", "relay", counts["connect"], era) \in tasks'
    BY <1>3 DEF Connect
  <2>2. Contends(Task("connect", "relay", counts["connect"], era))
    BY DEF Task
  <2> QED
    BY <2>1, <2>2
<1>4. CASE Disconnect \/ Restart
  <2>1. PICK op, after :
           tasks' = tasks \cup {[Task(op, "delete", counts[op], era) EXCEPT !.after = after]}
    BY <1>4 DEF Disconnect, Restart, Stop
  <2>2. PICK u : u = [Task(op, "delete", counts[op], era) EXCEPT !.after = after]
    OBVIOUS
  <2>3. u \in tasks' /\ u.pc = "delete"
    BY <2>1, <2>2 DEF Task
  <2> QED
    BY <2>3
<1>5. CASE Pair
  <2>1. UNCHANGED <<era, status>> /\ Held' = Held /\ tasks \subseteq tasks'
    BY <1>5 DEF Pair, Held, Adopted
  <2> QED
    BY <1>2, <2>1
<1>6. ASSUME NEW t \in tasks, FindRelay(t)
      PROVE  (Held \/ \E u \in tasks : Contends(u) \/ Resetting(u))'
  <2>1. UNCHANGED <<era, status>> /\ Held' = Held /\ tasks \ {t} \subseteq tasks'
    BY <1>6 DEF FindRelay, Held, Adopted, Become
  <2>2. \E u \in tasks' : u.pc = "login" /\ u.era = t.era
    <3>1. [t EXCEPT !.pc = "login", !.client = counts["client"] + 1] \in tasks'
      BY <1>6 DEF FindRelay, Become
    <3>2. t \in Tasks
      BY DEF TypeInv, TypeOK
    <3> QED
      BY <3>1, <3>2 DEF Tasks
  <2>3. ~Resetting(t)
    BY <1>6 DEF FindRelay, At
  <2> QED
    BY <1>2, <2>1, <2>2, <2>3
<1>7. ASSUME NEW t \in tasks, NoRelay(t)
      PROVE  FALSE
  <2>1. Fail \/ Count("serverless")
    BY <1>7 DEF NoRelay
  <2>2. Count("serverless")
    BY <2>1, NotCalm
  <2> QED
    BY <1>1, <2>2 DEF Count, Counted, TypeInv, TypeOK
<1>8. ASSUME NEW t \in tasks, Login(t)
      PROVE  (Held \/ \E u \in tasks : Contends(u) \/ Resetting(u))'
  <2>1. /\ UNCHANGED <<era, status>> /\ Adopted' = Adopted /\ polling \subseteq polling'
        /\ tasks \ {t} \subseteq tasks'
    BY <1>8 DEF Login, Adopted, Become
  <2>2. \E u \in tasks' : u.pc = "sync" /\ u.era = t.era
    <3>1. [t EXCEPT !.pc = "sync"] \in tasks'
      BY <1>8 DEF Login, Become
    <3>2. t \in Tasks
      BY DEF TypeInv, TypeOK
    <3> QED
      BY <3>1, <3>2 DEF Tasks
  <2>3. ~Resetting(t)
    BY <1>8 DEF Login, At
  <2> QED
    BY <1>2, <2>1, <2>2, <2>3 DEF Held
<1>9. ASSUME NEW t \in tasks, StartFails(t)
      PROVE  (Held \/ \E u \in tasks : Contends(u) \/ Resetting(u))'
  BY <1>9, NotCalm DEF StartFails
<1>10. ASSUME NEW t \in tasks, FirstSync(t)
       PROVE  (Held \/ \E u \in tasks : Contends(u) \/ Resetting(u))'
  <2>1. UNCHANGED <<era, status>> /\ tasks \ {t} \subseteq tasks' /\ t.pc = "sync"
    BY <1>10 DEF FirstSync, Become, At
  <2>2. CASE t.era = era
    <3>1. ~IsResolved(era)
      BY <2>1, <2>2 DEF ContenderInv
    <3>2. /\ resolved' = resolved \cup {[era |-> era, client |-> t.client]}
          /\ UNCHANGED polling
      BY <1>10, <2>2, <3>1 DEF FirstSync
    <3>3. t.client \in Adopted'
      <4>1. [era |-> era, client |-> t.client] \in {p \in resolved' : p.era = era'}
        BY <2>1, <3>2
      <4> QED
        BY <4>1 DEF Adopted
    <3>4. t.client \in polling
      BY <2>1 DEF ClientInv, At
    <3> QED
      BY <3>2, <3>3, <3>4 DEF Held
  <2>3. CASE t.era # era
    <3>1. polling' = polling \ {t.client} /\ Adopted' = Adopted
      BY <1>10, <2>3 DEF FirstSync, Adopted
    <3>2. t.client \notin Adopted
      BY <2>1 DEF ClientInv, Owners, At, Clients, Adopted
    <3>3. Held' = Held
      BY <3>1, <3>2 DEF Held
    <3> QED
      BY <1>2, <2>1, <2>3, <3>3
  <2> QED
    BY <2>2, <2>3
<1>11. ASSUME NEW t \in tasks, ReadPeers(t) \/ OpenChannel(t) \/ Join(t) \/ Joined(t)
       PROVE  (Held \/ \E u \in tasks : Contends(u) \/ Resetting(u))'
  <2>1. UNCHANGED era /\ Held' = Held /\ tasks \ {t} \subseteq tasks'
    BY <1>11 DEF ReadPeers, OpenChannel, Join, Joined, Held, Adopted, Finish, Become
  <2>2. ~Contends(t) /\ ~Resetting(t)
    BY <1>11 DEF ReadPeers, OpenChannel, Join, Joined, At
  <2>3. status # "off" \/ Held
    <3>1. CASE ReadPeers(t)
      BY <3>1 DEF ReadPeers, At, WaitingInv, PairInv
    <3>2. CASE OpenChannel(t)
      BY <3>2 DEF OpenChannel, At, ChannelInv, ContenderInv
    <3>3. CASE Join(t) \/ Joined(t)
      BY <3>3 DEF Join, Joined
    <3> QED
      BY <1>11, <3>1, <3>2, <3>3
  <2> QED
    BY <1>2, <2>1, <2>2, <2>3
<1>12. ASSUME NEW t \in tasks, Delete(t)
       PROVE  (Held \/ \E u \in tasks : Contends(u) \/ Resetting(u))'
  <2>1. [t EXCEPT !.pc = "fields"] \in tasks' /\ t \in Tasks
    BY <1>12 DEF Delete, Become, TypeInv, TypeOK
  <2>2. \E u \in tasks' : u.pc = "fields"
    BY <2>1 DEF Tasks
  <2> QED
    BY <2>2
<1>13. ASSUME NEW t \in tasks, Fields(t)
       PROVE  (Held \/ \E u \in tasks : Contends(u) \/ Resetting(u))'
  <2>1. t.after = "start"
    BY <1>13, CalmFields
  <2>2. \E new \in tasks' : new.pc = "relay" /\ new.era = era'
    BY <1>13, <2>1, CalmFields
  <2> QED
    BY <2>2
<1>14. CASE UNCHANGED vars
  BY <1>2, <1>14 DEF vars, Held, Adopted
<1> QED
  BY <1>3, <1>4, <1>5, <1>6, <1>7, <1>8, <1>9, <1>10, <1>11, <1>12, <1>13, <1>14
     DEF Next, Step, Continue

\* No step makes a connect of a task of another call.
LEMMA OnlyConnectConnects ==
    ASSUME TypeInv, NoConnectYet, [Next]_vars
    PROVE  NoConnectYet'
<1> SUFFICES ASSUME counts'["connect"] = 0, NEW u \in tasks', u.op = "connect" PROVE FALSE
  BY DEF NoConnectYet
<1>1. counts["connect"] = 0 /\ counts \in [Counted -> Nat]
  BY CountsGrow DEF Counted, TypeInv, TypeOK
<1>2. \A t \in tasks : t.op # "connect" /\ t \in Tasks
  BY <1>1 DEF NoConnectYet, TypeInv, TypeOK
<1>3. CASE Connect
  BY <1>1, <1>3 DEF Connect, Call, Count, Counted
<1>4. CASE Disconnect \/ Restart \/ Pair
  BY <1>2, <1>4 DEF Disconnect, Restart, Pair, Stop, Task
<1>5. ASSUME NEW t \in tasks,
             \/ FindRelay(t) \/ Login(t) \/ ReadPeers(t) \/ FirstSync(t) \/ Join(t) \/ Joined(t)
      PROVE  FALSE
  <2>1. u \in tasks \/ u.op = t.op \/ u \in Started(t)
    BY <1>5, AfterFindRelay, AfterLogin, AfterReadPeers, AfterFirstSync, AfterJoin, AfterJoined
  <2> QED
    BY <1>2, <2>1, AfterStart
<1>6. ASSUME NEW t \in tasks, NoRelay(t) \/ OpenChannel(t) PROVE FALSE
  BY <1>2, <1>6 DEF NoRelay, OpenChannel, Finish, Become
<1>7. ASSUME NEW t \in tasks, StartFails(t) PROVE FALSE
  <2>1. PICK after \in {"retry", "throw"} :
           tasks' = (tasks \ {t}) \cup {[t EXCEPT !.pc = "delete", !.after = after]}
    BY <1>7 DEF StartFails, Become
  <2> QED
    BY <1>2, <2>1 DEF Tasks
<1>8. ASSUME NEW t \in tasks, Delete(t) PROVE FALSE
  <2>1. tasks' = (tasks \ {t}) \cup {[t EXCEPT !.pc = "fields"]}
    BY <1>8 DEF Delete, Become
  <2> QED
    BY <1>2, <2>1 DEF Tasks
<1>9. ASSUME NEW t \in tasks, Fields(t) PROVE FALSE
  <2> DEFINE again == [t EXCEPT !.pc = "relay", !.era = era + 1, !.after = "none"]
             retry == Task("retry", "relay", logins, era + 1)
  <2>1. again.op = t.op /\ retry.op = "retry"
    BY <1>2 DEF Tasks, Task
  <2>2. Started(t) = {}
    BY <1>2 DEF Started
  <2>3. Retried(t) \subseteq {retry}
    BY <2>2 DEF Retried
  <2>4. t.after = "start" => u \in tasks \/ u = again
    BY <1>9 DEF Fields, Become
  <2>5. t.after = "retry" => u \in tasks \/ u \in Retried(t)
    BY <1>9 DEF Fields, Become
  <2>6. t.after \notin {"start", "retry"} => u \in tasks
    BY <1>9 DEF Fields, Become
  <2> HIDE DEF again, retry
  <2> QED
    BY <1>2, <2>1, <2>3, <2>4, <2>5, <2>6
<1>10. CASE UNCHANGED vars
  BY <1>2, <1>10 DEF vars
<1> QED
  BY <1>3, <1>4, <1>5, <1>6, <1>7, <1>8, <1>9, <1>10 DEF Next, Step, Continue

\* While the network answers, the only connect() goes on for the promise that
\* it began with, or not at all.
LEMMA FirstConnectStep ==
    ASSUME Prompt, Calm', TypeInv, EraInv, AloneInv, ResetInv, RoomsInv, RestartInv,
           NoConnectYet, FirstConnectInv, [Next]_vars
    PROVE  FirstConnectInv'
<1>1. era \in Nat /\ counts \in [Counted -> Nat]
  BY DEF TypeInv, TypeOK
<1> SUFFICES ASSUME counts'["connect"] = 1 PROVE FirstConnectInv'
  BY DEF FirstConnectInv
<1>2. CASE Connect
  <2>1. counts["connect"] = 0
    BY <1>1, <1>2 DEF Connect, Call, Count, Counted
  <2>2. \A u \in tasks : u.op # "connect"
    BY <2>1 DEF NoConnectYet
  <2>3. \A u \in tasks' : u \in tasks \/ (u.pc = "relay" /\ u.era = era)
    BY <1>2 DEF Connect, Task
  <2>4. era' = era
    BY <1>2 DEF Connect
  <2> QED
    BY <2>2, <2>3, <2>4 DEF FirstConnectInv
<1>3. ASSUME ~Connect PROVE counts["connect"] = 1
  <2>1. CASE Disconnect \/ Restart
    BY <1>1, <2>1 DEF Disconnect, Restart, Stop, Counted
  <2>2. CASE ~(Disconnect \/ Restart)
    <3>1. \/ counts' = counts
          \/ \E w \in Counted \ {"connect"} : Count(w)
      BY <1>3, <2>2 DEF Next, Step, Continue, Pair, Call, Counted, Fail,
         FindRelay, NoRelay, Login, StartFails, FirstSync, Join, Joined, ReadPeers, OpenChannel,
         Delete, Fields, vars
    <3> QED
      BY <1>1, <3>1 DEF Count, Counted
  <2> QED
    BY <2>1, <2>2
<1>4. SUFFICES ASSUME ~Connect,
                      \A t \in tasks : t.op = "connect" =>
                         /\ Starting(t) /\ status = "connecting" => t.era = era
                         /\ t.pc = "peers" => IsResolved(era)
                         /\ t.pc = "channel" => t.era = era /\ IsResolved(era)
               PROVE  FirstConnectInv'
  BY <1>2, <1>3 DEF FirstConnectInv
<1> USE DEF FirstConnectInv, Starting
<1>5. CASE Disconnect \/ Restart \/ Pair
  <2>1. UNCHANGED <<era, resolved, status>>
    BY <1>5 DEF Disconnect, Restart, Pair, Stop
  <2>2. \A u \in tasks' : u \in tasks \/ u.op # "connect"
    BY <1>5 DEF Disconnect, Restart, Pair, Stop, Task
  <2> QED
    BY <1>4, <2>1, <2>2 DEF IsResolved
<1>6. ASSUME NEW t \in tasks, FindRelay(t) \/ Login(t) PROVE FirstConnectInv'
  <2>1. UNCHANGED <<era, resolved, status>> /\ Starting(t)
    BY <1>6 DEF FindRelay, Login, At
  <2>2. \A u \in tasks' : \/ u \in tasks
                          \/ u.pc \in {"login", "sync"} /\ u.era = t.era /\ u.op = t.op
    BY <1>6, AfterFindRelay, AfterLogin
  <2> QED
    BY <1>4, <2>1, <2>2 DEF IsResolved
<1>7. ASSUME NEW t \in tasks, NoRelay(t) \/ Delete(t) PROVE FirstConnectInv'
  <2>1. UNCHANGED <<era, resolved, status>>
    BY <1>7 DEF NoRelay, Delete
  <2>2. \A u \in tasks' : u \in tasks \/ u.pc = "fields"
    BY <1>7, AfterDelete DEF NoRelay, Finish, Become
  <2> QED
    BY <1>4, <2>1, <2>2 DEF IsResolved
<1>8. ASSUME NEW t \in tasks, StartFails(t) PROVE FirstConnectInv'
  BY <1>8, NotCalm DEF StartFails
<1>9. ASSUME NEW t \in tasks, FirstSync(t) PROVE FirstConnectInv'
  <2>1. UNCHANGED <<era, status>> /\ t.pc = "sync" /\ resolved \subseteq resolved'
    BY <1>9 DEF FirstSync, At
  <2>2. IsResolved(era) => IsResolved(era)'
    BY <2>1 DEF IsResolved
  <2>3. t.era = era => IsResolved(era)'
    BY <1>9, <2>1, <2>2 DEF FirstSync, IsResolved
  <2>4. \A u \in tasks' : \/ u \in tasks
                          \/ u.pc = "invite"
                          \/ u.pc = "peers" /\ t.op = "connect" /\ status = "connecting"
    BY <1>9, AfterFirstSync, AfterStart
  <2> QED
    BY <1>4, <2>1, <2>2, <2>3, <2>4
<1>10. ASSUME NEW t \in tasks, Join(t) \/ Joined(t) PROVE FirstConnectInv'
  <2>1. UNCHANGED <<era, resolved, status>> /\ Joining(t)
    BY <1>10, AfterJoin, AfterJoined DEF Joining
  <2>2. \E p \in resolved : p.era = era
    BY <2>1 DEF RoomsInv, HasClient
  <2>3. \A u \in tasks' : u \in tasks \/ u.pc \in {"invite", "join", "peers"}
    BY <1>10, AfterJoin, AfterJoined, AfterStart
  <2> QED
    BY <1>4, <2>1, <2>2, <2>3 DEF IsResolved
<1>11. ASSUME NEW t \in tasks, ReadPeers(t) PROVE FirstConnectInv'
  <2>1. UNCHANGED <<era, resolved>> /\ status' \in {status, "on"} /\ t.pc = "peers"
    BY <1>11 DEF ReadPeers, At
  <2>2. \A u \in tasks' : \/ u \in tasks
                          \/ u.pc = "channel" /\ u.era = era /\ u.op = t.op
    BY <1>11, AfterReadPeers
  <2> QED
    BY <1>4, <2>1, <2>2 DEF IsResolved
<1>12. ASSUME NEW t \in tasks, OpenChannel(t) PROVE FirstConnectInv'
  <2>1. UNCHANGED <<era, resolved>> /\ status' = "on" /\ tasks' \subseteq tasks
    BY <1>12 DEF OpenChannel, Finish, Become
  <2> QED
    BY <1>4, <2>1 DEF IsResolved
<1>13. ASSUME NEW t \in tasks, Fields(t) PROVE FirstConnectInv'
  <2>1. \A u \in tasks \ {t} : ~Ready(u)
    BY <1>13 DEF AloneInv, Resetting, Fields, At
  <2>2. \A u \in tasks \ {t} : u.op = "connect" => u.pc \notin {"peers", "channel"}
    BY <1>4, <2>1 DEF Ready
  <2>3. \A u \in tasks' : u \in tasks \ {t} \/ u.pc = "relay"
    BY <1>13, CalmFields
  <2>4. status' # "connecting"
    <3>1. t.after = "start" => status = "on"
      BY <1>13 DEF RestartInv, Resetting, Fields, At
    <3> QED
      BY <1>13, <3>1, CalmFields
  <2> QED
    BY <2>2, <2>3, <2>4
<1>14. CASE UNCHANGED vars
  BY <1>4, <1>14 DEF vars, IsResolved
<1> QED
  BY <1>4, <1>5, <1>6, <1>7, <1>8, <1>9, <1>10, <1>11, <1>12, <1>13, <1>14 DEF Next, Step, Continue

-----------------------------------------------------------------------------
LEMMA NextIInv == IInv /\ [Next]_vars => IInv'
<1> SUFFICES ASSUME IInv, [Next]_vars PROVE IInv'
  OBVIOUS
<1>1. TypeInv' /\ EraInv'
  BY TypeStep, EraStep DEF IInv
<1>2. ClientInv' /\ NoConnectYet'
  BY ClientStep, OnlyConnectConnects DEF IInv
<1>3. Uncut' => Uncut
  BY CutStays DEF IInv
<1>4. Uncut' => JoinInv'
  BY <1>3, JoinStep DEF IInv
<1>5. Prompt => SoleInv'
  BY SoleStep DEF IInv
<1>6. ASSUME Prompt, Uncut' PROVE AloneInv' /\ WaitingInv' /\ ChannelInv'
  BY <1>3, <1>6, AloneStep, WaitingStep, ChannelStep DEF IInv
<1>7. ASSUME Prompt, Calm' PROVE StartInv'
  <2>1. Calm
    BY <1>7, FailuresStay DEF IInv
  <2>2. TypeInv /\ EraInv /\ SoleInv /\ ContenderInv /\ ResetInv /\ Ghosts = {}
    BY <1>7, <2>1 DEF IInv, StartInv
  <2> QED
    BY <1>7, <2>2, ContenderStep, ResetStep, GhostStep DEF StartInv
<1>8. ASSUME Prompt, Calm', Uncut' PROVE CalmInv'
  <2>1. Calm /\ Uncut
    BY <1>3, <1>8, FailuresStay DEF IInv
  <2>2. /\ TypeInv /\ EraInv /\ ClientInv /\ JoinInv /\ AloneInv /\ WaitingInv /\ ChannelInv
        /\ ContenderInv /\ ResetInv /\ Ghosts = {} /\ RoomsInv /\ RestartInv /\ PairInv
        /\ ConnectingInv /\ LiveInv /\ NoConnectYet /\ FirstConnectInv
    BY <1>8, <2>1 DEF IInv, StartInv, CalmInv
  <2>3. (RoomsInv /\ RestartInv /\ PairInv /\ ConnectingInv /\ LiveInv)'
    BY <1>8, <2>2, RoomsStep, RestartStep, PairStep, ConnectingStep, LiveStep
  <2>4. FirstConnectInv'
    BY <1>8, <2>2, FirstConnectStep
  <2> QED
    BY <2>3, <2>4 DEF CalmInv
<1> QED
  BY <1>1, <1>2, <1>4, <1>5, <1>6, <1>7, <1>8 DEF IInv

LEMMA Invariance == Spec => []IInv
BY InitIInv, NextIInv, PTL DEF Spec

\* The variables have their types, whatever connects, disconnects and fails.
THEOREM TypeCorrect == Spec => []TypeOK
<1>1. IInv => TypeOK
  BY DEF IInv, TypeInv
<1> QED
  BY <1>1, Invariance, PTL

\* With prompt storage and a network that answers, no client of start() syncs
\* that a stop() cannot reach.
THEOREM NoGhostSyncs == Spec => []NoGhosts
<1>1. IInv => NoGhosts
  BY DEF IInv, StartInv, NoGhosts, Calm
<1> QED
  BY <1>1, Invariance, PTL

\* With prompt storage and a network that answers, the transport is connected
\* if and only if a client runs for it, whenever every call has returned, and if
\* no stop() cut off a start() that joined rooms.
THEOREM StatusIsTrue == Spec => []StatusTellsTheTruth
<1>1. IInv => StatusTellsTheTruth
  <2> SUFFICES ASSUME IInv, Prompt, Idle,
                      counts["failure"] + counts["serverless"] + counts["cut"] = 0
               PROVE  status = "on" <=> polling # {}
    BY DEF StatusTellsTheTruth
  <2>1. /\ counts["failure"] = 0 /\ counts["serverless"] = 0 /\ counts["cut"] = 0
        /\ status \in Statuses
    BY DEF IInv, TypeInv, TypeOK, Counted
  <2>2. StartInv /\ CalmInv
    BY <2>1 DEF IInv, Calm, Uncut
  <2>3. \A t \in tasks : /\ ~Contends(t) /\ ~Resetting(t) /\ ~Returned(t)
                         /\ t.pc # "sync"
    BY DEF Idle, Stranded, Contends, Starting, Resetting, Returned, Joining
  <2>4. ASSUME status = "on" PROVE polling # {}
    BY <2>1, <2>2, <2>3, <2>4 DEF CalmInv, LiveInv, Held
  <2>5. ASSUME polling # {} PROVE status = "on"
    <3>1. PICK c \in polling : c \in Adopted
      BY <2>2, <2>3, <2>5 DEF StartInv, Ghosts, InReach, At
    <3>2. IsResolved(era)
      BY <3>1 DEF Adopted, IsResolved
    <3>3. status # "off" /\ status # "connecting"
      BY <2>2, <2>3, <3>2 DEF StartInv, CalmInv, ContenderInv, ConnectingInv
    <3> QED
      BY <2>1, <3>3 DEF Statuses
  <2> QED
    BY <2>4, <2>5
<1> QED
  BY <1>1, Invariance, PTL

\* With prompt storage and a network that answers, a connect() that no other
\* connect() helped on does not wait for a promise that is left behind, if no
\* disconnect() cut it off while it joined rooms.
THEOREM ConnectGoesOn == Spec => []OneConnectIsNotStranded
<1>1. IInv => OneConnectIsNotStranded
  <2> SUFFICES ASSUME IInv, Prompt, counts["failure"] + counts["cut"] = 0,
                      counts["connect"] = 1, NEW t \in tasks, t.op = "connect"
               PROVE  ~Stranded(t)
    BY DEF OneConnectIsNotStranded
  <2>1. counts["failure"] = 0 /\ counts["cut"] = 0
    BY DEF IInv, TypeInv, TypeOK, Counted
  <2> QED
    BY <2>1 DEF IInv, CalmInv, Calm, Uncut, FirstConnectInv, Stranded
<1> QED
  BY <1>1, Invariance, PTL

\* With prompt storage, whatever fails, a connect() that a disconnect() has
\* overtaken does not call the transport connected, unless a stop() cut off a
\* start() that joined rooms.
THEOREM NoConnectIsOvertaken == Spec => NoOvertakenConnect
<1>1. IInv /\ [Next]_vars => [Prompt /\ counts["cut"] = 0 => ~OvertakenConnects]_vars
  <2> SUFFICES ASSUME Prompt, counts["cut"] = 0, IInv, Next, OvertakenConnects PROVE FALSE
    BY DEF vars, OvertakenConnects
  <2>1. status = "off" /\ status' = "on"
    BY DEF OvertakenConnects
  <2>2. PICK t \in tasks \ tasks' : t.op = "connect"
    BY DEF OvertakenConnects
  <2>3. WaitingInv
    BY DEF IInv, Uncut
  <2>4. ASSUME NEW u \in tasks, ReadPeers(u) PROVE FALSE
    BY <2>1, <2>2, <2>3, <2>4 DEF WaitingInv, ReadPeers, At, Finish, Become
  <2>5. ASSUME NEW u \in tasks, OpenChannel(u) PROVE FALSE
    BY <2>1, <2>2, <2>3, <2>5 DEF WaitingInv, OpenChannel, At, Finish, Become
  <2>6. ASSUME NEW u \in tasks,
               \/ FindRelay(u) \/ NoRelay(u) \/ Login(u) \/ StartFails(u)
               \/ FirstSync(u) \/ Join(u) \/ Joined(u) \/ Delete(u) \/ Fields(u)
        PROVE  FALSE
    BY <2>1, <2>6 DEF FindRelay, NoRelay, Login, StartFails, FirstSync, Join, Joined, Delete,
                      Fields
  <2>7. CASE Connect \/ Disconnect \/ Restart \/ Pair
    BY <2>1, <2>7 DEF Connect, Disconnect, Restart, Pair, Stop
  <2> QED
    BY <2>4, <2>5, <2>6, <2>7 DEF Next, Step, Continue
<1> QED
  BY <1>1, Invariance, PTL DEF Spec, NoOvertakenConnect

=============================================================================
