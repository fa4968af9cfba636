------------------------- MODULE WalletConnectProofs -------------------------
(***************************************************************************)
(* The WalletConnect transport, proved for any wallets and any number of   *)
(* requests, sessions, proposals and clients: everything has its type,     *)
(* answers that come in order go to their requests, and where no calls     *)
(* overlap there is one sign client and the account is of the session.     *)
(*                                                                         *)
(* The queue of ids is, in order, the reverse of the requests that are     *)
(* open: an answer takes the id at the end, which is the oldest one's.     *)
(***************************************************************************)
EXTENDS WalletConnect, TLAPS

\* Sign clients are numbered as they are made.
ClientsTyped ==
    /\ counts \in [Counted -> Nat]
    /\ counts["request"] <= MaxRequests /\ counts["client"] <= MaxClients
    /\ client \in 0..counts["client"] /\ live \subseteq 1..counts["client"]
    /\ subscribed \subseteq live

\* Sessions are numbered as they are approved, and none is used before.
SessionsTyped ==
    /\ controller \in Seq(Wallets) /\ Approved <= MaxSessions
    /\ stored \subseteq 1..Approved /\ session \in 0..Approved
    /\ account \in Wallets \cup {NoWallet}
    /\ listeners \subseteq 1..Approved

TasksTyped ==
    \A t \in tasks :
        /\ t \in Tasks
        /\ t.s <= Approved /\ t.cl <= counts["client"]
        /\ t.op = "peer" => t.pc = "add" /\ t.s # 0

RestTyped ==
    /\ tab \in [leader : BOOLEAN, mobile : BOOLEAN]
    /\ status \in {"off", "connecting", "on", "secondary"}
    /\ opening \in BOOLEAN /\ pinging \in BOOLEAN /\ orderly \in BOOLEAN

\* Ids are those of requests that were made.
QueueTyped ==
    /\ messageIds \in Seq(Requests) /\ open \subseteq Requests
    /\ \A i \in 1..Len(messageIds) : messageIds[i] <= counts["request"]

Typed == ClientsTyped /\ SessionsTyped /\ TasksTyped /\ RestTyped /\ QueueTyped

\* The ids are those of the open requests, newest first.
InOrder ==
    /\ strays = {}
    /\ open = {messageIds[i] : i \in 1..Len(messageIds)}
    /\ \A i, j \in 1..Len(messageIds) : i < j => messageIds[j] < messageIds[i]
OrderInv == orderly => InOrder

\* Where no calls overlap a proposal is out only while there is no session.
NoneBeside ==
    /\ OneSignClient
    /\ AccountIsOfSession
    /\ \A t \in Proposed : session = 0 /\ \A u \in Proposed : u = t
AloneInv == Alone => NoneBeside

IInv == Typed /\ OrderInv /\ AloneInv

-----------------------------------------------------------------------------
(* Sign clients.                                                           *)

\* The clients stay as they are, or the one there is is closed or forgotten.
KeepClients ==
    \/ UNCHANGED clients
    \/ client' = 0 /\ subscribed' = subscribed \ {client} /\ live' \in {live, live \ {client}}

\* What a step does to the clients and the counts: they stay, or the one there
\* is is closed or forgotten, or one is made, which is spare where there was one.
ClientStep ==
    /\ counts' \in [Counted -> Nat]
    /\ counts'["request"] <= MaxRequests /\ counts'["client"] <= MaxClients
    /\ counts'["request"] >= counts["request"]
    /\ counts'["spare"] >= counts["spare"]
    /\ \/ /\ counts'["client"] = counts["client"]
          /\ KeepClients
       \/ /\ counts'["client"] = counts["client"] + 1
          /\ NewClient(counts'["client"])
          /\ client # 0 => counts'["spare"] # counts["spare"]

\* A step that makes no client.
Tally(c) == c \in [Counted -> Nat] /\ c["client"] = counts["client"]
            /\ c["request"] = counts["request"] /\ c["spare"] >= counts["spare"]

LEMMA TalliedStep ==
    ASSUME ClientsTyped, Tally(counts'), KeepClients \/ CloseSignClient
    PROVE  ClientStep
BY DEF ClientsTyped, Tally, ClientStep, KeepClients, CloseSignClient, Counted

LEMMA Tallied ==
    ASSUME ClientsTyped
    PROVE  /\ Tally(counts) /\ Tally(CountBeside(counts))
           /\ \A what \in {"event", "proposal"} : Tally([counts EXCEPT ![what] = @ + 1])
           /\ Tally([CountBeside(counts) EXCEPT !["event"] = @ + 1])
           /\ Tally([counts EXCEPT !["proposal"] = @ + 1,
                                   !["spare"] = IF HasSession \/ Proposed # {} THEN @ + 1 ELSE @])
<1>1. CountBeside(counts) \in [Counted -> Nat] /\ Tally(CountBeside(counts))
    BY DEF ClientsTyped, CountBeside, Tally, Counted
<1>2. Tally(counts) /\ \A what \in {"event", "proposal"} : Tally([counts EXCEPT ![what] = @ + 1])
    BY DEF ClientsTyped, Tally, Counted
<1>3. Tally([CountBeside(counts) EXCEPT !["event"] = @ + 1])
    BY <1>1 DEF Tally, Counted
<1>4. Tally([counts EXCEPT !["proposal"] = @ + 1,
                           !["spare"] = IF HasSession \/ Proposed # {} THEN @ + 1 ELSE @])
    BY DEF ClientsTyped, Tally, Counted
<1> QED BY <1>1, <1>2, <1>3, <1>4

LEMMA ObtainedStep ==
    ASSUME ClientsTyped, NEW t, NEW c, Obtain(t, c)
    PROVE  ClientStep /\ counts'["request"] = counts["request"]
           /\ (c = t.cl \/ c = counts'["client"]) /\ (t.cl = 0 => c # 0)
<1>1. CASE t.cl # 0
    BY <1>1, Tallied, TalliedStep DEF Obtain, KeepClients
<1>2. CASE t.cl = 0
    <2> DEFINE n == IF client = 0 THEN counts["spare"] ELSE counts["spare"] + 1
    <2>1. counts["client"] \in Nat /\ counts["client"] < MaxClients /\ n \in Nat
          /\ n >= counts["spare"] /\ (client # 0 => n # counts["spare"])
        BY <1>2 DEF Obtain, ClientsTyped, Counted
    <2>2. /\ c = counts["client"] + 1 /\ NewClient(c)
          /\ counts' = [counts EXCEPT !["client"] = c, !["spare"] = n]
        BY <1>2, <2>1 DEF Obtain, ClientsTyped, Counted
    <2> HIDE DEF n
    <2>3. counts' \in [Counted -> Nat] /\ counts'["client"] = counts["client"] + 1
          /\ counts'["request"] = counts["request"] /\ counts'["spare"] = n
        BY <2>1, <2>2 DEF ClientsTyped, Counted
    <2> QED BY <1>2, <2>1, <2>2, <2>3, BoundAssumption DEF ClientsTyped, ClientStep, Counted
<1> QED BY <1>1, <1>2

LEMMA NextClient ==
    ASSUME ClientsTyped, Next
    PROVE  ClientStep
<1>1. CASE Send
    <2>1. counts["request"] \in Nat /\ counts["request"] < MaxRequests
          /\ counts' = [counts EXCEPT !["request"] = counts["request"] + 1] /\ UNCHANGED clients
        BY <1>1 DEF Send, Count, ClientsTyped, Counted
    <2>2. counts' \in [Counted -> Nat] /\ counts'["request"] = counts["request"] + 1
          /\ counts'["client"] = counts["client"] /\ counts'["spare"] = counts["spare"]
        BY <2>1 DEF ClientsTyped, Counted
    <2> QED BY <2>1, <2>2, BoundAssumption DEF ClientsTyped, ClientStep, KeepClients, Counted
<1>2. CASE Connect \/ Pair \/ Disconnect \/ Elected \/ StorageReset \/ StorageInit
    BY <1>2, Tallied, TalliedStep
    DEF Connect, StartConnecting, Pair, Disconnect, Elected, StorageReset, StorageInit, Happen,
        Count, view, KeepClients, CloseSignClient
<1>3. CASE Pong
    BY <1>3, Tallied, TalliedStep DEF Pong, KeepClients
<1>4. CASE PingAgain
    <2>1. counts["client"] \in Nat /\ counts["client"] < MaxClients
          /\ counts' = [counts EXCEPT !["client"] = counts["client"] + 1]
        BY <1>4 DEF PingAgain, Count, ClientsTyped, Counted
    <2>2. counts' \in [Counted -> Nat] /\ counts'["client"] = counts["client"] + 1
          /\ counts'["request"] = counts["request"] /\ counts'["spare"] = counts["spare"]
        BY <2>1 DEF ClientsTyped, Counted
    <2>3. client = 0 /\ NewClient(counts'["client"])
        BY <1>4, <2>2 DEF PingAgain
    <2> QED BY <2>1, <2>2, <2>3, BoundAssumption DEF ClientsTyped, ClientStep, Counted
<1>5. ASSUME NEW s \in Sessions, SessionEnds(s) \/ SessionUpdated(s) PROVE ClientStep
    BY <1>5, Tallied, TalliedStep DEF SessionEnds, SessionUpdated, KeepClients
<1>6. ASSUME NEW t \in tasks, CallClient(t) \/ OpenSession(t) \/ Restore(t) PROVE ClientStep
    BY <1>6, ObtainedStep DEF CallClient, OpenSession, Restore
<1>7. ASSUME NEW t \in tasks, \/ SendCall(t) \/ CallAnswered(t) \/ SessionNotOpened(t) \/ Permit(t)
                              \/ NoClient(t) \/ Stale(t) \/ ProposalRefused(t) \/ AddPeer(t)
                              \/ Connected(t) \/ CloseSessions(t) \/ SessionEnded(t) \/ ProposalApproved(t)
      PROVE  ClientStep
    BY <1>7, Tallied, TalliedStep
    DEF SendCall, CallAnswered, SessionNotOpened, Permit, NoClient, Stale, ProposalRefused, AddPeer,
        Connected, CloseSessions, SessionEnded, ProposalApproved, view, KeepClients
<1>8. ASSUME NEW t \in tasks, Leave(t) \/ Shut(t) PROVE ClientStep
    BY <1>8, Tallied, TalliedStep DEF Leave, Shut
<1>9. ASSUME NEW t \in tasks, SessionOpened(t) \/ Restored(t) PROVE ClientStep
    BY <1>9, Tallied, TalliedStep DEF SessionOpened, Restored, KeepClients
<1>10. ASSUME NEW t \in tasks, Propose(t) PROVE ClientStep
    BY <1>10, Tallied, TalliedStep DEF Propose, view, KeepClients
<1> QED
    BY <1>1, <1>2, <1>3, <1>4, <1>5, <1>6, <1>7, <1>8, <1>9, <1>10, Zenon DEF Next, Continue

LEMMA ClientsKeepTheirTypes ==
    ASSUME ClientsTyped, ClientStep
    PROVE  ClientsTyped'
<1>0. counts["client"] \in Nat /\ counts'["client"] \in Nat
    BY DEF ClientsTyped, ClientStep, Counted
<1>1. CASE counts'["client"] = counts["client"] /\ KeepClients
    <2>1. live' \subseteq live /\ client' \in {0, client}
          /\ (subscribed \subseteq live => subscribed' \subseteq live')
        BY <1>1 DEF KeepClients, clients
    <2> QED BY <1>0, <1>1, <2>1 DEF ClientsTyped, ClientStep
<1>2. CASE /\ counts'["client"] = counts["client"] + 1
           /\ NewClient(counts'["client"])
    <2>1. PICK n \in Nat : n = counts["client"]
        BY <1>0
    <2>2. 0..n \subseteq 0..n + 1 /\ 1..n \subseteq 1..n + 1 /\ n + 1 \in 1..n + 1 /\ n + 1 \in 0..n + 1
        BY <2>1
    <2>3. counts'["client"] = n + 1 /\ client \in 0..n /\ live \subseteq 1..n
          /\ subscribed \subseteq live
        BY <1>2, <2>1 DEF ClientsTyped
    <2>4. client' \in 0..n + 1 /\ live' \subseteq 1..n + 1 /\ subscribed' \subseteq live'
        BY <1>2, <2>1, <2>2, <2>3 DEF NewClient
    <2> QED BY <2>3, <2>4 DEF ClientStep, ClientsTyped
<1> QED BY <1>1, <1>2 DEF ClientStep

-----------------------------------------------------------------------------
(* Sessions.                                                               *)

LEMMA ApprovedSession ==
    ASSUME SessionsTyped, NEW w \in Wallets, Approve(w)
    PROVE  /\ controller' \in Seq(Wallets) /\ Approved' = Approved + 1 /\ Approved \in Nat
           /\ Approved' <= MaxSessions
           /\ controller'[Approved'] = w /\ \A s \in 1..Approved : controller'[s] = controller[s]
           /\ stored' \subseteq 1..Approved'
<1>1. Approved \in Nat /\ Approved < MaxSessions /\ controller' = Append(controller, w)
    BY DEF SessionsTyped, Approved, Approve
<1>2. /\ controller' \in Seq(Wallets) /\ Approved' = Approved + 1
      /\ controller'[Approved'] = w /\ \A s \in 1..Approved : controller'[s] = controller[s]
    BY <1>1 DEF SessionsTyped, Approved
<1>3. stored' \subseteq stored \cup {Approved + 1}
    BY DEF Approve
<1>4. stored' \subseteq 1..Approved + 1
    BY <1>1, <1>3 DEF SessionsTyped
<1>5. Approved + 1 <= MaxSessions
    BY <1>1, BoundAssumption
<1> QED BY <1>1, <1>2, <1>4, <1>5

\* What a step does to the sessions: they stay or become fewer, or a wallet approves one.
SessionStep ==
    /\ \/ controller' = controller /\ stored' \subseteq stored
       \/ \E w \in Wallets : Approve(w)
    /\ session' \in 0..Approved' /\ account' \in Wallets \cup {NoWallet}
    /\ listeners' \subseteq 1..Approved'

LEMMA SessionsKeepTheirTypes ==
    ASSUME SessionsTyped, SessionStep
    PROVE  SessionsTyped' /\ Approved' \in Nat /\ Approved <= Approved'
<1>1. CASE controller' = controller /\ stored' \subseteq stored
    BY <1>1 DEF SessionsTyped, SessionStep, Approved
<1>2. CASE \E w \in Wallets : Approve(w)
    BY <1>2, ApprovedSession DEF SessionsTyped, SessionStep
<1> QED BY <1>1, <1>2 DEF SessionStep

LEMMA FewerSessions ==
    ASSUME SessionsTyped, controller' = controller, stored' \subseteq stored,
           session' \in {0, session} \cup stored, account' \in {NoWallet, account},
           listeners' \in {{}, listeners}
    PROVE  SessionStep
<1>1. Approved' = Approved /\ Approved \in Nat
    BY DEF Approved, SessionsTyped
<1>2. session' \in 0..Approved
    BY <1>1 DEF SessionsTyped
<1> QED BY <1>1, <1>2 DEF SessionsTyped, SessionStep

LEMMA NextSession ==
    ASSUME Typed, Next
    PROVE  SessionStep
<1>0. SessionsTyped /\ TasksTyped /\ Approved \in Nat
    BY DEF Typed, SessionsTyped, Approved
<1>1. \A s \in 1..Approved : controller[s] \in Wallets
    BY <1>0 DEF SessionsTyped, Approved
<1>2. controller' = controller => Approved' = Approved
    BY DEF Approved
<1> USE <1>0, <1>1, <1>2 DEF SessionStep, SessionsTyped
<1>3. CASE UNCHANGED view
    BY <1>3 DEF view
<1>4. CASE Send
    BY <1>4 DEF Send, RequestPermissions, Call, NoRoute, SetDefault, HasSession
<1>5. CASE Connect \/ Pair \/ Disconnect \/ Elected \/ StorageReset \/ StorageInit \/ Pong \/ PingAgain
    BY <1>5 DEF Connect, StartConnecting, Pair, Disconnect, Elected, StorageReset, StorageInit, Pong, PingAgain,
                view, ClearState
<1>6. ASSUME NEW s \in Sessions, SessionEnds(s) \/ SessionUpdated(s) PROVE SessionStep
    BY <1>6 DEF SessionEnds, SessionUpdated, Follow
<1>7. ASSUME NEW t \in tasks, \/ CallClient(t) \/ SendCall(t) \/ CallAnswered(t) \/ OpenSession(t)
                              \/ Permit(t) \/ NoClient(t) \/ Propose(t) \/ ProposalRefused(t)
      PROVE  SessionStep
    BY <1>7 DEF CallClient, SendCall, CallAnswered, OpenSession, Permit, NoClient, Propose,
                ProposalRefused, view
<1>8. ASSUME NEW t \in tasks, SessionNotOpened(t) PROVE SessionStep
    BY <1>8 DEF SessionNotOpened, SetDefault, HasSession
<1>12. ASSUME NEW t \in tasks, Restored(t) PROVE SessionStep
    <2>1. t.s \in 1..Approved /\ UNCHANGED <<controller, stored, listeners>>
          /\ session' = t.s /\ account' = controller[t.s]
        BY <1>12 DEF Restored
    <2>2. session' \in 0..Approved' /\ account' \in Wallets
        BY <2>1
    <2> QED BY <2>1, <2>2
<1>9. ASSUME NEW t \in tasks, \/ Restore(t) \/ Stale(t) \/ Leave(t) \/ CloseSessions(t)
                              \/ Shut(t) \/ SessionEnded(t)
      PROVE  SessionStep
    BY <1>9, FewerSessions DEF Restore, Stale, Leave, CloseSessions, Shut, SessionEnded, ClearState
<1>10. ASSUME NEW t \in tasks, AddPeer(t) \/ Connected(t) PROVE SessionStep
    <2>1. t \in Tasks /\ t.s <= Approved /\ (t.op = "peer" => t.pc = "add" /\ t.s # 0)
        BY DEF TasksTyped
    <2>2. t.s \in Nat
        BY <2>1 DEF Tasks
    <2>3. CASE AddPeer(t)
        <3>1. t.op = "peer" /\ listeners' = listeners \cup {t.s}
              /\ UNCHANGED <<controller, stored, session, account>>
            BY <2>3 DEF AddPeer, At
        <3>2. t.s \in 1..Approved
            BY <2>1, <2>2, <3>1
        <3>3. listeners' \subseteq 1..Approved /\ Approved' = Approved
            BY <3>1, <3>2
        <3> QED BY <3>1, <3>3
    <2>4. CASE Connected(t)
        BY <2>4 DEF Connected, HasSession
    <2> QED BY <1>10, <2>3, <2>4
<1>11. ASSUME NEW t \in tasks, SessionOpened(t) \/ ProposalApproved(t) PROVE SessionStep
    <2>1. PICK w \in Wallets : /\ Approve(w)
                               /\ \/ Adopt(w) /\ (account' = account \/ account' = controller'[session'])
                                  \/ ClearState
        BY <1>11 DEF SessionOpened, ProposalApproved, Reject
    <2>2. listeners' = listeners
        BY <1>11 DEF SessionOpened, ProposalApproved
    <2>3. CASE ClearState
        BY <2>1, <2>2, <2>3, ApprovedSession DEF ClearState
    <2>4. CASE Adopt(w)
        <3>1. session' \in {session, Approved + 1} /\ (session' = 0 => session = 0 /\ Owner(session) = w)
            BY <2>4 DEF Adopt
        <3>2. session' # 0
            BY <3>1, NameAssumption DEF Owner
        <3>3. session' \in 1..Approved' /\ controller' \in Seq(Wallets)
            BY <2>1, <3>1, <3>2, ApprovedSession
        <3>4. controller'[session'] \in Wallets
            BY <3>3 DEF Approved
        <3> QED BY <2>1, <2>2, <3>3, <3>4, ApprovedSession DEF ClearState
    <2> QED BY <2>1, <2>3, <2>4
<1> QED
    BY <1>4, <1>5, <1>6, <1>7, <1>8, <1>9, <1>10, <1>11, <1>12, Zenon DEF Next, Continue

-----------------------------------------------------------------------------
(* Tasks.                                                                  *)

\* A task is typed after a step.
Fits(t) ==
    /\ t \in Tasks
    /\ t.s <= Approved' /\ t.cl <= counts'["client"]
    /\ t.op = "peer" => t.pc = "add" /\ t.s # 0

Moves == ClientsTyped /\ SessionsTyped /\ ClientStep /\ SessionStep

LEMMA Bounds ==
    ASSUME Moves
    PROVE  /\ Approved \in Nat /\ Approved' \in Nat /\ Approved <= Approved' /\ Approved' <= MaxSessions
           /\ counts["client"] \in Nat /\ counts'["client"] \in Nat
           /\ counts["client"] <= counts'["client"] /\ counts'["client"] <= MaxClients
           /\ session \in 0..Approved' /\ session' \in 0..Approved'
           /\ client \in 0..counts'["client"]
<1>1. Approved \in Nat
    BY DEF Moves, SessionsTyped, Approved
<1>2. Approved' \in Nat /\ Approved <= Approved' /\ SessionsTyped'
    BY SessionsKeepTheirTypes DEF Moves
<1>3. /\ counts["client"] \in Nat /\ counts'["client"] \in Nat
      /\ counts["client"] <= counts'["client"] /\ counts'["client"] <= MaxClients
    BY DEF Moves, ClientsTyped, ClientStep, Counted
<1>4. session \in 0..Approved' /\ session' \in 0..Approved'
    BY <1>1, <1>2 DEF Moves, SessionsTyped, SessionStep
<1>5. client \in 0..counts'["client"]
    BY <1>3 DEF Moves, ClientsTyped
<1> QED BY <1>1, <1>2, <1>3, <1>4, <1>5 DEF SessionsTyped

LEMMA NewFits ==
    ASSUME Moves, NEW op \in Ops, NEW pc \in Steps, NEW id \in Requests \cup {NoRequest},
           NEW s \in 0..Approved', NEW cl \in 0..counts'["client"],
           op = "peer" => pc = "add" /\ s # 0
    PROVE  Fits([op |-> op, pc |-> pc, id |-> id, s |-> s, cl |-> cl])
<1>1. s \in 0..MaxSessions /\ cl \in 0..MaxClients /\ s <= Approved' /\ cl <= counts'["client"]
    BY Bounds, BoundAssumption
<1> QED BY <1>1 DEF Fits, Tasks

LEMMA FittingClient ==
    ASSUME Moves, NEW t, Fits(t)
    PROVE  t.cl \in 0..counts'["client"]
<1>1. t.cl \in 0..MaxClients /\ t.cl <= counts'["client"]
    BY DEF Fits, Tasks
<1> QED BY <1>1, Bounds, BoundAssumption

LEMMA FreshFits ==
    ASSUME Moves, NEW op \in Ops \ {"peer"}, NEW pc \in Steps, NEW id \in Requests \cup {NoRequest}
    PROVE  Fits(Task(op, pc, id)) /\ Task(op, pc, id).op = op
BY Bounds, NewFits DEF Task

LEMMA OldFits ==
    ASSUME Moves, TasksTyped, NEW t \in tasks
    PROVE  Fits(t)
<1>1. t \in Tasks /\ t.s <= Approved /\ t.cl <= counts["client"]
      /\ (t.op = "peer" => t.pc = "add" /\ t.s # 0)
    BY DEF TasksTyped
<1>2. t.s \in Nat /\ t.cl \in Nat
    BY <1>1 DEF Tasks
<1> QED BY <1>1, <1>2, Bounds DEF Fits

\* A task goes on, for a session or with a client.
LEMMA MovedFits ==
    ASSUME Moves, NEW t, Fits(t), t.op # "peer", NEW pc \in Steps,
           NEW s \in 0..Approved', NEW cl \in 0..counts'["client"]
    PROVE  /\ Fits([t EXCEPT !.pc = pc]) /\ Fits([t EXCEPT !.pc = pc, !.cl = cl])
           /\ Fits([t EXCEPT !.pc = pc, !.s = s]) /\ Fits([t EXCEPT !.pc = pc, !.s = s, !.cl = cl])
           /\ Fits([t EXCEPT !.s = s]) /\ Fits([t EXCEPT !.op = "proposal", !.pc = pc])
<1>1. /\ t \in Tasks /\ t.s <= Approved' /\ t.cl <= counts'["client"]
      /\ s \in 0..MaxSessions /\ s <= Approved' /\ cl \in 0..MaxClients /\ cl <= counts'["client"]
    BY Bounds, BoundAssumption DEF Fits
<1>2. "proposal" \in Ops
    BY DEF Ops
<1>3. Fits([t EXCEPT !.pc = pc]) /\ Fits([t EXCEPT !.pc = pc, !.cl = cl])
    BY <1>1 DEF Fits, Tasks
<1>4. Fits([t EXCEPT !.pc = pc, !.s = s]) /\ Fits([t EXCEPT !.pc = pc, !.s = s, !.cl = cl])
    BY <1>1 DEF Fits, Tasks
<1>5. Fits([t EXCEPT !.s = s]) /\ Fits([t EXCEPT !.op = "proposal", !.pc = pc])
    BY <1>1, <1>2 DEF Fits, Tasks
<1> QED BY <1>3, <1>4, <1>5

LEMMA WaitingFits ==
    ASSUME Moves, NEW op \in Ops \ {"peer"}, NEW id \in Requests \cup {NoRequest}
    PROVE  Fits(AwaitClient(Task(op, "client", id)))
<1>1. Fits(Task(op, "client", id)) /\ Task(op, "client", id).op # "peer" /\ "client" \in Steps
    BY FreshFits DEF Steps
<1>2. 0 \in 0..Approved'
    BY Bounds
<1> QED BY <1>1, <1>2, Bounds, MovedFits DEF AwaitClient

LEMMA NextTasks ==
    ASSUME Typed, Next, ClientStep, SessionStep
    PROVE  \A u \in tasks' : u \in tasks \/ Fits(u)
<1>0. Moves /\ TasksTyped
    BY DEF Typed, Moves
<1>1. \A t \in tasks : Fits(t)
    BY <1>0, OldFits
<1>2. NoRequest \in Requests \cup {NoRequest} /\ Steps # {} /\ 0 \in 0..Approved' /\ 0 \in 0..counts'["client"]
    BY <1>0, Bounds DEF Steps
<1>3. CASE Send
    <2>1. PICK r : r = counts'["request"] /\ (RequestPermissions(r) \/ Call(r) \/ NoRoute(r))
        BY <1>3 DEF Send
    <2>2. r \in Requests
        BY <1>0, <1>3, <2>1, BoundAssumption DEF Send, Count, Moves, ClientsTyped, Requests, Counted
    <2>3. Fits(AwaitClient(Task("permission", "client", r))) /\ Fits(AwaitClient(Task("call", "client", r)))
        BY <1>0, <2>2, WaitingFits DEF Ops
    <2>4. Fits([Task("permission", "accounts", r) EXCEPT !.s = session])
        <3>1. Fits(Task("permission", "accounts", r)) /\ Task("permission", "accounts", r).op # "peer"
            BY <1>0, <2>2, FreshFits DEF Ops, Steps
        <3> QED BY <1>0, <1>2, <3>1, Bounds, MovedFits
    <2> QED BY <2>1, <2>3, <2>4 DEF RequestPermissions, Call, NoRoute
<1>4. CASE Connect \/ Pair \/ Disconnect \/ StorageInit
    <2>1. \A op \in {"connect", "pair", "refresh"} : Fits(AwaitClient(Task(op, "client", NoRequest)))
        BY <1>0, WaitingFits DEF Ops
    <2>2. \A op \in {"connect", "pair", "close", "refresh"} : \A pc \in Steps : Fits(Task(op, pc, NoRequest))
        BY <1>0, FreshFits DEF Ops
    <2>3. "peers" \in Steps /\ "closing" \in Steps /\ "shutting" \in Steps /\ "client" \in Steps
        BY DEF Steps
    <2>4. CASE Connect
        BY <2>1, <2>2, <2>3, <2>4 DEF Connect, StartConnecting
    <2>5. CASE Pair
        BY <2>1, <2>2, <2>3, <2>5 DEF Pair
    <2>6. CASE Disconnect
        BY <2>1, <2>2, <2>3, <2>6 DEF Disconnect
    <2>7. CASE StorageInit
        <3>1. tasks' = tasks \cup {Task("refresh", "client", NoRequest)}
            BY <2>7 DEF StorageInit
        <3> QED BY <2>2, <2>3, <3>1
    <2> QED BY <1>4, <2>4, <2>5, <2>6, <2>7
<1>5. CASE Pong \/ PingAgain \/ StorageReset
    BY <1>5 DEF Pong, PingAgain, StorageReset, queue
<1>14. CASE Elected
    <2>1. Fits(AwaitClient(Task("connect", "client", NoRequest)))
        BY <1>0, WaitingFits DEF Ops
    <2> QED BY <1>14, <2>1 DEF Elected, StartConnecting
<1>6. ASSUME NEW s \in Sessions, SessionEnds(s) \/ SessionUpdated(s)
      PROVE  \A u \in tasks' : u \in tasks \/ Fits(u)
    <2>1. Fits(Task("delete", "unpair", NoRequest)) /\ Task("delete", "unpair", NoRequest).op # "peer"
        BY <1>0, FreshFits DEF Ops, Steps
    <2>2. session = s => Fits([Task("delete", "unpair", NoRequest) EXCEPT !.s = s])
        BY <1>0, <1>2, <2>1, Bounds, MovedFits
    <2> QED BY <1>6, <2>2 DEF SessionEnds, SessionUpdated
<1>7. ASSUME NEW t \in tasks, \/ CallAnswered(t) \/ Permit(t) \/ NoClient(t) \/ ProposalRefused(t) \/ Leave(t)
                              \/ AddPeer(t) \/ Connected(t) \/ SessionEnded(t)
      PROVE  \A u \in tasks' : u \in tasks \/ Fits(u)
    <2>1. CASE ProposalRefused(t)
        <3>1. Fits(t) /\ t.op # "peer"
            BY <1>1, <2>1 DEF ProposalRefused, At
        <3>2. Fits([t EXCEPT !.pc = "leaving", !.s = 0, !.cl = 0])
            BY <1>0, <1>2, <3>1, MovedFits DEF Steps
        <3> QED BY <2>1, <3>2 DEF ProposalRefused, Become, Settled
    <2> QED BY <1>7, <2>1 DEF CallAnswered, Permit, NoClient, Leave, AddPeer, Connected, SessionEnded, Finish, Become
<1>8. ASSUME NEW t \in tasks, CallClient(t) \/ SendCall(t) \/ OpenSession(t)
      PROVE  \A u \in tasks' : u \in tasks \/ Fits(u)
    <2>1. Fits(t) /\ t.op # "peer" /\ t.cl \in 0..counts'["client"]
        BY <1>0, <1>1, <1>8, FittingClient DEF CallClient, SendCall, OpenSession, At
    <2>2. ASSUME NEW c \in 1..MaxClients, Obtain(t, c) PROVE c \in 0..counts'["client"]
        <3>1. c = t.cl \/ c = counts'["client"]
            BY <1>0, <2>2, ObtainedStep DEF Moves
        <3> QED BY <1>0, <2>1, <3>1, Bounds
    <2>3. CASE CallClient(t)
        <3>1. PICK c \in 1..MaxClients :
                 Obtain(t, c) /\ (Finish(t) \/ Become(t, {[t EXCEPT !.pc = "extend", !.s = session, !.cl = c]}))
            BY <2>3 DEF CallClient
        <3>2. Fits([t EXCEPT !.pc = "extend", !.s = session, !.cl = c])
            BY <1>0, <2>1, <2>2, <3>1, Bounds, MovedFits DEF Steps
        <3> QED BY <3>1, <3>2 DEF Finish, Become
    <2>4. CASE SendCall(t)
        <3>1. Fits([t EXCEPT !.pc = "sent"])
            BY <1>0, <1>2, <2>1, MovedFits DEF Steps
        <3> QED BY <2>4, <3>1 DEF SendCall, Finish, Become
    <2>5. CASE OpenSession(t)
        <3>1. PICK c \in 1..MaxClients : Obtain(t, c) /\ Become(t, {[t EXCEPT !.pc = "approval", !.cl = c]})
            BY <2>5 DEF OpenSession
        <3>2. Fits([t EXCEPT !.pc = "approval", !.cl = c])
            BY <1>0, <1>2, <2>1, <2>2, <3>1, MovedFits DEF Steps
        <3> QED BY <3>1, <3>2 DEF Become
    <2> QED BY <1>8, <2>3, <2>4, <2>5
<1>9. ASSUME NEW t \in tasks, SessionOpened(t) \/ SessionNotOpened(t)
      PROVE  \A u \in tasks' : u \in tasks \/ Fits(u)
    <2>1. Fits(t) /\ t.op # "peer"
        BY <1>1, <1>9 DEF SessionOpened, SessionNotOpened, At
    <2>2. Fits([t EXCEPT !.pc = "accounts", !.s = session]) /\ Fits([t EXCEPT !.pc = "accounts", !.s = session'])
        BY <1>0, <1>2, <2>1, Bounds, MovedFits DEF Steps
    <2> QED BY <1>9, <2>2 DEF SessionOpened, SessionNotOpened, Finish, Become
<1>10. ASSUME NEW t \in tasks, Restore(t) PROVE \A u \in tasks' : u \in tasks \/ Fits(u)
    <2>1. Fits(t) /\ t.op # "peer" /\ t.cl \in 0..counts'["client"]
        BY <1>0, <1>1, <1>10, FittingClient DEF Restore, At
    <2>2. PICK c \in 1..MaxClients :
             /\ Obtain(t, c)
             /\ \/ \E s \in Newest : Become(t, {[t EXCEPT !.pc = "validate", !.s = s, !.cl = c]})
                \/ Finish(t)
                \/ Become(t, {[t EXCEPT !.pc = "propose", !.cl = c]})
        BY <1>10 DEF Restore
    <2>3. c \in 0..counts'["client"]
        <3>1. c = t.cl \/ c = counts'["client"]
            BY <1>0, <2>2, ObtainedStep DEF Moves
        <3> QED BY <1>0, <2>1, <3>1, Bounds
    <2>4. Newest \subseteq 0..Approved'
        <3>1. stored \subseteq 1..Approved
            BY <1>0 DEF Moves, SessionsTyped
        <3>2. 1..Approved \subseteq 0..Approved'
            BY <1>0, Bounds
        <3> QED BY <3>1, <3>2 DEF Newest
    <2>5. ASSUME NEW s \in Newest PROVE Fits([t EXCEPT !.pc = "validate", !.s = s, !.cl = c])
        BY <1>0, <2>1, <2>3, <2>4, MovedFits DEF Steps
    <2>6. Fits([t EXCEPT !.pc = "propose", !.cl = c])
        BY <1>0, <1>2, <2>1, <2>3, MovedFits DEF Steps
    <2> QED BY <2>2, <2>5, <2>6 DEF Finish, Become
<1>11. ASSUME NEW t \in tasks, Restored(t) \/ Stale(t) \/ Propose(t)
       PROVE  \A u \in tasks' : u \in tasks \/ Fits(u)
    <2>1. Fits(t) /\ t.op # "peer"
        BY <1>1, <1>11 DEF Restored, Stale, Propose, Fits
    <2>2. /\ Fits([t EXCEPT !.pc = "peers", !.s = 0]) /\ Fits([t EXCEPT !.pc = "propose", !.s = 0])
          /\ Fits([t EXCEPT !.op = "proposal", !.pc = "approval"])
        BY <1>0, <1>2, <2>1, MovedFits DEF Steps
    <2> QED BY <1>11, <2>2 DEF Restored, Stale, Propose, Initialised, Finish, Become
<1>12. ASSUME NEW t \in tasks, ProposalApproved(t) PROVE \A u \in tasks' : u \in tasks \/ Fits(u)
    <2>1. Fits(t) /\ t.op # "peer"
        BY <1>1, <1>12 DEF ProposalApproved, At
    <2>2. Fits([t EXCEPT !.pc = "leaving", !.s = 0, !.cl = 0])
        BY <1>0, <1>2, <2>1, MovedFits DEF Steps
    <2>3. Fits([Task("peer", "add", NoRequest) EXCEPT !.s = Approved + 1])
        <3>1. [Task("peer", "add", NoRequest) EXCEPT !.s = Approved + 1]
              = [op |-> "peer", pc |-> "add", id |-> NoRequest, s |-> Approved + 1, cl |-> 0]
            BY DEF Task
        <3>2. Approved' = Approved + 1 /\ Approved \in Nat
            BY <1>0, <1>12, ApprovedSession DEF ProposalApproved, Moves
        <3>3. Approved + 1 \in 0..Approved' /\ Approved + 1 # 0
            BY <3>2
        <3>4. "peer" \in Ops /\ "add" \in Steps
            BY DEF Ops, Steps
        <3> QED BY <1>0, <1>2, <3>1, <3>3, <3>4, NewFits
    <2> QED BY <1>12, <2>2, <2>3 DEF ProposalApproved, Become, Settled
<1>13. ASSUME NEW t \in tasks, CloseSessions(t) \/ Shut(t) PROVE \A u \in tasks' : u \in tasks \/ Fits(u)
    <2>1. Fits(t) /\ t.op # "peer"
        BY <1>1, <1>13 DEF CloseSessions, Shut, Fits
    <2>2. Fits([t EXCEPT !.pc = "shutting"]) /\ Fits([t EXCEPT !.pc = "client", !.cl = 0])
        BY <1>0, <1>2, <2>1, MovedFits DEF Steps
    <2> QED BY <1>13, <2>2 DEF CloseSessions, Shut, Finish, Become
<1> QED
    BY <1>3, <1>4, <1>5, <1>6, <1>7, <1>8, <1>9, <1>10, <1>11, <1>12, <1>13, <1>14, Zenon DEF Next, Continue

LEMMA TasksKeepTheirTypes ==
    ASSUME Typed, Next, ClientStep, SessionStep
    PROVE  TasksTyped'
BY NextTasks, OldFits DEF Typed, Moves, Fits, TasksTyped

-----------------------------------------------------------------------------
(* The queue of message ids.                                               *)

\* A request is sent, and its id is put before the others.
Sent(r) ==
    /\ r = counts["request"] + 1 /\ r = counts'["request"]
    /\ messageIds' = <<r>> \o messageIds /\ strays' = strays
    /\ \/ open' = open \cup {r} /\ orderly' = orderly
       \/ open' = open /\ orderly' = FALSE

\* What a step does to the queue.
QueueStep ==
    \/ UNCHANGED <<messageIds, open, strays>> /\ (orderly' = orderly \/ CutOff)
    \/ Forget /\ strays' = strays
    \/ \E r \in Requests \cup {NoRequest} : Answer(r) \/ Abandon(r)
    \/ \E r \in Requests : Sent(r)

LEMMA NextQueue ==
    ASSUME Typed, Next
    PROVE  QueueStep
<1>0. \A t \in tasks : t.id \in Requests \cup {NoRequest}
    BY DEF Typed, TasksTyped, Tasks
<1>1. CASE UNCHANGED queue
    BY <1>1 DEF queue, QueueStep
<1>2. CASE Send
    <2>1. PICK r : r = counts'["request"] /\ (RequestPermissions(r) \/ Call(r) \/ NoRoute(r))
        BY <1>2 DEF Send
    <2>2. r = counts["request"] + 1 /\ r \in Requests
        BY <1>2, <2>1, BoundAssumption DEF Send, Count, Typed, ClientsTyped, Requests, Counted
    <2>3. CASE RequestPermissions(r)
        BY <2>1, <2>2, <2>3 DEF RequestPermissions, Sent, QueueStep
    <2>4. CASE Call(r)
        BY <2>1, <2>2, <2>4 DEF Call, Sent, QueueStep
    <2> QED BY <1>1, <2>1, <2>3, <2>4 DEF NoRoute
<1>3. CASE Connect \/ Pair \/ Disconnect \/ Pong \/ PingAgain \/ Elected
    BY <1>1, <1>3 DEF Connect, StartConnecting, Pair, Disconnect, Pong, PingAgain, Elected
<1>4. CASE StorageReset \/ StorageInit
    BY <1>4 DEF StorageReset, StorageInit, QueueStep
<1>5. ASSUME NEW s \in Sessions, SessionEnds(s) \/ SessionUpdated(s) PROVE QueueStep
    BY <1>1, <1>5 DEF SessionEnds, SessionUpdated
<1>6. ASSUME NEW t \in tasks, \/ CallClient(t) \/ SendCall(t) \/ CallAnswered(t) \/ SessionOpened(t)
                              \/ SessionNotOpened(t) \/ Permit(t) \/ NoClient(t)
      PROVE  QueueStep
    <2>1. \/ UNCHANGED queue \/ Answer(t.id) \/ Abandon(t.id)
        BY <1>6 DEF CallClient, SendCall, CallAnswered, SessionOpened, SessionNotOpened, Permit, NoClient, queue
    <2> QED BY <1>0, <1>1, <2>1 DEF QueueStep
<1>7. ASSUME NEW t \in tasks, \/ OpenSession(t) \/ Restore(t) \/ Restored(t) \/ Stale(t) \/ Propose(t)
                              \/ AddPeer(t) \/ Connected(t) \/ CloseSessions(t) \/ SessionEnded(t)
      PROVE  QueueStep
    BY <1>1, <1>7 DEF OpenSession, Restore, Restored, Stale, Propose, AddPeer, Connected, CloseSessions,
                      SessionEnded
<1>8. ASSUME NEW t \in tasks, ProposalApproved(t) \/ ProposalRefused(t) PROVE QueueStep
    <2>1. UNCHANGED queue \/ Answer(NoRequest)
        BY <1>8 DEF ProposalApproved, ProposalRefused, queue
    <2> QED BY <1>1, <2>1 DEF QueueStep
<1>9. ASSUME NEW t \in tasks, Leave(t) \/ Shut(t) PROVE QueueStep
    BY <1>9 DEF Leave, Shut, QueueStep
<1> QED
    BY <1>2, <1>3, <1>4, <1>5, <1>6, <1>7, <1>8, <1>9, Zenon DEF Next, Continue

\* An answer takes an id from the end, and leaves the others.
LEMMA PoppedIds ==
    ASSUME NEW S, messageIds \in Seq(S), messageIds # <<>>
    PROVE  /\ Len(messageIds) \in Nat \ {0} /\ Pop = messageIds[Len(messageIds)]
           /\ Popped \in Seq(S) /\ Len(Popped) = Len(messageIds) - 1
           /\ \A i \in 1..Len(messageIds) - 1 : Popped[i] = messageIds[i]
<1>1. Len(messageIds) \in Nat \ {0}
    OBVIOUS
<1>2. Pop = messageIds[Len(messageIds)]
    BY DEF Pop, Last
<1>3. Popped = SubSeq(messageIds, 1, Len(messageIds) - 1)
    BY DEF Popped, Front
<1>4. Popped \in Seq(S) /\ Len(Popped) = Len(messageIds) - 1
      /\ \A i \in 1..Len(messageIds) - 1 : Popped[i] = messageIds[i]
    <2>1. PICK n \in Nat : n = Len(messageIds) - 1
        BY <1>1
    <2>2. 1 \in 1..Len(messageIds) + 1 /\ n \in 0..Len(messageIds) /\ n = Len(SubSeq(messageIds, 1, n))
          /\ SubSeq(messageIds, 1, n) \in Seq(S)
          /\ \A i \in 1..n : SubSeq(messageIds, 1, n)[i] = messageIds[i]
        BY <1>1, <2>1
    <2> QED BY <1>3, <2>1, <2>2
<1> QED BY <1>1, <1>2, <1>4

LEMMA SentIds ==
    ASSUME QueueTyped, NEW r \in Requests, messageIds' = <<r>> \o messageIds
    PROVE  /\ messageIds' \in Seq(Requests) /\ Len(messageIds) \in Nat
           /\ Len(messageIds') = Len(messageIds) + 1 /\ messageIds'[1] = r
           /\ \A i \in 2..Len(messageIds) + 1 : i - 1 \in 1..Len(messageIds) /\ messageIds'[i] = messageIds[i - 1]
<1>1. messageIds \in Seq(Requests) /\ <<r>> \in Seq(Requests) /\ Len(<<r>>) = 1
    BY DEF QueueTyped
<1>2. messageIds' \in Seq(Requests) /\ Len(messageIds') = Len(messageIds) + 1 /\ messageIds'[1] = r
    BY <1>1
<1>3. ASSUME NEW i \in 2..Len(messageIds) + 1
      PROVE  i - 1 \in 1..Len(messageIds) /\ messageIds'[i] = messageIds[i - 1]
    BY <1>1
<1> QED BY <1>1, <1>2, <1>3

LEMMA IdsAreNumbers ==
    ASSUME QueueTyped
    PROVE  \A i \in 1..Len(messageIds) : messageIds[i] \in Nat /\ messageIds[i] <= counts["request"]
<1>1. \A r \in Requests : r \in Nat
    BY BoundAssumption DEF Requests
<1>2. \A i \in 1..Len(messageIds) : messageIds[i] \in Requests
    BY DEF QueueTyped
<1> QED BY <1>1, <1>2 DEF QueueTyped

LEMMA QueueKeepsItsTypes ==
    ASSUME Typed, ClientStep, QueueStep
    PROVE  QueueTyped'
<1>0. /\ QueueTyped /\ counts["request"] \in Nat /\ counts'["request"] \in Nat
      /\ counts["request"] <= counts'["request"]
    BY DEF Typed, ClientsTyped, ClientStep, Counted
<1>1. \A i \in 1..Len(messageIds) : messageIds[i] \in Nat /\ messageIds[i] <= counts'["request"]
    <2>1. \A i \in 1..Len(messageIds) : messageIds[i] \in Nat /\ messageIds[i] <= counts["request"]
        BY <1>0, IdsAreNumbers
    <2> QED BY <1>0, <2>1
<1>2. ASSUME messageIds' = messageIds, open' \subseteq open PROVE QueueTyped'
    BY <1>0, <1>1, <1>2 DEF QueueTyped
<1>3. CASE UNCHANGED <<messageIds, open, strays>>
    BY <1>2, <1>3
<1>4. CASE Forget
    BY <1>4 DEF Forget, QueueTyped
<1>5. ASSUME NEW r, Abandon(r) PROVE QueueTyped'
    BY <1>2, <1>5 DEF Abandon
<1>6. ASSUME NEW r, Answer(r) PROVE QueueTyped'
    <2>1. messageIds' = Popped /\ open' \subseteq open
        BY <1>6 DEF Answer
    <2>2. CASE messageIds = <<>>
        BY <1>2, <2>1, <2>2 DEF Popped
    <2>3. CASE messageIds # <<>>
        <3>1. /\ messageIds' \in Seq(Requests) /\ Len(messageIds') = Len(messageIds) - 1
              /\ Len(messageIds) \in Nat
              /\ \A i \in 1..Len(messageIds') : i \in 1..Len(messageIds) /\ messageIds'[i] = messageIds[i]
            BY <1>0, <2>1, <2>3, PoppedIds DEF QueueTyped
        <3> QED BY <1>0, <1>1, <2>1, <3>1 DEF QueueTyped
    <2> QED BY <2>2, <2>3
<1>7. ASSUME NEW r \in Requests, Sent(r) PROVE QueueTyped'
    <2>1. messageIds' = <<r>> \o messageIds /\ r = counts'["request"] /\ open' \subseteq open \cup {r}
        BY <1>7 DEF Sent
    <2>2. \A i \in 1..Len(messageIds') : i = 1 \/ i \in 2..Len(messageIds) + 1
        BY <1>0, <2>1, SentIds
    <2>3. \A i \in 1..Len(messageIds') : messageIds'[i] <= counts'["request"]
        BY <1>0, <1>1, <2>1, <2>2, SentIds
    <2> QED BY <1>0, <2>1, <2>3, SentIds DEF QueueTyped
<1> QED BY <1>3, <1>4, <1>5, <1>6, <1>7 DEF QueueStep

\* An answer in order leaves the queue in order and goes to its request.
LEMMA AnswerInOrder ==
    ASSUME QueueTyped, InOrder, NEW r \in Requests, Answer(r), orderly'
    PROVE  InOrder'
<1>1. r \in open /\ (\A x \in open : r <= x) /\ open' = open \ {r} /\ messageIds' = Popped
    <2>1. r # NoRequest
        BY BoundAssumption DEF Requests, NoRequest
    <2> QED BY <2>1 DEF Answer
<1>2. open = {messageIds[i] : i \in 1..Len(messageIds)} /\ messageIds \in Seq(Requests)
    BY DEF InOrder, QueueTyped
<1>3. PICK n \in Nat : n = Len(messageIds)
    BY <1>2
<1>4. PICK k \in 1..n : r = messageIds[k]
    BY <1>1, <1>2, <1>3
<1>5. messageIds # <<>> /\ n \in 1..n
    BY <1>3, <1>4
<1>6. /\ Pop = messageIds[n] /\ Len(Popped) = n - 1
      /\ \A i \in 1..n - 1 : Popped[i] = messageIds[i]
    BY <1>2, <1>3, <1>5, PoppedIds
<1>7. \A i \in 1..n : messageIds[i] \in Nat
    BY <1>3, IdsAreNumbers
<1>8. messageIds[n] = r
    <2>1. r <= messageIds[n]
        BY <1>1, <1>2, <1>3, <1>5
    <2>2. k < n => messageIds[n] < messageIds[k]
        BY <1>3, <1>5 DEF InOrder
    <2>3. k = n
        BY <1>4, <1>5, <1>7, <2>1, <2>2
    <2> QED BY <1>4, <2>3
<1>9. strays' = {}
    BY <1>6, <1>8 DEF Answer, InOrder
<1>10. \A i, j \in 1..n - 1 : i < j => messageIds'[j] < messageIds'[i]
    BY <1>1, <1>3, <1>6 DEF InOrder
<1>11. open' = {messageIds'[i] : i \in 1..n - 1}
    <2>1. \A i \in 1..n - 1 : i \in 1..n /\ i < n /\ messageIds'[i] = messageIds[i]
        BY <1>1, <1>6
    <2>2. \A i \in 1..n - 1 : messageIds[i] # r
        BY <1>3, <1>5, <1>7, <1>8, <2>1 DEF InOrder
    <2>3. \A i \in 1..n : messageIds[i] # r => i \in 1..n - 1
        BY <1>8
    <2> QED BY <1>1, <1>2, <1>3, <2>1, <2>2, <2>3
<1> QED BY <1>1, <1>6, <1>9, <1>10, <1>11 DEF InOrder

\* An answer to no request finds no id, and changes nothing.
LEMMA AnswerToNone ==
    ASSUME QueueTyped, InOrder, Answer(NoRequest), orderly'
    PROVE  InOrder'
<1>1. messageIds = <<>>
    BY DEF Answer
<1>2. open = {}
    BY <1>1 DEF InOrder
<1> QED BY <1>1, <1>2 DEF InOrder, Answer, Pop, Popped, NoRequest

\* The newest id comes first.
LEMMA SentInOrder ==
    ASSUME Typed, InOrder, NEW r \in Requests, Sent(r), orderly'
    PROVE  InOrder'
<1>1. messageIds' = <<r>> \o messageIds /\ strays' = strays /\ open' = open \cup {r}
    BY DEF Sent
<1>2. PICK n \in Nat : n = Len(messageIds)
    BY DEF Typed, QueueTyped
<1>3. /\ Len(messageIds') = n + 1 /\ messageIds'[1] = r
      /\ \A i \in 2..n + 1 : i - 1 \in 1..n /\ messageIds'[i] = messageIds[i - 1]
    BY <1>1, <1>2, SentIds DEF Typed
<1>4. \A i \in 1..n : messageIds[i] \in Nat /\ messageIds[i] < r
    <2>1. counts["request"] \in Nat /\ r = counts["request"] + 1
        BY DEF Typed, ClientsTyped, Counted, Sent
    <2>2. \A i \in 1..n : messageIds[i] \in Nat /\ messageIds[i] <= counts["request"]
        BY <1>2, IdsAreNumbers DEF Typed
    <2> QED BY <2>1, <2>2
<1>5. ASSUME NEW i \in 1..n + 1, NEW j \in 1..n + 1, i < j PROVE messageIds'[j] < messageIds'[i]
    <2>1. j \in 2..n + 1 /\ (i = 1 \/ i \in 2..n + 1)
        BY <1>5
    <2>2. CASE i = 1
        BY <1>3, <1>4, <2>1, <2>2
    <2>3. CASE i \in 2..n + 1
        <3>1. i - 1 \in 1..n /\ j - 1 \in 1..n /\ i - 1 < j - 1
            BY <1>5, <2>1, <2>3
        <3> QED BY <1>2, <1>3, <2>1, <2>3, <3>1 DEF InOrder
    <2> QED BY <2>1, <2>2, <2>3
<1>6. open' = {messageIds'[i] : i \in 1..n + 1}
    <2>1. open = {messageIds[i] : i \in 1..n}
        BY <1>2 DEF InOrder
    <2>2. \A i \in 1..n : i + 1 \in 1..n + 1 /\ messageIds'[i + 1] = messageIds[i]
        BY <1>3
    <2>3. \A i \in 1..n + 1 : i = 1 \/ i \in 2..n + 1
        OBVIOUS
    <2>4. 1 \in 1..n + 1
        OBVIOUS
    <2>5. open' \subseteq {messageIds'[i] : i \in 1..n + 1}
        <3>1. r \in {messageIds'[i] : i \in 1..n + 1}
            BY <1>3, <2>4
        <3>2. open \subseteq {messageIds'[i] : i \in 1..n + 1}
            BY <2>1, <2>2
        <3> QED BY <1>1, <3>1, <3>2
    <2>6. \A i \in 2..n + 1 : messageIds'[i] \in open
        BY <1>3, <2>1
    <2>7. \A i \in 1..n + 1 : messageIds'[i] \in open'
        BY <1>1, <1>3, <2>3, <2>6
    <2> QED BY <2>5, <2>7
<1> QED BY <1>1, <1>3, <1>5, <1>6 DEF InOrder

LEMMA OrderIsKept ==
    ASSUME Typed, OrderInv, QueueStep
    PROVE  OrderInv'
<1> SUFFICES ASSUME orderly' PROVE InOrder'
    BY DEF OrderInv
<1>0. QueueTyped
    BY DEF Typed
<1>1. CASE UNCHANGED <<messageIds, open, strays>> /\ (orderly' = orderly \/ CutOff)
    BY <1>1 DEF OrderInv, InOrder, CutOff
<1>2. CASE Forget /\ strays' = strays
    <2>1. orderly /\ messageIds' = <<>> /\ open' = {} /\ strays' = strays
        BY <1>2 DEF CutOff, Forget
    <2>2. Len(messageIds') = 0
        BY <2>1
    <2> QED BY <2>1, <2>2 DEF OrderInv, InOrder
<1>3. ASSUME NEW r \in Requests \cup {NoRequest}, Answer(r) PROVE InOrder'
    <2>1. orderly
        BY <1>3 DEF Answer
    <2> QED BY <1>0, <1>3, <2>1, AnswerInOrder, AnswerToNone DEF OrderInv
<1>4. ASSUME NEW r, Abandon(r) PROVE FALSE
    BY <1>4 DEF Abandon
<1>5. ASSUME NEW r \in Requests, Sent(r) PROVE InOrder'
    <2>1. orderly
        BY <1>5 DEF Sent
    <2> QED BY <1>5, <2>1, SentInOrder DEF OrderInv
<1> QED BY <1>1, <1>2, <1>3, <1>4, <1>5 DEF QueueStep

-----------------------------------------------------------------------------
(* Where no calls overlap.                                                 *)

\* A proposal is in its list of tasks after a step only if it was there, live,
\* or is the one that this step makes.
LEMMA ProposedBefore ==
    ASSUME Typed, Next, ClientStep, NEW u \in Proposed', u \in tasks
    PROVE  u \in Proposed
<1>1. u.op = "proposal" /\ u.pc = "approval" /\ u.cl \in live'
    BY DEF Proposed, At
<1>2. u.cl \in Nat /\ u.cl <= counts["client"] /\ counts["client"] \in Nat
    BY BoundAssumption DEF Typed, TasksTyped, Tasks, ClientsTyped, Counted
<1>3. u.cl \in live
    BY <1>1, <1>2 DEF ClientStep, KeepClients, NewClient, clients
<1> QED BY <1>1, <1>3 DEF Proposed, At

\* Only init proposes: the new task is at approval in no other step.
LEMMA NewlyProposed ==
    ASSUME Typed, Next, NEW u \in tasks', u \notin tasks, u.op = "proposal", u.pc = "approval"
    PROVE  \E t \in tasks : Propose(t) /\ u = [t EXCEPT !.op = "proposal", !.pc = "approval"]
                            /\ Become(t, {u} \cup Initialised(t))
<1>0. \A t \in tasks : t \in Tasks
    BY DEF Typed, TasksTyped
<1>1. CASE Send
    BY <1>1 DEF Send, RequestPermissions, Call, NoRoute, AwaitClient, Task
<1>2. CASE Connect \/ Pair \/ Disconnect \/ StorageInit
    <2>1. \A op, pc, id : Task(op, pc, id).op = op /\ AwaitClient(Task(op, pc, id)).op = op
        BY DEF Task, AwaitClient
    <2>2. u.op \in {"connect", "pair", "close", "refresh"}
        BY <1>2, <2>1 DEF Connect, StartConnecting, Pair, Disconnect, StorageInit
    <2> QED BY <2>2
<1>3. CASE Pong \/ PingAgain \/ StorageReset
    BY <1>3 DEF Pong, PingAgain, StorageReset, queue
<1>10. CASE Elected
    <2>1. AwaitClient(Task("connect", "client", NoRequest)).op = "connect"
        BY DEF Task, AwaitClient
    <2> QED BY <1>10, <2>1 DEF Elected, StartConnecting
<1>4. ASSUME NEW s \in Sessions, SessionEnds(s) \/ SessionUpdated(s) PROVE FALSE
    BY <1>4 DEF SessionEnds, SessionUpdated, Task
<1>5. ASSUME NEW t \in tasks, \/ CallAnswered(t) \/ Permit(t) \/ NoClient(t) \/ Leave(t)
                              \/ AddPeer(t) \/ Connected(t) \/ SessionEnded(t)
      PROVE  FALSE
    BY <1>5 DEF CallAnswered, Permit, NoClient, Leave, AddPeer, Connected, SessionEnded, Finish, Become
<1>6. ASSUME NEW t \in tasks, CallClient(t) \/ SendCall(t) \/ OpenSession(t) \/ SessionOpened(t)
                              \/ SessionNotOpened(t) \/ Restore(t)
      PROVE  FALSE
    <2>0. t \in Tasks /\ t.op # "proposal"
        BY <1>0, <1>6 DEF CallClient, SendCall, OpenSession, SessionOpened, SessionNotOpened, Restore, At
    <2>1. /\ [t EXCEPT !.pc = "sent"].op = t.op
          /\ \A c : [t EXCEPT !.pc = "extend", !.s = session, !.cl = c].op = t.op
          /\ \A c : [t EXCEPT !.pc = "approval", !.cl = c].op = t.op
        BY <2>0 DEF Tasks
    <2>2. \A v : [t EXCEPT !.pc = "accounts", !.s = v].op = t.op
        BY <2>0 DEF Tasks
    <2>3. CASE CallClient(t) \/ SendCall(t) \/ OpenSession(t)
        BY <2>0, <2>1, <2>3 DEF CallClient, SendCall, OpenSession, Finish, Become
    <2>4. CASE SessionOpened(t) \/ SessionNotOpened(t)
        BY <2>0, <2>2, <2>4 DEF SessionOpened, SessionNotOpened, Finish, Become
    <2>5. CASE Restore(t)
        <3>1. PICK c : \/ \E v \in Newest : Become(t, {[t EXCEPT !.pc = "validate", !.s = v, !.cl = c]})
                       \/ Finish(t)
                       \/ Become(t, {[t EXCEPT !.pc = "propose", !.cl = c]})
            BY <2>5 DEF Restore
        <3>2. [t EXCEPT !.pc = "propose", !.cl = c].op = t.op
            BY <2>0 DEF Tasks
        <3>3. ASSUME NEW v, u = [t EXCEPT !.pc = "validate", !.s = v, !.cl = c] PROVE u.op = t.op
            BY <2>0, <3>3 DEF Tasks
        <3>4. u = [t EXCEPT !.pc = "propose", !.cl = c]
              \/ \E v \in Newest : u = [t EXCEPT !.pc = "validate", !.s = v, !.cl = c]
            BY <3>1 DEF Finish, Become
        <3> QED BY <2>0, <3>2, <3>3, <3>4
    <2> QED BY <1>6, <2>3, <2>4, <2>5
<1>7. ASSUME NEW t \in tasks, Restored(t) \/ Stale(t) \/ CloseSessions(t) \/ Shut(t) PROVE FALSE
    <2>1. /\ [t EXCEPT !.pc = "peers", !.s = 0].pc = "peers"
          /\ [t EXCEPT !.pc = "propose", !.s = 0].pc = "propose"
          /\ [t EXCEPT !.pc = "shutting"].pc = "shutting"
          /\ [t EXCEPT !.pc = "client", !.cl = 0].pc = "client"
        BY <1>0 DEF Tasks
    <2>2. CASE Restored(t) \/ Stale(t)
        BY <2>1, <2>2 DEF Restored, Stale, Initialised, Finish, Become
    <2>3. CASE CloseSessions(t) \/ Shut(t)
        BY <2>1, <2>3 DEF CloseSessions, Shut, Finish, Become
    <2> QED BY <1>7, <2>2, <2>3
<1>8. ASSUME NEW t \in tasks, ProposalApproved(t) \/ ProposalRefused(t) PROVE FALSE
    <2>1. u = [t EXCEPT !.pc = "leaving", !.s = 0, !.cl = 0]
          \/ u = [Task("peer", "add", NoRequest) EXCEPT !.s = Approved + 1]
        BY <1>8 DEF ProposalApproved, ProposalRefused, Settled, Become
    <2>2. [Task("peer", "add", NoRequest) EXCEPT !.s = Approved + 1].op = "peer"
        BY DEF Task
    <2>3. [t EXCEPT !.pc = "leaving", !.s = 0, !.cl = 0].pc = "leaving"
        BY <1>0 DEF Tasks
    <2> QED BY <2>1, <2>2, <2>3
<1>9. ASSUME NEW t \in tasks, Propose(t)
      PROVE  u = [t EXCEPT !.op = "proposal", !.pc = "approval"] /\ Become(t, {u} \cup Initialised(t))
    <2>1. Become(t, {[t EXCEPT !.op = "proposal", !.pc = "approval"]} \cup Initialised(t))
        BY <1>9 DEF Propose, Finish, Become
    <2>2. u \notin Initialised(t)
        <3>1. [t EXCEPT !.pc = "peers", !.s = 0].pc = "peers"
            BY <1>0 DEF Tasks
        <3> QED BY <3>1 DEF Initialised
    <2> QED BY <2>1, <2>2 DEF Become
<1> QED
    BY <1>1, <1>2, <1>3, <1>4, <1>5, <1>6, <1>7, <1>8, <1>9, <1>10, Zenon DEF Next, Continue

\* A session comes up beside no proposal, or is the one that was proposed.
LEMMA NextSessionThere ==
    ASSUME Typed, Next
    PROVE  \/ session' \in {0, session}
           \/ Proposed # {} => counts'["spare"] # counts["spare"]
           \/ \E t \in Proposed : t \notin tasks'
<1> DEFINE Goal == \/ session' \in {0, session}
                   \/ Proposed # {} => counts'["spare"] # counts["spare"]
                   \/ \E t \in Proposed : t \notin tasks'
<1>0. \A t \in tasks : t \in Tasks
    BY DEF Typed, TasksTyped
<1>1. Proposed # {} => /\ CountBeside(counts)["spare"] # counts["spare"]
                       /\ [CountBeside(counts) EXCEPT !["event"] = @ + 1]["spare"] # counts["spare"]
    <2>1. Proposed # {} => CountBeside(counts) = [counts EXCEPT !["spare"] = counts["spare"] + 1]
        BY DEF CountBeside
    <2>2. counts["spare"] \in Nat /\ "spare" \in DOMAIN counts
        BY DEF Typed, ClientsTyped, Counted
    <2> QED BY <2>1, <2>2
<1>2. CASE Send \/ Connect \/ Pair \/ Disconnect \/ Pong \/ PingAgain
    BY <1>2 DEF Send, Connect, StartConnecting, Pair, Disconnect, Pong, PingAgain, view
<1>3. CASE StorageReset \/ StorageInit \/ Elected
    BY <1>3 DEF StorageReset, StorageInit, Elected, StartConnecting, ClearState
<1>4. ASSUME NEW s \in Sessions, SessionEnds(s) \/ SessionUpdated(s) PROVE Goal
    BY <1>1, <1>4 DEF SessionEnds, SessionUpdated
<1>5. ASSUME NEW t \in tasks, \/ CallClient(t) \/ SendCall(t) \/ CallAnswered(t) \/ OpenSession(t)
                              \/ SessionNotOpened(t) \/ Permit(t) \/ NoClient(t) \/ Propose(t)
      PROVE  Goal
    BY <1>5 DEF CallClient, SendCall, CallAnswered, OpenSession, SessionNotOpened, Permit, NoClient, Propose, view
<1>6. ASSUME NEW t \in tasks, \/ Restore(t) \/ Stale(t) \/ ProposalRefused(t) \/ Leave(t) \/ AddPeer(t)
                              \/ Connected(t) \/ CloseSessions(t) \/ Shut(t) \/ SessionEnded(t)
      PROVE  Goal
    BY <1>6 DEF Restore, Stale, ProposalRefused, Leave, AddPeer, Connected, CloseSessions, Shut, SessionEnded,
                ClearState, view
<1>7. ASSUME NEW t \in tasks, Restored(t) PROVE Goal
    BY <1>1, <1>7 DEF Restored
<1>8. ASSUME NEW t \in tasks, SessionOpened(t) PROVE Goal
    BY <1>1, <1>8 DEF SessionOpened, Reject, ClearState
<1>9. ASSUME NEW t \in tasks, ProposalApproved(t) PROVE Goal
    <2>1. t \in Proposed
        BY <1>9 DEF ProposalApproved, Proposed
    <2>2. t.op = "proposal" /\ t.pc = "approval"
        BY <2>1 DEF Proposed, At
    <2>3. [t EXCEPT !.pc = "leaving", !.s = 0, !.cl = 0].pc = "leaving"
        BY <1>0 DEF Tasks
    <2>4. [Task("peer", "add", NoRequest) EXCEPT !.s = Approved + 1].op = "peer"
        BY DEF Task
    <2>5. t \notin tasks'
        BY <1>9, <2>2, <2>3, <2>4 DEF ProposalApproved, Become, Settled
    <2> QED BY <2>1, <2>5
<1> QED
    BY <1>2, <1>3, <1>4, <1>5, <1>6, <1>7, <1>8, <1>9, Zenon DEF Next, Continue

\* Whoever proposes beside a session or a proposal is counted.
LEMMA ProposesAlone ==
    ASSUME Typed, NEW t \in tasks, Propose(t), tasks' # tasks \ {t},
           counts'["spare"] = counts["spare"]
    PROVE  session = 0 /\ session' = 0 /\ Proposed = {}
<1>1. counts' = [counts EXCEPT !["proposal"] = @ + 1,
                               !["spare"] = IF HasSession \/ Proposed # {} THEN @ + 1 ELSE @]
    BY DEF Propose, Finish, Become
<1>2. counts["spare"] \in Nat /\ "spare" \in DOMAIN counts
    BY DEF Typed, ClientsTyped, Counted
<1>3. ~(HasSession \/ Proposed # {})
    <2>1. SUFFICES ASSUME HasSession \/ Proposed # {} PROVE FALSE
        OBVIOUS
    <2>2. counts' = [counts EXCEPT !["proposal"] = @ + 1, !["spare"] = counts["spare"] + 1]
        BY <1>1, <2>1
    <2> QED BY <1>2, <2>2
<1> QED BY <1>3 DEF HasSession, Propose, view

LEMMA ProposedAlone ==
    ASSUME Typed, Next, ClientStep, Alone, Alone', NoneBeside, NEW u \in Proposed'
    PROVE  session' = 0 /\ \A v \in Proposed' : v = u
<1>0. counts'["spare"] = counts["spare"]
    BY DEF Alone
<1>1. \A v \in Proposed' : v \in tasks' /\ v.op = "proposal" /\ v.pc = "approval"
    BY DEF Proposed, At
<1>2. \A v \in Proposed' : v \in tasks => v \in Proposed
    BY ProposedBefore
<1>3. CASE \E v \in Proposed' : v \notin tasks
    <2>1. PICK n \in Proposed' : n \notin tasks
        BY <1>3
    <2>2. PICK t \in tasks : Propose(t) /\ n = [t EXCEPT !.op = "proposal", !.pc = "approval"]
                             /\ Become(t, {n} \cup Initialised(t))
        BY <1>1, <2>1, NewlyProposed
    <2>3. tasks' # tasks \ {t}
        BY <1>1, <2>1
    <2>4. session = 0 /\ session' = 0 /\ Proposed = {}
        BY <1>0, <2>2, <2>3, ProposesAlone
    <2>5. \A v \in Initialised(t) : v.pc = "peers"
        <3>1. [t EXCEPT !.pc = "peers", !.s = 0].pc = "peers"
            BY DEF Typed, TasksTyped, Tasks
        <3> QED BY <3>1 DEF Initialised
    <2>6. \A v \in Proposed' : v = n
        BY <1>1, <1>2, <2>2, <2>4, <2>5 DEF Become
    <2> QED BY <2>4, <2>6
<1>4. CASE \A v \in Proposed' : v \in tasks
    <2>1. \A v \in Proposed' : v \in Proposed /\ session = 0 /\ v = u
        BY <1>2, <1>4 DEF NoneBeside
    <2>2. session' = 0
        <3>1. \A t \in Proposed : t \in tasks'
            BY <1>1, <2>1 DEF NoneBeside
        <3> QED BY <1>0, <2>1, <3>1, NextSessionThere
    <2> QED BY <2>1, <2>2
<1> QED BY <1>3, <1>4

\* What a step does to the account and the session.
LEMMA NextAccount ==
    ASSUME Typed, Next
    PROVE  \/ account' = NoWallet
           \/ UNCHANGED <<account, session>>
           \/ session' # 0 /\ account' = controller'[session']
           \/ account' = account /\ Proposed # {}
<1> DEFINE Goal == \/ account' = NoWallet
                   \/ UNCHANGED <<account, session>>
                   \/ session' # 0 /\ account' = controller'[session']
                   \/ account' = account /\ Proposed # {}
<1>1. CASE Send
    <2>1. PICK r : RequestPermissions(r) \/ Call(r) \/ NoRoute(r)
        BY <1>1 DEF Send
    <2>2. UNCHANGED <<session, controller>>
        BY <1>1 DEF Send
    <2> QED BY <2>1, <2>2 DEF RequestPermissions, Call, NoRoute, SetDefault, HasSession
<1>2. CASE Connect \/ Pair \/ Disconnect \/ Pong \/ PingAgain \/ StorageReset \/ StorageInit \/ Elected
    BY <1>2 DEF Connect, StartConnecting, Pair, Disconnect, Pong, PingAgain, StorageReset,
                StorageInit, Elected, ClearState, view
<1>3. ASSUME NEW s \in Sessions, SessionEnds(s) \/ SessionUpdated(s) PROVE Goal
    <2>1. CASE SessionUpdated(s)
        <3>1. session' = s /\ account' = controller[s] /\ controller' = controller /\ s # 0
            BY <2>1 DEF SessionUpdated, Follow, Sessions
        <3> QED BY <3>1
    <2> QED BY <1>3, <2>1 DEF SessionEnds
<1>4. ASSUME NEW t \in tasks, \/ CallClient(t) \/ SendCall(t) \/ CallAnswered(t) \/ OpenSession(t)
                              \/ Permit(t) \/ NoClient(t) \/ Propose(t)
      PROVE  Goal
    BY <1>4 DEF CallClient, SendCall, CallAnswered, OpenSession, Permit, NoClient, Propose, view
<1>5. ASSUME NEW t \in tasks, \/ Restore(t) \/ Stale(t) \/ ProposalRefused(t) \/ Leave(t) \/ AddPeer(t)
                              \/ Connected(t) \/ CloseSessions(t) \/ Shut(t) \/ SessionEnded(t)
      PROVE  Goal
    BY <1>5 DEF Restore, Stale, ProposalRefused, Leave, AddPeer, Connected, CloseSessions, Shut, SessionEnded,
                ClearState, view
<1>6. ASSUME NEW t \in tasks, Restored(t) PROVE Goal
    <2>1. session' = t.s /\ account' = controller[t.s] /\ controller' = controller /\ t.s # 0
        BY <1>6 DEF Restored, Typed, SessionsTyped
    <2> QED BY <2>1
<1>7. ASSUME NEW t \in tasks, SessionNotOpened(t) PROVE Goal
    BY <1>7 DEF SessionNotOpened, SetDefault, HasSession
<1>8. ASSUME NEW t \in tasks, SessionOpened(t) PROVE Goal
    <2>1. PICK w \in Wallets : \/ Adopt(w) /\ account' = controller'[session']
                               \/ ClearState
        BY <1>8 DEF SessionOpened, Reject
    <2>2. Adopt(w) => session' # 0
        BY NameAssumption DEF Adopt, Owner, Typed, SessionsTyped, Approved
    <2> QED BY <2>1, <2>2 DEF ClearState
<1>9. ASSUME NEW t \in tasks, ProposalApproved(t) PROVE Goal
    <2>1. t \in Proposed
        BY <1>9 DEF ProposalApproved, Proposed
    <2> QED BY <1>9, <2>1 DEF ProposalApproved, Reject, ClearState
<1> QED
    BY <1>1, <1>2, <1>3, <1>4, <1>5, <1>6, <1>7, <1>8, <1>9, Zenon DEF Next, Continue

LEMMA AloneIsKept ==
    ASSUME IInv, Next, ClientStep, SessionStep
    PROVE  AloneInv'
<1> SUFFICES ASSUME Alone' PROVE NoneBeside'
    BY DEF AloneInv
<1>0. Typed /\ counts["spare"] \in Nat /\ counts'["spare"] \in Nat /\ counts'["client"] \in Nat
    BY DEF IInv, Typed, ClientsTyped, ClientStep, Counted
<1>1. Alone /\ NoneBeside /\ counts'["spare"] = counts["spare"]
    BY <1>0 DEF IInv, AloneInv, Alone, ClientStep
<1>2. OneSignClient'
    <2>1. subscribed \subseteq {client} /\ 0 \notin subscribed
        BY <1>0, <1>1 DEF NoneBeside, OneSignClient, Typed, ClientsTyped
    <2> QED BY <1>1, <2>1 DEF ClientStep, KeepClients, NewClient, clients, OneSignClient
<1>3. \A t \in Proposed' : session' = 0 /\ \A u \in Proposed' : u = t
    BY <1>0, <1>1, ProposedAlone
<1>4. account' # NoWallet => session' # 0 /\ account' = controller'[session']
    <2>1. account # NoWallet => session # 0 /\ account = controller[session]
        BY <1>1 DEF NoneBeside, AccountIsOfSession, HasSession, Owner
    <2>2. CASE UNCHANGED <<account, session>>
        <3>1. SUFFICES ASSUME account # NoWallet PROVE account = controller'[session]
            BY <2>1, <2>2
        <3>2. session \in 1..Approved
            BY <1>0, <2>1, <3>1 DEF Typed, SessionsTyped, Approved
        <3>3. controller'[session] = controller[session]
            BY <1>0, <3>2, ApprovedSession DEF SessionStep, Typed
        <3> QED BY <2>1, <3>1, <3>3
    <2>3. CASE account' = account /\ Proposed # {}
        <3>1. session = 0
            BY <1>1, <2>3 DEF NoneBeside
        <3> QED BY <2>1, <2>3, <3>1
    <2> QED BY <1>0, <2>2, <2>3, NextAccount
<1> QED BY <1>2, <1>3, <1>4 DEF NoneBeside, AccountIsOfSession, HasSession, Owner

-----------------------------------------------------------------------------
(* The theorems.                                                           *)

LEMMA RestKeepsItsTypes ==
    ASSUME Typed, Next
    PROVE  RestTyped'
<1>0. RestTyped
    BY DEF Typed
<1>1. orderly' \in BOOLEAN
    <2>1. QueueStep
        BY NextQueue
    <2>2. CASE orderly' = orderly
        BY <1>0, <2>2 DEF RestTyped
    <2>3. CASE orderly' # orderly
        BY <2>1, <2>3 DEF QueueStep, CutOff, Forget, Answer, Abandon, Sent
    <2> QED BY <2>2, <2>3
<1>2. /\ tab' = tab \/ tab' = [tab EXCEPT !.leader = TRUE]
      /\ status' = status \/ status' \in {"off", "connecting", "on", "secondary"}
      /\ opening' = opening \/ opening' \in BOOLEAN
      /\ pinging' = pinging \/ pinging' \in BOOLEAN
    <2> USE DEF Next, Continue, Send, Connect, StartConnecting, Pair, Disconnect, Pong, PingAgain, SessionEnds,
                SessionUpdated, StorageReset, StorageInit, Elected, CallClient, SendCall, CallAnswered,
                OpenSession, SessionOpened, SessionNotOpened, Permit, NoClient, Restore, Restored, Stale,
                Propose, ProposalApproved, ProposalRefused, Leave, AddPeer, Connected, CloseSessions, Shut,
                SessionEnded, view, CheckReadiness
    <2>1. tab' = tab \/ tab' = [tab EXCEPT !.leader = TRUE]
        OBVIOUS
    <2>2. status' = status \/ status' \in {"off", "connecting", "on", "secondary"}
        OBVIOUS
    <2>3. opening' = opening \/ opening' \in BOOLEAN
        OBVIOUS
    <2>4. pinging' = pinging \/ pinging' \in BOOLEAN
        OBVIOUS
    <2> QED BY <2>1, <2>2, <2>3, <2>4
<1> QED BY <1>0, <1>1, <1>2 DEF RestTyped

LEMMA InitEstablishes ==
    ASSUME Init
    PROVE  IInv
<1>1. ClientsTyped /\ Alone
    BY BoundAssumption DEF Init, ClientsTyped, Alone, Counted
<1>2. SessionsTyped
    <2>1. controller \in Seq(Wallets) /\ Len(controller) \in 0..1 /\ DOMAIN controller = 1..Len(controller)
        <3>1. CASE controller = <<>>
            BY <3>1
        <3>2. ASSUME NEW w \in Wallets, controller = <<w>>
              PROVE  controller \in Seq(Wallets) /\ Len(controller) \in 0..1
                     /\ DOMAIN controller = 1..Len(controller)
            BY <3>2
        <3> QED BY <3>1, <3>2 DEF Init
    <2>2. stored = 1..Len(controller) /\ session = 0 /\ account = NoWallet /\ listeners = {}
        BY <2>1 DEF Init
    <2> QED BY <2>1, <2>2, BoundAssumption DEF SessionsTyped, Approved
<1>3. TasksTyped /\ RestTyped
    BY DEF Init, TasksTyped, RestTyped
<1>4. QueueTyped /\ InOrder
    BY DEF Init, QueueTyped, InOrder
<1>5. NoneBeside
    BY DEF Init, NoneBeside, OneSignClient, AccountIsOfSession, Proposed, At
<1> QED BY <1>1, <1>2, <1>3, <1>4, <1>5 DEF IInv, Typed, OrderInv, AloneInv

LEMMA Invariance == Spec => []IInv
<1>1. Init => IInv
    BY InitEstablishes
<1>2. IInv /\ [Next]_vars => IInv'
    <2> SUFFICES ASSUME IInv, [Next]_vars PROVE IInv'
        OBVIOUS
    <2>1. CASE Next
        <3>0. Typed
            BY DEF IInv
        <3>1. ClientStep /\ SessionStep /\ QueueStep
            BY <2>1, <3>0, NextClient, NextSession, NextQueue DEF Typed
        <3>2. Typed'
            BY <2>1, <3>0, <3>1, ClientsKeepTheirTypes, SessionsKeepTheirTypes, TasksKeepTheirTypes,
               RestKeepsItsTypes, QueueKeepsItsTypes DEF Typed
        <3>3. OrderInv' /\ AloneInv'
            BY <2>1, <3>0, <3>1, OrderIsKept, AloneIsKept DEF IInv
        <3> QED BY <3>2, <3>3 DEF IInv
    <2>2. CASE UNCHANGED vars
        <3>1. UNCHANGED <<tab, status, clients, stored, controller, session, account, listeners,
                          opening, pinging, messageIds, open, orderly, strays, tasks, counts>>
            BY <2>2 DEF vars, view, queue, clients
        <3>2. Typed'
            BY <3>1 DEF IInv, Typed, ClientsTyped, SessionsTyped, TasksTyped, RestTyped, QueueTyped, Approved,
                        clients
        <3>3. OrderInv'
            BY <3>1 DEF IInv, OrderInv, InOrder
        <3>4. AloneInv'
            BY <3>1 DEF IInv, AloneInv, Alone, NoneBeside, OneSignClient, AccountIsOfSession, Proposed, At,
                        HasSession, Owner, clients
        <3> QED BY <3>2, <3>3, <3>4 DEF IInv
    <2> QED BY <2>1, <2>2
<1> QED BY <1>1, <1>2, PTL DEF Spec

\* The fields of the communication client, its suspended calls and its queue
\* have their types.
THEOREM TypeCorrect == Spec => []TypeOK
<1>1. IInv => TypeOK
    <2> SUFFICES ASSUME IInv PROVE TypeOK
        OBVIOUS
    <2>1. Approved \in Nat /\ Approved <= MaxSessions /\ counts["client"] \in Nat
          /\ counts["client"] <= MaxClients
        BY DEF IInv, Typed, SessionsTyped, ClientsTyped, Approved, Counted
    <2>2. 1..Approved \subseteq Sessions /\ 0..Approved \subseteq 0..MaxSessions
        BY <2>1, BoundAssumption DEF Sessions
    <2>3. 0..counts["client"] \subseteq 0..MaxClients /\ 1..counts["client"] \subseteq 1..MaxClients
        BY <2>1, BoundAssumption
    <2>4. ToSet(messageIds) \subseteq Requests
        BY DEF IInv, Typed, QueueTyped, ToSet
    <2>5. tasks \subseteq Tasks
        BY DEF IInv, Typed, TasksTyped
    <2>6. /\ client \in 0..MaxClients /\ live \subseteq 1..MaxClients /\ subscribed \subseteq live
          /\ stored \subseteq Sessions /\ session \in 0..MaxSessions /\ listeners \subseteq Sessions
        BY <2>2, <2>3 DEF IInv, Typed, SessionsTyped, ClientsTyped
    <2> QED BY <2>4, <2>5, <2>6
            DEF IInv, Typed, SessionsTyped, ClientsTyped, RestTyped, QueueTyped, TypeOK
<1> QED BY <1>1, Invariance, PTL

\* As long as the wallet answers in order, every answer is given under the id
\* of its own request (messageIds, notifyListeners).
THEOREM AnswersGoToTheirRequests == Spec => []AnswersKeepTheOrder
<1>1. IInv => AnswersKeepTheOrder
    BY DEF IInv, OrderInv, InOrder, AnswersKeepTheOrder
<1> QED BY <1>1, Invariance, PTL

\* No sign client but the one the code holds raises events in it
\* (getSignClient, closeSignClient, onStorageMessageHandler).
THEOREM OneClientListens == Spec => []OneSignClient
<1>1. IInv => OneSignClient
    BY DEF IInv, AloneInv, NoneBeside, OneSignClient
<1> QED BY <1>1, Invariance, PTL

\* The account that calls are made for is the session's (activeAccountOrPbk).
THEOREM AccountBelongs == Spec => []AccountIsOfSession
<1>1. IInv => AccountIsOfSession
    BY DEF IInv, AloneInv, NoneBeside, AccountIsOfSession
<1> QED BY <1>1, Invariance, PTL
=============================================================================
