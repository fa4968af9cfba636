--------------------------- MODULE ExtensionProofs ---------------------------
(***************************************************************************)
(* The extension wallet and its pages, proved for any number of pages,     *)
(* requests and calls: their types; that what a page listens to follows    *)
(* the status of its transport; that a paired page stays known over the    *)
(* restarts of the worker; and that a second answer takes a second click.  *)
(* Each rests on an invariant of its own, of the tasks that are under way. *)
(***************************************************************************)
EXTENDS Extension, TLAPS

-----------------------------------------------------------------------------
(* Types.  A task that is not a pairing is about a request that was sent.  *)

Ops == {"pair", "receive", "approve", "reject"}
Pcs == {"client", "write", "listen", "store", "notify", "send", "clear"}
TaskSet == [op : Ops, page : Pages, req : Requests \cup {NoRequest}, popup : Nat,
            list : SUBSET Pages, pc : Pcs]

PagesTyped ==
    /\ replies \subseteq Pages /\ storing \subseteq Pages /\ cut \subseteq Pages
    /\ status \in [Pages -> {"off", "connecting", "on"}]
    /\ armed \in [Pages -> BOOLEAN] /\ opening \in [Pages -> BOOLEAN]
    /\ hears \in [Pages -> BOOLEAN] /\ peer \in [Pages -> BOOLEAN]
    /\ connects \subseteq [page : Pages, n : 0..MaxCalls, pc : {"peers", "open"}]
    /\ connected \subseteq Pages /\ calls \in 0..MaxCalls

TasksTyped ==
    /\ tasks \subseteq TaskSet
    /\ \A t \in tasks : t.req \in sent \cup {NoRequest}
    /\ \A t \in tasks : t.op # "pair" => t.req \in sent

StoreTyped ==
    /\ owner \in [Requests -> Pages] /\ sent \subseteq Requests
    /\ client \in {"none", "starting", "ready"}
    /\ active \subseteq Pages /\ pending \subseteq sent
    /\ peers \subseteq Pages /\ slot \in sent \cup {NoRequest}
    /\ forgotten \subseteq Pages

PopupTyped ==
    /\ popup \in {"closed", "loading", "open"} /\ popups \in Nat
    /\ shown \in sent \cup {NoRequest} /\ enabled \in BOOLEAN
    /\ enabled => popup = "open" /\ shown # NoRequest
    /\ answers \in [Requests -> Nat] /\ overlapped \subseteq sent

Typed == PagesTyped /\ TasksTyped /\ StoreTyped /\ PopupTyped

LEMMA TypedInit == Init => Typed
<1> SUFFICES ASSUME Init PROVE Typed
    OBVIOUS
<1> USE CallsAssumption, RequestAssumption
<1>1. PagesTyped
    BY DEF Init, PagesInit, PagesTyped, NoPage
<1>2. TasksTyped /\ StoreTyped /\ PopupTyped
    BY DEF Init, TasksTyped, StoreTyped, PopupTyped
<1> QED BY <1>1, <1>2 DEF Typed

\* The steps of the pages.
LEMMA PagesStepTyped ==
    ASSUME PagesTyped, PagesCode \/ PagesCalls
    PROVE  PagesTyped'
<1> USE CallsAssumption DEF PagesTyped, Arm
<1>1. ASSUME NEW c \in connects, ConnectPeers(c) PROVE PagesTyped'
    <2>1. c.page \in Pages /\ [c EXCEPT !.pc = "open"] \in [page : Pages, n : 0..MaxCalls, pc : {"peers", "open"}]
        OBVIOUS
    <2>2. (hears[c.page] \/ peer[c.page]) \in BOOLEAN
        OBVIOUS
    <2>3. armed' \in [Pages -> BOOLEAN] /\ opening' \in [Pages -> BOOLEAN] /\ hears' \in [Pages -> BOOLEAN]
        BY <1>1, <2>1, <2>2 DEF ConnectPeers, Overtaken, StopClient, StillConnecting, handlers
    <2>4. connects' \subseteq [page : Pages, n : 0..MaxCalls, pc : {"peers", "open"}]
        BY <1>1, <2>1 DEF ConnectPeers
    <2> QED BY <1>1, <2>3, <2>4 DEF ConnectPeers
<1>2. ASSUME NEW c \in connects, ConnectEnds(c) PROVE PagesTyped'
    BY <1>2 DEF ConnectEnds, Overtaken, StopClient, StillConnecting, handlers
<1>3. ASSUME NEW p \in Pages, HearReply(p) PROVE PagesTyped'
    BY <1>3 DEF HearReply, handlers
<1>4. ASSUME NEW p \in Pages, StorePeer(p) PROVE PagesTyped'
    BY <1>4 DEF StorePeer
<1>5. ASSUME NEW p \in Pages, Connect(p) PROVE PagesTyped'
    BY <1>5 DEF Connect, Call
<1>6. ASSUME NEW p \in Pages, Disconnect(p) PROVE PagesTyped'
    BY <1>6 DEF Disconnect, Call, StopClient
<1>7. ASSUME NEW p \in Pages, RemovePeer(p) PROVE PagesTyped'
    BY <1>7 DEF RemovePeer, Call
<1> QED BY <1>1, <1>2, <1>3, <1>4, <1>5, <1>6, <1>7 DEF PagesCode, PagesCalls

\* The steps of the worker, the popup and the user leave the pages as they are,
\* but for a reply and the count of calls.
Elsewhere ==
    /\ UNCHANGED <<status, handlers, peer, connects, connected, storing, cut>>
    /\ calls' = calls \/ Call
    /\ replies' = replies \/ \E t \in tasks : t.op = "pair" /\ replies' = replies \cup {t.page}

PagesStep == (PagesCode \/ PagesCalls) /\ UNCHANGED <<owner, sent, worker, storage, popupVars, ghosts>>

LEMMA ElsewhereTyped ==
    ASSUME PagesTyped, TasksTyped, Elsewhere
    PROVE  PagesTyped'
BY CallsAssumption DEF PagesTyped, TasksTyped, TaskSet, Elsewhere, Call, handlers

LEMMA WorkerIsElsewhere ==
    ASSUME [Next]_vars
    PROVE  PagesStep \/ Elsewhere
<1>1. CASE PagesCode /\ UNCHANGED <<owner, sent, worker, storage, popupVars, ghosts>>
    BY <1>1 DEF PagesStep
<1>2. CASE PagesCalls /\ UNCHANGED <<owner, sent, worker, storage, popupVars, ghosts>>
    BY <1>2 DEF PagesStep
<1> USE DEF Elsewhere, pageVars, transports
<1>3. CASE ClientStarts \/ LoadPopup \/ ClosePopup
    BY <1>3 DEF ClientStarts, LoadPopup, ClosePopup
<1>4. ASSUME NEW t \in tasks, PairReads(t) \/ PairWrites(t) \/ Receive(t) \/ StoreRequest(t)
                              \/ Notify(t) \/ Sign(t) \/ Send(t) \/ Clear(t)
      PROVE  Elsewhere
    BY <1>4 DEF PairReads, PairWrites, Receive, StoreRequest, Notify, Sign, Send, Clear
<1>5. ASSUME NEW p \in Pages, SendPairingRequest(p) PROVE Elsewhere
    BY <1>5 DEF SendPairingRequest
<1>6. ASSUME NEW r \in Requests, SendRequest(r) PROVE Elsewhere
    BY <1>6 DEF SendRequest
<1>7. ASSUME NEW t \in tasks, PairReplies(t) PROVE Elsewhere
    BY <1>7 DEF PairReplies
<1>8. CASE Restart \/ OpenPopup \/ ResetWallet
    BY <1>8 DEF Restart, OpenPopup, ResetWallet
<1>9. ASSUME NEW op \in {"approve", "reject"}, Click(op) PROVE Elsewhere
    BY <1>9 DEF Click
<1>10. CASE UNCHANGED vars
    BY <1>10 DEF vars
<1> QED BY <1>1, <1>2, <1>3, <1>4, <1>5, <1>6, <1>7, <1>8, <1>9, <1>10 DEF Next, Code, Environment

\* What a task becomes, and what a handler begins with.
LEMMA GoToTyped ==
    ASSUME TasksTyped, NEW t \in tasks, NEW pc \in Pcs, GoTo(t, pc), sent \subseteq sent'
    PROVE  TasksTyped'
<1>1. [t EXCEPT !.pc = pc] \in TaskSet /\ [t EXCEPT !.pc = pc].req = t.req /\ [t EXCEPT !.pc = pc].op = t.op
    BY DEF TasksTyped, TaskSet
<1> QED BY <1>1 DEF TasksTyped, GoTo

LEMMA BeginTyped ==
    ASSUME TasksTyped, StoreTyped, PopupTyped, sent \subseteq sent',
           NEW op \in Ops, NEW p \in Pages, NEW r \in (sent' \cap Requests) \cup {NoRequest},
           op # "pair" => r # NoRequest,
           Begin(Task(op, p, r, "client"))
    PROVE  TasksTyped' /\ client' \in {"starting", "ready"}
<1>1. Task(op, p, r, "client") \in TaskSet
    BY DEF Task, TaskSet, Ops, Pcs, PopupTyped
<1>2. Task(op, p, r, "client").req = r /\ Task(op, p, r, "client").op = op
    BY DEF Task
<1>3. TasksTyped'
    BY <1>1, <1>2 DEF TasksTyped, Begin
<1>4. client' \in {"starting", "ready"}
    BY DEF Begin, Woken, StoreTyped
<1> QED BY <1>3, <1>4

WorkerTyped == TasksTyped /\ StoreTyped /\ PopupTyped

LEMMA WorkerTypedNext ==
    ASSUME Typed, [Next]_vars
    PROVE  WorkerTyped'
<1> USE RequestAssumption DEF Typed, WorkerTyped, Ops, Pcs
<1> DEFINE Idle == UNCHANGED <<owner, sent, worker, storage, popupVars, ghosts>>
<1>1. CASE Idle
    BY <1>1 DEF worker, storage, popupVars, ghosts, TasksTyped, StoreTyped, PopupTyped
<1> USE DEF worker, storage, popupVars, ghosts
<1>2. CASE ClientStarts
    BY <1>2 DEF ClientStarts, Restored, TasksTyped, StoreTyped, PopupTyped
<1>3. CASE LoadPopup
    <2>1. enabled' = (slot # NoRequest) /\ shown' = slot /\ popup' = "open"
        BY <1>3 DEF LoadPopup, Show
    <2>2. PopupTyped'
        BY <1>3, <2>1 DEF LoadPopup, StoreTyped, PopupTyped
    <2> QED BY <1>3, <2>2 DEF LoadPopup, TasksTyped, StoreTyped
<1>4. CASE ClosePopup
    BY <1>4 DEF ClosePopup, TasksTyped, StoreTyped, PopupTyped
<1>5. ASSUME NEW t \in tasks, PairReads(t) PROVE WorkerTyped'
    <2>1. [t EXCEPT !.pc = "write", !.list = peers] \in TaskSet
          /\ [t EXCEPT !.pc = "write", !.list = peers].req = t.req
          /\ [t EXCEPT !.pc = "write", !.list = peers].op = t.op
        BY DEF TasksTyped, StoreTyped, TaskSet
    <2> QED BY <1>5, <2>1 DEF PairReads, TasksTyped, StoreTyped, PopupTyped
<1>6. ASSUME NEW t \in tasks, PairWrites(t) PROVE WorkerTyped'
    BY <1>6, GoToTyped DEF PairWrites, TasksTyped, TaskSet, StoreTyped, PopupTyped
<1>7. ASSUME NEW t \in tasks, Receive(t) PROVE WorkerTyped'
    <2>1. TasksTyped'
        BY <1>7, GoToTyped DEF Receive, Finish, TasksTyped
    <2> QED BY <1>7, <2>1 DEF Receive, TasksTyped, StoreTyped, PopupTyped
<1>8. ASSUME NEW t \in tasks, StoreRequest(t) PROVE WorkerTyped'
    BY <1>8, GoToTyped DEF StoreRequest, TasksTyped, StoreTyped, PopupTyped
<1>9. ASSUME NEW t \in tasks, Notify(t) PROVE WorkerTyped'
    <2>1. TasksTyped' /\ StoreTyped'
        BY <1>9 DEF Notify, Finish, TasksTyped, StoreTyped
    <2>2. t.req \in sent /\ t.req # NoRequest
        BY <1>9 DEF Notify, TasksTyped, StoreTyped
    <2>3. CASE popup = "open" /\ Show(t.req) /\ UNCHANGED <<popup, popups>>
        <3>1. enabled' = TRUE /\ shown' = t.req
            BY <2>2, <2>3 DEF Show
        <3>2. PopupTyped'
            BY <1>9, <2>2, <2>3, <3>1 DEF Notify, StoreTyped, PopupTyped
        <3> QED BY <2>1, <3>2
    <2>4. CASE popup # "open" /\ UNCHANGED <<popup, popups, shown, enabled>>
        BY <1>9, <2>1, <2>4 DEF Notify, PopupTyped
    <2>5. CASE popup = "closed" /\ popup' = "loading" /\ popups' = popups + 1 /\ UNCHANGED <<shown, enabled>>
        <3>1. ~enabled
            BY <2>5 DEF PopupTyped
        <3>2. PopupTyped'
            BY <1>9, <2>5, <3>1 DEF Notify, PopupTyped
        <3> QED BY <2>1, <3>2
    <2> QED BY <1>9, <2>3, <2>4, <2>5 DEF Notify
<1>10. ASSUME NEW t \in tasks, Sign(t) PROVE WorkerTyped'
    <2>1. TasksTyped'
        BY <1>10, GoToTyped DEF Sign, Finish, TasksTyped
    <2> QED BY <1>10, <2>1 DEF Sign, StoreTyped, PopupTyped
<1>11. ASSUME NEW t \in tasks, Send(t) PROVE WorkerTyped'
    <2>1. TasksTyped'
        BY <1>11, GoToTyped DEF Send
    <2>2. StoreTyped' /\ PopupTyped'
        BY <1>11 DEF Send, Answered, StoreTyped, PopupTyped, TasksTyped
    <2> QED BY <2>1, <2>2
<1>12. ASSUME NEW t \in tasks, Clear(t) PROVE WorkerTyped'
    <2>1. TasksTyped' /\ StoreTyped'
        BY <1>12 DEF Clear, Finish, TasksTyped, StoreTyped
    <2>2. PopupTyped'
        BY <1>12 DEF Clear, PopupTyped
    <2> QED BY <2>1, <2>2
<1>13. ASSUME NEW p \in Pages, SendPairingRequest(p) PROVE WorkerTyped'
    <2>1. TasksTyped' /\ client' \in {"starting", "ready"}
        BY <1>13, BeginTyped DEF SendPairingRequest
    <2> QED BY <1>13, <2>1 DEF SendPairingRequest, StoreTyped, PopupTyped
<1>14. ASSUME NEW r \in Requests, SendRequest(r) PROVE WorkerTyped'
    <2>1. owner[r] \in Pages /\ r \in sent' /\ sent \subseteq sent'
        BY <1>14 DEF SendRequest, StoreTyped
    <2>2. TasksTyped' /\ client' \in {"starting", "ready"}
        BY <1>14, <2>1, BeginTyped DEF SendRequest
    <2> QED BY <1>14, <2>2 DEF SendRequest, StoreTyped, PopupTyped
<1>15. ASSUME NEW t \in tasks, PairReplies(t) PROVE WorkerTyped'
    BY <1>15 DEF PairReplies, Finish, TasksTyped, TaskSet, StoreTyped, PopupTyped
<1>16. CASE Restart
    BY <1>16 DEF Restart, TasksTyped, StoreTyped, PopupTyped
<1>17. CASE OpenPopup
    <2>1. popup = "closed" /\ enabled = FALSE
        BY <1>17 DEF OpenPopup, PopupTyped
    <2> QED BY <1>17, <2>1 DEF OpenPopup, TasksTyped, StoreTyped, PopupTyped
<1>18. CASE ResetWallet
    BY <1>18 DEF ResetWallet, TasksTyped, StoreTyped, PopupTyped
<1>19. ASSUME NEW op \in {"approve", "reject"}, Click(op) PROVE WorkerTyped'
    <2>1. shown \in sent /\ owner[shown] \in Pages /\ sent \subseteq Requests
        BY <1>19 DEF Click, StoreTyped, PopupTyped
    <2>2. TasksTyped' /\ client' \in {"none", "starting", "ready"}
        BY <1>19, <2>1, BeginTyped DEF Click, StoreTyped, TasksTyped
    <2>3. enabled' \in BOOLEAN /\ (enabled' => shown' # NoRequest)
        BY <1>19 DEF Click, PopupTyped
    <2>4. StoreTyped'
        BY <1>19, <2>2 DEF Click, StoreTyped
    <2>5. PopupTyped'
        BY <1>19, <2>1, <2>3 DEF Click, PopupTyped
    <2> QED BY <2>2, <2>4, <2>5
<1>20. CASE UNCHANGED vars
    BY <1>1, <1>20 DEF vars
<1> QED
    BY <1>1, <1>2, <1>3, <1>4, <1>5, <1>6, <1>7, <1>8, <1>9, <1>10, <1>11, <1>12, <1>13, <1>14,
       <1>15, <1>16, <1>17, <1>18, <1>19, <1>20
    DEF Next, Code, Environment

LEMMA TypedNext == Typed /\ [Next]_vars => Typed'
<1> SUFFICES ASSUME Typed, [Next]_vars PROVE Typed'
    OBVIOUS
<1>1. PagesTyped'
    BY WorkerIsElsewhere, ElsewhereTyped, PagesStepTyped DEF Typed, PagesStep
<1>2. WorkerTyped'
    BY WorkerTypedNext
<1> QED BY <1>1, <1>2 DEF Typed, WorkerTyped

LEMMA AlwaysTyped == Spec => []Typed
BY TypedInit, TypedNext, PTL DEF Spec

\* Pages, worker, storage and popup keep their types.
THEOREM TypeCorrect == Spec => []TypeOK
<1>1. Typed => TypeOK
    BY DEF Typed, PagesTyped, TasksTyped, StoreTyped, PopupTyped, TypeOK, PagesTypeOK, TaskSet, Ops, Pcs
<1> QED BY <1>1, AlwaysTyped, PTL

-----------------------------------------------------------------------------
(* The pages: what a status stands for.                                    *)

Opened(p) == \E c \in connects : c.page = p /\ c.pc = "open"

\* A transport that is on listens; one that is connecting does so once it has read
\* its peers; one that is off stores nobody, waits for no pairing, and is silent if
\* it ever was on.
StatusStandsFor(p) ==
    /\ status[p] # "off" => armed[p]
    /\ status[p] = "on" => (peer[p] => hears[p])
    /\ status[p] = "connecting" /\ Opened(p) => (peer[p] => hears[p])
    /\ status[p] = "off" => ~opening[p] /\ p \notin storing
    /\ status[p] = "off" /\ p \in connected => Silent(p)

PagesInv == \A p \in Pages \ cut : StatusStandsFor(p)

LEMMA PagesInvInit == Init => PagesInv
BY DEF Init, PagesInit, PagesInv, StatusStandsFor, Opened, NoPage

LEMMA PagesInvStep ==
    ASSUME PagesTyped, PagesInv, PagesCode \/ PagesCalls
    PROVE  PagesInv'
<1> SUFFICES ASSUME NEW q \in Pages, q \notin cut' PROVE StatusStandsFor(q)'
    BY DEF PagesInv
<1>0. cut \subseteq cut'
    BY DEF PagesCode, PagesCalls, ConnectPeers, ConnectEnds, HearReply, StorePeer, Connect, Disconnect, RemovePeer
<1>a. StatusStandsFor(q)
    BY <1>0 DEF PagesInv
<1> USE DEF PagesTyped, StatusStandsFor, Opened, Arm, Silent
<1>1. ASSUME NEW c \in connects, ConnectPeers(c) PROVE StatusStandsFor(q)'
    <2>1. CASE StillConnecting(c.page)
        <3>1. CASE q = c.page
            BY <1>1, <1>a, <2>1, <3>1 DEF ConnectPeers, StillConnecting
        <3>2. CASE q # c.page
            <4>1. Opened(q)' => Opened(q)
                BY <1>1, <2>1, <3>2 DEF ConnectPeers
            <4>2. hears'[q] = hears[q] /\ opening'[q] = opening[q]
                BY <1>1, <2>1, <3>2 DEF ConnectPeers
            <4> QED BY <1>1, <1>a, <2>1, <4>1, <4>2 DEF ConnectPeers
        <3> QED BY <3>1, <3>2
    <2>2. CASE ~StillConnecting(c.page)
        <3>1. Opened(q)' => Opened(q)
            BY <1>1, <2>2 DEF ConnectPeers
        <3>2. CASE status[c.page] = "off" /\ q = c.page
            BY <1>1, <1>a, <2>2, <3>2 DEF ConnectPeers, Overtaken, StopClient
        <3>3. CASE status[c.page] = "off" /\ q # c.page
            BY <1>1, <1>a, <2>2, <3>1, <3>3 DEF ConnectPeers, Overtaken, StopClient
        <3>4. CASE status[c.page] # "off"
            BY <1>1, <1>a, <2>2, <3>1, <3>4 DEF ConnectPeers, Overtaken, handlers
        <3> QED BY <3>2, <3>3, <3>4
    <2> QED BY <2>1, <2>2
<1>2. ASSUME NEW c \in connects, ConnectEnds(c) PROVE StatusStandsFor(q)'
    <2>1. Opened(q)' => Opened(q)
        BY <1>2 DEF ConnectEnds
    <2>2. CASE StillConnecting(c.page)
        <3>1. q = c.page => Opened(q)
            BY <1>2 DEF ConnectEnds
        <3> QED BY <1>2, <1>a, <2>1, <2>2, <3>1 DEF ConnectEnds, StillConnecting, handlers
    <2>3. CASE ~StillConnecting(c.page) /\ status[c.page] = "off" /\ q = c.page
        BY <1>2, <1>a, <2>3 DEF ConnectEnds, Overtaken, StopClient
    <2>4. CASE ~StillConnecting(c.page) /\ status[c.page] = "off" /\ q # c.page
        BY <1>2, <1>a, <2>1, <2>4 DEF ConnectEnds, Overtaken, StopClient
    <2>5. CASE ~StillConnecting(c.page) /\ status[c.page] # "off"
        BY <1>2, <1>a, <2>1, <2>5 DEF ConnectEnds, Overtaken, handlers
    <2> QED BY <2>2, <2>3, <2>4, <2>5
<1>3. ASSUME NEW p \in Pages, HearReply(p) PROVE StatusStandsFor(q)'
    BY <1>3, <1>a DEF HearReply, handlers
<1>4. ASSUME NEW p \in Pages, StorePeer(p) PROVE StatusStandsFor(q)'
    BY <1>4, <1>a DEF StorePeer
<1>5. ASSUME NEW p \in Pages, Connect(p) PROVE StatusStandsFor(q)'
    <2>1. Opened(q)' => Opened(q)
        BY <1>5 DEF Connect
    <2>2. q = p => ~Opened(q)
        BY <1>5 DEF Connect
    <2> QED BY <1>5, <1>a, <2>1, <2>2 DEF Connect
<1>6. ASSUME NEW p \in Pages, Disconnect(p) PROVE StatusStandsFor(q)'
    BY <1>6, <1>a DEF Disconnect, StopClient
<1>7. ASSUME NEW p \in Pages, RemovePeer(p) PROVE StatusStandsFor(q)'
    BY <1>7, <1>a DEF RemovePeer
<1> QED BY <1>1, <1>2, <1>3, <1>4, <1>5, <1>6, <1>7 DEF PagesCode, PagesCalls

LEMMA PagesInvNext == Typed /\ PagesInv /\ [Next]_vars => PagesInv'
<1> SUFFICES ASSUME Typed, PagesInv, [Next]_vars PROVE PagesInv'
    OBVIOUS
<1>1. CASE PagesStep
    BY <1>1, PagesInvStep DEF PagesStep, Typed
<1>2. CASE Elsewhere
    BY <1>2 DEF Elsewhere, handlers, PagesInv, StatusStandsFor, Opened, Silent
<1> QED BY <1>1, <1>2, WorkerIsElsewhere

\* What a page listens to follows the status of its transport (PostMessageTransport).
THEOREM StatusIsTrue == Spec => []HandlersFollowTheStatus
<1>1. PagesTyped /\ PagesInv => HandlersFollowTheStatus
    BY DEF PagesTyped, PagesInv, StatusStandsFor, HandlersFollowTheStatus, Deaf, Silent, Busy
<1> QED BY <1>1, AlwaysTyped, PagesInvInit, PagesInvNext, PTL DEF Spec, Typed

-----------------------------------------------------------------------------
(* Pairing: what the wallet knows of a page.                               *)

\* The page is paired, or the reply that pairs it is under way.
Counted(p) == peer[p] \/ p \in storing \cup replies

\* A page is paired once at a time, what was written for it is there, and a page
\* that counts on it is known.
OnePairing ==
    \A t \in tasks : t.op = "pair" =>
        /\ ~Counted(t.page)
        /\ \A u \in tasks : u.op = "pair" /\ u.page = t.page => u = t
        /\ t.pc = "listen" /\ t.page \notin forgotten => t.page \in peers

Known ==
    \A p \in Pages \ forgotten : Counted(p) => p \in peers /\ (client = "ready" => p \in active)

PairInv == OnePairing /\ Known

LEMMA PairInvInit == Init => PairInv
BY DEF Init, PagesInit, PairInv, OnePairing, Known, Counted, NoPage

\* The pages count on nothing they have not been told.
LEMMA PagesCountLess ==
    ASSUME PagesTyped, PagesCode \/ PagesCalls
    PROVE  \A p \in Pages : Counted(p)' => Counted(p)
<1> USE DEF PagesTyped, Counted, Arm
<1>1. ASSUME NEW c \in connects, ConnectPeers(c) \/ ConnectEnds(c)
      PROVE  \A p \in Pages : Counted(p)' => Counted(p)
    BY <1>1 DEF ConnectPeers, ConnectEnds
<1>2. ASSUME NEW q \in Pages, HearReply(q) PROVE \A p \in Pages : Counted(p)' => Counted(p)
    BY <1>2 DEF HearReply
<1>3. ASSUME NEW q \in Pages, StorePeer(q) PROVE \A p \in Pages : Counted(p)' => Counted(p)
    BY <1>3 DEF StorePeer
<1>4. ASSUME NEW q \in Pages, Connect(q) \/ Disconnect(q) PROVE \A p \in Pages : Counted(p)' => Counted(p)
    BY <1>4 DEF Connect, Disconnect
<1>5. ASSUME NEW q \in Pages, RemovePeer(q) PROVE \A p \in Pages : Counted(p)' => Counted(p)
    BY <1>5 DEF RemovePeer
<1> QED BY <1>1, <1>2, <1>3, <1>4, <1>5 DEF PagesCode, PagesCalls

\* So it is with whatever leaves the storage alone, forgets no page, makes active
\* nobody inactive nor the client ready, and starts no pairing.
LEMMA QuietPairs ==
    ASSUME Typed, PairInv,
           \A p \in Pages : Counted(p)' => Counted(p),
           \A t \in tasks' : t.op = "pair" => t \in tasks,
           UNCHANGED <<peers, forgotten>>, active \subseteq active',
           client' = "ready" => client = "ready"
    PROVE  PairInv'
<1>1. \A t \in tasks' : t.op = "pair" => t.page \in Pages
    BY DEF Typed, TasksTyped, TaskSet
<1>2. OnePairing'
    BY <1>1 DEF PairInv, OnePairing
<1>3. Known'
    BY DEF PairInv, Known
<1> QED BY <1>2, <1>3 DEF PairInv

\* A pairing that goes on: of the others, a page keeps what was written for it.
LEMMA PairingGoesOn ==
    ASSUME OnePairing, NEW t \in tasks, NEW u, t.op = "pair", u.op = "pair", u.page = t.page,
           tasks' = (tasks \ {t}) \cup {u}, UNCHANGED <<peer, storing, replies>>,
           u.pc = "listen" => u.page \in peers',
           \A p : p # t.page /\ p \notin forgotten' => p \notin forgotten /\ (p \in peers => p \in peers')
    PROVE  OnePairing'
<1>1. \A x \in tasks' : x = u \/ (x \in tasks /\ x # t)
    OBVIOUS
<1>2. \A x \in tasks : x.op = "pair" /\ x # t => x.page # t.page
    BY DEF OnePairing
<1>3. \A x \in tasks' : x.op = "pair" => ~Counted(x.page)'
    BY <1>1 DEF OnePairing, Counted
<1>4. \A x, y \in tasks' : x.op = "pair" /\ y.op = "pair" /\ y.page = x.page => y = x
    BY <1>1, <1>2 DEF OnePairing
<1>5. \A x \in tasks' : x.op = "pair" /\ x.pc = "listen" /\ x.page \notin forgotten' => x.page \in peers'
    BY <1>1, <1>2 DEF OnePairing
<1> QED BY <1>3, <1>4, <1>5 DEF OnePairing

LEMMA PairInvNext == Typed /\ PairInv /\ [Next]_vars => PairInv'
<1> SUFFICES ASSUME Typed, PairInv, [Next]_vars PROVE PairInv'
    OBVIOUS
<1>0. \A t \in tasks : t \in TaskSet
    BY DEF Typed, TasksTyped
<1>1. CASE PagesStep
    BY <1>1, PagesCountLess, QuietPairs DEF PagesStep, worker, storage, ghosts, Typed
<1> USE DEF worker, storage, ghosts, transports, pageVars, handlers
<1>2. CASE ClientStarts
    BY <1>2 DEF ClientStarts, Restored, PairInv, OnePairing, Known, Counted
<1>3. CASE LoadPopup \/ ClosePopup \/ OpenPopup \/ UNCHANGED vars
    BY <1>3, QuietPairs DEF LoadPopup, ClosePopup, OpenPopup, vars, Counted
<1>4. ASSUME NEW t \in tasks, PairReads(t) PROVE PairInv'
    <2>1. [t EXCEPT !.pc = "write", !.list = peers].op = t.op
          /\ [t EXCEPT !.pc = "write", !.list = peers].page = t.page
          /\ [t EXCEPT !.pc = "write", !.list = peers].pc = "write"
        BY <1>0 DEF TaskSet
    <2>2. Known'
        BY <1>4 DEF PairReads, PairInv, Known, Counted
    <2>3. OnePairing'
        BY <1>4, <2>1, PairingGoesOn DEF PairReads, PairInv
    <2> QED BY <2>2, <2>3 DEF PairInv
<1>5. ASSUME NEW t \in tasks, PairWrites(t) PROVE PairInv'
    <2>1. [t EXCEPT !.pc = "listen"].op = t.op /\ [t EXCEPT !.pc = "listen"].page = t.page
        BY <1>0 DEF TaskSet
    <2>2. t.page \in Pages /\ ~Counted(t.page)
        BY <1>0, <1>5 DEF PairWrites, PairInv, OnePairing, TaskSet
    <2>3. Known'
        BY <1>5, <2>2 DEF PairWrites, PairInv, Known, Counted
    <2>4. t.page \in peers'
        BY <1>5 DEF PairWrites
    <2>5. \A p : p # t.page /\ p \notin forgotten' => p \notin forgotten /\ (p \in peers => p \in peers')
        BY <1>5 DEF PairWrites
    <2>6. OnePairing'
        BY <1>5, <2>1, <2>4, <2>5, PairingGoesOn DEF PairWrites, GoTo, PairInv
    <2> QED BY <2>3, <2>6 DEF PairInv
<1>6. ASSUME NEW t \in tasks, Receive(t) \/ StoreRequest(t) \/ Notify(t) \/ Sign(t) \/ Send(t)
      PROVE  PairInv'
    <2>1. t.op # "pair"
        BY <1>6 DEF Receive, StoreRequest, Notify, Sign, Send
    <2>2. \A pc : [t EXCEPT !.pc = pc].op = t.op
        BY <1>0 DEF TaskSet
    <2>3. \A u \in tasks' : u.op = "pair" => u \in tasks
        BY <1>6, <2>1, <2>2 DEF Receive, StoreRequest, Notify, Sign, Send, GoTo, Finish
    <2>4. UNCHANGED <<pageVars, peers, forgotten, active, client>>
        BY <1>6 DEF Receive, StoreRequest, Notify, Sign, Send
    <2> QED BY <2>3, <2>4, QuietPairs DEF Counted
<1>7. ASSUME NEW t \in tasks, Clear(t) PROVE PairInv'
    BY <1>7, QuietPairs DEF Clear, Finish, Counted
<1>8. ASSUME NEW p \in Pages, SendPairingRequest(p) PROVE PairInv'
    <2>1. Task("pair", p, NoRequest, "client").op = "pair"
          /\ Task("pair", p, NoRequest, "client").page = p
          /\ Task("pair", p, NoRequest, "client").pc = "client"
        BY DEF Task
    <2>2. ~Counted(p) /\ \A u \in tasks : u.op = "pair" => u.page # p
        BY <1>8 DEF SendPairingRequest, Counted
    <2>3. OnePairing'
        BY <1>8, <2>1, <2>2 DEF SendPairingRequest, Begin, PairInv, OnePairing, Counted
    <2>4. Known'
        BY <1>8 DEF SendPairingRequest, Begin, Woken, PairInv, Known, Counted
    <2> QED BY <2>3, <2>4 DEF PairInv
<1>9. ASSUME NEW r \in Requests, SendRequest(r) PROVE PairInv'
    <2>1. Task("receive", owner[r], r, "client").op # "pair"
        BY DEF Task
    <2> QED BY <1>9, <2>1, QuietPairs DEF SendRequest, Begin, Woken, Counted
<1>10. ASSUME NEW t \in tasks, PairReplies(t) PROVE PairInv'
    <2>1. t.page \notin forgotten => t.page \in peers
        BY <1>10 DEF PairReplies, PairInv, OnePairing
    <2>2. Known'
        BY <1>10, <2>1 DEF PairReplies, PairInv, Known, Counted
    <2>3. \A u \in tasks' : u.op = "pair" => u \in tasks /\ u.page # t.page
        BY <1>10 DEF PairReplies, Finish, PairInv, OnePairing
    <2>4. OnePairing'
        BY <1>10, <2>3 DEF PairReplies, PairInv, OnePairing, Counted
    <2> QED BY <2>2, <2>4 DEF PairInv
<1>11. CASE Restart
    <2>1. client' # "ready" /\ tasks' = {}
        BY <1>11 DEF Restart
    <2> QED BY <1>11, <2>1 DEF Restart, PairInv, OnePairing, Known, Counted
<1>12. CASE ResetWallet
    BY <1>12 DEF ResetWallet, PairInv, OnePairing, Known, Counted
<1>13. ASSUME NEW op \in {"approve", "reject"}, Click(op) PROVE PairInv'
    <2>1. Task(op, owner[shown], shown, "client").op # "pair"
        BY DEF Task
    <2> QED BY <1>13, <2>1, QuietPairs DEF Click, Begin, Woken, Counted
<1> QED
    BY <1>1, <1>2, <1>3, <1>4, <1>5, <1>6, <1>7, <1>8, <1>9, <1>10, <1>11, <1>12, <1>13
    DEF PagesStep, Next, Code, Environment

\* A paired page is known to the wallet (initWalletProvider, addPeer).
THEOREM PairedPagesStayKnown == Spec => []PairedPagesAreKnown
<1>1. PairInv => PairedPagesAreKnown
    BY DEF PairInv, Known, Counted, PairedPagesAreKnown
<1> QED BY <1>1, AlwaysTyped, PairInvInit, PairInvNext, PTL DEF Spec

-----------------------------------------------------------------------------
(* Answers.                                                                *)

Receiving(t) == t.op = "receive" /\ t.pc = "client"

\* A request that is not sent is not answered; one that is being received is in no
\* other hands; and one that was not clicked again while it was being handled is
\* pending, or in one hand, or answered.
AnswersOf(r) ==
    /\ r \notin sent => answers[r] = 0 /\ r \notin overlapped
    /\ \A t \in tasks : Receiving(t) /\ t.req = r =>
          answers[r] = 0 /\ r \notin pending /\ \A u \in tasks : u.op # "pair" /\ u.req = r => u = t
    /\ r \in pending \ overlapped => answers[r] = 0
    /\ \A t \in Handling(r) : r \notin overlapped /\ t.pc # "clear" => answers[r] = 0
    /\ \A t, u \in Handling(r) : r \notin overlapped => t = u
    /\ r \notin overlapped => answers[r] <= 1

AnswerInv == \A r \in Requests : AnswersOf(r)

LEMMA AnswerInvInit == Init => AnswerInv
BY DEF Init, AnswerInv, AnswersOf, Handling

\* So it is as long as nothing is sent, clicked, received or answered.
LEMMA QuietAnswers ==
    ASSUME AnswerInv, UNCHANGED <<sent, answers, overlapped>>, pending' \subseteq pending,
           \A t \in tasks' : t.op # "pair" => t \in tasks
    PROVE  AnswerInv'
BY DEF AnswerInv, AnswersOf, Handling, Receiving

\* Nor if a task goes on.
LEMMA TaskGoesOn ==
    ASSUME AnswerInv, UNCHANGED <<sent, answers, overlapped, pending>>,
           NEW t \in tasks, NEW u, tasks' = (tasks \ {t}) \cup {u},
           t.op # "pair", u.op = t.op, u.req = t.req, ~Receiving(u),
           t.pc = "clear" => u.pc = "clear"
    PROVE  AnswerInv'
<1> SUFFICES ASSUME NEW r \in Requests PROVE AnswersOf(r)'
    BY DEF AnswerInv
<1>0. AnswersOf(r)
    BY DEF AnswerInv
<1>1. \A x \in tasks' : x = u \/ (x \in tasks /\ x # t)
    OBVIOUS
<1>2. ASSUME NEW x \in tasks', Receiving(x), x.req = r
      PROVE  answers'[r] = 0 /\ r \notin pending' /\ \A y \in tasks' : y.op # "pair" /\ y.req = r => y = x
    <2>1. x \in tasks /\ x # t
        BY <1>1, <1>2
    <2>2. t.req # r
        BY <1>0, <1>2, <2>1 DEF AnswersOf
    <2> QED BY <1>0, <1>1, <1>2, <2>1, <2>2 DEF AnswersOf
<1>3. \A x \in Handling(r)' : x = u \/ (x \in Handling(r) /\ x # t)
    BY <1>1 DEF Handling
<1>4. u \in Handling(r)' => t \in Handling(r)
    BY DEF Handling
<1>5. \A x \in Handling(r)' : r \notin overlapped' /\ x.pc # "clear" => answers'[r] = 0
    BY <1>0, <1>3, <1>4 DEF AnswersOf
<1>6. \A x, y \in Handling(r)' : r \notin overlapped' => x = y
    BY <1>0, <1>3, <1>4 DEF AnswersOf
<1> QED BY <1>0, <1>2, <1>5, <1>6 DEF AnswersOf

LEMMA AnswerInvNext == Typed /\ AnswerInv /\ [Next]_vars => AnswerInv'
<1> SUFFICES ASSUME Typed, AnswerInv, [Next]_vars PROVE AnswerInv'
    OBVIOUS
<1>0. \A t \in tasks : t \in TaskSet /\ (t.op # "pair" => t.req \in sent)
    BY DEF Typed, TasksTyped
<1>00. sent \subseteq Requests /\ pending \subseteq sent /\ answers \in [Requests -> Nat] /\ overlapped \subseteq sent
    BY DEF Typed, StoreTyped, PopupTyped
<1> USE DEF worker, storage, ghosts, popupVars
<1>1. CASE PagesStep \/ ClientStarts \/ LoadPopup \/ ClosePopup \/ OpenPopup \/ ResetWallet \/ UNCHANGED vars
    BY <1>1, QuietAnswers DEF PagesStep, ClientStarts, LoadPopup, ClosePopup, OpenPopup, ResetWallet, vars
<1>2. CASE Restart
    BY <1>2, QuietAnswers DEF Restart
<1>3. ASSUME NEW t \in tasks, PairReads(t) PROVE AnswerInv'
    <2>1. [t EXCEPT !.pc = "write", !.list = peers].op = "pair"
        BY <1>0, <1>3 DEF PairReads, TaskSet
    <2> QED BY <1>3, <2>1, QuietAnswers DEF PairReads
<1>4. ASSUME NEW t \in tasks, PairWrites(t) PROVE AnswerInv'
    <2>1. [t EXCEPT !.pc = "listen"].op = "pair"
        BY <1>0, <1>4 DEF PairWrites, TaskSet
    <2> QED BY <1>4, <2>1, QuietAnswers DEF PairWrites, GoTo
<1>5. ASSUME NEW t \in tasks, PairReplies(t) \/ Notify(t) \/ Clear(t) PROVE AnswerInv'
    BY <1>5, QuietAnswers DEF PairReplies, Notify, Clear, Finish
<1>6. ASSUME NEW p \in Pages, SendPairingRequest(p) PROVE AnswerInv'
    <2>1. Task("pair", p, NoRequest, "client").op = "pair"
        BY DEF Task
    <2> QED BY <1>6, <2>1, QuietAnswers DEF SendPairingRequest, Begin
<1>7. ASSUME NEW t \in tasks, StoreRequest(t) PROVE AnswerInv'
    <2>1. [t EXCEPT !.pc = "notify"].op = t.op /\ [t EXCEPT !.pc = "notify"].req = t.req
          /\ [t EXCEPT !.pc = "notify"].pc = "notify"
        BY <1>0 DEF TaskSet
    <2> QED BY <1>7, <2>1, TaskGoesOn DEF StoreRequest, GoTo, Receiving
<1>8. ASSUME NEW t \in tasks, Sign(t) PROVE AnswerInv'
    <2>1. [t EXCEPT !.pc = "send"].op = t.op /\ [t EXCEPT !.pc = "send"].req = t.req
          /\ [t EXCEPT !.pc = "send"].pc = "send"
        BY <1>0 DEF TaskSet
    <2>2. CASE GoTo(t, "send")
        BY <1>8, <2>1, <2>2, TaskGoesOn DEF Sign, GoTo, Receiving
    <2>3. CASE Finish(t)
        BY <1>8, <2>3, QuietAnswers DEF Sign, Finish
    <2> QED BY <1>8, <2>2, <2>3 DEF Sign
<1>9. ASSUME NEW r \in Requests, SendRequest(r) PROVE AnswerInv'
    <2> DEFINE new == Task("receive", owner[r], r, "client")
    <2>1. new.op = "receive" /\ new.req = r
        BY DEF Task
    <2>2. tasks' = tasks \cup {new} /\ sent' = sent \cup {r} /\ r \notin sent
          /\ UNCHANGED <<pending, answers, overlapped>>
        BY <1>9 DEF SendRequest, Begin
    <2> HIDE DEF new
    <2>3. \A t \in tasks : t.op # "pair" => t.req # r
        BY <1>0, <2>2
    <2>4. AnswersOf(r)'
        <3>1. answers'[r] = 0 /\ r \notin overlapped' /\ r \notin pending' /\ r \in sent'
            BY <1>00, <2>2 DEF AnswerInv, AnswersOf
        <3>2. \A x \in tasks' : x.op # "pair" /\ x.req = r => x = new
            BY <2>2, <2>3
        <3>3. Handling(r)' = {}
            BY <2>1, <2>2, <2>3 DEF Handling
        <3> QED BY <3>1, <3>2, <3>3 DEF AnswersOf, Receiving
    <2>5. ASSUME NEW q \in Requests, q # r PROVE AnswersOf(q)'
        BY <2>1, <2>2, <2>5 DEF AnswerInv, AnswersOf, Handling, Receiving
    <2> QED BY <2>4, <2>5 DEF AnswerInv
<1>10. ASSUME NEW t \in tasks, Receive(t) PROVE AnswerInv'
    <2> DEFINE u == [t EXCEPT !.pc = "store"]
    <2>1. u.op = "receive" /\ u.req = t.req /\ u.pc = "store" /\ t.req \in Requests /\ Receiving(t)
        BY <1>0, <1>00, <1>10 DEF Receive, TaskSet, Receiving
    <2>2. CASE t.page \in active
        <3>1. tasks' = (tasks \ {t}) \cup {u} /\ pending' = pending \cup {t.req}
              /\ UNCHANGED <<sent, answers, overlapped>>
            BY <1>10, <2>2 DEF Receive, GoTo
        <3> HIDE DEF u
        <3>2. answers[t.req] = 0 /\ \A x \in tasks : x.op # "pair" /\ x.req = t.req => x = t
            BY <2>1 DEF AnswerInv, AnswersOf
        <3>3. AnswersOf(t.req)'
            BY <1>0, <1>00, <2>1, <3>1, <3>2 DEF AnswerInv, AnswersOf, Handling, Receiving
        <3>4. ASSUME NEW q \in Requests, q # t.req PROVE AnswersOf(q)'
            BY <2>1, <3>1, <3>4 DEF AnswerInv, AnswersOf, Handling, Receiving
        <3> QED BY <3>3, <3>4 DEF AnswerInv
    <2>3. CASE t.page \notin active
        BY <1>10, <2>3, QuietAnswers DEF Receive, Finish
    <2> QED BY <2>2, <2>3
<1>11. ASSUME NEW t \in tasks, Send(t) PROVE AnswerInv'
    <2> DEFINE u == [t EXCEPT !.pc = "clear"]
    <2> DEFINE r == t.req
    <2>1. u.op = t.op /\ u.req = r /\ u.pc = "clear" /\ r \in Requests /\ r \in sent
          /\ t.op \in {"approve", "reject"} /\ t.pc # "clear"
        BY <1>0, <1>00, <1>11 DEF Send, TaskSet
    <2>2. tasks' = (tasks \ {t}) \cup {u} /\ pending' = pending \ {r}
          /\ answers' = [answers EXCEPT ![r] = @ + 1] /\ UNCHANGED <<sent, overlapped>>
        BY <1>11 DEF Send, GoTo, Answered
    <2> HIDE DEF u
    <2>3. t \in Handling(r)
        BY <2>1 DEF Handling
    <2>4. r \notin overlapped => answers[r] = 0 /\ \A x \in Handling(r) : x = t
        BY <2>1, <2>3 DEF AnswerInv, AnswersOf
    <2>5. \A x \in tasks : ~(Receiving(x) /\ x.req = r)
        BY <2>1 DEF AnswerInv, AnswersOf, Receiving
    <2>6. AnswersOf(r)'
        <3>1. \A x \in tasks' : ~(Receiving(x) /\ x.req = r)
            BY <2>1, <2>2, <2>5 DEF Receiving
        <3>2. \A x \in Handling(r)' : r \notin overlapped => x = u
            BY <2>2, <2>4 DEF Handling
        <3>3. answers'[r] = answers[r] + 1
            BY <1>00, <2>1, <2>2
        <3> QED BY <1>00, <2>1, <2>2, <2>4, <3>1, <3>2, <3>3 DEF AnswersOf
    <2>7. ASSUME NEW q \in Requests, q # r PROVE AnswersOf(q)'
        <3>1. answers'[q] = answers[q]
            BY <1>00, <2>1, <2>2, <2>7
        <3>2. Handling(q)' = Handling(q)
            BY <2>1, <2>2, <2>7 DEF Handling
        <3> QED BY <2>1, <2>2, <2>7, <3>1, <3>2 DEF AnswerInv, AnswersOf, Receiving
    <2> QED BY <2>6, <2>7 DEF AnswerInv
<1>12. ASSUME NEW op \in {"approve", "reject"}, Click(op) PROVE AnswerInv'
    <2>1. UNCHANGED <<sent, answers, pending>> /\ shown # NoRequest
        BY <1>12 DEF Click
    <2>0. PICK r \in Requests : r = shown /\ r \in sent
        BY <1>00, <2>1 DEF Typed, PopupTyped
    <2>2. overlapped \subseteq overlapped' /\ (Handling(r) # {} => r \in overlapped')
          /\ overlapped' \subseteq overlapped \cup {r}
        BY <1>12, <2>0 DEF Click
    <2>4. CASE r \in pending
        <3> DEFINE new == Task(op, owner[r], r, "client")
        <3>1. new.op \in {"approve", "reject"} /\ new.req = r
            BY DEF Task
        <3>2. tasks' = tasks \cup {new}
            BY <1>12, <2>0, <2>4 DEF Click, Begin
        <3> HIDE DEF new
        <3>3. \A x \in tasks' : ~(Receiving(x) /\ x.req = r)
            BY <2>0, <2>4, <3>1, <3>2 DEF AnswerInv, AnswersOf, Receiving
        <3>4. ASSUME r \notin overlapped'
              PROVE  answers'[r] = 0 /\ \A x \in Handling(r)' : x = new
            <4>1. Handling(r) = {} /\ r \notin overlapped
                BY <2>2, <3>4
            <4>2. answers[r] = 0
                BY <2>0, <2>4, <4>1 DEF AnswerInv, AnswersOf
            <4>3. \A x \in Handling(r)' : x = new
                BY <3>2, <4>1 DEF Handling
            <4> QED BY <2>1, <4>2, <4>3
        <3>5. AnswersOf(r)'
            BY <2>1, <2>0, <3>3, <3>4 DEF AnswersOf
        <3>6. ASSUME NEW q \in Requests, q # r PROVE AnswersOf(q)'
            <4>1. Handling(q)' = Handling(q)
                BY <3>1, <3>2, <3>6 DEF Handling
            <4>2. q \in overlapped' <=> q \in overlapped
                BY <2>2, <3>6
            <4>3. ASSUME NEW x \in tasks', Receiving(x), x.req = q
                  PROVE  answers'[q] = 0 /\ q \notin pending'
                         /\ \A y \in tasks' : y.op # "pair" /\ y.req = q => y = x
                <5>1. x \in tasks
                    BY <3>1, <3>2, <4>3 DEF Receiving
                <5> QED BY <2>1, <3>1, <3>2, <3>6, <4>3, <5>1 DEF AnswerInv, AnswersOf
            <4>4. AnswersOf(q)
                BY DEF AnswerInv
            <4> QED BY <2>1, <4>1, <4>2, <4>3, <4>4 DEF AnswersOf
        <3> QED BY <3>5, <3>6 DEF AnswerInv
    <2>5. CASE r \notin pending
        <3>1. UNCHANGED tasks
            BY <1>12, <2>0, <2>5 DEF Click
        <3> QED BY <2>1, <2>2, <2>0, <3>1 DEF AnswerInv, AnswersOf, Handling, Receiving
    <2> QED BY <2>4, <2>5
<1> QED
    BY <1>1, <1>2, <1>3, <1>4, <1>5, <1>6, <1>7, <1>8, <1>9, <1>10, <1>11, <1>12
    DEF PagesStep, Next, Code, Environment

\* A second answer takes a second click (approveRequest, rejectRequest).
THEOREM SecondAnswersNeedOverlap == Spec => []AnsweredTwiceOnlyByOverlap
<1>1. AnswerInv => AnsweredTwiceOnlyByOverlap
    BY DEF AnswerInv, AnswersOf, AnsweredTwiceOnlyByOverlap
<1> QED BY <1>1, AlwaysTyped, AnswerInvInit, AnswerInvNext, PTL DEF Spec
=============================================================================
