------------------------------ MODULE Extension ------------------------------
(***************************************************************************)
(* The example wallet that is a browser extension (examples/chrome-        *)
(* extension/src): its service worker, which the browser may stop and      *)
(* start again, its popup, and the user, with the pages of PostMessage.    *)
(*                                                                         *)
(* A handler of the worker that awaits is a task.  The content script only *)
(* relays, and is part of the sending.  Answers are counted where they are *)
(* sent to the tabs.                                                       *)
(***************************************************************************)
EXTENDS PostMessage

CONSTANTS
    Requests, NoRequest

ASSUME RequestAssumption == NoRequest \notin Requests

VARIABLES
    owner,          \* page of each request
    sent,           \* requests sent
    \* of the worker
    client,         \* walletClient: none, starting, ready
    active,         \* activePeers
    pending,        \* pendingRequests
    tasks,
    \* in storage
    peers,          \* the wallet's peers
    slot,           \* pendingRequest, in the storage of the session
    \* of the popup
    popup, popups,  \* closed, loading or open; number opened
    shown, enabled, \* its pendingRequest, and whether Approve can be clicked
    answers,        \* ghosts: answers sent to each request,
    overlapped,     \* requests clicked while a click was being handled,
    forgotten       \* and pages whose peer a reset or another pairing erased

worker == <<client, active, pending, tasks>>
storage == <<peers, slot>>
popupVars == <<popup, popups, shown, enabled>>
ghosts == <<answers, overlapped, forgotten>>
vars == <<pageVars, owner, sent, worker, storage, popupVars, ghosts>>

Task(op, page, r, pc) ==
    [op |-> op, page |-> page, req |-> r, pc |-> pc, list |-> {}, popup |-> popups]
Finish(t) == tasks' = tasks \ {t}
GoTo(t, pc) == tasks' = (tasks \ {t}) \cup {[t EXCEPT !.pc = pc]}

\* getOrCreateWalletClient: the first task that needs the client makes it.
Woken == IF client = "none" THEN "starting" ELSE client
Begin(t) == tasks' = tasks \cup {t} /\ client' = Woken

-----------------------------------------------------------------------------
(* The worker starts: initIfNeeded, initWalletProvider.                    *)

\* Slip: the peers stored are not read.
NotRestored == {}

Restored == peers

ClientStarts ==
    /\ client = "starting"
    /\ client' = "ready"
    /\ active' = active \cup Restored
    /\ UNCHANGED <<pageVars, owner, sent, pending, tasks, storage, popupVars,
                   ghosts>>

\* The browser stops the worker; what is in memory is gone, and the popup's
\* calls fail.
Restart ==
    /\ Call
    /\ client' = IF peers = {} THEN "none" ELSE "starting"
    /\ active' = {} /\ pending' = {} /\ tasks' = {}
    /\ UNCHANGED <<transports, owner, sent, storage, popupVars, ghosts>>

-----------------------------------------------------------------------------
(* handlePostMessageRequest: pairing, and requests.                        *)

SendPairingRequest(p) ==
    /\ status[p] # "off" /\ ~peer[p] /\ p \notin storing \cup replies
    /\ ~\E t \in tasks : t.op = "pair" /\ t.page = p
    /\ Begin(Task("pair", p, NoRequest, "client"))
    /\ UNCHANGED <<pageVars, owner, sent, active, pending, storage, popupVars,
                   ghosts>>

\* WalletClient.addPeer reads the list, and writes it; then it listens at the
\* relay, which awaits the login.
PairReads(t) ==
    /\ t.op = "pair" /\ t.pc = "client" /\ client = "ready"
    /\ tasks' = (tasks \ {t}) \cup {[t EXCEPT !.pc = "write", !.list = peers]}
    /\ UNCHANGED <<pageVars, owner, sent, client, active, pending, storage,
                   popupVars, ghosts>>

PairWrites(t) ==
    /\ t.op = "pair" /\ t.pc = "write"
    /\ peers' = t.list \cup {t.page}
    /\ forgotten' = (forgotten \cup (peers \ t.list)) \ {t.page}
    /\ GoTo(t, "listen")
    /\ UNCHANGED <<pageVars, owner, sent, client, active, pending, slot,
                   popupVars, answers, overlapped>>

PairReplies(t) ==
    /\ t.op = "pair" /\ t.pc = "listen"
    /\ active' = active \cup {t.page}
    /\ replies' = replies \cup {t.page}
    /\ Finish(t)
    /\ UNCHANGED <<status, handlers, peer, connects, connected, calls, storing,
                   cut, owner, sent, client, pending, storage, popupVars, ghosts>>

SendRequest(r) ==
    /\ r \notin sent /\ status[owner[r]] = "on" /\ peer[owner[r]]
    /\ sent' = sent \cup {r}
    /\ Begin(Task("receive", owner[r], r, "client"))
    /\ UNCHANGED <<pageVars, owner, active, pending, storage, popupVars,
                   ghosts>>

\* A request that no active peer's key opens is dropped.
Receive(t) ==
    /\ t.op = "receive" /\ t.pc = "client" /\ client = "ready"
    /\ IF t.page \in active THEN pending' = pending \cup {t.req} /\ GoTo(t, "store")
       ELSE Finish(t) /\ UNCHANGED pending
    /\ UNCHANGED <<pageVars, owner, sent, client, active, storage, popupVars,
                   ghosts>>

\* handleBeaconMessage: there is one slot for what is pending.
StoreRequest(t) ==
    /\ t.op = "receive" /\ t.pc = "store"
    /\ slot' = t.req
    /\ GoTo(t, "notify")
    /\ UNCHANGED <<pageVars, owner, sent, client, active, pending, peers,
                   popupVars, ghosts>>

Show(r) == shown' = r /\ enabled' = (r # NoRequest)

\* The popup is opened, if the browser lets it, and told.
Notify(t) ==
    /\ t.op = "receive" /\ t.pc = "notify"
    /\ Finish(t)
    /\ \/ popup = "open" /\ Show(t.req) /\ UNCHANGED <<popup, popups>>
       \/ popup # "open" /\ UNCHANGED <<popup, popups, shown, enabled>>
       \/ /\ popup = "closed"
          /\ popup' = "loading" /\ popups' = popups + 1 /\ UNCHANGED <<shown, enabled>>
    /\ UNCHANGED <<pageVars, owner, sent, client, active, pending, storage,
                   ghosts>>

-----------------------------------------------------------------------------
(* The popup.                                                              *)

OpenPopup ==
    /\ popup = "closed" /\ Call
    /\ popup' = "loading" /\ popups' = popups + 1
    /\ UNCHANGED <<transports, owner, sent, worker, storage, shown, enabled, ghosts>>

\* init: what is in the slot is shown, and only then are messages listened to.
LoadPopup ==
    /\ popup = "loading"
    /\ popup' = "open" /\ Show(slot)
    /\ UNCHANGED <<pageVars, owner, sent, worker, storage, popups, ghosts>>

ClosePopup ==
    /\ popup # "closed"
    /\ popup' = "closed" /\ shown' = NoRequest /\ enabled' = FALSE
    /\ UNCHANGED <<pageVars, owner, sent, worker, storage, popups, ghosts>>

\* handleReset: local storage is cleared, and nothing else.
ResetWallet ==
    /\ popup = "open" /\ shown = NoRequest /\ Call
    /\ peers' = {}
    /\ forgotten' = forgotten \cup peers
    /\ UNCHANGED <<transports, owner, sent, worker, slot, popupVars, answers,
                   overlapped>>

Handling(r) == {t \in tasks : t.req = r /\ t.op \in {"approve", "reject"}}

\* Approve is disabled by a click until a modal is rendered anew; Reject never
\* is.  A request the worker does not know fails at once: then Reject hides the
\* modal, and Approve does not.
Click(op) ==
    /\ popup = "open" /\ shown # NoRequest /\ Call
    /\ op = "approve" => enabled
    /\ overlapped' = IF Handling(shown) = {} THEN overlapped ELSE overlapped \cup {shown}
    /\ IF shown \in pending
       THEN /\ Begin(Task(op, owner[shown], shown, "client"))
            /\ UNCHANGED shown
       ELSE /\ shown' = IF op = "reject" THEN NoRequest ELSE shown
            /\ UNCHANGED <<tasks, client>>
    /\ enabled' = (enabled /\ op = "reject" /\ shown' # NoRequest)
    /\ UNCHANGED <<transports, owner, sent, active, pending, storage, popup, popups,
                   answers, forgotten>>

-----------------------------------------------------------------------------
(* approveRequest, rejectRequest                                           *)

\* An approval needs the wallet's key, and may fail; the popup stays as it is.
Sign(t) ==
    /\ t.op = "approve" /\ t.pc = "client" /\ client = "ready"
    /\ \/ GoTo(t, "send")
       \/ Finish(t)
    /\ UNCHANGED <<pageVars, owner, sent, client, active, pending, storage,
                   popupVars, ghosts>>

\* Slip: the request stays pending.
StaysPending(r) == pending

Answered(r) == pending \ {r}

Send(t) ==
    /\ \/ t.op = "approve" /\ t.pc = "send"
       \/ t.op = "reject" /\ t.pc = "client" /\ client = "ready"
    /\ answers' = [answers EXCEPT ![t.req] = @ + 1]
    /\ pending' = Answered(t.req)
    /\ GoTo(t, "clear")
    /\ UNCHANGED <<pageVars, owner, sent, client, active, storage, popupVars,
                   overlapped, forgotten>>

\* The slot and the popup are cleared, whatever is in them by now.
Clear(t) ==
    /\ t.pc = "clear"
    /\ slot' = NoRequest
    /\ Finish(t)
    /\ IF popup = "open" /\ t.popup = popups THEN shown' = NoRequest /\ enabled' = FALSE
       ELSE UNCHANGED <<shown, enabled>>
    /\ UNCHANGED <<pageVars, owner, sent, client, active, pending, peers,
                   popup, popups, ghosts>>

-----------------------------------------------------------------------------
Init ==
    /\ PagesInit
    /\ owner \in [Requests -> Pages] /\ sent = {}
    /\ client = "none"
    /\ active = {} /\ pending = {} /\ tasks = {}
    /\ peers = {} /\ slot = NoRequest
    /\ popup = "closed" /\ popups = 0 /\ shown = NoRequest /\ enabled = FALSE
    /\ answers = [r \in Requests |-> 0] /\ overlapped = {} /\ forgotten = {}

Code ==
    \/ PagesCode /\ UNCHANGED <<owner, sent, worker, storage, popupVars, ghosts>>
    \/ ClientStarts \/ LoadPopup
    \/ \E t \in tasks : PairReads(t) \/ PairWrites(t) \/ Receive(t)
                        \/ StoreRequest(t) \/ Notify(t) \/ Sign(t) \/ Send(t) \/ Clear(t)

Environment ==
    \/ PagesCalls /\ UNCHANGED <<owner, sent, worker, storage, popupVars, ghosts>>
    \/ \E p \in Pages : SendPairingRequest(p)
    \/ \E r \in Requests : SendRequest(r)
    \/ \E t \in tasks : PairReplies(t)
    \/ Restart \/ OpenPopup \/ ClosePopup \/ ResetWallet
    \/ \E op \in {"approve", "reject"} : Click(op)

Next == Code \/ Environment

Spec == Init /\ [][Next]_vars

-----------------------------------------------------------------------------
(* Properties                                                              *)

\* The slot, the pages and the pending requests have their types.
TypeOK ==
    /\ PagesTypeOK
    /\ owner \in [Requests -> Pages] /\ sent \subseteq Requests
    /\ client \in {"none", "starting", "ready"}
    /\ active \subseteq Pages /\ pending \subseteq sent
    /\ tasks \subseteq [op : {"pair", "receive", "approve", "reject"}, page : Pages,
                        req : sent \cup {NoRequest}, popup : Nat, list : SUBSET Pages,
                        pc : {"client", "write", "listen", "store", "notify", "send", "clear"}]
    /\ peers \subseteq Pages /\ slot \in sent \cup {NoRequest}
    /\ popup \in {"closed", "loading", "open"} /\ popups \in Nat
    /\ shown \in sent \cup {NoRequest} /\ enabled \in BOOLEAN
    /\ enabled => popup = "open" /\ shown # NoRequest
    /\ answers \in [Requests -> Nat] /\ overlapped \subseteq sent /\ forgotten \subseteq Pages

\* A page that is paired stays known to the wallet over restarts of the worker,
\* in storage and, once the client runs, in memory, so that no request of it is
\* dropped; but for a reset, or pairings of two pages that overlap.
PairedPagesAreKnown ==
    \A p \in Pages \ forgotten :
        peer[p] => p \in peers /\ (client = "ready" => p \in active)

\* The dApp gets a second answer to a request only if the user clicked again
\* before the first click was dealt with.
AnsweredTwiceOnlyByOverlap == \A r \in Requests \ overlapped : answers[r] <= 1
=============================================================================
