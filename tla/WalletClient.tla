---------------------------- MODULE WalletClient ----------------------------
(***************************************************************************)
(* The wallet's end of the protocol: WalletClient (packages/octez.connect- *)
(* wallet/src/client/WalletClient.ts) with the interceptors and the three  *)
(* stored lists it drives: peers, app metadata and permissions.            *)
(*                                                                         *)
(* The client runs on one thread, and every `await` hands that thread      *)
(* over.  A call that awaits is therefore a task, a record in `tasks`      *)
(* whose `pc` names the statement it resumes at; everything between two    *)
(* awaits is one action.  StorageManager edits a list by reading it,       *)
(* awaiting, and writing the edited copy back: Read and Write below.       *)
(***************************************************************************)
EXTENDS Naturals, FiniteSets

CONSTANTS
    DApps,          \* dApps that pair with the wallet (a sender id and key each)
    Requests,       \* ids of the requests dApps may send
    Owner,          \* the dApp that sends a request
    Kind,           \* what a request asks for
    Accounts,       \* account identifiers the wallet can share
    Persisted,      \* the stored lists an earlier session left behind
    NoRequest,      \* the `req` of a task that serves no request
    NoPeer,         \* result of a peer lookup that found nothing
    MaxDeliveries,  \* bound: times one request may reach the wallet
    MaxCalls        \* bound: pairings, removals and repeated requests in a behaviour

\* "foreign" is a wrapped request for a chain other than Tezos; "unsupported"
\* one whose version the interceptor drops (absent, or '1').
Kinds == {"permission", "operation", "foreign", "unsupported"}

ASSUME PersistedAssumption ==
    Persisted \in [peers : SUBSET DApps, metadata : SUBSET DApps,
                   permissions : SUBSET (DApps \X Accounts)]
ASSUME OwnerAssumption == Owner \in [Requests -> DApps]
ASSUME KindAssumption == Kind \in [Requests -> Kinds]
ASSUME NullAssumption == NoRequest \notin Requests /\ NoPeer \notin DApps
ASSUME BoundAssumption == MaxDeliveries \in Nat /\ MaxCalls \in Nat

VARIABLES
    store,        \* the stored lists, by name
    listening,    \* peers whose messages the transport decrypts
    incoming,     \* copies of a request being decoded, by request
    pending,      \* pendingRequests
    tasks,        \* calls suspended at an await
    delivered,    \* times a request reached the transport
    calls,        \* pairings and removals started
    \* What the environment saw: the properties are about these.
    prompts,      \* times the app's callback was called with a request
    answers,      \* times the app's respond() found its request
    sent,         \* messages handed to the transport
    granted,      \* pairs the user ever agreed to
    stored,       \* pairs ever written to the permission list
    departed      \* dApps that ever left the peer list

vars == <<store, listening, incoming, pending, tasks, delivered, calls,
          prompts, answers, sent, granted, stored, departed>>

ghosts == <<prompts, answers, sent, granted, stored, departed>>

Pairs == DApps \X Accounts
Entries == DApps \cup Pairs
Stores == [peers : SUBSET DApps, metadata : SUBSET DApps, permissions : SUBSET Pairs]

Ops == {"pair", "prompt", "ack", "reply", "grant", "unpeer", "forget", "farewell", "edit"}
Steps == {"read", "write", "clear", "listen", "unsubscribe", "prompt", "lookup",
          "collect", "findPeer", "send"}

Messages == [to : DApps, req : Requests \cup {NoRequest},
             what : {"ack", "reply", "grant", "farewell"}, pairs : SUBSET Pairs]

Tasks == [op : Ops, pc : Steps, list : {"peers", "metadata", "permissions"},
          req : Requests \cup {NoRequest}, n : Nat, dapps : SUBSET DApps,
          add : SUBSET Entries, remove : SUBSET Entries, snapshot : SUBSET Entries,
          target : DApps \cup {NoPeer}]

-----------------------------------------------------------------------------
\* Tasks.  `n` tells apart calls that are otherwise alike.

Task(op, pc, list, req, n) ==
    [op |-> op, pc |-> pc, list |-> list, req |-> req, n |-> n, dapps |-> {},
     add |-> {}, remove |-> {}, snapshot |-> {}, target |-> NoPeer]

Call(op, pc, list) == Task(op, pc, list, NoRequest, calls)

At(pc) == {t \in tasks : t.pc = pc}
Resume(t, pc) == tasks' = (tasks \ {t}) \cup {[t EXCEPT !.pc = pc]}
Finish(t) == tasks' = tasks \ {t}

\* Slip: the permission is stored, and nobody is told.
AfterWriteForgetsReply(t) ==
    CASE t.op = "pair"     -> Resume(t, "listen")
      [] t.op = "unpeer"   -> Resume(t, "unsubscribe")
      [] t.op = "prompt"   -> Resume(t, "prompt")
      [] t.op = "farewell" -> Resume(t, "send")
      [] OTHER             -> Finish(t)

\* What a task does once its list is written.
AfterWrite(t) ==
    CASE t.op = "pair"     -> Resume(t, "listen")
      [] t.op = "unpeer"   -> Resume(t, "unsubscribe")
      [] t.op = "prompt"   -> Resume(t, "prompt")
      [] t.op = "grant"    -> Resume(t, "findPeer")
      [] t.op = "farewell" -> Resume(t, "send")
      [] OTHER             -> Finish(t)

-----------------------------------------------------------------------------
\* _connect has run: the transport listens to every stored peer.
Init ==
    /\ store = Persisted
    /\ listening = Persisted.peers
    /\ incoming = [r \in Requests |-> 0]
    /\ pending = {}
    /\ tasks = {}
    /\ delivered = [r \in Requests |-> 0]
    /\ calls = 0
    /\ prompts = [r \in Requests |-> 0]
    /\ answers = [r \in Requests |-> 0]
    /\ granted = Persisted.permissions /\ stored = Persisted.permissions
    /\ sent = {} /\ departed = {}

-----------------------------------------------------------------------------
(* StorageManager.                                                         *)

\* addOne, addMany and remove first read the list ...
Read(t) ==
    /\ t \in At("read")
    /\ tasks' = (tasks \ {t}) \cup {[t EXCEPT !.pc = "write", !.snapshot = store[t.list]]}
    /\ UNCHANGED <<store, listening, incoming, pending, delivered, calls, ghosts>>

Edited(t) == (t.snapshot \ t.remove) \cup t.add

Replace(t, entries) ==
    /\ store' = [store EXCEPT ![t.list] = entries]
    /\ departed' = departed \cup (store.peers \ store'.peers)
    /\ stored' = stored \cup (store'.permissions \ store.permissions)
    /\ AfterWrite(t)
    /\ UNCHANGED <<listening, incoming, pending, delivered, calls,
                   prompts, answers, sent, granted>>

\* ... and write the edited copy over whatever is there by now.
Write(t) == t \in At("write") /\ Replace(t, Edited(t))

\* removeAll deletes the key without reading it.
Clear(t) == t \in At("clear") /\ Replace(t, {})

-----------------------------------------------------------------------------
(* Pairing: addPeer stores the peer, then subscribes to its messages.      *)

Start(new) ==
    /\ calls < MaxCalls
    /\ calls' = calls + 1
    /\ tasks' = tasks \cup new
    /\ UNCHANGED <<store, listening, incoming, pending, delivered, ghosts>>

AddPeer(d) == Start({[Call("pair", "read", "peers") EXCEPT !.dapps = {d}, !.add = {d}]})

Listen(t) ==
    /\ t \in At("listen")
    /\ listening' = listening \cup t.dapps
    /\ Finish(t)
    /\ UNCHANGED <<store, incoming, pending, delivered, calls, ghosts>>

-----------------------------------------------------------------------------
(* Requests.  The transport listener decodes a message (which awaits the   *)
(* peer list), then calls handleResponse.                                  *)

Deliver(r) ==
    /\ Owner[r] \in listening
    /\ delivered[r] < MaxDeliveries
    /\ IF delivered[r] = 0 THEN UNCHANGED calls
       ELSE calls < MaxCalls /\ calls' = calls + 1
    /\ delivered' = [delivered EXCEPT ![r] = @ + 1]
    /\ incoming' = [incoming EXCEPT ![r] = @ + 1]
    /\ UNCHANGED <<store, listening, pending, tasks, ghosts>>

\* IncomingRequestInterceptor: a permission request first stores the
\* sender's metadata.
PromptTask(r) ==
    IF Kind[r] = "permission"
    THEN [Task("prompt", "read", "metadata", r, answers[r]) EXCEPT !.add = {Owner[r]}]
    ELSE Task("prompt", "prompt", "metadata", r, answers[r])

\* Slip: no look into pendingRequests.
HandleRequestTwice(r) ==
    /\ incoming[r] > 0
    /\ incoming' = [incoming EXCEPT ![r] = @ - 1]
    /\ pending' = pending \cup {r}
    /\ tasks' = IF Kind[r] = "unsupported"
                THEN tasks
                ELSE tasks \cup {PromptTask(r),
                                 Task("ack", "findPeer", "peers", r, answers[r])}
    /\ UNCHANGED <<store, listening, delivered, calls, ghosts>>

\* Slip: while the app has any request to answer, another one is a copy.
HandleRequestWhenIdle(r) ==
    /\ incoming[r] > 0
    /\ incoming' = [incoming EXCEPT ![r] = @ - 1]
    /\ pending' = pending \cup {r}
    /\ tasks' = IF pending # {} \/ Kind[r] = "unsupported"
                THEN tasks
                ELSE tasks \cup {PromptTask(r),
                                 Task("ack", "findPeer", "peers", r, answers[r])}
    /\ UNCHANGED <<store, listening, delivered, calls, ghosts>>

\* A copy of a request that is still pending is dropped.  Anything else is
\* remembered, acknowledged and, if its version is known, handed to the app;
\* the acknowledgement is sent beside the interceptor, which does not wait.
HandleRequest(r) ==
    /\ incoming[r] > 0
    /\ incoming' = [incoming EXCEPT ![r] = @ - 1]
    /\ pending' = pending \cup {r}
    /\ tasks' = IF r \in pending \/ Kind[r] = "unsupported"
                THEN tasks
                ELSE tasks \cup {PromptTask(r),
                                 Task("ack", "findPeer", "peers", r, answers[r])}
    /\ UNCHANGED <<store, listening, delivered, calls, ghosts>>

\* An operation needs the metadata and throws without it, leaving the
\* request pending; the other kinds reach the app's callback.
Prompt(t) ==
    /\ t \in At("prompt")
    /\ prompts' = IF Kind[t.req] = "operation" /\ Owner[t.req] \notin store.metadata
                  THEN prompts ELSE [prompts EXCEPT ![t.req] = @ + 1]
    /\ Finish(t)
    /\ UNCHANGED <<store, listening, incoming, pending, delivered, calls,
                   answers, sent, granted, stored, departed>>

-----------------------------------------------------------------------------
(* Answers.  respond() forgets the request before it awaits anything.      *)

\* Slip: every peer gets what one was granted.
PermissionsForAll(r, accounts) == store.peers \X accounts

\* The permissions an answer stores: the requester's, for these accounts.
Permissions(r, accounts) == {Owner[r]} \X accounts

\* A permission request is answered with accounts, or with an error.
Respond(r, accounts) ==
    /\ prompts[r] > 0
    /\ r \in pending
    /\ Kind[r] # "permission" => accounts = {}
    /\ pending' = pending \ {r}
    /\ answers' = [answers EXCEPT ![r] = @ + 1]
    /\ granted' = granted \cup ({Owner[r]} \X accounts)
    /\ tasks' = tasks \cup
         {IF accounts = {}
          THEN Task("reply", "findPeer", "peers", r, answers[r])
          ELSE [Task("grant", "lookup", "permissions", r, answers[r])
                   EXCEPT !.add = Permissions(r, accounts)]}
    /\ UNCHANGED <<store, listening, incoming, delivered, calls, prompts, sent,
                   stored, departed>>

\* Slip: the answer leaves without waiting for the write.
LookupMetadataOnly(t) ==
    /\ t \in At("lookup")
    /\ IF Owner[t.req] \in store.metadata THEN Resume(t, "findPeer") ELSE Finish(t)
    /\ UNCHANGED <<store, listening, incoming, pending, delivered, calls, ghosts>>

\* persistGrantedPermissions throws when the metadata is gone: the request
\* is no longer pending by then, so it can never be answered again.
LookupMetadata(t) ==
    /\ t \in At("lookup")
    /\ IF Owner[t.req] \in store.metadata THEN Resume(t, "read") ELSE Finish(t)
    /\ UNCHANGED <<store, listening, incoming, pending, delivered, calls, ghosts>>

\* respondToMessage looks the requester up by the id of its connection ...
FindPeer(t) ==
    /\ t \in At("findPeer")
    /\ tasks' = (tasks \ {t}) \cup
         {[t EXCEPT !.pc = "send",
                    !.target = IF Owner[t.req] \in store.peers THEN Owner[t.req] ELSE NoPeer]}
    /\ UNCHANGED <<store, listening, incoming, pending, delivered, calls, ghosts>>

\* Slip: a message about a request always goes to every known peer.
RecipientsAll(t) == IF t.op = "farewell" THEN t.dapps ELSE store.peers

\* ... and Transport.send without a peer sends to every known peer.
Recipients(t) ==
    IF t.op = "farewell" THEN t.dapps
    ELSE IF t.target = NoPeer THEN store.peers ELSE {t.target}

Contents(t) == IF t.op = "grant" THEN t.add ELSE {}

Send(t) ==
    /\ t \in At("send")
    /\ sent' = sent \cup {[to |-> d, req |-> t.req, what |-> t.op, pairs |-> Contents(t)] :
                             d \in Recipients(t)}
    /\ Finish(t)
    /\ UNCHANGED <<store, listening, incoming, pending, delivered, calls,
                   prompts, answers, granted, stored, departed>>

-----------------------------------------------------------------------------
(* Removal.  The transport's part of a removal is started and not awaited, *)
(* so it runs beside removePermissionsForPeers.                            *)

\* A disconnect message never sends one back; the app's calls may.
RemovePeer(d, op) ==
    /\ d \in store.peers
    /\ Start({[Call("unpeer", "read", "peers") EXCEPT !.dapps = {d}, !.remove = {d}],
              [Call(op, "collect", "permissions") EXCEPT !.dapps = {d}]})

RemoveAllPeers(op) ==
    Start({[Call("unpeer", "clear", "peers") EXCEPT !.dapps = DApps],
           [Call(op, "collect", "permissions") EXCEPT !.dapps = store.peers]})

Unsubscribe(t) ==
    /\ t \in At("unsubscribe")
    /\ listening' = listening \ t.dapps
    /\ Finish(t)
    /\ UNCHANGED <<store, incoming, pending, delivered, calls, ghosts>>

\* removePermissionsForPeers hands the account identifiers of the peers'
\* permissions to removePermissions, which drops every entry with one of
\* these identifiers, whoever it was granted to.
ToRemove(dapps) ==
    LET accounts == {p[2] : p \in {q \in store.permissions : q[1] \in dapps}}
    IN  DApps \X accounts

CollectPermissions(t) ==
    /\ t \in At("collect")
    /\ tasks' = (tasks \ {t}) \cup
         {[t EXCEPT !.pc = "read", !.remove = ToRemove(t.dapps)]}
    /\ UNCHANGED <<store, listening, incoming, pending, delivered, calls, ghosts>>

\* The app may also drop an entry of a list, or empty the list.
RemoveEntry(list, e) ==
    /\ e \in store[list]
    /\ Start({[Call("edit", "read", list) EXCEPT !.remove = {e}]})

RemoveAll(list) == store[list] # {} /\ Start({Call("edit", "clear", list)})

-----------------------------------------------------------------------------
Continue(t) ==
    \/ Read(t) \/ Write(t) \/ Clear(t) \/ Listen(t) \/ Unsubscribe(t)
    \/ Prompt(t) \/ LookupMetadata(t) \/ FindPeer(t) \/ Send(t)
    \/ CollectPermissions(t)

Next ==
    \/ \E d \in DApps : AddPeer(d)
    \/ \E op \in {"forget", "farewell"} :
          RemoveAllPeers(op) \/ \E d \in DApps : RemovePeer(d, op)
    \/ \E list \in {"metadata", "permissions"} :
          RemoveAll(list) \/ \E e \in Entries : RemoveEntry(list, e)
    \/ \E r \in Requests : Deliver(r) \/ HandleRequest(r)
    \/ \E r \in Requests, accounts \in SUBSET Accounts : Respond(r, accounts)
    \/ \E t \in tasks : Continue(t)

Spec == Init /\ [][Next]_vars

\* The event loop resumes every call whose await has settled, and storage
\* and transport calls settle; nothing obliges a peer or the user to act.
FairSpec ==
    /\ Spec
    /\ WF_vars(\E t \in tasks : Continue(t))
    /\ \A r \in Requests : WF_vars(HandleRequest(r))

-----------------------------------------------------------------------------
(* Properties                                                              *)

\* Every variable and every suspended call has its type.
TypeOK ==
    /\ store \in Stores /\ listening \subseteq DApps
    /\ incoming \in [Requests -> Nat] /\ delivered \in [Requests -> Nat]
    /\ pending \subseteq Requests
    /\ tasks \subseteq Tasks
    /\ \A t \in tasks : /\ t.list = "permissions" => t.add \cup t.snapshot \subseteq Pairs
                        /\ t.list # "permissions" => t.add \cup t.snapshot \subseteq DApps
    /\ calls \in Nat
    /\ prompts \in [Requests -> Nat] /\ answers \in [Requests -> Nat]
    /\ sent \subseteq Messages
    /\ granted \subseteq Pairs /\ stored \subseteq Pairs /\ departed \subseteq DApps

\* The app is asked at most once more than it has answered: a copy of a
\* request it has yet to answer never reaches it (handleResponse's
\* pendingRequests check), whatever is delivered twice.
PromptedOncePerAnswer ==
    \A r \in Requests : prompts[r] <= answers[r] + 1

\* A message about a request goes to another dApp only if the requester has
\* left the peer list at some time: respondToMessage finds a peer that never
\* left it, however the lookup, the send and the edits of the list interleave.
MisdeliveryOnlyAfterDeparture ==
    \A m \in sent : m.req # NoRequest /\ m.to # Owner[m.req] => Owner[m.req] \in departed

\* No interleaving of the list's readers and writers brings up a permission
\* the user never agreed to.
PermissionsWereGranted == store.permissions \subseteq granted

\* A dApp hears of a permission only when it has been written to the list.
GrantStoredBeforeReply ==
    \A m \in sent : m.what = "grant" => m.pairs \subseteq stored

\* Whatever copies, edits and other answers run meanwhile, the dApp of a
\* delivered request is told that it has arrived, unless that dApp leaves the
\* peer list (handleResponse): an acknowledgement to others does not count.
RequestsAreAcknowledged ==
    \A r \in Requests :
        delivered[r] > 0 /\ Kind[r] # "unsupported"
          ~> \/ \E m \in sent : m.req = r /\ m.what = "ack" /\ m.to = Owner[r]
             \/ Owner[r] \in departed

\* An answer the app gave goes to the dApp that asked, unless that dApp leaves
\* the peer list or the metadata it needs is gone by then (respond,
\* persistGrantedPermissions).
AnswersLeave ==
    \A r \in Requests :
        answers[r] > 0
          ~> \/ \E m \in sent : m.req = r /\ m.what \in {"reply", "grant"} /\ m.to = Owner[r]
             \/ Owner[r] \in departed
             \/ Kind[r] = "permission" /\ Owner[r] \notin store.metadata

-----------------------------------------------------------------------------
(* What comments of the source say, and the code does not do.              *)

\* removePermissionsForPeers: "Remove all permissions with origin of the
\* specified peer" - of that peer, and of nobody else.
RemovalSparesOtherDApps ==
    \A t \in At("write") :
        t.op \in {"forget", "farewell"} =>
            \A p \in t.snapshot \cap t.remove : p[1] \in t.dapps

=============================================================================
